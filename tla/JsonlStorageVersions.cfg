\* A document is stored under version 2.
SPECIFICATION Spec
CONSTANTS
  Docs = {1}
  Tasks = {}
  Rewindable = {}
  Versions = {1, 2}
  Fsync = FALSE
  Copies = {}
  Revive = FALSE
  Rewrites = FALSE
  CommitBound = 1
  WriteBound = 1
INVARIANTS
  VersionsKept
CHECK_DEADLOCK FALSE
