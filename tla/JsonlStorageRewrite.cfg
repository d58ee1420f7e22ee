\* A document is created and changed in one batch.
SPECIFICATION Spec
CONSTANTS
  Docs = {1}
  Tasks = {}
  Rewindable = {}
  Versions = {1}
  Fsync = FALSE
  Copies = {}
  Revive = FALSE
  Rewrites = TRUE
  CommitBound = 2
  WriteBound = 2
INVARIANTS
  AlwaysReopens
CHECK_DEADLOCK FALSE
