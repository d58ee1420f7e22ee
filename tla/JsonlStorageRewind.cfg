\* A rewindable document gets a second base and the store is reopened.
SPECIFICATION Spec
CONSTANTS
  Docs = {1}
  Tasks = {}
  Rewindable = {1}
  Versions = {1}
  Fsync = FALSE
  Copies = {}
  Revive = FALSE
  Rewrites = FALSE
  CommitBound = 3
  WriteBound = 1
INVARIANTS
  HistoryKept
CHECK_DEADLOCK FALSE
