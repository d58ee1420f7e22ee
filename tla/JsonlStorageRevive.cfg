\* A task is written again after it became terminal.
SPECIFICATION Spec
CONSTANTS
  Docs = {}
  Tasks = {1}
  Rewindable = {}
  Versions = {1}
  Fsync = FALSE
  Copies = {}
  Revive = TRUE
  Rewrites = FALSE
  CommitBound = 3
  WriteBound = 1
INVARIANTS
  AlwaysReopens
CHECK_DEADLOCK FALSE
