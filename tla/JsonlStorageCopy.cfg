\* A current-only document is copied, then gets a new base.
SPECIFICATION Spec
CONSTANTS
  Docs = {1, 2}
  Tasks = {}
  Rewindable = {}
  Versions = {1}
  Fsync = FALSE
  Copies = {0}
  Revive = FALSE
  Rewrites = FALSE
  CommitBound = 4
  WriteBound = 1
INVARIANTS
  CommittedSurvives
CHECK_DEADLOCK FALSE
