\* A rewindable document is copied as of a sequence before its newest base.
SPECIFICATION Spec
CONSTANTS
  Docs = {1, 2}
  Tasks = {}
  Rewindable = {1, 2}
  Versions = {1}
  Fsync = FALSE
  Copies = {0, 1}
  Revive = FALSE
  Rewrites = FALSE
  CommitBound = 3
  WriteBound = 1
INVARIANTS
  AckMeansMarker
CHECK_DEADLOCK FALSE
