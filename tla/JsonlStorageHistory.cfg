\* Four commits on two documents, one of them rewindable, and a task.
SPECIFICATION Spec
CONSTANTS
  Docs = {1, 2}
  Tasks = {3}
  Rewindable = {2}
  Versions = {1}
  Fsync = FALSE
  Copies = {}
  Revive = FALSE
  Rewrites = FALSE
  CommitBound = 4
  WriteBound = 1
INVARIANTS
  TypeOK
  OpenStoreClean
  AckMeansMarker
  AlwaysReopens
  CommittedSurvives
  MemoryMatchesFiles
  SidecarsReclaimed
CHECK_DEADLOCK FALSE
