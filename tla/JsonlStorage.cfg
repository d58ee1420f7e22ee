\* Three writes in batches of one or two on a current-only document, a rewindable one, both in
\* two versions, and a task.
SPECIFICATION Spec
CONSTANTS
  Docs = {1, 2}
  Tasks = {3}
  Rewindable = {2}
  Versions = {1, 2}
  Fsync = TRUE
  Copies = {}
  Revive = FALSE
  Rewrites = FALSE
  CommitBound = 3
  WriteBound = 2
INVARIANTS
  AlwaysReopens
  MemoryMatchesFiles
  SidecarsReclaimed
  OpenStoreClean
PROPERTIES
  ImplementsAtomicStore
CHECK_DEADLOCK FALSE
