\* Four writes in batches of one or two on a document and a task: types, the inductive invariant
\* of the proofs (of JsonlStorageProofs) and the safety properties.
SPECIFICATION Spec
CONSTANTS
  Docs = {1}
  Tasks = {2}
  Rewindable = {}
  Versions = {1}
  Fsync = TRUE
  Copies = {}
  Revive = FALSE
  Rewrites = FALSE
  CommitBound = 4
  WriteBound = 2
INVARIANTS
  TypeOK FilesFit InstanceFits
  AlwaysReopens CommittedSurvives MemoryMatchesFiles SidecarsReclaimed OpenStoreClean
CHECK_DEADLOCK FALSE
