\* An id is minted, nothing is stored under it, and the store is reopened.
SPECIFICATION Spec
CONSTANTS
  Docs = {1}
  Tasks = {2}
  Rewindable = {}
  Versions = {1}
  Fsync = FALSE
  Copies = {}
  Revive = FALSE
  Rewrites = FALSE
  CommitBound = 1
  WriteBound = 1
INVARIANTS
  MintedFresh
CHECK_DEADLOCK FALSE
