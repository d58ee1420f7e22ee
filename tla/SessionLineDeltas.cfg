\* Does the cache count the deltas the storage has?
SPECIFICATION Spec
CONSTANTS
  Docs = {d}
  Watchers = {w}
  Versions = {1, 2}
  AsyncStorage = TRUE
  JobBound = 3
  CloseBound = 1
INVARIANTS
  DeltasCounted
CHECK_DEADLOCK FALSE
