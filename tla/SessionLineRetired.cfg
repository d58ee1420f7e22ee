\* Does a retirement end every watch?
SPECIFICATION Spec
CONSTANTS
  Docs = {d}
  Watchers = {w}
  Versions = {1, 2}
  AsyncStorage = TRUE
  JobBound = 3
  CloseBound = 1
INVARIANTS
  RetiredWatchEnds
CHECK_DEADLOCK FALSE
