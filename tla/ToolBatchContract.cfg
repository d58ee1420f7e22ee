\* Three calls on two lanes that make nested calls, both hooks.
SPECIFICATION FairSpec
CONSTANTS
  N = 3
  ParallelPolicy = TRUE
  MaxInFlight = 2
  HasBefore = TRUE
  HasAfter = TRUE
  Nested = 1
  UpdateBound = 1
INVARIANTS
  TypeOK
  NothingOutlivesBatch
PROPERTIES
  ImplementsContract
  BatchReturns
CHECK_DEADLOCK FALSE
