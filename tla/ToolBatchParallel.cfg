\* Three calls on two lanes, both hooks, and the invariants the proofs rest on.
SPECIFICATION Spec
CONSTANTS
  N = 3
  ParallelPolicy = TRUE
  MaxInFlight = 2
  HasBefore = TRUE
  HasAfter = TRUE
  Nested = 0
  UpdateBound = 1
INVARIANTS
  TypeOK
  PermitsConserved
  BatchInv
  ReturnInv
  PermitHolders
  EventsPaired
  NothingOutlivesBatch
  ResultsRetainOrder
  TerminateUnanimous
  HooksSerialized
CHECK_DEADLOCK FALSE
