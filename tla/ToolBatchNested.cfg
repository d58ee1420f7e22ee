\* One call that makes two nested calls at a time.
SPECIFICATION Spec
CONSTANTS
  N = 1
  ParallelPolicy = TRUE
  MaxInFlight = 0
  HasBefore = TRUE
  HasAfter = FALSE
  Nested = 2
  UpdateBound = 0
INVARIANTS
  HooksSerialized
CHECK_DEADLOCK FALSE
