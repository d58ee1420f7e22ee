\* Three messages over both queues: the inductive invariant of the accounts of input.
SPECIFICATION Spec
CONSTANTS
  Capped = FALSE
  MaxTurns = 0
  MaxCalls = 0
  InputBound = 3
  TurnBound = 1
  MessageBound = 2
  HostUses = {"modes", "clear"}
INVARIANTS
  InputInv
CHECK_DEADLOCK FALSE
