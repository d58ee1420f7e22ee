\* The final turn of a capped run and prepareNextTurn.
SPECIFICATION Spec
CONSTANTS
  Capped = TRUE
  MaxTurns = 1
  MaxCalls = 1
  InputBound = 1
  TurnBound = 3
  MessageBound = 2
  HostUses = {}
INVARIANTS
  FinalTurnNotPrepared
CHECK_DEADLOCK FALSE
