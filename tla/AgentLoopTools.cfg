\* A cap of one turn, replies with up to two tool calls, transcript replaced mid-run.
SPECIFICATION FairSpec
CONSTANTS
  Capped = TRUE
  MaxTurns = 1
  MaxCalls = 2
  InputBound = 0
  TurnBound = 2
  MessageBound = 1
  HostUses = {"replace", "idle"}
INVARIANTS
  CallsAnswered
  WindowInside
  CapRespected
PROPERTIES
  HardReplyEndsRun
  RunSettles
CHECK_DEADLOCK FALSE
