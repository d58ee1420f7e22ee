\* Three messages over both queues, no tool calls: every order of draining, clearing and appending.
SPECIFICATION Spec
CONSTANTS
  Capped = FALSE
  MaxTurns = 0
  MaxCalls = 0
  InputBound = 3
  TurnBound = 1
  MessageBound = 2
  HostUses = {"modes", "clear"}
INVARIANTS
  InputConserved
  QueueOrder
  OneSteeringPollPerReply
CHECK_DEADLOCK FALSE
