SPECIFICATION Spec
CONSTANTS
  TaskBound = 2
  SchedulePage = 2
  WorldPage = 2
  CheckpointBound = 0
  RestartBound = 1
  Flagged = {FALSE, TRUE}
  Background = {FALSE}
  Definitions = {1}
  FreeWaits = FALSE
  Failing = TRUE
  Closing = FALSE
  IdleWaits = FALSE
INVARIANTS OneInvocation AbortBottomUp HeldUntilDrained AbandonedNotResumed
CHECK_DEADLOCK FALSE
