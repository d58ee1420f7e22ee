SPECIFICATION Spec
CONSTANTS
  TaskBound = 2
  SchedulePage = 2
  WorldPage = 2
  CheckpointBound = 0
  RestartBound = 0
  Flagged = {FALSE}
  Background = {FALSE}
  Definitions = {1}
  FreeWaits = TRUE
  Failing = FALSE
  Closing = FALSE
  IdleWaits = FALSE
INVARIANT NoWaitCycle
CHECK_DEADLOCK FALSE
