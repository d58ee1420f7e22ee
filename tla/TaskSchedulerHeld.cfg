SPECIFICATION Spec
CONSTANTS
  TaskBound = 2
  SchedulePage = 2
  WorldPage = 2
  CheckpointBound = 0
  RestartBound = 0
  Flagged = {FALSE}
  Background = {FALSE}
  Definitions = {1}
  FreeWaits = FALSE
  Failing = FALSE
  Closing = FALSE
  IdleWaits = FALSE
PROPERTY HeldOutcomeStands
CHECK_DEADLOCK FALSE
