SPECIFICATION FairSpec
CONSTANTS
  TaskBound = 1
  SchedulePage = 1
  WorldPage = 1
  CheckpointBound = 1
  RestartBound = 0
  Flagged = {FALSE}
  Background = {FALSE, TRUE}
  Definitions = {1, 2}
  FreeWaits = FALSE
  Failing = TRUE
  Closing = TRUE
  IdleWaits = TRUE
PROPERTY CloseDrains
CHECK_DEADLOCK FALSE
