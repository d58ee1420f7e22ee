SPECIFICATION FairSpec
CONSTANTS
  TaskBound = 2
  SchedulePage = 2
  WorldPage = 2
  CheckpointBound = 0
  RestartBound = 0
  Flagged = {FALSE}
  Background = {FALSE}
  Definitions = {1}
  FreeWaits = FALSE
  Failing = TRUE
  Closing = FALSE
  IdleWaits = FALSE
PROPERTIES AbortSettles HeldFailureEnds ReadyRuns
CHECK_DEADLOCK FALSE
