\* The instance of TaskSchedulerTree.cfg: types and the inductive invariant.
SPECIFICATION Spec
CONSTANTS
  TaskBound = 2
  SchedulePage = 2
  WorldPage = 2
  CheckpointBound = 0
  RestartBound = 1
  Flagged = {FALSE, TRUE}
  Background = {FALSE}
  Definitions = {1}
  FreeWaits = FALSE
  Failing = TRUE
  Closing = FALSE
  IdleWaits = FALSE
INVARIANTS
  TypeOK Shaped MintInv PublishInv ReadyInv HandlerInv PassInv HeirsInv MarksInv
  SweptInv CleanInv
PROPERTIES RequestStands
CHECK_DEADLOCK FALSE
