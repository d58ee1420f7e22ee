\* An invalid initialize result leaves the child running.
SPECIFICATION FairSpec
CONSTANTS
  RequestBound = 2
  SpawnBound = 2
  NoiseBound = 0
  Timeout = TRUE
INVARIANTS
  FailedConnectLeavesNoProcess
CHECK_DEADLOCK FALSE
