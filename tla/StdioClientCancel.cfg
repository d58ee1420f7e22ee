\* No deadline: a stop that comes while the pump reconnects is ignored.
SPECIFICATION FairSpec
CONSTANTS
  RequestBound = 2
  SpawnBound = 2
  NoiseBound = 0
  Timeout = FALSE
PROPERTIES
  StopResolves
CHECK_DEADLOCK FALSE
