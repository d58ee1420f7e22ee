\* A pump parked on stderr that nobody ends.
SPECIFICATION FairSpec
CONSTANTS
  RequestBound = 2
  SpawnBound = 2
  NoiseBound = 0
  Timeout = TRUE
PROPERTIES
  NeverHangs
CHECK_DEADLOCK FALSE
