\* The handshake and two requests, two processes, one message that is no answer, a deadline.
SPECIFICATION FairSpec
CONSTANTS
  RequestBound = 3
  SpawnBound = 2
  NoiseBound = 1
  Timeout = TRUE
INVARIANTS
  OwnAnswer
  CloseLeavesNoProcess
PROPERTIES
  ServerToldFirst
  RequestsSettle
CHECK_DEADLOCK FALSE
