\* The instance of StdioClient.cfg: types, and the invariants the proofs rest on.
SPECIFICATION Spec
CONSTANTS
  RequestBound = 3
  SpawnBound = 2
  NoiseBound = 1
  Timeout = TRUE
INVARIANTS
  TypeOK
  QueueInv
  PumpInv
  IdInv
  LinkInv
  ToldInv
  LineInv
CHECK_DEADLOCK FALSE
