\* A cap of one turn with input: the inductive invariant of the proofs, and the
\* properties no listed run checks.
SPECIFICATION Spec
CONSTANTS
  Capped = TRUE
  MaxTurns = 1
  MaxCalls = 1
  InputBound = 1
  TurnBound = 3
  MessageBound = 1
  HostUses = {"modes", "clear", "idle"}
INVARIANTS
  TypeOK
  RunInv
  CallsInv
  TransientStateScoped
PROPERTIES
  OneRequestAfterStop
  DroppedOnlyOnFailure
  NoPollAfterStop
CHECK_DEADLOCK FALSE
