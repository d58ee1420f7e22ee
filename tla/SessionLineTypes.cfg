\* The instance of SessionLine.cfg: types and the inductive invariant.
SPECIFICATION Spec
CONSTANTS
  Docs = {d}
  Watchers = {w}
  Versions = {1, 2}
  AsyncStorage = TRUE
  JobBound = 3
  CloseBound = 1
INVARIANTS
  TypeOK LineInv QueueInv StoreInv StagedInv FramesInv
CHECK_DEADLOCK FALSE
