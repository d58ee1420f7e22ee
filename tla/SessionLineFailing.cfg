\* Is the job that failed the Session answered before those it rejects?
SPECIFICATION Spec
CONSTANTS
  Docs = {d}
  Watchers = {w}
  Versions = {1, 2}
  AsyncStorage = TRUE
  JobBound = 3
  CloseBound = 1
INVARIANTS
  FailingJobAnsweredFirst
CHECK_DEADLOCK FALSE
