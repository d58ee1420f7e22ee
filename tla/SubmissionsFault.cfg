\* A run whose task faulted.
SPECIFICATION Spec
CONSTANTS
  SubmissionBound = 1
  RoundBound = 0
  RestartBound = 0
  Drafts = {"steer"}
  SteeringMode = "one"
  FollowUpMode = "one"
  MaxRetries = 0
  Compaction = FALSE
  Waited = {}
INVARIANTS
  RunNamesLiveTask
CHECK_DEADLOCK FALSE
