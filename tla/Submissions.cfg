\* Three submissions of every queueing kind, tools and compactions: the order and the accounts of the inbox.
SPECIFICATION Spec
CONSTANTS
  SubmissionBound = 3
  RoundBound = 1
  RestartBound = 0
  Drafts = {"steer", "followUp", "reset", "pinned", "display"}
  SteeringMode = "one"
  FollowUpMode = "one"
  MaxRetries = 0
  Compaction = TRUE
  Waited = {}
INVARIANTS
  SubmissionsAccounted
  OneGeneration
  PlacementOrder
PROPERTIES
  HeadNeverRetreats
CHECK_DEADLOCK FALSE
