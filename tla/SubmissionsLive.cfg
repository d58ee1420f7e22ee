\* Two submissions, one of them waited for, with retries, compactions, aborts and a crash.
SPECIFICATION FairSpec
CONSTANTS
  SubmissionBound = 2
  RoundBound = 1
  RestartBound = 1
  Drafts = {"steer", "followUp", "reject", "write"}
  SteeringMode = "all"
  FollowUpMode = "all"
  MaxRetries = 1
  Compaction = TRUE
  Waited = {1}
INVARIANTS
  NoMissedSettlement
PROPERTIES
  SubmissionsSettle
CHECK_DEADLOCK FALSE
