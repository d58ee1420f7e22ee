\* The instance of Submissions.cfg: types and the inductive invariants.
SPECIFICATION Spec
CONSTANTS
  SubmissionBound = 3
  RoundBound = 1
  RestartBound = 0
  Drafts = {"steer", "followUp", "reset", "pinned", "display"}
  SteeringMode = "one"
  FollowUpMode = "one"
  MaxRetries = 0
  Compaction = TRUE
  Waited = {}
INVARIANTS
  TypeOK TasksInv WaitersInv BooksInv
CHECK_DEADLOCK FALSE
