SPECIFICATION Spec
CONSTANTS
  NumJobs = 1
  NumGroups = 1
  CallsMayRaise = FALSE
  AnswersMayBeLost = FALSE
  ProcessesMayDie = FALSE
PROPERTY TemplatingErrorRecorded
CHECK_DEADLOCK FALSE
