SPECIFICATION FairSpec
CONSTANTS
  NumJobs = 3
  NumGroups = 2
  CallsMayRaise = TRUE
  AnswersMayBeLost = TRUE
  ProcessesMayDie = TRUE
INVARIANTS
  VerdictSupported
  JobsRunInOrder
  VerdictWaitsForThreads
PROPERTIES
  LifecycleKept
  RunEnds
CHECK_DEADLOCK FALSE
