SPECIFICATION FairSpec
CONSTANTS
  NumPartitions = 2
  NumTasks = 2
  MaxConcurrent = 1
  MaxWaitRetries = 0
  WaitTasks = {}
  UnpreparableTasks = {}
  CompletionMayRaise = FALSE
  SubmitAnswerMayBeLost = FALSE
  IsLastJob = FALSE
  RunningFloor = 2
INVARIANTS
  ConcurrencyRespected
  DoneMeansSettled
PROPERTIES
  GroupEnds
CHECK_DEADLOCK FALSE
