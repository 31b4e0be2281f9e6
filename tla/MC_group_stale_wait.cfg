SPECIFICATION Spec
CONSTANTS
  NumPartitions = 1
  NumTasks = 1
  MaxConcurrent = 1
  MaxWaitRetries = 1
  WaitTasks = {1}
  UnpreparableTasks = {}
  CompletionMayRaise = FALSE
  SubmitAnswerMayBeLost = FALSE
  IsLastJob = FALSE
  RunningFloor = 2
PROPERTIES
  WaitLimitHonest
CHECK_DEADLOCK FALSE
