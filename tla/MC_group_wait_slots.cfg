SPECIFICATION Spec
CONSTANTS
  NumPartitions = 2
  NumTasks = 1
  MaxConcurrent = 1
  MaxWaitRetries = 1
  WaitTasks = {1}
  UnpreparableTasks = {}
  CompletionMayRaise = FALSE
  SubmitAnswerMayBeLost = FALSE
  IsLastJob = FALSE
  RunningFloor = 2
INVARIANTS
  ConcurrencyRespected
CHECK_DEADLOCK FALSE
