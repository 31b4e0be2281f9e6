SPECIFICATION Spec
CONSTANTS
  NumPartitions = 1
  NumTasks = 2
  MaxConcurrent = 1
  MaxWaitRetries = 1
  WaitTasks = {1, 2}
  UnpreparableTasks = {}
  CompletionMayRaise = TRUE
  SubmitAnswerMayBeLost = TRUE
  IsLastJob = TRUE
  RunningFloor = 2
PROPERTIES
  EndsAreFinal
CHECK_DEADLOCK FALSE
