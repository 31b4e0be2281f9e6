SPECIFICATION Spec
CONSTANTS
  NumPartitions = 2
  NumTasks = 2
  MaxConcurrent = 1
  MaxWaitRetries = 0
  WaitTasks = {}
  UnpreparableTasks = {2}
  CompletionMayRaise = TRUE
  SubmitAnswerMayBeLost = TRUE
  IsLastJob = FALSE
  RunningFloor = 2
INVARIANTS
  TaskOrder
  NeverFalselyComplete
  RecordAgrees
PROPERTY PromiseKept
CHECK_DEADLOCK FALSE
