SPECIFICATION Spec
CONSTANTS
  Workers = {w1}
  NumMessages = 2
  NumItems = 2
  Malformed = {}
  Barren = {}
  MessageLimit = 0
  MaxDequeues = 3
  CallsMayRaise = TRUE
  WorkersMayDie = TRUE
  TimelyProcessing = FALSE
  w1 = w1
  w2 = w2
INVARIANTS RecordsAreFresh
CHECK_DEADLOCK FALSE
