SPECIFICATION Spec
CONSTANTS
  Workers = {w1, w2}
  NumMessages = 2
  NumItems = 2
  Malformed = {2}
  Barren = {}
  MessageLimit = 0
  MaxDequeues = 3
  CallsMayRaise = TRUE
  WorkersMayDie = TRUE
  TimelyProcessing = FALSE
  w1 = w1
  w2 = w2
INVARIANTS NoSilentLoss UpdatesFollowItems
CHECK_DEADLOCK FALSE
