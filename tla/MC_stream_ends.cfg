SPECIFICATION FairSpec
CONSTANTS
  Workers = {w1, w2}
  NumMessages = 2
  NumItems = 1
  Malformed = {}
  Barren = {1}
  MessageLimit = 2
  MaxDequeues = 3
  CallsMayRaise = TRUE
  WorkersMayDie = FALSE
  TimelyProcessing = TRUE
  w1 = w1
  w2 = w2
INVARIANTS DeletionsAreAccepted
PROPERTIES MessagesAreSettled
CHECK_DEADLOCK FALSE
