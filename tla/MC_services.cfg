SPECIFICATION ServiceSpec
CONSTANTS
  Pollers = {t1, t2}
  TaskDefs = 2
  BatchCallsRaise = TRUE
  OperatorActs = TRUE
  Runs = {r1, r2}
  MaxRecordPuts = 3
  MaxFeedFaults = 1
  Events = {e1, e2}
  RuleQueue <- MCRuleQueue
  MaxEventDequeues = 2
  MaxHostFaults = 1
  StacItems = {i1, i2}
  UpdatedRecords = {u1}
  Ingesters = {w1}
  MaxIngestFaults = 1
  CollectionTasks = {c1, c2, c3}
  MaxBroken = 2
  RunnerTasks = {j1, j2}
  LaunchedRuns = {l1, l2}
  MaxRunnerFaults = 1
INVARIANTS
  OneListingPerPeriod DuplicatesExplained
  NoItemVanishes CollectionCreatedOnce
  RunnerAnswersHold
PROPERTIES
  FailuresHold FailuresSurface
  CopiesGoForward ListsCatchUp
  EventsArrive
  ItemsSettle
  RunnersTellFailures
CHECK_DEADLOCK FALSE
