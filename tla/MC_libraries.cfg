SPECIFICATION LibrarySpec
CONSTANTS
  NumDocs = 4
  PartitionKeys = {"k", "l"}
  MaxBulkPutSize = 2
  NumWaits = 2
  CosmosFails = TRUE
  NumFolders = 4
  NumFiles <- MCNumFiles
  MaxOption = 2
  NumAssets = 3
  ChunkLength = 2
  InsertGroupSize = 2
  ItemLimits = {0, 1}
  MaxFlows = 2
  StorageClients = {s1, s2}
  FileNames <- MCFileNames
  Begins <- MCBegins
  StoragePrefixes <- MCStoragePrefixes
  NumTries = 2
  MaxThrottles = 2
  Documents <- MCDocuments
  NumDocuments = 4
  IncludeKeys <- MCIncludeKeys
  MaxDistinctValues = 2
  MaxDistinctKeySets = 2
  Workflows <- MCWorkflows
  Submissions = {m1, m2}
  StreamQueues = {"p", "q"}
  Definitions <- MCDefinitions
  ImageTable <- MCImageTable
  Secrets = {"s"}
  PrincipalSet = TRUE
  MaxSubmitFaults = 1
  ApiClients = {k1, k2}
  NumWorkflows = 2
  Stored = {2}
  ApiCalls <- MCApiCalls
  WithDefaultArgs = {k1}
  ApiPageSize = 1
  ApiTries = 2
  MaxApiFaults = 2
  Collections <- MCCollections
  MaxTargets = 2
INVARIANTS
  BulkPutHonest
  WalkIsComplete
  IngestsComplete
  StorageAnswersHold
  SummariesCount
  ReferencesResolve
  TasksFindTheirs StreamsPaired
  ApiCallsHold
  
CHECK_DEADLOCK FALSE
