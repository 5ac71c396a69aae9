CONSTANTS
  searchBuffer = searchBuffer
  collectionBuffer = collectionBuffer
  Moving = {"queue", "buffers", "sessions", "files"}
  MemoryJobs = {1, 2}
  MemoryConcurrency = 2
  MemoryRetries = 1
  MaxMemoryCancels = 1
  BufferIds = {searchBuffer, collectionBuffer}
  BufferedJobs = {1, 2}
  WorkOf <- MCWorkOf
  CollectedBy <- MCCollectedBy
  Flushers = {"f", "g"}
  FlushIds <- MCFlushIds
  SqlBuffers = {TRUE, FALSE}
  SessionReaders = {"reader"}
  SessionCacheTTL = 1
  HalfDuration = 3
  MaxLag = 1
  MaxTime = 6
  MaxPermissions = 1
  Files <- MCFiles
  Queries <- MCQueries
  FileRequests = {"x", "y"}
  MaxFileWrites = 2
  MaxServed = 2
SPECIFICATION FairSpec
INVARIANTS
  TypeOK ListedOrActive ExecutionsBounded LostOnlyInGap
  ServedSessionsAreRecent ActiveSessionSurvives ServedAsAsked
PROPERTY MemoryJobsSettle
