CONSTANTS
  searchBuffer = searchBuffer
  collectionBuffer = collectionBuffer
  Moving = {"buffers"}
  MemoryJobs = {1}
  MemoryConcurrency = 1
  MemoryRetries = 0
  MaxMemoryCancels = 0
  BufferIds = {searchBuffer, collectionBuffer}
  BufferedJobs = {1, 2}
  WorkOf <- MCWorkOf
  CollectedBy <- MCCollectedBy
  Flushers = {"f"}
  FlushIds <- MCFlushIds
  SqlBuffers = {TRUE}
  SessionReaders = {"reader"}
  SessionCacheTTL = 1
  HalfDuration = 3
  MaxLag = 1
  MaxTime = 6
  MaxPermissions = 1
  Files <- MCFiles
  Queries <- MCQueries
  FileRequests = {"x", "y"}
  MaxFileWrites = 2
  MaxServed = 2
SPECIFICATION Spec
PROPERTY BufferedWorkIsKept
