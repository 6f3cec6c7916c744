CONSTANTS
  NumBlocks = 3
  PoolSize = 4
  StartAddress = 1
  Requests <- MCRequests
  Bytes <- MCBytes
SPECIFICATION StoreSpec
INVARIANTS
  NoOverlap
PROPERTIES
  KeepsBlocks
  FailsOnlyWhenFull
  CallsReturn
