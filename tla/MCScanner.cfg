SPECIFICATION FairSpec
CONSTANTS
  Addresses <- MCAddresses
  Slots <- MCSlots
  Nowhere <- MCNowhere
  LastChunk = 3
  ChunkOf <- MCChunkOf
  Executable <- MCExecutable
  Writable <- MCWritable
  Builds <- MCBuilds
  Shared <- MCShared
  Malformed <- MCMalformed
CHECK_DEADLOCK FALSE
INVARIANTS
  StablePassIsExact
  LayoutHolds
PROPERTIES
  
  TryAgainResolves
