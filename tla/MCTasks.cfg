SPECIFICATION FairSpec
CONSTANTS
  NumChunks = 3
  ChunkSize = 2
  FreeChunkSize = 3
  Gids = {"first"}
  FirstGid = "first"
  Lifetimes <- MCLifetimes
  Expiries <- MCExpiries
  Half = 3
  MaxSleep = 0
  MaxPass = 1
  MallocEnabled = TRUE
INVARIANTS
  ScanInsideTable
  TailCoversAllocated
PROPERTIES
  WakeupNotLost
  NoStarvation
