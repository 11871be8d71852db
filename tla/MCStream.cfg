SPECIFICATION FairSpec
CONSTANTS
  MaxChain = 2
  QueueSize = 2
  MaxChunks = 3
  PingEvery = 2
  PingInterval = 3
  MaxSilence = 6
  MayDisconnect = TRUE
  LoopStalls = TRUE
INVARIANT ChunksAllFed FailureIsTold NoTaskOutlivesResponse PingsBreakSilence
PROPERTY ResponseEnds CleanUpEnds
