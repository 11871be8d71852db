SPECIFICATION FairSpec
CONSTANTS
  MaxChain = 2
  QueueSize = 2
  MaxChunks = 2
  PingEvery = 2
  PingInterval = 3
  MaxSilence = 6
  MayDisconnect = FALSE
  LoopStalls = FALSE
PROPERTY FailsOver
