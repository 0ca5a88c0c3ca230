CONSTANTS
  RX = 2
  TX = 1
  PoolSize = 1
  MaxPools = 2
  MaxFrames = 3
  MissIrq = FALSE
SPECIFICATION FairSpec
PROPERTIES FramesProcessed RepliesSent
