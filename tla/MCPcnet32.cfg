CONSTANTS
  RX = 2
  TX = 2
  PoolSize = 2
  MaxPools = 2
  MaxFrames = 5
  MissIrq = TRUE
SPECIFICATION Spec
INVARIANTS GotInOrder SentInOrder Ownership NoStrandedFrame PoolConserved
