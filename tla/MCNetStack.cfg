CONSTANTS
  Frames <- MCFrames
  HwAddr <- MCHwAddr
  IpAddr <- MCIpAddr
  Words <- MCWords
  PoolSize = 2
  MaxPools = 2
  MaxRefused = 4
SPECIFICATION Spec
INVARIANTS AnswersRequests ReplyRight FreeListSound
