CONSTANTS
  KBD_QUEUE_SIZE = 2
  Keys = {a, cli, halt, risky}
  NoKey = NoKey
  CliKey = cli
  HaltKey = halt
  RiskyKeys = {risky}
  MaxKeys = 4
  a = a
  cli = cli
  halt = halt
  risky = risky
SPECIFICATION FairSpec
INVARIANTS FifoDelivery NoPhantomKey SleepsWakeable
PROPERTIES IsQueue KeysDispatched
CHECK_DEADLOCK FALSE
