SPECIFICATION FairSpec
CONSTANTS
  RxBufs = 3
  SemMax = 2
  MboxSize = 2
  PoolSize = 3
  MaxFrames = 7
  TxContends = TRUE
INVARIANTS
  TypeOK
  CriticalBalanced
  PbufsAccounted
  InOrder
  RingContiguous
PROPERTIES
  InputIsQueue
  StallsOnlyIfRefused
  EveryFrameDelivered
CHECK_DEADLOCK FALSE
