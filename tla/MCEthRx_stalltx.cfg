SPECIFICATION Spec
CONSTANTS
  RxBufs = 2
  SemMax = 2
  MboxSize = 2
  PoolSize = 3
  MaxFrames = 6
  TxContends = TRUE
INVARIANT NeverStalls
CHECK_DEADLOCK FALSE
