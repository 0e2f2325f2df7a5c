SPECIFICATION Spec
CONSTANTS
  tcpip = tcpip
  mqtt = mqtt
  bootstrap = bootstrap
  Senders <- AllThreads
  CoreLocked <- ApiThreads
  TxBufs = 2
  MaxFrames = 3
INVARIANT CopyToFreeBuffer
CHECK_DEADLOCK FALSE
