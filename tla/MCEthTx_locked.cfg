SPECIFICATION FairSpec
CONSTANTS
  tcpip = tcpip
  mqtt = mqtt
  bootstrap = bootstrap
  Senders <- ApiThreads
  CoreLocked <- ApiThreads
  TxBufs = 2
  MaxFrames = 5
INVARIANTS
  TypeOK
  CopyToFreeBuffer
  FramesIntact
  SemaphoreFree
PROPERTIES
  OutputReturns
  OutputIsQueue
CHECK_DEADLOCK FALSE
