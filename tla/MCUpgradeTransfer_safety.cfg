SPECIFICATION TransferSpec
CONSTANTS
  Base = 9
  BufSize = 5
  NUL = 0
  U = 5
  S = 6
  F = 7
  Digits <- DigitBytes
  Packets <- NoPackets
  MaxPackets = 6
  Segments = {3, 30}
  MaxInFlight = 14
  DiskMayFail = TRUE
  Images <- AllImages
  MaxChunk = 4
  NulTerminated = FALSE
  MaxDrops = 1
  MaxResets = 1
INVARIANT CardHoldsBeginning
PROPERTY ImplementsTransfer
CHECK_DEADLOCK FALSE
