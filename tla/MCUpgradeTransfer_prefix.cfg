SPECIFICATION FairTransferSpec
CONSTANTS
  Base = 9
  BufSize = 5
  NUL = 0
  U = 5
  S = 6
  F = 7
  Digits <- DigitBytes
  Packets <- NoPackets
  MaxPackets = 6
  Segments = {7, 30}
  MaxInFlight = 14
  DiskMayFail = FALSE
  Images <- TrickyImages
  MaxChunk = 4
  NulTerminated = TRUE
  MaxDrops = 0
  MaxResets = 0
INVARIANT ChunkKeepsReceiving
