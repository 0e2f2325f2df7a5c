SPECIFICATION Spec
CONSTANTS
  Base = 8
  BufSize = 4
  NUL = 0
  U = 3
  S = 4
  F = 5
  Digits <- DigitBytes
  Packets <- MixedPackets
  MaxPackets = 3
  Segments = {3, 20}
  MaxInFlight = 9
  DiskMayFail = TRUE
INVARIANTS
  TypeOK
  CopiesInBounds
  FramingFaithful
  CountMatchesFile
  FinishMeansWholeFile
  WritesGoToOpenFile
PROPERTY FinishIsFinal
