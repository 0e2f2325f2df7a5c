SPECIFICATION Spec
CONSTANTS
    Starts <- MCStarts
    MkfsStart = 63
    NoVolume = NoVolume
    AreaSectors = 2
    MaxResets = 0
INVARIANT FormatsOnlyBlankCard
CHECK_DEADLOCK FALSE
