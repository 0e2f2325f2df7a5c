SPECIFICATION BootSpec
CONSTANTS
    Starts <- MCStarts
    MkfsStart = 63
    NoVolume = NoVolume
    AreaSectors = 2
    MaxResets = 1
    Unset = 10
INVARIANTS
    BootTypeOK
    NoSwitchBeforeFirstTask
PROPERTY MountInitialisesCard
CHECK_DEADLOCK FALSE
