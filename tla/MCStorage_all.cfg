SPECIFICATION FairSpec
CONSTANTS
    Starts <- MCStarts
    MkfsStart = 63
    NoVolume = NoVolume
    AreaSectors = 2
    MaxResets = 2
INVARIANTS
    TypeOK
    FormatsOnlyAfterForgottenError
    HalfFormattedOnlyIfCut
    RunsOnFirstVolume
PROPERTY GoodCardBoots
CHECK_DEADLOCK FALSE
