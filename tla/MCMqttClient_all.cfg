SPECIFICATION Spec
CONSTANTS
    Levels <- MCLevels
    IdMod = 2
    MaxMsgs = 3
    MaxSessions = 3
    MaxUp = 2
INVARIANTS
    TypeOK
    SubscribedWhileServing
    OneSocket
    DoneWasHandled
    HandledOnce
PROPERTY LostLinkNoticed
CHECK_DEADLOCK FALSE
