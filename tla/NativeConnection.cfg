\* A callback that gives up on an empty read; all the rest may happen.
SPECIFICATION FairSpec
CONSTANTS
    MaxMsg = 2
    IoTimeout = TRUE
    DataReplies = {0, 1, 2, 3}
    EmptyReplies = {}
    VetoData = TRUE
    VetoEmpty = TRUE
    MaxArrived = 4
CHECK_DEADLOCK FALSE
INVARIANTS
    TypeOK
PROPERTIES
    IdleConnectionEnds
    DisconnectEnds
    ImplementsSession
