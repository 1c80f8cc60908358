\* A client with a timeout, over plain TCP and over TLS, against a server without one.
SPECIFICATION FairSpec
CONSTANTS
    MaxMsg = 2
    Cap = 4
    ClientTimeout = TRUE
    ServerTimeout = FALSE
    OnEmpty = {1, 2}
    DataReplies = {0, 1, 2, 3}
CHECK_DEADLOCK FALSE
INVARIANTS
    NoMutualWriteBlock
    TurnTaking
    CloseOnlyAfterVeto
PROPERTIES
    QuietExchangeEnds
    ServerGoneEndsClient
