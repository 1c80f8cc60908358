\* One websocket connection with every kind and length of message.
SPECIFICATION WsFairSpec
CONSTANTS
    MaxMsg = 2
    IoTimeout = TRUE
    MayVeto = TRUE
CHECK_DEADLOCK FALSE
INVARIANTS
    CopyFits
PROPERTIES
    PeerCloseEnds
    ImplementsSession
