\* Websocket over TLS, three runs over one channel, raced by connections and senders.
SPECIFICATION FairSpec
CONSTANTS
    p1 = p1
    p2 = p2
    s1 = s1
    s2 = s2
    Peers <- MCPeers
    Senders <- MCSenders
    AcceptTimeout = TRUE
    Tls = TRUE
    HandlerMayFail = TRUE
    MaxRuns = 3
    MaxSends = 3
CHECK_DEADLOCK FALSE
INVARIANTS
    OneRunPerRequest
    CloseCallbackPaired
PROPERTIES
    ShutdownHonoured
    BacklogDrained
