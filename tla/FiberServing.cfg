\* Two workers, up to two messages in the channel and one connection whose
\* callback gives up on an empty read and may answer with its last word.
SPECIFICATION FairSpec
CONSTANTS
    NumWorkers = 2
    Peers = {p1}
    Served = p1
    AcceptTimeout = TRUE
    MaxSends = 2
    MaxMsg = 1
    IoTimeout = TRUE
    DataReplies = {0, 1}
    EmptyReplies = {0}
    VetoData = TRUE
    VetoEmpty = TRUE
    MaxReads = 1
CHECK_DEADLOCK FALSE
INVARIANTS
    OneWorkerPerRequest
    OneAnswerAfterVeto
PROPERTIES
    EnoughRequestsStopAll
    BacklogDrained
    SilentPeerEnds
