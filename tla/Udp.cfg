\* Both roles, two peers, datagrams shorter and longer than the buffer.
SPECIFICATION UdpFairSpec
CONSTANTS
    Peers = {p1, p2}
    MaxMsg = 2
    MaxLen = 3
    ReadWriteTimeout = TRUE
    ClientSizes = {0, 1, 2}
    MaxSends = 2
    MaxDups = 1
CHECK_DEADLOCK FALSE
INVARIANTS
    AnswerStartsWithOwn
    ClientLag
PROPERTIES
    StarvedEnds
