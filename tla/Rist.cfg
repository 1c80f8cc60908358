\* A sender or a receiver and its clone; two blocks, two values that share pointers, one slice.
SPECIFICATION Spec
CONSTANTS
    Blocks = {b1, b2}
    Ctxs = {c1}
    v1 = v1
    v2 = v2
    s1 = s1
    s2 = s2
    Values <- MCValues
    Sessions <- MCSessions
    Slices = {x1}
    Null = Null
    Gone = Gone
    MaxPeers = 1
    MaxCbs = 1
SYMMETRY Symmetry
CHECK_DEADLOCK FALSE
INVARIANTS
    OnlyCopiesFault
    OnlyDisplacedLeak
