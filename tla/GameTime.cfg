\* Six units to a second; deltas of zero, near a target and of several seconds.
SPECIFICATION FairSpec
CONSTANTS
    Sec = 6
    MaxDelta = 12
    Eps = 2
    DefaultTarget = 3
    Targets = {3, 5}
    Deltas = {0, 2, 4, 14}
    FrameMod = 4
    MaxTicks = 4
CHECK_DEADLOCK FALSE
INVARIANTS
    TimeConserved
    FramesAccounted
    FpsBound
PROPERTIES
    TickReturns
