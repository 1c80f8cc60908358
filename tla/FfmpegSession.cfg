\* Every sequence of five calls, with a failure of every library call.
SPECIFICATION Spec
CONSTANTS
    Null = Null
    MaxCalls = 5
CHECK_DEADLOCK FALSE
INVARIANTS
    FreedOnce
    OutputNeverDangles
    FiniReleasesRest
