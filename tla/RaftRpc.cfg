\* Two candidates and a third voter, two terms, one restart.
SPECIFICATION Spec
CONSTANTS
    N = 3
    Candidates = {0, 1}
    Followers = {2}
    Chunks = 2
    MaxTerm = 2
    Persistent = {1}
    MaxLog = 1
    MaxCalls = 1
    MaxDropped = 1
    MaxRestarts = 1
CHECK_DEADLOCK FALSE
INVARIANTS
    ElectionSafety
    AckedWasStored
