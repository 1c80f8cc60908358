\* Twelve bits for an i32, LZ4's own ratio, slack and limit; every block length.
SPECIFICATION Lz4Spec
CONSTANTS
    MaxInt = 2047
    MaxInput = 2016
    Ratio = 255
    Slack = 16
    Tries = 10
    Lengths = {0, 1, 2, 255, 256, 600, 1023, 1024, 1500, 2016, 2017, 2047, 2048}
    OldLengths = {0, 5}
CHECK_DEADLOCK FALSE
INVARIANTS
    RestoresOriginal
    SetLenSound
