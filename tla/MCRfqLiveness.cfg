SPECIFICATION FairSpec
CONSTANTS
    Att = {a1, a2}
    Worker = {w1}
    MaxAttempts = 2
    MaxOpen = 2
    MaxReruns = 1
    MaxMoves = 1
    MaxFaults = 1
CHECK_DEADLOCK FALSE
PROPERTIES
    ReadGetsExtracted
