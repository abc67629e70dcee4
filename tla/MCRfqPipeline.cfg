SPECIFICATION Spec
CONSTANTS
    Att = {a1, a2}
    Worker = {w1, w2}
    MaxAttempts = 2
    MaxOpen = 2
    MaxReruns = 1
    MaxMoves = 1
    MaxFaults = 0
SYMMETRY Symmetry
CHECK_DEADLOCK FALSE
INVARIANTS
    TypeOK
    QuietMeansComplete
    MatchedOnce
PROPERTIES
    AcceptedMatchStays
