SPECIFICATION Spec
CONSTANTS
    Endpoint = {e1}
    Request = {r1, r2}
    Subscription <- OnlySent
    Worker = {w1}
    MaxFaults = 1
SYMMETRY Symmetry
CHECK_DEADLOCK FALSE
INVARIANTS
    TypeOK
    DoneMeansRecorded
    SentMailIsOnRecord
