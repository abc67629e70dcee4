SPECIFICATION FairSpec
CONSTANTS
    NJobs = 2
    Tick = {t1, t2}
    MaxAttempts = 2
    BatchSize = 2
    Unrunnable = {2}
    MaxFaults = 2
INVARIANTS
    TypeOK
    RunningHasRunner
    DoneOnlyAfterSuccess
    AttemptsAreHonoured
PROPERTIES
    ImplementsLedger
    EveryJobCloses
