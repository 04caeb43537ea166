SPECIFICATION FairSpec
CONSTANTS
    Assets = {a1}
    Workers = {w1, w2}
    Requests = {r1}
    MaxTries = 2
    MaxClock = 2
    MaxFaults = 2
    NoJob = NoJob
INVARIANTS
    TypeOK
    RowHasObject
    OrphansAreFaults
    CaptionsBoundedByWorkers
    CaptionsComeWithAnalysis
PROPERTIES
    ImplementsLifecycle
    WaitingIsEventuallySettled
CHECK_DEADLOCK FALSE
