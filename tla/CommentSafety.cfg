SPECIFICATION Spec
CONSTANTS
    Comments = {c1}
    Workers = {w1, w2}
    Requests = {r1}
    MaxTries = 2
    MaxClock = 2
    MaxFaults = 3
    NoJob = NoJob
SYMMETRY Symmetry
INVARIANTS
    TypeOK
    OneAttemptInside
    NoChargeWhenCompleted
    NoHalfWrittenAttempt
    OneDeadLetterPerJob
    JobsHaveTheirComment
PROPERTIES
    ImplementsLifecycle
CHECK_DEADLOCK FALSE
