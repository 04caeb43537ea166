SPECIFICATION Spec
CONSTANTS
    Comments = {c1}
    Workers = {w1, w2}
    Requests = {r1}
    MaxTries = 3
    MaxClock = 2
    MaxFaults = 3
    NoJob = NoJob
SYMMETRY Symmetry
INVARIANT
    DraftedIsNotTriagedAgain
CHECK_DEADLOCK FALSE
