SPECIFICATION FairSpec
CONSTANTS
    Comments = {c1}
    Workers = {w1, w2}
    Requests = {r1}
    MaxTries = 1
    MaxClock = 1
    MaxFaults = 1
    NoJob = NoJob
PROPERTIES
    NewIsEventuallySettled
    QueueDrains
CHECK_DEADLOCK FALSE
