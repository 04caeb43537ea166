SPECIFICATION SystemSpec
CONSTANTS
    Comments = {c1}
    Workers = {w1, w2}
    Requests = {r1}
    MaxTries = 1
    MaxClock = 1
    MaxFaults = 1
    NoJob = NoJob
    Reviewers = {p1}
    Drainers = {d1}
    Edits = {}
    Unset = Unset
    MaxRows = 1
    MaxOutboxFaults = 0
SYMMETRY Symmetry
INVARIANTS
    SentIsChargedOnlyWhenFailed
    RepliesAreAudited
PROPERTIES
    ImplementsPipeline
    ImplementsOutbox
CHECK_DEADLOCK FALSE
