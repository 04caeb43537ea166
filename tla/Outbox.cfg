SPECIFICATION FairSpec
CONSTANTS
    Comments = {c1}
    Requests = {r1}
    Drainers = {w1, w2}
    Edits = {}
    MaxRows = 2
    MaxFaults = 1
    Unset = Unset
INVARIANTS
    ApprovedIsQueued
    SentIsAnswered
PROPERTIES
    ImplementsLifecycle
    ApprovalLoopCloses
    EveryRowIsSent
CHECK_DEADLOCK FALSE
