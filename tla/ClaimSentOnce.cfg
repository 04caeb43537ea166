SPECIFICATION Spec
CONSTANTS
    Comments = {c1}
    Requests = {r1}
    Drainers = {w1}
    Edits = {"edit"}
    MaxRows = 2
    MaxFaults = 0
    Unset = Unset
INVARIANT
    SentOnce
CHECK_DEADLOCK FALSE
