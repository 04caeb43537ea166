SPECIFICATION FairSpec
CONSTANTS
    Views = {v1, v2}
    MaxInFlight = 2
    MaxPolls = 1
    MaxVersion = 1
    Nothing = Nothing
INVARIANTS
    TypeOK
PROPERTIES
    NeverGoesBack
    OtherRowsNeedAnOldClick
    PollCatchesUp
CHECK_DEADLOCK FALSE
