SPECIFICATION FairSpec
CONSTANTS
    Brands = {b1}
    Workers = {w1, w2}
    Requests = {r1}
    MaxTries = 2
    MaxDay = 3
    MaxClicks = 1
    MaxFaults = 2
    NoJob = NoJob
INVARIANTS
    RowsAgainNeedAFault
    ScheduleWaitsForTheWeek
PROPERTIES
    ImplementsLifecycle
    WeekIsSummarised
CHECK_DEADLOCK FALSE
