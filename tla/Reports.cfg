SPECIFICATION MCSpec
CONSTANTS
    c1 = c1
    a1 = a1
    a2 = a2
    photo = photo
    Jobs <- OneOfEach
    KindOf <- KindsOfEach
    SubjectOf <- SubjectsOfEach
    DayOf <- DaysOfEach
    Workers = {w1, w2}
    MaxTries = 2
    Retries = 1
    Provider = "ollama"
    Days = 2
    DefaultDays = 1
    MaxDays = 1
    PageSize = 2
    QuietPolls = 2
    MaxMisses = 2
    Delays <- EdgeDelays
    MaxFaults = 2
    NoJob = NoJob
INVARIANTS
    TypeOK
    FailuresAreOnRecord
    AnswersAddUp
    ReportIsComplete
PROPERTIES
    OneSetPerCommit
    DrainEnds
CHECK_DEADLOCK FALSE
