SPECIFICATION MCSpec
CONSTANTS
    MaxPoints = 2
    MaxRetries = 1
    BatchSize = 2
    RetryCap = 2
    MaxSession = 2
    MaxFailures = 3
    FirstSessions = 1
INVARIANTS
    TypeOK
    CountMatchesStored
    NothingAfterEnd
PROPERTIES
    KeptUntilStored
    DeliveredAlone
CHECK_DEADLOCK FALSE
