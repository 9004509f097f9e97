SPECIFICATION MCSpec
CONSTANTS
    Request = {r1, r2}
    Catalog <- MCCatalog
    Batches <- MCBatches
    Live = 1
    Backfill = 2
    Skew = 1
    Reorder = 1
    WindowLength = 2
    UnauthLimit = 1
    RequestLimit = 2
    EventLimit = 2
    Overlap = 1
    MaxTime = 3
    MaxSends = 2
    MaxTroubles = 1
    MaxEvents = 100
    MaxObservations = 32
    MaxDeliveries = 4
    Interval = 2
    NetworkDelay = 1
    Limit = 4
    MaxNow = 8
    LiveRules = {"battery_low"}
    Receipts <- MCReceipts
    SampleWindow = 1
    FixDuration = 1
    MissingAfter = 1
    OfflineAfter = 2
    Freshness = 0
    Lag = 1
    LastMinute = 2
    Decisions = {"acknowledged", "resolved"}
    MaxSignals = 3
    MaxGivenUp = 1
SYMMETRY Symmetry
CHECK_DEADLOCK FALSE
INVARIANTS
    TypeOK
    StoredOnce
    OnlyDuringWork
    HighWaterIsNewest
    LimitsHold
    AnswersAreTrue
    DatabaseAgreesWithContract
    OnlyLateLiveReopens
    AdapterEventsAreStorable
    ContractsAreKept
    ScenariosMeetExpectations
    EpisodesAreSound
    QuietMeansTrue
PROPERTIES
    ImplementsEvidenceOnce
    EpisodesOnlyGrow
