SPECIFICATION MCSpec
CONSTANTS
    Jobs = {j1, j2}
    PageSlots = {1, 2, 3}
    Kinds = {"m22", "m23", "m25"}
    AttemptLimit = 3
    BatchLimit = 2
    MaxIterations = 2
    MaxChanges = 2
    MaxFailures = 1
    MaxAborts = 1
    DeviceValues = {0, 1, 9}
    OtherValues = {0, 2}
    Samples = {2, 3}
    BaselineSupport = 2
    CurrentSupport = 3
    MaxWindows = 4
    MaxOther = 2
    MaxEvents = 100
    MaxObservations = 32
    Details = {"a", "b"}
    MaxIds = 2
    MaxTroubles = 2
    Admins = {"x", "y"}
    WindowLimit = 1
    MaxRequests = 2
    MaxTokens = 2
    IntakeWindows = 2
    Proofs = {"p", "q", "r"}
    PageSize = 2
    Devices = {"d", "e"}
    Vehicles = {"v"}
    Keys = {"k", "l"}
    MaxReads = 4
CHECK_DEADLOCK FALSE
INVARIANTS
    ReportIsTrue
    RowsAreExclusive
    StatisticsAreSound
    HardwareIsProven
    SubmissionsAreKept
PROPERTIES
    EveryChangeIsSettled
