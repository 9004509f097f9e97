SPECIFICATION Spec
CONSTANTS
    MaxPoints = 2
    MaxRetries = 1
    BatchSize = 1
    RetryCap = 2
    MaxSession = 2
    MaxFailures = 3
PROPERTY
    OfflineCaptureRetained
CHECK_DEADLOCK FALSE
