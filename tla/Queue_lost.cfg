SPECIFICATION Spec
CONSTANTS
    Jobs = {j1}
    PageSlots = {1, 2, 3}
    Kinds = {"m23"}
    AttemptLimit = 2
    BatchLimit = 2
    MaxIterations = 2
    MaxChanges = 3
    MaxFailures = 0
    MaxAborts = 0
CHECK_DEADLOCK FALSE
PROPERTIES
    LateChangesAreEvaluated
