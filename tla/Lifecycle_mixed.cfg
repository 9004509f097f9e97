SPECIFICATION Spec
CONSTANTS
    Day = {d1}
    Driver = {p1, p2}
    Session = {s1, s2}
    FirstDate = 1
    LastDate = 2
    Date <- MCDate
    Modes = {"driver_app", "admin_managed"}
    NoDay = NoDay
    NoDriver = NoDriver
    FormStatus = {"needs_review"}
    MaxPending = 1
    VariableConflict = "use_column"
SYMMETRY Symmetry
INVARIANTS
    CancelledWorkIsInert
    RunningSessionOnRunningDay
PROPERTIES
    CancelledIsFrozen
    ImplementsWorkAccess
