SPECIFICATION Spec
CONSTANTS
    Day = {d1, d2}
    Driver = {p1}
    Session = {s1}
    FirstDate = 1
    LastDate = 3
    Date <- MCDate
    Modes = {"driver_app"}
    NoDay = NoDay
    NoDriver = NoDriver
    FormStatus = {"assigned", "cancelled"}
    MaxPending = 1
    VariableConflict = "use_column"
SYMMETRY Symmetry
PROPERTY
    CancelSparesCompletedWork
