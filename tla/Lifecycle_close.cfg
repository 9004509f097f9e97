SPECIFICATION FairSpec
CONSTANTS
    Day = {d1}
    Driver = {p1}
    Session = {s1}
    FirstDate = 1
    LastDate = 2
    Date <- MCDate
    Modes = {"driver_app"}
    NoDay = NoDay
    NoDriver = NoDriver
    FormStatus = {"assigned", "cancelled"}
    MaxPending = 1
    VariableConflict = "error"
PROPERTY
    ClosableWorkIsClosed
