SPECIFICATION Spec
CONSTANTS
    Admin = {a1, a2}
    Draft = {z}
    Reason = {x, y}
    Change = {x, y, z}
    Contents <- MCContents
    Type = {"payment_update", "initial_schedule", "cancel"}
    PageSize = 1
    MaxVersion <- MCMaxVersion
    MaxLate = 1
    NoView = NoView
    NoRequest = NoRequest
SYMMETRY Symmetry
INVARIANTS
    TypeOK
    OneChangePerVersion
    AnswersAreTrue
    HistoryHasNoHole
    SnapshotsAreFresh
