CONSTANTS
    Shift = {"early", "night"}
    StartMin <- MCStart
    EndMin <- MCEnd
    BreakMin <- NoMinutes
    GraceLate <- NoMinutes
    GraceEarly <- MCGraceEarly
    MinutesPerDay = 3
    Buffer = 0
    NDay = 1
    Roster <- MCRoster
    PeriodShift = {"early", "night"}
    Key = {"k1", "k2", "k3"}
    KindOf <- MCKind
    Adj = {"a1"}
    Mismatch = {"m1"}
    Wishes <- MCWishes
    Proc = {p1, p2}
    Ops = {"clock", "edit", "request", "approve", "reject", "move", "refuse", "plan"}
    MaxRequests = 3
    Failures = TRUE
SPECIFICATION Spec
SYMMETRY Alike
INVARIANTS
    DayInv
    ClockedOnce
    MetricsAreCurrent
    PendingHasRequest
PROPERTIES
    DecidedIsFinal
