CONSTANTS
    Employee = {"e1", "e2"}
    NDay = 2
    Shift = {"early", "night"}
    Period = {t1, t2}
    Proc = {p1, p2}
    StartMin <- MCStart
    EndMin <- MCEnd
    MinutesPerDay = 4
    Teams <- MCTeams
    DaySets <- MCDays
    Ops = {"status", "addShift", "removeShift", "delete", "changeShift", "substitute", "assign", "deletePeriod", "clock"}
    MaxRequests = 3
    Failures = TRUE
SPECIFICATION Spec
INVARIANTS
    RowsInv
    OverlapCheckIsExact
PROPERTIES
    AssignedIsSound
    LockedOnlyTaken
    ClockedIsKept
SYMMETRY Alike
CHECK_DEADLOCK FALSE
