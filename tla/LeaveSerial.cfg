CONSTANTS
    Employee = {"emp","c1","c2"}
    NDay = 2
    Shift = {"early","late"}
    Leave = {"l1","l2","l3"}
    LeaveEmp <- MCOwn
    FirstDay <- MCFirst
    LastDay <- MCLast
    Amount <- MCAmount
    Covers <- MCCovers
    YearLen = 2
    ThisYear = 0
    Entitlements = {1, 3}
    Rosters <- MCRosters
    Proc = {1}
    Ops = {"submit","approve","reject","assign","list"}
    Reviewable = {"SUBMITTED","APPROVED"}
    Failures = FALSE
    ExclusiveReviews = TRUE
SPECIFICATION Spec
INVARIANTS
    NoOverlap
    NeverOverdrawn
    ApprovedDaysMarked
    CoverMatchesRequest
    UncoveredIsPlanned
