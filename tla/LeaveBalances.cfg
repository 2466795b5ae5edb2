CONSTANTS
    Employee = {"emp"}
    NDay = 2
    Shift = {"early","late"}
    Leave = {"l1","l2"}
    LeaveEmp <- OwnOf2
    FirstDay <- DayOf2
    LastDay <- DayOf2
    Amount <- AmountOf2
    Covers <- NoCovers
    YearLen = 2
    ThisYear = 0
    Entitlements = {1, 3}
    Rosters <- EmptyRosters
    Proc = {1, 2}
    Ops = {"submit","approve","reject","entitle","list"}
    Reviewable = {"SUBMITTED","APPROVED","REJECTED"}
    Failures = TRUE
    ExclusiveReviews = TRUE
SPECIFICATION Spec
INVARIANTS
    BalanceInv
    ApprovedIsBooked
