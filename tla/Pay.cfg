CONSTANTS
    Day = {1, 2, 3}
    Period = {"P1", "P2"}
    FirstOf <- MCFirstOf
    LastOf <- MCLastOf
    Wages <- MCWages
    Minutes = {50}
    TaxSettings <- MCTaxSettings
    PayStatements <- MCPayStatements
    FirstPay <- MCFirstPay
    Attendances <- MCAttendances
    Advances <- MCAdvances
    FirstWages <- MCFirstWages
    Proc = {p1, p2}
    Ends <- MCEnds
    Bound <- MCBound
    MaxRequests = 4
    Failures = TRUE
SPECIFICATION Spec
INVARIANTS
    WageInv
    LineIsCurrent
    MorePayNetsMore
PROPERTIES
    HistoryKept
SYMMETRY Alike
CHECK_DEADLOCK FALSE
