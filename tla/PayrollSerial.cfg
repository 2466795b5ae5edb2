CONSTANTS
    Employee = {"e1"}
    Advance = {"a1"}
    AdvEmp <- MCOneEmp
    NPeriod = 2
    MaxRunNo = 2
    MaxSeq = 2
    Branch = {"b1"}
    EmpBranch <- MCOneBranch
    Compensated = {"e1"}
    Deactivatable = {}
    Proc = {1}
    Ops = {"submit", "review", "cancel", "createRun", "calculate"}
    Scopes <- WholeOrg
    Terms <- MCTerms
    Preapproved = {}
    Failures = FALSE
    ExclusiveRuns = TRUE
SPECIFICATION Spec
INVARIANTS
    TypeOK
    PayoutsMatchLedger
    StatusMatchesInstallments
    OneEffectPerLine
PROPERTIES
    CancelledIsFinal
    DeductOnlyAfterPayout
