CONSTANTS
    Employee = {"e1"}
    Advance = {"a1"}
    AdvEmp <- MCOneEmp
    NPeriod = 2
    MaxRunNo = 1
    MaxSeq = 2
    Branch = {"b1"}
    EmpBranch <- MCOneBranch
    Compensated = {"e1"}
    Deactivatable = {}
    Proc = {1, 2}
    Ops = {"createRun", "calculate"}
    Scopes <- WholeOrg
    Terms <- MCTerms
    Preapproved = {"a1"}
    Failures = TRUE
    ExclusiveRuns = TRUE
SPECIFICATION Spec
INVARIANTS
    DeductionsMatchLedger
    ScheduledPayoutsMatchLedger
    LineNeverPaysAndDeducts
