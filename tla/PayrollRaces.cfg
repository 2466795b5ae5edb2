CONSTANTS
    Employee = {"e1","e2"}
    Advance = {"a1"}
    AdvEmp <- MCOneEmp
    NPeriod = 1
    MaxRunNo = 1
    MaxSeq = 2
    Branch = {"b1","b2"}
    EmpBranch <- MCTwoBranch
    Compensated = {"e1","e2"}
    Deactivatable = {}
    Proc = {1, 2}
    Ops = {"submit", "review", "cancel", "createRun", "calculate"}
    Scopes <- EachBranch
    Terms <- MCTerms
    Preapproved = {}
    Failures = TRUE
    ExclusiveRuns = TRUE
SPECIFICATION Spec
INVARIANTS
    LedgerBacked
