CONSTANTS
    Employee = {"e1","e2"}
    Advance = {"a1"}
    AdvEmp <- MCOneEmp
    NPeriod = 1
    MaxRunNo = 1
    MaxSeq = 1
    Branch = {"b1","b2"}
    EmpBranch <- MCTwoBranch
    Compensated = {"e1","e2"}
    Deactivatable = {"e1"}
    Proc = {1, 2}
    Ops = {"createRun", "calculate", "action", "issue", "activate"}
    Scopes <- AnyScope
    Terms <- MCCashTerms
    Preapproved = {"a1"}
    Failures = TRUE
    ExclusiveRuns = TRUE
SPECIFICATION Spec
INVARIANTS
    SlipIsItsLine
