CONSTANTS
    Employee = {"e1","e2"}
    Advance = {"a1"}
    AdvEmp <- MCOneEmp
    NPeriod = 1
    MaxRunNo = 1
    MaxSeq = 1
    Branch = {"b1","b2"}
    EmpBranch <- MCTwoBranch
    Compensated = {"e1","e2"}
    Deactivatable = {}
    Proc = {1}
    Ops = {"createRun", "calculate"}
    Scopes <- EachBranch
    Terms <- MCCashTerms
    Preapproved = {"a1"}
    Failures = FALSE
    ExclusiveRuns = TRUE
SPECIFICATION Spec
PROPERTIES
    OtherBranchesKept
