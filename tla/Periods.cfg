CONSTANTS
    Month = {1, 2, 3}
    FirstDay <- MCFirst
    LastDay <- MCLast
    HalfDay = 16
    Proc = {1, 2}
    Rules <- MCRules
    Frequencies = {"SEMIMONTHLY", "MONTHLY"}
    Months = {2}
    HandMade <- MCHandMade
    GivenDates = {45}
    Born = {"DRAFT"}
    Tracked <- MCTracked
    MaxRequests = 2
    Failures = TRUE
SPECIFICATION Spec
INVARIANTS
    PaymentIsNext
    PeriodsTileMonth
    PeriodInv
PROPERTIES
    GenerateCompletes
    Lifecycle
CHECK_DEADLOCK FALSE
