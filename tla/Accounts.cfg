CONSTANTS
    Employee = {"e1", "e2"}
    User = {u1, u2}
    Branch = {b1, b2}
    Proc = {p1, p2}
    FirstLinks <- MCFirstLinks
    MaxRequests = 4
    Failures = TRUE
SPECIFICATION Spec
INVARIANTS
    LinkInv
    OwnerRemains
PROPERTIES
    AgreementKept
SYMMETRY Alike
CHECK_DEADLOCK FALSE
