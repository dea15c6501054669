SPECIFICATION PollingSpec
CONSTANTS
    Clients = {c1}
    Admins = {a1}
    RuleSets = {r1}
    Sources = {s1, s2}
    Orders = {o1, o2}
    DefaultOrder = o1
    MaxVer = 0
    MaxAdminOps = 2
    NULL = NULL
INVARIANTS Inv
PROPERTIES EventuallyCurrent
