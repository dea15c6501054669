SPECIFICATION CalmSpec
CONSTANTS
    Clients = {c1}
    Admins = {a1}
    RuleSets = {r1}
    Sources = {s1}
    Orders = {o1, o2}
    DefaultOrder = o1
    MaxVer = 0
    MaxAdminOps = 2
    NULL = NULL
PROPERTIES SnapshotKeepsOrder
