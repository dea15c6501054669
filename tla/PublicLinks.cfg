SPECIFICATION Spec
CONSTANTS
    Clients = {c1}
    Admins = {a1, a2}
    Profiles = {p1}
    Names = {n1, n2}
    Urls = {u1, u2}
    MaxPrefix = 2
    MaxToken = 2
    MaxAdminOps = 3
    MaxFaults = 1
    NULL = NULL
INVARIANTS Inv LetInWasLive RevokedStaysDead SavedStays
PROPERTIES OutputLinksHeal
CHECK_DEADLOCK FALSE
