SPECIFICATION FairSpec
CONSTANTS
    Clients = {c1, c2}
    Admins = {}
    RuleSets = {r1}
    Sources = {s1}
    Orders = {o1}
    DefaultOrder = o1
    MaxVer = 2
    MaxAdminOps = 0
    NULL = NULL
INVARIANTS RefusedOnlyUnread SingleFetch
PROPERTIES CacheNeverOlder DownloadsEnd
