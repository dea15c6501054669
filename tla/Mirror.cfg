SPECIFICATION PollingSpec
CONSTANTS
    Clients = {c1, c2}
    Admins = {a1}
    Urls = {u1, u2}
    MaxVer = 1
    MaxEdits = 2
    NULL = NULL
INVARIANTS Inv RefusedOnlyUnmirrored
PROPERTIES KeptWhileFresh MirrorNeverOlder DeletedStaysDeleted MirrorHeals
