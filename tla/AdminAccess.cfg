SPECIFICATION Spec
CONSTANTS
    Keys = {k1, k2}
    Capacity = 2
    Window = 2
    PurgeAbove = 1
    MaxTime = 3
    Requests = {r1}
    Ids = {i1, i2}
    SessionIdle = 1
    NULL = NULL
INVARIANTS Inv GrantsBounded
PROPERTIES ImplementsBucket LetInAlive GrowsSwept
