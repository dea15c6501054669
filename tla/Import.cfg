SPECIFICATION MCSpec
CONSTANTS
    n1 = n1
    n2 = n2
    l1 = l1
    l2 = l2
    u1 = u1
    Admins = {a1, a2}
    Names <- MCNames
    Urls = {u1}
    LibIds = {l1, l2}
    Requests <- MCRequests
    Texts <- MCTexts
    MaxEdits = 2
    MaxFaults = 1
    BLANK = BLANK
    NULL = NULL
INVARIANTS Inv AskedStaysReferenced ReferredIsDefined
PROPERTIES OwnKept RetryCompletes
