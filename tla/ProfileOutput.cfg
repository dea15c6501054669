SPECIFICATION MCSpec
CONSTANTS
    p1 = p1
    p2 = p2
    n1 = n1
    n2 = n2
    g1 = g1
    g2 = g2
    x = x
    y = y
    Admins = {a1, a2}
    GEN = GEN
    NodeIds = {x, y}
    NodeBodies <- MCNodeBodies
    GroupBodies <- MCGroupBodies
    Feeds <- MCFeeds
    Alphabet <- MCAlphabet
    RulesTexts <- MCRulesTexts
    NodeOrders <- MCOrders
    GroupOrders <- MCGroupOrders
    BuiltinPolicies = {}
    OPAQUE = OPAQUE
    COMMENT = COMMENT
    MaxEdits = 2
    MaxUpsets = 1
    NULL = NULL
INVARIANTS Inv BlocksKept
PROPERTIES ResyncKeepsEntries OutputHeals
