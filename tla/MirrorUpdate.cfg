SPECIFICATION CalmSpec
CONSTANTS
    Clients = {c1}
    Admins = {a1}
    Urls = {u1, u2}
    MaxVer = 0
    MaxEdits = 1
    NULL = NULL
INVARIANT MirrorOfUrl
