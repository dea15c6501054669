SPECIFICATION Spec
CONSTANTS
    v4 = v4
    inner = inner
    v6 = v6
    mapped = mapped
    d1 = d1
    d2 = d2
    Addrs = {v4, inner, v6, mapped}
    Blocked = {inner}
    Embedded <- MCEmbedded
    Domains = {d1, d2}
    Urls <- MCUrls
    Answers <- MCAnswers
    MaxRedirects = 3
    Timeout = 2
    MaxBytes = 2
    LOCALHOST = LOCALHOST
    NULL = NULL
INVARIANTS Inv ConnectedChecked
PROPERTIES FetchEnds
