SPECIFICATION Spec
CONSTANTS
    Families = {f1, f2}
    Requests = {r1}
    MaxTokens = 2
    MaxVersion = 1
    Lifetimes <- ShrinkingRefresh
    RevocationTTL = 4
    RequestTimeout = 1
    None = None
INVARIANT
    UserRevocationReachesAll
SYMMETRY Symmetry
