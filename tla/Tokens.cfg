SPECIFICATION MCSpec
CONSTANTS
    Families = {u1, u2}
    Requests = {r1, r2}
    MaxTokens = 2
    MaxVersion = 2
    Lifetimes <- StableRefresh
    RevocationTTL = 3
    RequestTimeout = 1
    None = None
    DeviceCalls = {r1, r2}
    Users = {u1, u2}
    NoUser = nobody
    Challenges = {c1, c2}
    TTL = 2
    Interval = 1
    SlowDownStep = 1
    MaxNow = 3
    MaxInterval = 3
    MaxDeviceChanges = 1
INVARIANTS
    OneLiveRefreshToken
    EndedFamilyStaysDead
    UserRevocationReachesAll
    TokensOnce
    AnswerIsFinal
PROPERTIES
    ImplementsChain
CHECK_DEADLOCK FALSE
SYMMETRY Symmetry
