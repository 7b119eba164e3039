SPECIFICATION MCSpec
CONSTANTS
    Visits = {r1, r2}
    MaxSessions = 2
    MaxGeneration = 2
    Lives <- TwoLives
    Limit = 1
    Calls = {r1, r2}
    MaxGrants = 2
    MaxStamp = 3
    MaxGrantChanges = 1
    MaxExchanges = 2
    CodeTTL = 1
    CodeRetention = 1
    TokenTTL = 1
    StateTTL = 4
    CallTimeout = 1
    Keys = {k1, k2, k3}
    Signers = {s1}
    Rotation = 2
    MaxTTL = 3
    Skew = 2
    NoKid = NoKid
    LastKeyTick = 8
    Servers = {s1, s2}
    FirstServer = s1
    LeaseKinds <- MailLeases
    PauseTargets <- MailPauses
    Operators = {o1, o2}
    NoServer = NoServer
    StaleAfter = 1
    MaxControl = 2
    LastTick = 1
    Instances = {r1, r2}
    WithFallback = {r1, r2}
    Unreadable = {}
    Deployed = 2
    MaxMailVersion = 2
    MaxRevision = 6
    MaxPolicies = 0
    MaxRegistered = 0
    MaxTime = 2
    TestValidity = 1
    FailureWindow = 1
    FailureLimit = 2
    ProbeInterval = 1
INVARIANTS
    AppliedIsStopped
    PausesAreConsistent
    IndexReachesAll
    GenerationWasProved
    CodeExchangedOnce
    RevokedGrantStaysDead
    LiveGrantIsListed
    TokensVerify
    TransportOpensOnBurst
    SnapshotIsFaithful
PROPERTIES
    NoResurrection
    RecoveryIsFresh
    ProbesAreSpaced
CHECK_DEADLOCK FALSE
SYMMETRY Symmetry
