SPECIFICATION MCSpec
CONSTANTS
    Users = {u1}
    Workers = {w1, w2}
    Logins = {r1}
    BatchSize = 1
    MaxVersion = 2
    MaxFaults = 1
    None = None
    Servers = {s1}
    LeaseKinds <- MailLeases
    PauseTargets <- MailPauses
    Operators = {o1, o2}
    NoServer = NoServer
    StaleAfter = 1
    MaxControl = 2
    LastTick = 1
    Instances = {i1, i2}
    WithFallback = {i1}
    Unreadable <- KeyMissing
    Deployed = 0
    MaxMailVersion = 1
    MaxRevision = 4
    MaxPolicies = 2
    MaxRegistered = 1
    MaxTime = 0
    TestValidity = 0
    FailureWindow = 1
    FailureLimit = 2
    ProbeInterval = 1
INVARIANTS
    RevocationIsScheduled
    RegistrationNeedsMail
    SendersWereTested
PROPERTIES
    CurrentCredentialsKept
    RevocationHappens
    PausesConverge
    GateHoldsAtCommit
    InstancesConverge
CHECK_DEADLOCK FALSE
