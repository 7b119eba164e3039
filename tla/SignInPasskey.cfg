SPECIFICATION MCSpec
CONSTANTS
    Logins = {l1, l2}
    NoLogin = NoLogin
    Passkeys = {k1}
    Providers = {p1}
    NoItem = NoItem
    Devices = {d1}
    Policies <- MCPolicies
    ChangeRequests = {c1, c2}
    MaxChanges = 2
    LastStep = 2
    Challenges = {h1, h2}
    NoChallenge = NoChallenge
    Ceremonies = {y1}
    NoCeremony = NoCeremony
    Attempts = {a1, a2}
    NoDevice = NoDevice
    MaxActivePerUser = 1
    MaxAttempts = 3
INVARIANT OneFactorOneCompletion
CHECK_DEADLOCK FALSE
SYMMETRY Sym
