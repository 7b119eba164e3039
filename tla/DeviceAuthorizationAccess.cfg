SPECIFICATION DeviceSpec
CONSTANTS
    DeviceCalls = {r1, r2}
    Users = {u1, u2}
    NoUser = nobody
    Challenges = {c1, c2}
    TTL = 2
    Interval = 1
    SlowDownStep = 1
    MaxNow = 2
    MaxInterval = 2
    MaxDeviceChanges = 1
INVARIANT
    AccessRechecked
CHECK_DEADLOCK FALSE
SYMMETRY Symmetry
