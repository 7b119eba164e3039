SPECIFICATION MCSpec
CONSTANTS
    b1 = b1
    b2 = b2
    e1 = e1
    e2 = e2
    again = again
    Scenes = {"media: back"}
    MediaOwners = {o1}
    Images = {x1}
    Uploads = {w1}
    Nodes = {y1, y2}
    Cleaners = {k1, k2}
    Profiles = {p1, again}
    Fallback = local
    PlaceOf <- TwoPlaces
    Nothing = Nothing
    MaxMoves = 2
    MaxClaims = 2
    ProviderInstances = {i1, i2}
    Names = {n1}
    Browsers = {b1, b2}
    Externals = {e1, e2}
    Holder <- OwnIdentity
    People = {x1, x2}
    Flows = {y1, y2}
    Nobody = Nobody
    MaxChange = 2
    Clients = {x1, x2}
    ClientOwners = {u1, u2}
    Requests = {y1, y2}
    PolicyInstances = {i1}
    Scopes = {profile}
    Limits = {1, 2}
    NoOwner = NoOwner
    MaxPolicy = 1
    Mails = {x1, x2}
    Events = {x1, x2}
    Couriers = {y1, y2}
    Scribes = {y1, y2}
    NoWorker = NoWorker
    MaxAttempts = 2
INVARIANT CurrentImageIsReadable
CHECK_DEADLOCK FALSE
SYMMETRY Symmetry
