SPECIFICATION BrowserSpec
CONSTANTS
    Visits = {r1, r2}
    MaxSessions = 1
    MaxGeneration = 2
    Lives <- TwoLives
    Limit = 1
PROPERTY RevokedNotUpgraded
CHECK_DEADLOCK FALSE
SYMMETRY Symmetry
