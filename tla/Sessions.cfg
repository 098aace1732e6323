SPECIFICATION Spec
CONSTANTS
    r1 = r1
    r2 = r2
    b1 = b1
    b2 = b2
    Requests <- TwoRequests
    Browsers <- TwoBrowsers
    MaxSessions = 3
    MaxCalls = 5
INVARIANTS
    TypeOK
    StaysSignedIn
    SessionsDoNotMultiply
    ResetEndsSessions
PROPERTIES
    RevokedForGood
SYMMETRY Symmetry
CHECK_DEADLOCK FALSE
