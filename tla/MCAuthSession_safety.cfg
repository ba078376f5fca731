CONSTANTS
    r1 = r1
    r2 = r2
    s1 = s1
    s2 = s2
    None = None
    Requests <- TwoRequests
    Sids <- TwoSids
    MaxRotations = 2
    MaxVersion = 1
    MaxLost = 1
SPECIFICATION Spec
SYMMETRY Symmetric
CHECK_DEADLOCK FALSE
INVARIANTS
    OneSuccessor
    CookieFollows
    OldSessionsAreRefused
    BannedAreRefused
PROPERTIES
    RevokedStaysRevoked
