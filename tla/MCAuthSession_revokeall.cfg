CONSTANTS
    r1 = r1
    r2 = r2
    s1 = s1
    s2 = s2
    None = None
    Requests <- TwoRequests
    Sids <- OneSid
    MaxRotations = 1
    MaxVersion = 1
    MaxLost = 0
SPECIFICATION Spec
SYMMETRY Symmetric
CHECK_DEADLOCK FALSE
PROPERTIES
    RevokeAllSeesAll
