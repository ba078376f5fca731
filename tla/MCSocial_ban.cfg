CONSTANTS
    a = a
    b = b
    c = c
    x1 = x1
    x2 = x2
    c1 = c1
    c2 = c2
    k1 = k1
    p1 = p1
    p2 = p2
    w1 = w1
    w2 = w2
    None = None
    Unborn = Unborn
    Gone = Gone
    NoJob = NoJob
    Users <- ThreeUsers
    Posts <- TwoPosts
    Comments <- TwoComments
    Communities <- OneCommunity
    Txns <- TwoTxns
    Servers <- TwoServers
    Jobs <- AllJobs
    Starts <- MCStarts
    MaxAttempts = 2
    MaxWrites = 2
    MaxFailures = 1
    Scenes = {"village", "thread"}
SPECIFICATION MCSpec
SYMMETRY TxnSymmetry
CHECK_DEADLOCK FALSE
PROPERTIES
    BannedStaysEmpty
