CONSTANTS
    u1 = u1
    k1 = k1
    x1 = x1
    c1 = c1
    p1 = p1
    p2 = p2
    None = None
    Unborn = Unborn
    Pending = Pending
    Gone = Gone
    Users <- OneUser
    Communities <- OneCommunity
    Posts <- OnePost
    Comments <- OneComment
    Assets <- ThreeAssets
    Txns <- TwoTxns
SPECIFICATION MCSpec
CHECK_DEADLOCK FALSE
INVARIANTS
    NoDanglingPicture
    OrphansArePaidFor
PROPERTIES
    EveryAssetSettles
