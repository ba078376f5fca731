CONSTANTS
    a = a
    b = b
    c1 = c1
    m1 = m1
    m2 = m2
    t1 = t1
    t2 = t2
    w1 = w1
    None = None
    Unborn = Unborn
    Gone = Gone
    Users <- TwoUsers
    Convs <- OneConv
    Msgs <- TwoMsgs
    Txns <- TwoTxns
    Workers <- OneWorker
    Removable <- TwoUsers
    Restored <- TwoUsers
    MaxClock = 3
SPECIFICATION MCSpec
SYMMETRY TxnSymmetry
CHECK_DEADLOCK FALSE
INVARIANTS
    PurgeLeavesNothing
    UnreadIsCounted
    NewestIsLast
    HiddenHasNothingNew
PROPERTIES
    WritesAreAllowed
    RequestsAreCurrent
