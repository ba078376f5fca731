CONSTANTS
    c1 = c1
    c2 = c2
    Calls <- TwoCalls
    MaxConcurrent = 1
    MaxBodyAttempts = 2
    MaxCommitAttempts = 2
SPECIFICATION FairSpec
CHECK_DEADLOCK FALSE
INVARIANTS
    PermitsAccounted
    AtMostOnce
    OutcomeIsTrue
PROPERTIES
    ImplementsAtomicCall
    EveryCallEnds
