CONSTANTS
    Prepared = 2
    MaxPosts = 3
    MaxGenerations = 2
    MaxFaults = 1
    Limits <- TwoSizes
    Feeds <- AllFeeds
    None = None
SPECIFICATION MCSpec
CHECK_DEADLOCK FALSE
INVARIANTS
    RepeatsAreExplained
    NothingIsSkipped
PROPERTIES
    EveryTraversalEnds
