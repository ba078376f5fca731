CONSTANTS
    w1 = w1
    p1 = p1
    m1 = m1
    m2 = m2
    Workers <- OneWorker
    Posts <- OnePost
    Messages <- TwoMessages
    ChunkSize = 1
    MaxVersion = 3
    MaxFaults = 2
    MaxLosses = 2
SPECIFICATION MCSpec
CHECK_DEADLOCK FALSE
INVARIANTS
    AckedWasScored
    NothingForgotten
PROPERTIES
    EveryMessageIsAcked
    ScoresCatchUp
