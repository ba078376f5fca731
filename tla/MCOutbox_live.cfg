CONSTANTS
    w1 = w1
    w2 = w2
    h1 = h1
    h2 = h2
    NoWorker = NoWorker
    Workers <- TwoWorkers
    Events <- TwoEvents
    Handlers <- OneHandlerEach
    MaxRetries = 2
    MaxStalls = 1
    MaxDbFaults = 0
    MaxPartials = 0
    MaxRequeues = 1
SPECIFICATION FairSpec
CHECK_DEADLOCK FALSE
PROPERTIES
    EveryEventSettles
    ImplementsFairDelivery
