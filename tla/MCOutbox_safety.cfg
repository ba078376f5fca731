CONSTANTS
    w1 = w1
    w2 = w2
    h1 = h1
    h2 = h2
    NoWorker = NoWorker
    Workers <- TwoWorkers
    Events <- TwoEvents
    Handlers <- UnroutedAndPair
    MaxRetries = 2
    MaxStalls = 1
    MaxDbFaults = 1
    MaxPartials = 1
    MaxRequeues = 1
SPECIFICATION Spec
SYMMETRY WorkerSymmetry
CHECK_DEADLOCK FALSE
INVARIANTS
    CheckpointsAreEarned
    OwnerNeverRepeatsCheckpoint
    DuplicatesArePaidFor
    ProcessedMeansDelivered
    ExhaustedIffOutOfRetries
PROPERTIES
    ImplementsDelivery
