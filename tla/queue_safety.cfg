SPECIFICATION Spec
CONSTANTS
    Domains = {d1, d2}
    WorkerIds = {w1, w2}
    Null = Null
    LockTimeout = 1
    MaxAttempts = 2
    RetryBase = 1
    RetryMax = 2
    DeadCooldown = 1
    Concurrency = 2
    MaxRun = 1
    MaxTime = 5
    Faults <- AllFaultsButReply
SYMMETRY Symmetry
INVARIANTS
    TypeOK
    ExclusiveProcessing
    DeadMeansExhausted
PROPERTIES
    OnlyOwnerWrites
    ImplementsJobs
    FreshCompletion
