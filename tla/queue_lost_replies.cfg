SPECIFICATION Spec
CONSTANTS
    Domains = {d1, d2}
    WorkerIds = {w1, w2}
    Null = Null
    LockTimeout = 1
    MaxAttempts = 2
    RetryBase = 1
    RetryMax = 2
    DeadCooldown = 1
    Concurrency = 1
    MaxRun = 3
    MaxTime = 4
    Faults <- AllFaults
SYMMETRY Symmetry
PROPERTIES
    NoForeignWrites
