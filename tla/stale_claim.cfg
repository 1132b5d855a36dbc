SPECIFICATION Spec
CONSTANTS
    Domains = {d1}
    WorkerIds = {w1}
    Null = Null
    LockTimeout = 1
    MaxAttempts = 2
    RetryBase = 1
    RetryMax = 2
    DeadCooldown = 1
    Concurrency = 2
    MaxRun = 5
    MaxTime = 5
    Faults <- NoFaults
SYMMETRY Symmetry
INVARIANT
    DeadMeansExhausted
