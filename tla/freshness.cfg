SPECIFICATION Spec
CONSTANTS
    Domains = {d}
    Name = d
    WorkerIds = {w1}
    Null = Null
    LockTimeout = 1
    MaxAttempts = 2
    RetryBase = 1
    RetryMax = 1
    DeadCooldown = 2
    Ttl = 4
    Lead = 3
    MinRemeasure = 2
    Window = 2
    FailedRetry = 2
    NegativeRetry = 2
    Retention = 2
    ScanPeriod = 1
    MaxRun = 1
    FlushDelay = 1
    MaxTasks = 2
INVARIANTS
    TypeOK
    StaysServed
    DataAgeBounded
