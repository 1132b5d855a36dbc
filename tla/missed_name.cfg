SPECIFICATION Spec
CONSTANTS
    Domains = {d}
    Name = d
    WorkerIds = {w1}
    Null = Null
    LockTimeout = 1
    MaxAttempts = 2
    RetryBase = 1
    RetryMax = 1
    DeadCooldown = 1
    Ttl = 1
    Lead = 1
    MinRemeasure = 1
    Window = 1
    FailedRetry = 2
    NegativeRetry = 1
    Retention = 1
    ScanPeriod = 1
    MaxRun = 1
    FlushDelay = 1
    MaxTasks = 1
PROPERTIES
    MissedNameMeasured
