SPECIFICATION Spec
CONSTANTS
    Names = {n1, n2}
    MaxEvents = 2
    Concurrency = 2
INVARIANTS
    TypeOK
    HitsAtMostOnce
    StopLosesNothing
    NoSleepOverWork
PROPERTIES
    ReadyRowClaimed
CHECK_DEADLOCK FALSE
