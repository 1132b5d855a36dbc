SPECIFICATION Spec
CONSTANTS
    Callers = {c1, c2}
    Interval = 2
    MaxOversleep = 1
    MaxLatency = 1
    Lifetime = 3
    ServerLifetime = 8
    Delays = {0, 1}
    MaxRetries = 1
INVARIANTS
    TypeOK
    RequestsSpaced
    TokenStillAccepted
    NoNeedlessLogin
PROPERTIES
    CallsEnd
