SPECIFICATION Spec
CONSTANTS
    Threads = {t1, t2}
    Conns = {c1}
    Names <- Pair
    Served <- Pair
    Answers = {}
    StaticLabels = {0}
    Malformed = {"bad"}
    CacheMaxAge = 0
    MaxRoundTrip = 1
    ReconnectWait = 1
    MaxTime = 2
INVARIANTS
    TypeOK
    PoolConserved
PROPERTIES
    CallsReturn
