SPECIFICATION Spec
CONSTANTS
    Threads = {t1}
    Conns = {c1}
    Names <- Chain
    Served <- Ends
    Answers = {a1}
    StaticLabels = {0, 1}
    Malformed = {}
    CacheMaxAge = 0
    MaxRoundTrip = 1
    ReconnectWait = 0
    MaxTime = 2
INVARIANTS
    ExactNameOnly
    AnswersAreRecent
    DirectLookupKeepsAnswer
    QueryNameAsked
