SPECIFICATION Spec
CONSTANTS
    Addresses = {x1, x2, x3, y1}
    V4 = {x1, x2, x3}
    Ttls = {0, 1, 3}
    Moers = {1, 2}
    Unknown = Unknown
    AnswerK = 2
    MaxAnswerTtl = 2
    MinRecordTtl = 0
    TicksPerSecond = 2
    MaxRecords = 3
    MaxTime = 4
SYMMETRY Symmetry
INVARIANTS
    TypeOK
    NoFalseNodata
    GreenestAnswer
    AnswersDoNotOutliveData
    ServedUntilAgrees
