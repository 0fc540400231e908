SPECIFICATION Spec
CONSTANTS
    TaskId = {t1}
    Token = {k1, k2}
    NoId = NoId
    NoToken = NoToken
    MaxRetries = 1
    MaxHistory = 3
    Faults = {"crash", "cut"}
SYMMETRY Identifiers
INVARIANT
    TypeOK
    PausedSurvives
    TerminalIsRecorded
