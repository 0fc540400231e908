SPECIFICATION Spec
CONSTANTS
    TaskId = {t1, t2}
    Token = {k1, k2}
    NoId = NoId
    NoToken = NoToken
    MaxRetries = 1
    MaxHistory = 2
    Faults = {"disk"}
SYMMETRY Identifiers
VIEW ReadInOneLife
INVARIANT
    PausedIsResumable
CHECK_DEADLOCK FALSE
