SPECIFICATION FlowSpec
CONSTANTS
    t1 = t1
    k1 = k1
    k2 = k2
    w1 = w1
    w2 = w2
    TaskId = {t1}
    Token = {k1}
    NoId = NoId
    NoToken = NoToken
    MaxRetries = 0
    MaxHistory = 1
    Faults = {"crash", "cut"}
    Worker = {w1}
    Idle = Idle
    StepCount = 2
    StepDeps <- TwistedDeps
    ApprovalSteps = {}
    Modes = {"sequential"}
    StopOnFailure = TRUE
    Drivers = {"automation", "pipeline"}
    Clients = {"pause", "cancel", "direct", "reconcile"}
VIEW Statuses
INVARIANT
    FlowFileNeverAhead
CHECK_DEADLOCK FALSE
