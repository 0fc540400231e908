SPECIFICATION FlowSpec
CONSTANTS
    t1 = t1
    k1 = k1
    k2 = k2
    w1 = w1
    w2 = w2
    TaskId = {t1}
    Token = {k1, k2}
    NoId = NoId
    NoToken = NoToken
    MaxRetries = 0
    MaxHistory = 1
    Faults = {}
    Worker = {w1, w2}
    Idle = Idle
    StepCount = 3
    StepDeps <- TwistedDeps
    ApprovalSteps = {2}
    Modes = {"sequential"}
    StopOnFailure = TRUE
    Drivers = {"automation", "pipeline"}
    Clients = {"pause", "cancel"}
SYMMETRY WorkersAndTokens
VIEW Statuses
INVARIANT
    RunningFlowHasRunningTask
    FinishedFlowHasFinishedTask
CHECK_DEADLOCK FALSE
