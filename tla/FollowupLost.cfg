SPECIFICATION Spec
CONSTANTS
    m1 = m1
    m2 = m2
    m3 = m3
    Messages = {m1, m2, m3}
    Channel <- MCChannel
    Settings <- SummarySettings
    Queues = {1, 2, 3}
    NoQueue = 0
    MaxEvents = 2
INVARIANT
    UndroppedIsKept
CHECK_DEADLOCK FALSE
