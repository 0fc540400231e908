SPECIFICATION FairSpec
CONSTANTS
    m1 = m1
    m2 = m2
    m3 = m3
    Messages = {m1, m2, m3}
    Channel <- MCChannel
    Settings <- MixedSettings
    Queues = {1, 2, 3}
    NoQueue = 0
    MaxEvents = 2
INVARIANT
    FollowupTypeOK
    AcceptedIsKept
    RunsAreAccounted
    NoStrandedQueue
PROPERTY
    WaitingGoesOn
    DrainEnds
CHECK_DEADLOCK FALSE
