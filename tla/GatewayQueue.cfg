SPECIFICATION FairSpec
CONSTANTS
    chat = chat
    m1 = m1
    nightly = nightly
    weekly = weekly
    Sessions = {chat}
    Runs = {nightly, weekly}
    CronRuns = {nightly, weekly}
    Session <- MCSession
    Lane <- MCLane
    Limits = {0, 2}
    MaxChanges = 2
INVARIANT
    GatewayTypeOK
    NoLostWakeUp
    NoLostWaiter
    DrainedHaveEnded
    OneRunPerLifecycle
    LockedWhileServing
PROPERTY
    StartsWithinLimit
    RestartReopensQueue
    QueuedGoesOn
CHECK_DEADLOCK FALSE
