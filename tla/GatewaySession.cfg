SPECIFICATION Spec
CONSTANTS
    chat = chat
    m1 = m1
    nightly = nightly
    weekly = weekly
    Sessions = {chat}
    Runs = {m1, nightly}
    CronRuns = {nightly}
    Session <- MCSession
    Lane <- MCLane
    Limits = {0, 2}
    MaxChanges = 2
INVARIANT
    OneRunPerSession
CHECK_DEADLOCK FALSE
