SPECIFICATION Spec
CONSTANTS
    Deliveries = {reply}
    Scans = {s1, s2, s3}
    MaxRetries = 2
    MaxCrashes = 1
    MaxFaults = 1
SYMMETRY Starts
INVARIANT
    DeliveryTypeOK
    NothingLost
    RepeatsHaveACause
    RetriesAreBounded
PROPERTY
    ImplementsOutbox
CHECK_DEADLOCK FALSE
