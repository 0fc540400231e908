SPECIFICATION BridgeFairSpec
CONSTANTS
    laptop = laptop
    Device = {laptop}
    MaxCommands = 3
    QueueMax = 2
    Faults = {"network", "client", "server", "forget"}
    MaxFaults = 2
INVARIANT
    BridgeTypeOK
    OneInFlight
    NeverGoesBack
    ReportedWasExecuted
    RepeatsArePaidFor
PROPERTY
    EveryCommandIsAnswered
