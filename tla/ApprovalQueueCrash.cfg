SPECIFICATION ApprovalSpec
CONSTANTS
    alice = alice
    bob = bob
    MaxRequests = 2
    Approver = {alice, bob}
    Required = {1, 2}
    Circles = {{}, {alice}}
    MaxHistory = 2
    Faults = {"crash", "cut"}
    MaxFailures = 1
INVARIANT
    ApprovalTypeOK
    ApprovedByEnough
    ApprovalIsFinal
    ApprovalIsRecorded
VIEW StillOpen
