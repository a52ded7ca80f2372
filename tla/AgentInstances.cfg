CONSTANTS
    Instances <- MCInstances
    Polls = {1, 2}
    Messages = {1, 2}
    MaxFaults = 1
SPECIFICATION FairSpec
INVARIANTS
    Inv
PROPERTIES
    PendingIsDelivered
    SoleOwnerHoldsRow
CHECK_DEADLOCK FALSE
