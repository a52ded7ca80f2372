CONSTANTS
    Instances <- MCInstances
    Polls = {1}
    Messages = {1}
    MaxFaults = 2
SPECIFICATION Spec
INVARIANTS
    StrangersSpared
CHECK_DEADLOCK FALSE
