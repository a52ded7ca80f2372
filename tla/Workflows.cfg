CONSTANTS
    Graphs <- MCGraphs
    Rows <- MCRows
    MaxRequests = 2
    MaxSteps = 3
    MaxRetries = 1
    MaxFaults = 2
SPECIFICATION FlowFairSpec
INVARIANTS
    FlowsSound
    ExactBranches
PROPERTIES
    ExecutionSettles
CHECK_DEADLOCK FALSE
