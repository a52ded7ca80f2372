CONSTANTS
    a = a
    b = b
    Starters <- MCStarters
    Once <- MCOnce
    MaxStarts = 2
    MaxStops = 1
    MaxCrashes = 1
    MaxRuns = 5
SPECIFICATION FairSpec
INVARIANTS
    Inv
    AtMostOneMonitor
PROPERTIES
    UserStopEnds
    MonitorComesBack
CHECK_DEADLOCK FALSE
