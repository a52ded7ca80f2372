CONSTANTS
    MaxSessions = 2
    MaxFrontiers = 2
    MaxPending = 1
    MaxFaults = 1
SPECIFICATION FairSpec
INVARIANTS
    Inv
PROPERTIES
    OutcomesAreFinal
    AbortStopsGame
    SessionsSettle
CHECK_DEADLOCK FALSE
