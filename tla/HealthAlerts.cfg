CONSTANTS
    Checks = {"crashloop", "disk"}
    Readings <- MCReadings
    Cycles = {1, 2}
    MaxFaults = 1
SPECIFICATION AlertsFairSpec
INVARIANTS
    AlertsSound
PROPERTIES
    ToldTruly
    LastingIsReported
CHECK_DEADLOCK FALSE
