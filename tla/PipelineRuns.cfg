CONSTANTS
    Runs <- MCRuns
    LastStep = 2
    Stale = 2
    MaxAttempts = 1
    MaxExecs = 2
    MaxCrashes = 1
    MaxManual = 1
    MaxErrors = 1
SPECIFICATION RunsFairSpec
INVARIANTS
    RunsSound
    IdeasOnce
PROPERTIES
    RunSettles
CHECK_DEADLOCK FALSE
