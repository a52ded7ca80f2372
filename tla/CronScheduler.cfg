CONSTANTS
    Jobs = {j1, j2}
    Schedules <- MCSchedules
    MaxConcurrency = 2
    MaxTime = 2
    MaxRuns = 2
    MaxWrites = 1
    MaxCommands = 1
    MaxRestarts = 1
    MaxErrors = 1
SPECIFICATION FairSpec
INVARIANTS
    Inv
    AppointmentStands
PROPERTIES
    AppointmentKept
CHECK_DEADLOCK FALSE
