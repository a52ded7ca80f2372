CONSTANTS
    Procs <- MCProcs
    Objs <- MCObjs
    MaxRestarts = 1
    HungStrikesMax = 2
    MaxCommands = 3
    MaxWaiting = 2
    Policies = {"always", "on-failure", "never"}
    Calls = {"stop", "start", "restart"}
SPECIFICATION FairSpec
INVARIANTS
    Inv
    AtMostOneLive
PROPERTIES
    WantedComesUp
    KillsReturn
CHECK_DEADLOCK FALSE
