CONSTANTS
    Commands = {c1}
    old = old
    new = new
    agent = agent
    CronInstances <- MCCronInstances
    AgentInstances <- MCAgentInstances
    MaxDbErrors = 1
SPECIFICATION FairSpec
INVARIANTS
    HeldByOneHandler
    RunsOnceWhereAddressed
PROPERTIES
    DrainedInstanceExits
    PendingIsTaken
    AtMostOnceChannel
CHECK_DEADLOCK FALSE
