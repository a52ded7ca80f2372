CONSTANTS
    m1 = m1
    s1 = s1
    s2 = s2
    c1 = c1
    c2 = c2
    Monitors <- MCMonitors
    Stories <- MCOneStory
    Channels <- MCChannels
    BatchLimit = 1
    DedupeLimit = 3
    MaxRows = 3
    MaxRouteChanges = 2
    MaxCrashes = 1
SPECIFICATION FairSpec
INVARIANTS
    DeliveredWasPosted
    CandidateSkipsDelivered
PROPERTIES
    SentReachedAll
    LedgerGrows
    PendingIsSent
