CONSTANTS
    Sources = 2
    MaxRows = 3
    text1 = text1
    text2 = text2
    Contents <- MCContents
    Junk = junk
    BatchSize = 2
    Cap = 1
    MaxFaults = 2
SPECIFICATION FairSpec
INVARIANTS
    Inv
    StoredOnce
PROPERTIES
    CatchesUp
