CONSTANTS
    Shapes <- MCShapes
    Slots = {1, 2}
    MaxWrites = 2
    MaxFailures = 1
SPECIFICATION FairSpec
INVARIANTS
    TypeOK
    OwnWriteShown
PROPERTIES
    WatchedCatchesUp
CHECK_DEADLOCK FALSE
