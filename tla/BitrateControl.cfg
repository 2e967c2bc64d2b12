SPECIFICATION FairSpec

CONSTANTS
    MinRate = 3
    MaxRate = 10
    InitialRate = 8
    UpgradeStep = 2
    StatSize = 2
    Cooldown = 1
    Excessive = 4
    Freeze = 8
    MayRefuse = TRUE

INVARIANTS
    TypeOK

PROPERTIES
    FullWindow
    
    Converges
    StableIsReported

\* The thread ends when it is stopped.
CHECK_DEADLOCK FALSE
