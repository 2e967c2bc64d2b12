SPECIFICATION FairSpec
CONSTANTS
    Mtu <- MCMtu
    MaxLevelMs <- MCMaxLevelMs
    Rates <- MCRates
    MaxRate <- MCMaxRate
    TicksPerMs <- MCTicksPerMs
    MaxIdle <- MCMaxIdle
INVARIANTS
    TypeOK
    OneSleepIsEnough
    RateBound
PROPERTIES
    ThreadExits
\* The thread exits.
CHECK_DEADLOCK FALSE
