SPECIFICATION FairSpec
CONSTANTS
    Consumers = {c1, c2}
    Impatient = {c2}
    Producers = {p1}
    Destroyer = app
    NoThread = none
    MaxQueued <- MCMaxQueued
    WaitRetries <- MCWaitRetries
    MallocMayFail = TRUE
    MaxSent <- MCMaxSent
INVARIANTS
    TypeOK
    TokenAccounting
PROPERTIES
    IsDropOldestQueue
    DestroyEnds
\* The handle is freed at the end, and an allocation failure can stop every thread.
CHECK_DEADLOCK FALSE
