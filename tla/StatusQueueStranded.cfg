SPECIFICATION Spec
CONSTANTS
    Consumers = {c1}
    Impatient = {}
    Producers = {p1}
    Destroyer = app
    NoThread = none
    MaxQueued <- MCMaxQueued
    WaitRetries <- MCWaitRetries
    MallocMayFail = FALSE
    MaxSent <- MCMaxSent
INVARIANT NoStrandedWaiter
CHECK_DEADLOCK FALSE
