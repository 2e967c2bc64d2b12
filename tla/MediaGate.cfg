SPECIFICATION FairSpec

CONSTANTS
    app = app
    vid = vid
    stat = stat
    NoOne = NoOne
    Threads <- MCThreads
    Calls <- MCCalls
    MayFill = {"audio", "video"}
    MaxLeaks = 1
    MaxInits = 2
    MaxTestPkts = 1

INVARIANTS
    TypeOK
    
    AudioWaitsForVideo

PROPERTIES
    CallsEnd
