SPECIFICATION FairSpec

CONSTANTS
    App = App
    NoOne = NoOne
    MaxConnects = 3
    ConnectWhen = {"told"}
    EarlyDrop = FALSE
    CreateMayFail = TRUE

INVARIANTS
    TypeOK
    
    
    

PROPERTIES
    DropReported
    CallsReturn

\* The system stops when the handle is freed.
CHECK_DEADLOCK FALSE
