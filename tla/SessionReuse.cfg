SPECIFICATION Spec

CONSTANTS
    App = App
    NoOne = NoOne
    MaxConnects = 2
    ConnectWhen = {"disconnected"}
    EarlyDrop = FALSE
    CreateMayFail = FALSE

INVARIANTS
    ShutsDownItsOwn

\* The system stops when the handle is freed.
CHECK_DEADLOCK FALSE
