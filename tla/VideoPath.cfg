SPECIFICATION Spec
CONSTANTS
    Files <- MCFiles
    Mtu <- MCMtu
    HeaderLen <- MCHeaderLen
    FuaLen <- MCFuaLen
    RingSize <- MCRingSize
INVARIANTS
    TypeOK
    ReassemblesUnits
PROPERTIES
    NothingAfterAGap
    MarkerEndsPicture
    MarkerMovesTime
