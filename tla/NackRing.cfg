SPECIFICATION FairSpec
CONSTANTS
    Producers = {p1, p2}
    NoThread = none
    Kinds = {"audio", "video"}
    RingSize <- MCRingSize
    SeqMod <- MCSeqMod
    MaxFrame <- MCMaxFrame
    MaxPackets <- MCMaxPackets
INVARIANTS
    TypeOK
    PacketAccounting
    RecentIntact
    ResendIsExact
PROPERTIES
    IsPacketStream
    EverySent
\* The application may stop sending, and the model stops after MaxPackets.
CHECK_DEADLOCK FALSE
