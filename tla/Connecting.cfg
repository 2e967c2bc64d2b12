SPECIFICATION FairSpec
CONSTANTS
    PingEvery <- MCPingEvery
    MaxDelay <- MCMaxDelay
    MaxAttempts <- MCMaxAttempts
    MaxHosts <- MCMaxHosts
    Rtts <- MCRtts
INVARIANTS
    TypeOK
    Settled
    AnswersMatch
    NoticedInTime
    ReasonIsTrue
PROPERTIES
    ConnectEnds
\* The model stops after MaxAttempts.
CHECK_DEADLOCK FALSE
