SPECIFICATION FairSpec
CONSTANTS
    PingEvery <- MCPingEvery
    MaxDelay <- MCMaxDelay
    MaxAttempts <- MCMaxAttempts
    MaxHosts <- MCMaxHosts
    Rtts <- MCRtts
INVARIANT
    ResolvableChosen
CHECK_DEADLOCK FALSE
