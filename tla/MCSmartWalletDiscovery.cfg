SPECIFICATION Spec
CONSTANTS
    EoaGap = 1
    SWalletGap = 1
    Tokens <- MCTokens
    ReconnectionAttempts = 2
    Keys = 2
    Activities <- MCActivities
    Growth <- MCGrowth
    MaxCalls = 2
    MaxFaults = 2
INVARIANTS
    TypeOK
    DiscoversAll
    GivenUpWhenUnreachable
PROPERTIES
    SearchEnds
CHECK_DEADLOCK FALSE
