CONSTANTS
    m1 = m1  m2 = m2  m3 = m3
    u1 = u1  u2 = u2  u3 = u3
    Manager = {m1, m2, m3}
    NoManager = NoManager
    Url = {u1, u2, u3}
    Log <- MCLog
    PreferredRelays <- MCPreferredRelays
    LatestBlock = 5
    LookupWindowBlocks = 4
    LookupWindowParts = 1
    QueryLimit = 2
    SliceSize = 2
    MaxFailures = 1
    Failures <- MCFailures
    MaxCalls = 1
    MaxOther = 1
    MaxSends = 1
SPECIFICATION Spec
INVARIANTS
    TypeOK
    RepeatedOnlyAfterLoss
    NoRelayTwice
    EveryRelayTried
    KnownAreRegistered
PROPERTIES
    CallEnds
CHECK_DEADLOCK FALSE
