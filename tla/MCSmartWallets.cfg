SPECIFICATION Spec
CONSTANTS
    o1 = o1
    o2 = o2
    k1 = k1
    k2 = k2
    t1 = t1
    l1 = l1
    NoOne = NoOne
    NoLogic = NoLogic
    Owner = {o1, o2}
    Logic = {l1}
    Wallet <- MCWallet
    Worker = {k1, k2}
    Token = {t1}
    RelayRequest <- MCRelayRequest
    DeployRequest <- MCDeployRequest
    MaxTokens = 1
INVARIANTS
    TypeOK
    WalletsAreTheirOwners
    CheckedRequestsStayGood
PROPERTIES
    ImplementsRelayedCalls
CHECK_DEADLOCK FALSE
