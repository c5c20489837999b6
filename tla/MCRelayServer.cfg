SPECIFICATION FairSpec
CONSTANTS
    UnstakeDelay = 2
    OptionStake = 1
    Funds = 6
    MaxStakes = 1
    MaxTxs = 4
    MaxBlock = 6
    ManagerMinBalance = 1
    ManagerMinStake = 1
    Request = {r1}
    WorkerMinBalance = 2
    WorkerTargetBalance = 2
    RefreshStateTimeoutBlocks = 1
    RegistrationBlockRate = 2
    AlertedBlockDelay = 1
    SuccessfulRoundsForReady = 2
    MaxRoundBlocks = 2
    MaxFaults = 1
INVARIANTS
    TypeOK
    NoDuplicateRegistration
    AlertsNotLost
    ReadyIsRegistered
    RefillKeepsBounds
    WithdrawnFundsReturned
PROPERTIES
    PayoutJustified
    BecomesReady
CHECK_DEADLOCK FALSE
