SPECIFICATION PenalizerSpec
CONSTANTS
    a1 = a1
    a2 = a2
    a3 = a3
    Address = {a1, a2, a3}
    NoAddress = NoAddress
    MaxWorkerCount = 1
    MinimumEntryDepositValue = 1
    MinimumUnstakeDelay = 1
    MinimumStake = 1
    MsgValues = {1}
    UnstakeDelays = {1}
    MaxUint = 3
    MaxHubBalance = 2
    MaxBatch = 1
    MaxBlock = 2
    ThisHub = ThisHub
    OtherHubs = {AnotherHub}
    Tx <- MCTx
    SignedTxs <- MCSignedTxs
INVARIANTS
    PenaltiesBoundedByEvidence
    OffenderCanBePenalized
PROPERTIES
    OnlyDoubleSignersLoseStake
CHECK_DEADLOCK FALSE
VIEW RelevantState
