SPECIFICATION Spec
CONSTANTS
    m = m
    w = w
    c1 = c1
    c2 = c2
    NoCall = NoCall
    Call = {c1, c2}
    SignerOrder <- OneSigner
    CallSigner <- AllByWorker
    CallValue <- NoValue
    CallGasPrice <- LowPrice
    ConfirmationsNeeded = 2
    PendingTransactionTimeoutBlocks = 2
    RetryGasPriceFactor = 2
    MaxGasPrice = 3
    MaxBlock = 4
    MaxCrashes = 1
    MaxLost = 1
    MaxDrops = 1
    MaxReorgs = 1
SYMMETRY CallSymmetry
INVARIANTS
    TypeOK
    SameNonceSameCall
    UnconfirmedIsStored
    NoLostNonce
    RelaysAreNoEvidence
PROPERTIES
    ImplementsOutbox
