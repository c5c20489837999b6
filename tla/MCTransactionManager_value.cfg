SPECIFICATION Spec
CONSTANTS
    m = m
    w = w
    c1 = c1
    c2 = c2
    NoCall = NoCall
    Call = {c1}
    SignerOrder <- OneSigner
    CallSigner <- AllByWorker
    CallValue <- FirstTransfers
    CallGasPrice <- LowPrice
    ConfirmationsNeeded = 1
    PendingTransactionTimeoutBlocks = 1
    RetryGasPriceFactor = 2
    MaxGasPrice = 2
    MaxBlock = 4
    MaxCrashes = 0
    MaxLost = 0
    MaxDrops = 0
    MaxReorgs = 0
INVARIANTS
    ResentTransfersTheSame
