SPECIFICATION FairSpec
CONSTANTS
    m = m
    w = w
    c1 = c1
    c2 = c2
    NoCall = NoCall
    Call = {c1, c2}
    SignerOrder <- OneSigner
    CallSigner <- AllByWorker
    CallValue <- NoValue
    CallGasPrice <- LowPrice
    ConfirmationsNeeded = 1
    PendingTransactionTimeoutBlocks = 1
    RetryGasPriceFactor = 2
    MaxGasPrice = 2
    MaxBlock = 4
    MaxCrashes = 0
    MaxLost = 0
    MaxDrops = 0
    MaxReorgs = 0
PROPERTIES
    OldestPendingIsResent
