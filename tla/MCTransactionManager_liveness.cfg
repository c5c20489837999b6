SPECIFICATION FairSpec
CONSTANTS
    m = m
    w = w
    c1 = c1
    c2 = c2
    NoCall = NoCall
    Call = {c1, c2}
    SignerOrder <- TwoSigners
    CallSigner <- FirstByManager
    CallValue <- NoValue
    CallGasPrice <- LowPrice
    ConfirmationsNeeded = 1
    PendingTransactionTimeoutBlocks = 1
    RetryGasPriceFactor = 2
    MaxGasPrice = 2
    MaxBlock = 3
    MaxCrashes = 1
    MaxLost = 1
    MaxDrops = 0
    MaxReorgs = 0
PROPERTIES
    MinedEntriesLeave
    OldestStoredIsResent
