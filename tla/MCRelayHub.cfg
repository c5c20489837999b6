SPECIFICATION Spec
CONSTANTS
    Address = {a1, a2, a3}
    NoAddress = NoAddress
    MaxWorkerCount = 2
    MinimumEntryDepositValue = 1
    MinimumUnstakeDelay = 2
    MinimumStake = 2
    MsgValues = {0, 1, 2}
    UnstakeDelays = {0, 2}
    MaxUint = 4
    MaxHubBalance = 3
    MaxBatch = 2
    MaxBlock = 3
SYMMETRY AddressSymmetry
INVARIANTS
    TypeOK
    HubSolvent
    RelayIsBacked
    WorkerCountExact
    RegisteredIsAccountable
PROPERTIES
    StakeLeavesWhole
    WorkersAreForLife
CHECK_DEADLOCK FALSE
