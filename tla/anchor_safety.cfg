SPECIFICATION Spec
CONSTANTS
    Records = {r1, r2, r3}
    Schedulers = {s1, s2}
    Unconfigured = {}
    Owner = deployer
    Deployer = deployer
    NumProviders = 2
    MaxBatches = 3
    BatchIds <- MCBatchIds
    MaxFaults <- MCMaxFaults
    rpc = 2
    timeout = 1
    drop = 1
    crash = 1
    redis = 1
SYMMETRY Symmetry
INVARIANTS
    TypeOK
    NoRecordLost
    SingleCustody
    AnchoredTwiceOnlyIfUnacked
PROPERTY LedgerSpec
CHECK_DEADLOCK FALSE
