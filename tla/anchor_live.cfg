SPECIFICATION FairSpec
CONSTANTS
    Records = {r1, r2}
    Schedulers = {s1, s2}
    Unconfigured = {}
    Owner = deployer
    Deployer = deployer
    NumProviders = 2
    MaxBatches = 6
    BatchIds <- MCBatchIds
    MaxFaults <- MCMaxFaults
    rpc = 2
    timeout = 0
    drop = 0
    crash = 0
    redis = 0
PROPERTY EventuallyAnchored
CHECK_DEADLOCK FALSE
