SPECIFICATION Spec
CONSTANTS
    Records = {r1, r2}
    Schedulers = {s1}
    Unconfigured = {}
    Owner = deployer
    Deployer = deployer
    NumProviders = 2
    MaxBatches = 2
    BatchIds <- MCBatchIds
    MaxFaults <- MCMaxFaults
    rpc = 0
    timeout = 1
    drop = 1
    crash = 0
    redis = 0
INVARIANT FailureRequeues
CHECK_DEADLOCK FALSE
