SPECIFICATION FairSpec
CONSTANTS
    Records = {r1, r2}
    Schedulers = {s1, s2, s3}
    Unconfigured = {s3}
    Owner = deployer
    Deployer = deployer
    NumProviders = 1
    MaxBatches = 5
    BatchIds <- MCBatchIds
    MaxFaults <- MCMaxFaults
    rpc = 1
    timeout = 5
    drop = 1
    crash = 1
    redis = 1
PROPERTY EventuallySettled
CHECK_DEADLOCK FALSE
