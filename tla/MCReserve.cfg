SPECIFICATION RewardsSpec
CONSTANTS
    v1 = v1
    v2 = v2
    v3 = v3
    Validators <- MCValidators
    Shares <- MCShares
    SWVersion = 2
    Versions = {2}
    VersionConsensus = 90
    EmissionCurve = 2
    BlocksPerYear = 2
    ValidatorPayoutCycle = 1
    Precision = 1000
    InitialReserves = {43}
    MaxBlocks = 2
    MaxFaults = 1
INVARIANTS
    RewardsBacked
PROPERTIES
    RewardBounded
    
CHECK_DEADLOCK FALSE
