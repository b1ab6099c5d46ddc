SPECIFICATION Spec
CONSTANTS
    a1 = a1
    a2 = a2
    e1 = e1
    Addresses = {a1, a2}
    EthAddresses = {e1}
    Genesis <- MCGenesis
    EthGenesis <- MCEthGenesis
    AirdropStartTime = 1
    Durations <- MCDurations
    FixedDurations <- MCFixedDurations
    MovedBack = 9
    InitialReserve = 2
    MaxTime = 8
INVARIANTS
    AirdropTypeOK
    
    
PROPERTIES
    ClaimableNeverGrows
    
    
