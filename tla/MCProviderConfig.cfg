SPECIFICATION ConfigSpec
CONSTANTS
    btc = btc
    eth = eth
    s1 = s1
    s2 = s2
    s3 = s3
    Users = {}
    Providers = {s1, s2, s3}
    WideIds = {w}
    Names = {btc, eth}
    NoName = NoName
    NoId = NoId
    ServiceLookup <- MCServiceLookup
    Bonds <- MCBonds
    Offers <- MCOffers
    MaxContractLength = 2
    InitialBalance = 2
    MaxHeight = 1
    MaxChanges = 2
    MaxEvents = 4
    MaxRestarts = 1
INVARIANTS
    IndexesAgree
    
    ConfigFollows
CHECK_DEADLOCK FALSE
