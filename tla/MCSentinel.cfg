SPECIFICATION SentinelSpec
CONSTANTS
    Users = {u1}
    Providers = {p1}
    Bonds = {12}
    Offers <- MCOffers
    MaxContractLength = 0
    InitialBalance = 12
    MaxHeight = 4
    Requests <- MCRequests
    OpenContractCost = 1
    MinProviderBond = 1
    ReserveTax = 2500
    MaxBasisPoints = 10000
    WordSize = 1024
    MaxContracts = 1
    MaxNonce = 2
    Threads = {t1, t2}
    MaxPending = 2
    MaxRestarts = 1
SYMMETRY Symmetry
INVARIANTS
    SentinelTypeOK
    ClaimCoversServed
    ServedOnce
    
    
    
\* The chain is followed up to MaxHeight only.
CHECK_DEADLOCK FALSE
