SPECIFICATION SentinelSpec
CONSTANTS
    Users = {u1}
    Providers = {p1}
    Bonds = {12}
    Offers <- MCLongOffers
    MaxContractLength = 0
    InitialBalance = 12
    MaxHeight = 6
    Requests <- MCLongRequests
    OpenContractCost = 1
    MinProviderBond = 1
    ReserveTax = 2500
    MaxBasisPoints = 10000
    WordSize = 1024
    MaxContracts = 1
    MaxNonce = 1
    Threads = {t1, t2}
    MaxPending = 2
    MaxRestarts = 0
SYMMETRY Symmetry
INVARIANT ClaimKeptWhileClaimable
\* The chain is followed up to MaxHeight only.
CHECK_DEADLOCK FALSE
