SPECIFICATION Spec
CONSTANTS
    Users = {u1, u2}
    Providers = {p1}
    Bonds <- MCManyBonds
    Offers <- MCManyOffers
    MaxContractLength = 3
    InitialBalance = 13
    MaxHeight = 8
    Requests <- MCManyRequests
    OpenContractCost = 1
    MinProviderBond = 7
    ReserveTax = 2500
    MaxBasisPoints = 10000
    WordSize = 1024
    MaxContracts = 1
    MaxNonce = 4
SYMMETRY Symmetry
INVARIANTS
    TypeOK
    NoOverdraft
    BondModuleBacked
    DepositAccounted
    PaygPaidForSignedCalls
    SubscriptionPaidForTime
\* The chain is followed up to MaxHeight only.
CHECK_DEADLOCK FALSE
