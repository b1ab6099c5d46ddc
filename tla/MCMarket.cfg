SPECIFICATION Spec
CONSTANTS
    Users = {u1, u2}
    Providers = {p1}
    Bonds = {12}
    Offers <- MCOffers
    MaxContractLength = 0
    InitialBalance = 12
    MaxHeight = 5
    Requests <- MCRequests
    OpenContractCost = 1
    MinProviderBond = 1
    ReserveTax = 2500
    MaxBasisPoints = 10000
    WordSize = 1024
    MaxContracts = 2
    MaxNonce = 1
SYMMETRY Symmetry
INVARIANTS
    ContractModuleBacked
    UserSetHoldsUnsettled
    OneOpenSubscription
    SettledOnTime
    SettlementWindow
PROPERTIES
    SettledIsFinal
    EscrowSpec
\* The chain is followed up to MaxHeight only.
CHECK_DEADLOCK FALSE
