SPECIFICATION Spec
CONSTANTS
    Chains <- MCChains
    Providers = {"p"}
    Ids = {1, 2}
    MaxNonce = 2
    MaxFaults = 2
INVARIANTS
    IndexerTypeOK
    NoBlockSkipped
    DirectoryAgrees
    
    PaidAtLeastOnce
    RecordsWithinPaid
    MetadataCurrent
PROPERTIES
    EventuallyIndexed
