-------------------------- MODULE ProviderRegistry --------------------------
(***************************************************************************)
(* The provider records of x/arkeo: BondProvider moves coins between the   *)
(* provider's account and the bond module, ModProvider publishes the terms *)
(* on which contracts may be opened.  A record exists while its bond is    *)
(* not zero; a missing record reads as NewProvider.  Of LastUpdate only    *)
(* whether it was ever set is read, so that is what "updated" keeps.       *)
(***************************************************************************)
EXTENDS Bank

CONSTANTS
    Bonds,              \* amounts a MsgBondProvider may carry, of either sign
    Offers,             \* terms a MsgModProvider may carry
    MaxContractLength,  \* configs.MaxContractLength; 0 disables the limit
    InitialBalance,     \* opening balance of every user and provider account
    MaxHeight           \* bound: the last block that is followed

VARIABLES
    height,     \* height of the block whose transactions are being delivered
    bank,       \* balance of every account
    providers   \* GetProvider(p), the zero record when p is not stored

registryVars == <<height, bank, providers>>

ASSUME RegistryAssumptions ==
    /\ Bonds \subseteq Int
    /\ MaxContractLength \in Nat
    /\ InitialBalance \in Nat
    /\ MaxHeight \in Nat \ {0}
    /\ \A o \in Offers :
         /\ o.status \in {"OFFLINE", "ONLINE"}
         /\ {o.minContractDuration, o.maxContractDuration, o.subscriptionRate,
             o.payAsYouGoRate, o.settlementDuration, o.metadataNonce} \subseteq Int

NewProvider ==
    [bond |-> 0, updated |-> FALSE, status |-> "OFFLINE", metadataNonce |-> 0,
     minContractDuration |-> 0, maxContractDuration |-> 0,
     subscriptionRate |-> 0, payAsYouGoRate |-> 0, settlementDuration |-> 0]

ProviderRecord ==
    [bond : Nat, updated : BOOLEAN, status : {"OFFLINE", "ONLINE"},
     metadataNonce : Nat,
     minContractDuration : Nat, maxContractDuration : Nat,
     subscriptionRate : Nat, payAsYouGoRate : Nat, settlementDuration : Nat]

\* Mutant: a provider that goes offline is deleted along with its bond.
SetProvider_DropsOffline(p, record) ==
    providers' = [providers EXCEPT
                    ![p] = IF record.bond = 0 \/ record.status = "OFFLINE"
                           THEN NewProvider ELSE record]

\* SetProvider with a zero bond, and RemoveProvider, delete the record.
SetProvider(p, record) ==
    providers' = [providers EXCEPT
                    ![p] = IF record.bond = 0 THEN NewProvider ELSE record]

BondProvider(p, bond) ==
    LET bonded == providers[p].bond + bond
        next   == [providers[p] EXCEPT !.bond = bonded, !.updated = TRUE]
    IN  /\ \/ /\ bond > 0
              /\ HasCoins(bank, p, bond)
           \/ /\ bond < 0
              /\ providers[p].bond >= -bond
        /\ bank' = Send(bank, p, ProviderName, bond)
        /\ SetProvider(p, next)
        /\ UNCHANGED height

\* MsgModProvider.ValidateBasic.  A rate of zero stands for an empty coin list,
\* which the message validation refuses.
ValidOffer(o) ==
    /\ o.minContractDuration > 0
    /\ o.minContractDuration <= o.maxContractDuration
    /\ o.settlementDuration >= 0
    /\ o.subscriptionRate > 0
    /\ o.payAsYouGoRate > 0

\* The record after ModProviderHandle; the metadata nonce never goes back.
Modified(record, o) ==
    [record EXCEPT
        !.status              = o.status,
        !.metadataNonce       = IF @ < o.metadataNonce THEN o.metadataNonce ELSE @,
        !.minContractDuration = o.minContractDuration,
        !.maxContractDuration = o.maxContractDuration,
        !.subscriptionRate    = o.subscriptionRate,
        !.payAsYouGoRate      = o.payAsYouGoRate,
        !.settlementDuration  = o.settlementDuration,
        !.updated             = TRUE]

ModProvider(p, o) ==
    /\ ValidOffer(o)
    /\ MaxContractLength > 0 => /\ o.maxContractDuration <= MaxContractLength
                                /\ o.minContractDuration <= MaxContractLength
    /\ providers[p].bond # 0
    /\ SetProvider(p, Modified(providers[p], o))
    /\ UNCHANGED <<height, bank>>

RegistryInit ==
    /\ height = 1
    /\ bank = [a \in Accounts |-> IF a \in ModuleAccounts THEN 0 ELSE InitialBalance]
    /\ providers = [p \in Providers |-> NewProvider]

RegistryNext ==
    \/ \E p \in Providers, bond \in Bonds : BondProvider(p, bond)
    \/ \E p \in Providers, o \in Offers : ModProvider(p, o)
=============================================================================
