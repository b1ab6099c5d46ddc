--------------------------- MODULE ServiceRegistry ---------------------------
(***************************************************************************)
(* The service registry of x/arkeo: the services by name with a second     *)
(* index from id to name, seeded once from the static list, and the        *)
(* provider messages that name a service.  One provider is followed; its   *)
(* record for the service with id i is providers[i], and the coins it sets *)
(* aside for each service are kept in an account of their own.             *)
(* Names are compared in lower case and stand here in lower case.          *)
(***************************************************************************)
EXTENDS ProviderRegistry

CONSTANTS
    Names,          \* names of services, in lower case
    NoName,         \* no entry in the index by id
    NoId,           \* no entry in the index by name; the id zero
    WideIds,        \* ids that do not fit in 32 bits
    ServiceLookup,  \* the static list, from names to ids
    MaxChanges      \* bound: messages of the authority

VARIABLES
    services,   \* the id stored under a name
    index,      \* the name stored under an id
    marked,     \* the mark that the registry was seeded
    changes     \* messages of the authority so far

serviceVars == <<services, index, marked, changes>>

\* A provider's record exists for an id of 32 bits only.
Ids == Providers \cup WideIds

ASSUME ServiceAssumptions ==
    /\ NoId \notin Ids
    /\ WideIds \cap Providers = {}
    /\ NoName \notin Names
    /\ MaxChanges \in Nat
    /\ DOMAIN ServiceLookup \subseteq Names
    /\ \A n \in DOMAIN ServiceLookup : ServiceLookup[n] \in Providers
    /\ \A m, n \in DOMAIN ServiceLookup :
         ServiceLookup[m] = ServiceLookup[n] => m = n

\* GetService finds a record.
HasService(n) == services[n] # NoId

\* Mutant: an id never counts as taken.
HasServiceByID_Never(id) == FALSE

\* GetServiceByID finds a record, through the index and then by name.
HasServiceByID(id) == index[id] # NoName /\ HasService(index[id])

\* SetService of an id other than zero.
SetService(n, id) ==
    /\ services' = [services EXCEPT ![n] = id]
    /\ index' = [index EXCEPT ![id] = n]

\* The registry filled from the static list.
Seeded ==
    [n \in Names |-> IF n \in DOMAIN ServiceLookup THEN ServiceLookup[n] ELSE NoId]

\* The index that goes with a registry without repeated ids.
IndexOf(svcs) ==
    [i \in Ids |-> IF \E n \in Names : svcs[n] = i
                   THEN CHOOSE n \in Names : svcs[n] = i ELSE NoName]

\* BeginBlock comes before the messages of a block, so they find the mark set.
EnsureServiceRegistrySeeded ==
    /\ ~marked
    /\ marked' = TRUE
    /\ IF \E n \in Names : HasService(n) THEN UNCHANGED <<services, index>>
       ELSE services' = Seeded /\ index' = IndexOf(Seeded)
    /\ UNCHANGED <<registryVars, changes>>

\* A message of the authority.
AuthorityMessage ==
    /\ marked
    /\ changes < MaxChanges
    /\ changes' = changes + 1
    /\ UNCHANGED <<registryVars, marked>>

RegisterService(n, id) ==
    /\ AuthorityMessage
    /\ ~HasService(n)
    /\ ~HasServiceByID(id)
    /\ SetService(n, id)

\* The description and the type, which it may change, are left out.
UpdateService(n, id) ==
    /\ AuthorityMessage
    /\ HasService(n)
    /\ services[n] = id
    /\ SetService(n, id)

\* Mutant: the entry by id is left behind.
IndexWithout_Kept(id) == index

\* The index without the entry of an id.
IndexWithout(id) == [index EXCEPT ![id] = NoName]

RemoveService(n) ==
    /\ AuthorityMessage
    /\ HasService(n)
    /\ index' = IndexWithout(services[n])
    /\ services' = [services EXCEPT ![n] = NoId]

\* ResolveServiceEnum finds the service and its id fits.
Resolves(n) == HasService(n) /\ services[n] \notin WideIds

\* MsgBondProvider and MsgModProvider, for the service the name resolves to.
BondService(n, bond) ==
    /\ marked
    /\ Resolves(n)
    /\ BondProvider(services[n], bond)
    /\ UNCHANGED serviceVars

ModService(n, o) ==
    /\ marked
    /\ Resolves(n)
    /\ ModProvider(services[n], o)
    /\ UNCHANGED serviceVars

\* A genesis with the static list, or a store from before the registry.
ServiceInit ==
    /\ RegistryInit
    /\ services \in {Seeded, [n \in Names |-> NoId]}
    /\ index = IndexOf(services)
    /\ marked = FALSE
    /\ changes = 0

ServiceChange ==
    \/ EnsureServiceRegistrySeeded
    \/ \E n \in Names, id \in Ids : RegisterService(n, id)
    \/ \E n \in Names, id \in Ids : UpdateService(n, id)
    \/ \E n \in Names : RemoveService(n)

ProviderChange ==
    \/ \E n \in Names, bond \in Bonds : BondService(n, bond)
    \/ \E n \in Names, o \in Offers : ModService(n, o)

ServiceNext == ServiceChange \/ ProviderChange

ServiceSpec == ServiceInit /\ [][ServiceNext]_<<registryVars, serviceVars>>

-----------------------------------------------------------------------------
\* The registry's functions have their types.
ServiceTypeOK ==
    /\ services \in [Names -> Ids \cup {NoId}]
    /\ index \in [Ids -> Names \cup {NoName}]

\* The two indexes of the registry, which every operation updates one after
\* the other, always say the same: an id is stored under a name exactly when
\* the name is stored under the id, so no two names share an id.
IndexesAgree ==
    /\ \A n \in Names : services[n] # NoId => index[services[n]] = n
    /\ \A i \in Ids : index[i] # NoName => services[index[i]] = i

\* A provider's bond is reached by a service name.  When the service was
\* removed, and its name perhaps given to another id, the authority can still
\* register the id again: whoever holds a bond is never shut out for good.
BondReachable ==
    \A i \in Providers : providers[i].bond > 0 =>
        (\E n \in Names : services[n] = i) \/ ~HasServiceByID(i)
=============================================================================
