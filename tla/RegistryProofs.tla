--------------------------- MODULE RegistryProofs ---------------------------
(***************************************************************************)
(* The service registry, for every set of names, ids and static services   *)
(* without repeated ids: its two indexes agree, a bond stays reachable,    *)
(* and the sentinel's configurations do not disturb the chain they follow, *)
(* and follow it.  The last needs an invariant of the events on their way: *)
(* those of a service lead, one after the other, from the configuration    *)
(* that the sentinel keeps to the record on the chain.                     *)
(***************************************************************************)
EXTENDS ProviderConfig, TLAPS

-----------------------------------------------------------------------------
(* The service registry *)

\* The inductive invariant: the agreement of the indexes needs only the types.
ServiceInv == ServiceTypeOK /\ IndexesAgree

\* SetService of a name and an id that are both free, as RegisterService
\* establishes, keeps the indexes in agreement.
LEMMA SetServiceAgrees ==
    ASSUME ServiceInv, NEW n \in Names, NEW id \in Ids,
           SetService(n, id),
           \/ services[n] = NoId /\ index[id] = NoName
           \/ services[n] = id
    PROVE  ServiceInv'
  BY ServiceAssumptions DEF ServiceInv, ServiceTypeOK, IndexesAgree, SetService

\* The index computed for a registry without repeated ids, as the seeding
\* builds it, agrees with the registry.
LEMMA IndexOfAgrees ==
    ASSUME NEW svcs \in [Names -> Ids \cup {NoId}],
           \A m, n \in Names : svcs[m] = svcs[n] /\ svcs[m] # NoId => m = n
    PROVE  /\ IndexOf(svcs) \in [Ids -> Names \cup {NoName}]
           /\ \A n \in Names : svcs[n] # NoId => IndexOf(svcs)[svcs[n]] = n
           /\ \A i \in Ids : IndexOf(svcs)[i] # NoName => svcs[IndexOf(svcs)[i]] = i
<1> DEFINE named(i) == \E n \in Names : svcs[n] = i
           name(i)  == CHOOSE n \in Names : svcs[n] = i
<1>1. \A i \in Ids : named(i) => name(i) \in Names /\ svcs[name(i)] = i
  OBVIOUS
<1>2. IndexOf(svcs) = [i \in Ids |-> IF named(i) THEN name(i) ELSE NoName]
  BY DEF IndexOf
<1> HIDE DEF named, name
<1>3. IndexOf(svcs) \in [Ids -> Names \cup {NoName}]
  BY <1>1, <1>2
<1>4. ASSUME NEW n \in Names, svcs[n] # NoId
      PROVE  IndexOf(svcs)[svcs[n]] = n
  <2>1. svcs[n] \in Ids /\ named(svcs[n])
    BY <1>4 DEF named
  <2>2. name(svcs[n]) = n
    BY <1>1, <1>4, <2>1
  <2> QED
    BY <1>2, <2>1, <2>2
<1>5. ASSUME NEW i \in Ids, IndexOf(svcs)[i] # NoName
      PROVE  svcs[IndexOf(svcs)[i]] = i
  BY <1>1, <1>2, <1>5
<1> QED
  BY <1>3, <1>4, <1>5

\* The static list has no repeated id, so its registry has none.
LEMMA SeededDistinct ==
    /\ Seeded \in [Names -> Ids \cup {NoId}]
    /\ \A m, n \in Names : Seeded[m] = Seeded[n] /\ Seeded[m] # NoId => m = n
  BY ServiceAssumptions DEF Seeded, Ids

\* A genesis with the static list and a store from before the registry both
\* start with indexes that agree.
LEMMA ServiceInitAgrees ==
    ASSUME ServiceInit
    PROVE  ServiceInv
<1>1. services \in [Names -> Ids \cup {NoId}]
  BY SeededDistinct DEF ServiceInit
<1>2. \A m, n \in Names : services[m] = services[n] /\ services[m] # NoId => m = n
  BY SeededDistinct DEF ServiceInit
<1>3. index = IndexOf(services)
  BY DEF ServiceInit
<1> QED
  BY <1>1, <1>2, <1>3, IndexOfAgrees DEF ServiceInv, ServiceTypeOK, IndexesAgree

\* Every message of the authority, the seeding in BeginBlock and every message
\* of a provider keep the indexes in agreement.
LEMMA ServiceStepAgrees ==
    ASSUME ServiceInv, [ServiceNext]_<<registryVars, serviceVars>>
    PROVE  ServiceInv'
<1>1. CASE EnsureServiceRegistrySeeded
  <2>1. CASE UNCHANGED <<services, index>>
    BY <2>1 DEF ServiceInv, ServiceTypeOK, IndexesAgree
  <2>2. CASE services' = Seeded /\ index' = IndexOf(Seeded)
    BY <2>2, SeededDistinct, IndexOfAgrees DEF ServiceInv, ServiceTypeOK, IndexesAgree
  <2> QED
    BY <1>1, <2>1, <2>2 DEF EnsureServiceRegistrySeeded
<1>2. ASSUME NEW n \in Names, NEW id \in Ids, RegisterService(n, id)
      PROVE  ServiceInv'
  <2>1. services[n] = NoId /\ SetService(n, id)
    BY <1>2 DEF RegisterService, HasService
  <2>2. index[id] = NoName
    BY <1>2, ServiceAssumptions
    DEF RegisterService, HasServiceByID, HasService, ServiceInv, ServiceTypeOK, IndexesAgree
  <2> QED
    BY <2>1, <2>2, SetServiceAgrees
<1>3. ASSUME NEW n \in Names, NEW id \in Ids, UpdateService(n, id)
      PROVE  ServiceInv'
  BY <1>3, SetServiceAgrees DEF UpdateService
<1>4. ASSUME NEW n \in Names, RemoveService(n)
      PROVE  ServiceInv'
  BY <1>4, ServiceAssumptions
  DEF RemoveService, HasService, IndexWithout, ServiceInv, ServiceTypeOK, IndexesAgree
<1>5. CASE ProviderChange
  BY <1>5 DEF ProviderChange, BondService, ModService, serviceVars,
              ServiceInv, ServiceTypeOK, IndexesAgree
<1>6. CASE UNCHANGED <<registryVars, serviceVars>>
  BY <1>6 DEF serviceVars, ServiceInv, ServiceTypeOK, IndexesAgree
<1> QED
  BY <1>1, <1>2, <1>3, <1>4, <1>5, <1>6 DEF ServiceNext, ServiceChange

\* A bond under an id is reached by name, or the id is free to be registered.
LEMMA AgreementReaches ==
    ASSUME ServiceInv
    PROVE  BondReachable
  BY ServiceAssumptions
  DEF BondReachable, HasServiceByID, HasService, ServiceInv, ServiceTypeOK,
      IndexesAgree, Ids

\* RegisterService, UpdateService, RemoveService and the seeding keep the two
\* indexes of the registry in agreement, whatever they are called with.
THEOREM ServiceIndexesAgree == ServiceSpec => []IndexesAgree
<1>1. ServiceInit => ServiceInv
  BY ServiceInitAgrees
<1>2. ServiceInv /\ [ServiceNext]_<<registryVars, serviceVars>> => ServiceInv'
  BY ServiceStepAgrees
<1>3. ServiceInv => IndexesAgree
  BY DEF ServiceInv
<1> QED
  BY <1>1, <1>2, <1>3, PTL DEF ServiceSpec

\* Removing a service, or giving its name to another id, never puts the bond
\* held under its id out of reach of the authority and the provider.
THEOREM ServiceBondReachable == ServiceSpec => []BondReachable
<1>1. ServiceInit => ServiceInv
  BY ServiceInitAgrees
<1>2. ServiceInv /\ [ServiceNext]_<<registryVars, serviceVars>> => ServiceInv'
  BY ServiceStepAgrees
<1>3. ServiceInv => BondReachable
  BY AgreementReaches
<1> QED
  BY <1>1, <1>2, <1>3, PTL DEF ServiceSpec

\* A step of the chain and of the sentinel is a step of the registry, or leaves it alone.
LEMMA ConfigStepsService ==
    [ConfigNext]_configSpecVars => [ServiceNext]_<<registryVars, serviceVars>>
<1> SUFFICES ASSUME [ConfigNext]_configSpecVars
             PROVE  [ServiceNext]_<<registryVars, serviceVars>>
  OBVIOUS
<1>1. ASSUME NEW n \in Names, NEW bond \in Bonds, NEW spelled \in BOOLEAN,
             NEW first \in BOOLEAN, ChainBondProvider(n, bond, spelled, first)
      PROVE  ServiceNext
  BY <1>1 DEF ChainBondProvider, ServiceNext, ProviderChange
<1>2. ASSUME NEW n \in Names, NEW o \in Offers, NEW first \in BOOLEAN,
             ChainModProvider(n, o, first)
      PROVE  ServiceNext
  BY <1>2 DEF ChainModProvider, ServiceNext, ProviderChange
<1>3. CASE ChainChangesServices
  BY <1>3 DEF ChainChangesServices, ServiceNext
<1>4. CASE HandleBondProviderEvent \/ HandleModProviderEvent \/ Restart
  BY <1>4 DEF HandleBondProviderEvent, HandleModProviderEvent, Restart
<1>5. CASE UNCHANGED configSpecVars
  BY <1>5 DEF configSpecVars
<1> QED
  BY <1>1, <1>2, <1>3, <1>4, <1>5 DEF ConfigNext

\* The chain followed by a sentinel is the chain: every step of the two
\* together is a step of the registry and the provider, or leaves both alone.
THEOREM ConfigImplementsService == ConfigSpec => ServiceSpec
<1>1. ConfigInit => ServiceInit
  BY DEF ConfigInit
<1> QED
  BY <1>1, ConfigStepsService, PTL DEF ConfigSpec, ServiceSpec

-----------------------------------------------------------------------------
(* The configurations follow the chain *)

Fields(statuses) ==
    [bond : Int, updated : BOOLEAN, status : statuses, metadataNonce : Int,
     minContractDuration : Int, maxContractDuration : Int,
     subscriptionRate : Int, payAsYouGoRate : Int, settlementDuration : Int]

\* What a record of the chain, and a configuration, may be.
Records == Fields({"OFFLINE", "ONLINE"})
AnyRecord == Fields({"OFFLINE", "ONLINE", "NONE"})
Configs == {c \in AnyRecord : c.updated = FALSE /\ (c.status = "NONE" => c = NoConfig)}

EventType == [number : Nat, id : Providers, filed : Providers \cup {NoId}, record : Records]

Published(r) == r.minContractDuration > 0

\* A change of the bond takes one record to the other.
SameTerms(a, b) ==
    [a EXCEPT !.bond = b.bond, !.updated = FALSE] = [b EXCEPT !.updated = FALSE]

Follows(c, r) ==
    /\ c.bond = r.bond
    /\ Published(r) => c = [r EXCEPT !.updated = FALSE]

\* Of the events P, f and e are next to each other; e is the first; e is the last.
Adjacent(P, f, e) ==
    f.number < e.number /\ \A g \in P : g.number <= f.number \/ e.number <= g.number

First(P, e) == \A f \in P : e.number <= f.number

Last(P, e) == \A f \in P : f.number <= e.number

\* What the events of one service on their way, B of bonds and M of terms, say: the last
\* one has the chain's record r; a bond is a change of the bond from the event before it,
\* or from the configuration c, once terms are published; and terms come after a bond.
InOrder(B, M, c, r) ==
    /\ \A e \in B \cup M : Last(B \cup M, e) => e.record = r
    /\ B \cup M = {} => Follows(c, r)
    /\ \A e \in B : Published(e.record) =>
         /\ \A f \in B \cup M : Adjacent(B \cup M, f, e) =>
              Published(f.record) /\ SameTerms(f.record, e.record)
         /\ First(B \cup M, e) => Published(c) /\ SameTerms(c, e.record)
    /\ c = NoConfig => \A e \in M : \E f \in B : f.number < e.number

\* Events are told apart by their numbers.
Apart(B, M) ==
    /\ \A e \in B \cup M : e \in EventType
    /\ \A e, f \in B \cup M : e.number = f.number => e = f
    /\ B \cap M = {}

Of(queue, s) == {e \in Range(queue) : e.filed = s}

Increasing(queue) ==
    \A i, j \in DOMAIN queue : i < j => queue[i].number < queue[j].number

ConfigTypes ==
    /\ providers \in [Providers -> Records]
    /\ configs \in [Providers \cup {NoId} -> Configs]
    /\ emitted \in Nat
    /\ bondEvents \in Seq(EventType) /\ modEvents \in Seq(EventType)

Numbered ==
    /\ Increasing(bondEvents) /\ Increasing(modEvents)
    /\ \A e \in Range(bondEvents) \cup Range(modEvents) : e.number <= emitted
    /\ \A e \in Range(bondEvents), f \in Range(modEvents) : e.number # f.number

ConfigInv ==
    /\ ConfigTypes /\ Numbered
    /\ \A s \in StaticIds \ disturbed :
         InOrder(Of(bondEvents, s), Of(modEvents, s), configs[s], providers[s])

\* Records of the chain and configurations have the same fields.
LEMMA RecordKinds ==
    /\ Records \subseteq AnyRecord /\ Configs \subseteq AnyRecord
    /\ \A c \in Configs : c.updated = FALSE
    /\ NewProvider \in Records /\ NewProvider \in Configs /\ NoConfig \in Configs
    /\ ~Published(NewProvider) /\ ~Published(NoConfig) /\ NoConfig.bond = 0
    /\ \A r \in Records : r # NoConfig /\ [r EXCEPT !.updated = FALSE] # NoConfig
    /\ \A r \in Records : [r EXCEPT !.updated = FALSE] \in Configs
<1>1. Records \subseteq AnyRecord /\ Configs \subseteq AnyRecord
  BY DEF Records, Configs, AnyRecord, Fields
<1>2. \A c \in Configs : c.updated = FALSE
  BY DEF Configs
<1>3. /\ NewProvider \in Records /\ NewProvider \in AnyRecord
      /\ NewProvider.status = "OFFLINE" /\ NewProvider.updated = FALSE
      /\ NewProvider.bond = 0 /\ NewProvider.minContractDuration = 0
  BY DEF NewProvider, Records, AnyRecord, Fields
<1>4. /\ NoConfig \in AnyRecord /\ NoConfig.bond = 0 /\ NoConfig.status = "NONE"
      /\ NoConfig.updated = FALSE /\ NoConfig.minContractDuration = 0
  BY <1>3, ZenonT(60) DEF NoConfig, AnyRecord, Fields
<1>5. NewProvider \in Configs /\ NoConfig \in Configs
  <2>1. NewProvider.status # "NONE"
    BY <1>3
  <2> QED
    BY <1>3, <1>4, <2>1, ZenonT(60) DEF Configs
<1>6. ~Published(NewProvider) /\ ~Published(NoConfig)
  BY <1>3, <1>4 DEF Published
<1>7. ASSUME NEW r \in Records
      PROVE  /\ [r EXCEPT !.updated = FALSE].status # "NONE" /\ r.status # "NONE"
             /\ [r EXCEPT !.updated = FALSE] \in Configs
  <2>1. r.status # "NONE"
    BY DEF Records, Fields
  <2>2. PICK c : c = [r EXCEPT !.updated = FALSE]
    BY ZenonT(60)
  <2>3. c.status = r.status /\ c.updated = FALSE /\ c \in AnyRecord
    BY <2>2, ZenonT(60) DEF Records, AnyRecord, Fields
  <2> QED
    BY <2>1, <2>2, <2>3, ZenonT(60) DEF Configs
<1> QED
  BY <1>1, <1>2, <1>3, <1>4, <1>5, <1>6, <1>7, ZenonT(60)

\* A configuration with the terms of a record is a change of the bond away too.
LEMMA TermsCopied ==
    ASSUME NEW a \in AnyRecord, NEW b \in AnyRecord, NEW c,
           SameTerms(a, b), c = [a EXCEPT !.updated = FALSE]
    PROVE  SameTerms(c, b)
<1>1. [c EXCEPT !.bond = b.bond, !.updated = FALSE] = [a EXCEPT !.bond = b.bond, !.updated = FALSE]
  BY ZenonT(60) DEF AnyRecord, Fields
<1> QED
  BY <1>1 DEF SameTerms

\* A change of the bond leaves the terms published or not.
LEMMA TermsPublished ==
    ASSUME NEW a \in AnyRecord, NEW b \in AnyRecord, SameTerms(a, b)
    PROVE  Published(a) <=> Published(b)
<1>1. /\ [a EXCEPT !.bond = b.bond, !.updated = FALSE].minContractDuration = a.minContractDuration
      /\ [b EXCEPT !.updated = FALSE].minContractDuration = b.minContractDuration
  BY ZenonT(60) DEF AnyRecord, Fields
<1> QED
  BY <1>1, ZenonT(60) DEF SameTerms, Published

\* BondProvider changes the bond.
LEMMA BondSame ==
    ASSUME NEW r \in AnyRecord, NEW bond, NEW x, x = [r EXCEPT !.bond = bond, !.updated = TRUE]
    PROVE  SameTerms(r, x)
<1>1. x.bond = bond
  BY ZenonT(60) DEF AnyRecord, Fields
<1>2. [r EXCEPT !.bond = bond, !.updated = FALSE] = [x EXCEPT !.updated = FALSE]
  BY ZenonT(60) DEF AnyRecord, Fields
<1> QED
  BY <1>1, <1>2 DEF SameTerms

\* A configuration whose bond is changed.
LEMMA BondFollows ==
    ASSUME NEW c \in Configs, NEW r \in Records, SameTerms(c, r)
    PROVE  [c EXCEPT !.bond = r.bond] = [r EXCEPT !.updated = FALSE]
<1>1. c.updated = FALSE /\ c \in AnyRecord
  BY RecordKinds
<1>2. [c EXCEPT !.bond = r.bond] = [c EXCEPT !.bond = r.bond, !.updated = FALSE]
  BY <1>1, ZenonT(60) DEF AnyRecord, Fields
<1> QED
  BY <1>2 DEF SameTerms

\* A configuration stays one when its bond changes.
LEMMA BondConfig ==
    ASSUME NEW c \in Configs, c # NoConfig, NEW bond \in Int
    PROVE  /\ [c EXCEPT !.bond = bond] \in Configs /\ [c EXCEPT !.bond = bond] # NoConfig
           /\ [c EXCEPT !.bond = bond].bond = bond
<1>1. c \in AnyRecord /\ c.updated = FALSE /\ c.status # "NONE"
  BY ZenonT(60) DEF Configs
<1>2. PICK d : d = [c EXCEPT !.bond = bond]
  BY ZenonT(60)
<1>3. d \in AnyRecord /\ d.updated = FALSE /\ d.bond = bond /\ d.status = c.status
  BY <1>1, <1>2, ZenonT(60) DEF AnyRecord, Fields
<1>4. NoConfig.status = "NONE"
  BY DEF NoConfig, NewProvider
<1> QED
  BY <1>1, <1>2, <1>3, <1>4, ZenonT(60) DEF Configs

\* The numbers of the events are numbers and their records are records.
LEMMA EventFields ==
    ASSUME NEW B, NEW M, Apart(B, M)
    PROVE  \A e \in B \cup M : e.number \in Nat /\ e.record \in Records
BY ZenonT(60) DEF Apart, EventType

\* A later event e does not come between others, and is the last one.
LEMMA LaterEvent ==
    ASSUME NEW P, NEW e, e.number \in Nat, \A f \in P : f.number \in Nat /\ f.number < e.number
    PROVE  /\ \A d \in P \cup {e} : Last(P \cup {e}, d) => d = e
           /\ \A d \in P, f \in P \cup {e} : Adjacent(P \cup {e}, f, d) => f \in P /\ Adjacent(P, f, d)
           /\ \A d \in P : First(P \cup {e}, d) => First(P, d)
           /\ \A f \in P \cup {e} : Adjacent(P \cup {e}, f, e) => f \in P /\ Last(P, f)
           /\ First(P \cup {e}, e) => P = {}
<1>1. \A f \in P : ~(e.number <= f.number) /\ ~(e.number < f.number)
  OBVIOUS
<1>2. ~(e.number < e.number)
  OBVIOUS
<1> QED
  BY <1>1, <1>2, ZenonT(60) DEF Last, Adjacent, First

\* Without the first event h, what was next to it is first.
LEMMA FirstGone ==
    ASSUME NEW P, NEW h \in P, \A f \in P : f.number \in Nat,
           \A f \in P \ {h} : h.number < f.number
    PROVE  /\ \A d \in P \ {h} : Last(P \ {h}, d) => Last(P, d)
           /\ \A d \in P \ {h}, f \in P \ {h} : Adjacent(P \ {h}, f, d) => Adjacent(P, f, d)
           /\ \A d \in P \ {h} : First(P \ {h}, d) => Adjacent(P, h, d)
           /\ First(P, h)
           /\ P \ {h} = {} => Last(P, h)
<1>1. \A f \in P \ {h} : h.number <= f.number
  OBVIOUS
<1>2. h.number <= h.number
  OBVIOUS
<1> QED
  BY <1>1, <1>2, ZenonT(60) DEF Last, Adjacent, First

\* A bond of the chain.
LEMMA BondAdded ==
    ASSUME NEW B, NEW M, NEW c \in Configs, NEW r \in Records, NEW e, NEW bond,
           Apart(B, M), InOrder(B, M, c, r), e.number \in Nat,
           \A f \in B \cup M : f.number < e.number,
           e.record = NewProvider \/ e.record = [r EXCEPT !.bond = bond, !.updated = TRUE],
           e.record \in Records
    PROVE  InOrder(B \cup {e}, M, c, e.record)
<1> DEFINE P == B \cup M
<1>1. \A f \in P : f.number \in Nat /\ f.record \in Records
  BY EventFields, ZenonT(60)
<1>2. /\ \A d \in P : Last(P, d) => d.record = r
      /\ P = {} => Follows(c, r)
      /\ \A d \in B : Published(d.record) =>
           /\ \A f \in P : Adjacent(P, f, d) => Published(f.record) /\ SameTerms(f.record, d.record)
           /\ First(P, d) => Published(c) /\ SameTerms(c, d.record)
      /\ c = NoConfig => \A d \in M : \E f \in B : f.number < d.number
      /\ \A f \in P : f.number \in Nat /\ f.number < e.number
      /\ B \subseteq P /\ (B \cup {e}) \cup M = P \cup {e}
  BY <1>1, ZenonT(60) DEF InOrder
<1> HIDE DEF P
<1>3. /\ \A d \in P \cup {e} : Last(P \cup {e}, d) => d = e
      /\ \A d \in P, f \in P \cup {e} : Adjacent(P \cup {e}, f, d) => f \in P /\ Adjacent(P, f, d)
      /\ \A d \in P : First(P \cup {e}, d) => First(P, d)
      /\ \A f \in P \cup {e} : Adjacent(P \cup {e}, f, e) => f \in P /\ Last(P, f)
      /\ First(P \cup {e}, e) => P = {}
  BY <1>2, LaterEvent, ZenonT(60)
<1>4. ASSUME Published(e.record)
      PROVE  Published(r) /\ SameTerms(r, e.record)
  <2>1. e.record = [r EXCEPT !.bond = bond, !.updated = TRUE]
    BY <1>4, RecordKinds, ZenonT(60)
  <2>2. r \in AnyRecord /\ e.record \in AnyRecord
    BY RecordKinds, ZenonT(60)
  <2>3. SameTerms(r, e.record)
    BY <2>1, <2>2, BondSame, ZenonT(60)
  <2> QED
    BY <1>4, <2>2, <2>3, TermsPublished, ZenonT(60)
<1>5. ASSUME Published(e.record), P = {}
      PROVE  Published(c) /\ SameTerms(c, e.record)
  <2>1. Published(r) /\ SameTerms(r, e.record) /\ Follows(c, r)
    BY <1>2, <1>4, <1>5, ZenonT(60)
  <2>2. c = [r EXCEPT !.updated = FALSE]
    BY <2>1, ZenonT(60) DEF Follows
  <2>3. r \in AnyRecord /\ e.record \in AnyRecord /\ c \in AnyRecord
    BY RecordKinds, ZenonT(60)
  <2>4. SameTerms(c, e.record)
    BY <2>1, <2>2, <2>3, TermsCopied, ZenonT(60)
  <2> QED
    BY <1>5, <2>3, <2>4, TermsPublished, ZenonT(60)
<1>6. ASSUME NEW d \in B \cup {e}, Published(d.record)
      PROVE  /\ \A f \in P \cup {e} : Adjacent(P \cup {e}, f, d) =>
                  Published(f.record) /\ SameTerms(f.record, d.record)
             /\ First(P \cup {e}, d) => Published(c) /\ SameTerms(c, d.record)
  <2>1. CASE d = e
    BY <1>2, <1>3, <1>4, <1>5, <1>6, <2>1, ZenonT(60)
  <2>2. CASE d \in B
    BY <1>2, <1>3, <1>6, <2>2, ZenonT(60)
  <2> QED
    BY <2>1, <2>2, ZenonT(60)
<1> QED
  BY <1>2, <1>3, <1>6, ZenonT(60) DEF InOrder

\* New terms on the chain, of a provider with a bond.
LEMMA ModAdded ==
    ASSUME NEW B, NEW M, NEW c \in Configs, NEW r \in Records, NEW e,
           Apart(B, M), InOrder(B, M, c, r), e.number \in Nat,
           \A f \in B \cup M : f.number < e.number, r.bond # 0
    PROVE  InOrder(B, M \cup {e}, c, e.record)
<1> DEFINE P == B \cup M
<1>1. \A f \in P : f.number \in Nat
  BY EventFields, ZenonT(60)
<1>2. /\ \A d \in P : Last(P, d) => d.record = r
      /\ P = {} => Follows(c, r)
      /\ \A d \in B : Published(d.record) =>
           /\ \A f \in P : Adjacent(P, f, d) => Published(f.record) /\ SameTerms(f.record, d.record)
           /\ First(P, d) => Published(c) /\ SameTerms(c, d.record)
      /\ c = NoConfig => \A d \in M : \E f \in B : f.number < d.number
      /\ \A f \in P : f.number \in Nat /\ f.number < e.number
      /\ B \subseteq P /\ B \cup (M \cup {e}) = P \cup {e} /\ P \subseteq B \cup M
  BY <1>1, ZenonT(60) DEF InOrder
<1> HIDE DEF P
<1>3. /\ \A d \in P \cup {e} : Last(P \cup {e}, d) => d = e
      /\ \A d \in P, f \in P \cup {e} : Adjacent(P \cup {e}, f, d) => f \in P /\ Adjacent(P, f, d)
      /\ \A d \in P : First(P \cup {e}, d) => First(P, d)
  BY <1>2, LaterEvent, ZenonT(60)
<1>4. ASSUME c = NoConfig
      PROVE  \A d \in M \cup {e} : \E f \in B : f.number < d.number
  <2>1. P # {}
    BY <1>2, <1>4, RecordKinds, ZenonT(60) DEF Follows
  <2>2. B # {}
    BY <1>2, <1>4, <2>1, ZenonT(60)
  <2> QED
    BY <1>2, <1>4, <2>2, ZenonT(60)
<1> QED
  BY <1>2, <1>3, <1>4, ZenonT(60) DEF InOrder

\* The first event h makes the configuration c one, d, that follows its record.
Handles(B, M, c, r, h, d) ==
    /\ d \in Configs /\ h \in B \cup M /\ Apart(B, M) /\ InOrder(B, M, c, r)
    /\ \A f \in (B \cup M) \ {h} : h.number < f.number
    /\ Follows(d, h.record) /\ d # NoConfig

\* When the first event is handled the others stay in order.
LEMMA FirstHandled ==
    ASSUME NEW B, NEW M, NEW c, NEW r, NEW h, NEW d, Handles(B, M, c, r, h, d)
    PROVE  InOrder(B \ {h}, M \ {h}, d, r)
<1> DEFINE P == B \cup M
<1>0. /\ d \in Configs /\ h \in B \cup M /\ Apart(B, M) /\ InOrder(B, M, c, r)
      /\ \A f \in (B \cup M) \ {h} : h.number < f.number
      /\ Follows(d, h.record) /\ d # NoConfig
  BY ZenonT(60) DEF Handles
<1>1. \A f \in P : f.number \in Nat /\ f.record \in Records
  BY <1>0, EventFields, ZenonT(60)
<1>2. /\ \A e \in P : Last(P, e) => e.record = r
      /\ \A e \in B : Published(e.record) =>
           \A f \in P : Adjacent(P, f, e) => Published(f.record) /\ SameTerms(f.record, e.record)
      /\ h \in P /\ \A f \in P \ {h} : h.number < f.number
      /\ B \subseteq P /\ (B \ {h}) \cup (M \ {h}) = P \ {h}
  BY <1>0, ZenonT(60) DEF InOrder
<1> HIDE DEF P
<1>3. /\ \A e \in P \ {h} : Last(P \ {h}, e) => Last(P, e)
      /\ \A e \in P \ {h}, f \in P \ {h} : Adjacent(P \ {h}, f, e) => Adjacent(P, f, e)
      /\ \A e \in P \ {h} : First(P \ {h}, e) => Adjacent(P, h, e)
      /\ P \ {h} = {} => Last(P, h)
  BY <1>1, <1>2, FirstGone, ZenonT(60)
<1>4. ASSUME NEW e \in B \ {h}, Published(e.record), First(P \ {h}, e)
      PROVE  Published(d) /\ SameTerms(d, e.record)
  <2>1. Published(h.record) /\ SameTerms(h.record, e.record)
    BY <1>2, <1>3, <1>4, ZenonT(60)
  <2>2. d = [h.record EXCEPT !.updated = FALSE]
    BY <1>0, <2>1, ZenonT(60) DEF Follows
  <2>3. h.record \in AnyRecord /\ e.record \in AnyRecord /\ d \in AnyRecord
    BY <1>0, <1>1, <1>2, RecordKinds, ZenonT(60)
  <2>4. SameTerms(d, e.record)
    BY <2>1, <2>2, <2>3, TermsCopied, ZenonT(60)
  <2> QED
    BY <1>4, <2>3, <2>4, TermsPublished, ZenonT(60)
<1> QED
  BY <1>0, <1>2, <1>3, <1>4, ZenonT(60) DEF InOrder

\* The sentinel handles a bond event that is the first one of its service.
LEMMA BondHandled ==
    ASSUME NEW B, NEW M, NEW c \in Configs, NEW r, NEW h \in B, NEW from, NEW d,
           Apart(B, M), InOrder(B, M, c, r),
           \A f \in (B \cup M) \ {h} : h.number < f.number,
           from = (IF c = NoConfig THEN NewProvider ELSE c),
           d = [from EXCEPT !.bond = h.record.bond]
    PROVE  d \in Configs /\ InOrder(B \ {h}, M, d, r)
<1>1. h.record \in Records /\ h.number \in Nat /\ M \ {h} = M
  BY EventFields, ZenonT(60) DEF Apart
<1>2. h.record.bond \in Int
  BY <1>1, ZenonT(60) DEF Records, Fields
<1>3. from \in Configs /\ from # NoConfig
  BY RecordKinds, ZenonT(60)
<1>4. d \in Configs /\ d # NoConfig /\ d.bond = h.record.bond
  <2>1. PICK b \in Int : b = h.record.bond
    BY <1>2, ZenonT(60)
  <2>2. /\ [from EXCEPT !.bond = b] \in Configs /\ [from EXCEPT !.bond = b] # NoConfig
        /\ [from EXCEPT !.bond = b].bond = b
    BY <1>3, BondConfig, ZenonT(60)
  <2> QED
    BY <2>1, <2>2, ZenonT(60)
<1>5. ASSUME Published(h.record)
      PROVE  d = [h.record EXCEPT !.updated = FALSE]
  <2>1. First(B \cup M, h)
    <3>1. PICK P : P = B \cup M /\ h \in P /\ \A f \in P : f.number \in Nat
      BY EventFields, ZenonT(60)
    <3>2. \A f \in P \ {h} : h.number < f.number
      BY <3>1, ZenonT(60)
    <3>3. First(P, h)
      BY <3>1, <3>2, FirstGone, ZenonT(60)
    <3> QED
      BY <3>1, <3>3, ZenonT(60)
  <2>2. Published(c) /\ SameTerms(c, h.record)
    BY <1>5, <2>1, ZenonT(60) DEF InOrder
  <2>3. from = c
    BY <2>2, RecordKinds, ZenonT(60)
  <2> QED
    BY <1>1, <2>2, <2>3, BondFollows, ZenonT(60)
<1>6. Follows(d, h.record)
  BY <1>4, <1>5, ZenonT(60) DEF Follows
<1>7. Handles(B, M, c, r, h, d)
  BY <1>4, <1>6, ZenonT(60) DEF Handles
<1>8. InOrder(B \ {h}, M \ {h}, d, r)
  BY <1>7, FirstHandled, ZenonT(60)
<1> QED
  BY <1>1, <1>4, <1>8, ZenonT(60)

\* The sentinel handles a mod event that is the first one of its service.
LEMMA ModHandled ==
    ASSUME NEW B, NEW M, NEW c \in Configs, NEW r, NEW h \in M, NEW d,
           Apart(B, M), InOrder(B, M, c, r),
           \A f \in (B \cup M) \ {h} : h.number < f.number,
           d = IF c = NoConfig THEN c ELSE [h.record EXCEPT !.updated = FALSE]
    PROVE  d \in Configs /\ InOrder(B, M \ {h}, d, r)
<1>1. /\ \A f \in B \cup M : f.number \in Nat /\ f.record \in Records
      /\ h \in B \cup M /\ B \ {h} = B
  BY EventFields, ZenonT(60) DEF Apart
<1>2. c # NoConfig
  <2>1. \A f \in B : ~(f.number < h.number)
    BY <1>1
  <2> QED
    BY <2>1, ZenonT(60) DEF InOrder
<1>3. d = [h.record EXCEPT !.updated = FALSE] /\ d \in Configs /\ d # NoConfig
  BY <1>1, <1>2, RecordKinds, ZenonT(60)
<1>4. d.bond = h.record.bond
  BY <1>1, <1>3, ZenonT(60) DEF Records, Fields
<1>5. Follows(d, h.record)
  BY <1>3, <1>4, ZenonT(60) DEF Follows
<1>6. Handles(B, M, c, r, h, d)
  BY <1>1, <1>3, <1>5, ZenonT(60) DEF Handles
<1>7. InOrder(B \ {h}, M \ {h}, d, r)
  BY <1>6, FirstHandled, ZenonT(60)
<1> QED
  BY <1>1, <1>3, <1>7, ZenonT(60)

\* An event joins a queue.
LEMMA QueueAppend ==
    ASSUME NEW T, NEW q \in Seq(T), NEW e \in T
    PROVE  Append(q, e) \in Seq(T) /\ Range(Append(q, e)) = Range(q) \cup {e}
<1>1. Append(q, e) \in Seq(T) /\ Len(q) \in Nat /\ DOMAIN q = 1 .. Len(q)
  OBVIOUS
<1>2. /\ DOMAIN Append(q, e) = 1 .. (Len(q) + 1)
      /\ \A i \in 1 .. Len(q) : Append(q, e)[i] = q[i]
      /\ Append(q, e)[Len(q) + 1] = e
  OBVIOUS
<1>3. 1 .. (Len(q) + 1) = (1 .. Len(q)) \cup {Len(q) + 1}
  BY <1>1
<1>4. PICK a, D, n : a = Append(q, e) /\ D = 1 .. Len(q) /\ n = Len(q) + 1
  BY ZenonT(60)
<1>5. DOMAIN a = D \cup {n} /\ DOMAIN q = D /\ a[n] = e /\ \A i \in D : a[i] = q[i]
  BY <1>1, <1>2, <1>3, <1>4, ZenonT(60)
<1>6. Range(a) = Range(q) \cup {e}
  BY <1>5, ZenonT(60) DEF Range
<1> QED
  BY <1>1, <1>4, <1>6, ZenonT(60)

\* The events of two queues.
LEMMA QueueJoin ==
    ASSUME NEW T, NEW p \in Seq(T), NEW q \in Seq(T)
    PROVE  Range(p \o q) = Range(p) \cup Range(q)
<1> DEFINE m == Len(p)
           n == Len(q)
<1>1. m \in Nat /\ n \in Nat /\ DOMAIN p = 1 .. m /\ DOMAIN q = 1 .. n
  OBVIOUS
<1>2. /\ DOMAIN (p \o q) = 1 .. (m + n)
      /\ \A i \in 1 .. m : (p \o q)[i] = p[i]
      /\ \A i \in 1 .. n : (p \o q)[m + i] = q[i]
  OBVIOUS
<1> HIDE DEF m, n
<1>3. \A i \in 1 .. (m + n) : i \in 1 .. m \/ \E j \in 1 .. n : i = m + j
  <2> TAKE i \in 1 .. (m + n)
  <2>1. CASE i <= m
    BY <1>1, <2>1
  <2>2. CASE ~(i <= m)
    <3>1. i - m \in 1 .. n /\ i = m + (i - m)
      BY <1>1, <2>2
    <3> QED
      BY <3>1
  <2> QED
    BY <2>1, <2>2
<1>4. /\ \A i \in 1 .. m : i \in 1 .. (m + n)
      /\ \A j \in 1 .. n : m + j \in 1 .. (m + n)
  BY <1>1
<1>5. ASSUME NEW x \in Range(p \o q) PROVE x \in Range(p) \cup Range(q)
  <2>1. PICK i \in 1 .. (m + n) : x = (p \o q)[i]
    BY <1>2, <1>5, ZenonT(60) DEF Range
  <2>2. CASE i \in 1 .. m
    BY <1>1, <1>2, <2>1, <2>2, ZenonT(60) DEF Range
  <2>3. ASSUME NEW j \in 1 .. n, i = m + j PROVE x \in Range(q)
    BY <1>1, <1>2, <2>1, <2>3, ZenonT(60) DEF Range
  <2> QED
    BY <1>3, <2>2, <2>3, ZenonT(60)
<1>6. ASSUME NEW x \in Range(p) PROVE x \in Range(p \o q)
  BY <1>1, <1>2, <1>4, <1>6, ZenonT(60) DEF Range
<1>7. ASSUME NEW x \in Range(q) PROVE x \in Range(p \o q)
  BY <1>1, <1>2, <1>4, <1>7, ZenonT(60) DEF Range
<1> QED
  BY <1>5, <1>6, <1>7, ZenonT(60)

\* A queue with increasing numbers, and an event with a higher one.
LEMMA QueueGrows ==
    ASSUME NEW q \in Seq(EventType), NEW e \in EventType, Increasing(q),
           \A f \in Range(q) : f.number < e.number
    PROVE  Increasing(Append(q, e))
<1>1. Len(q) \in Nat /\ DOMAIN q = 1 .. Len(q)
  OBVIOUS
<1>2. /\ DOMAIN Append(q, e) = 1 .. (Len(q) + 1)
      /\ \A i \in 1 .. Len(q) : Append(q, e)[i] = q[i]
      /\ Append(q, e)[Len(q) + 1] = e
  OBVIOUS
<1>3. \A i \in 1 .. Len(q) : q[i].number < e.number
  BY <1>1, ZenonT(60) DEF Range
<1>4. \A i, j \in 1 .. (Len(q) + 1) : i < j =>
        i \in 1 .. Len(q) /\ (j \in 1 .. Len(q) \/ j = Len(q) + 1)
  BY <1>1
<1>5. \A i, j \in 1 .. Len(q) : i < j => q[i].number < q[j].number
  BY <1>1, ZenonT(60) DEF Increasing
<1> QED
  BY <1>2, <1>3, <1>4, <1>5, ZenonT(60) DEF Increasing

\* The first event of a queue is taken.
LEMMA QueueTaken ==
    ASSUME NEW q \in Seq(EventType), q # <<>>, Increasing(q)
    PROVE  /\ Head(q) \in Range(q) /\ Tail(q) \in Seq(EventType) /\ Increasing(Tail(q))
           /\ Range(Tail(q)) = Range(q) \ {Head(q)}
           /\ \A f \in Range(q) \ {Head(q)} : Head(q).number < f.number
<1>1. Len(q) \in Nat \ {0} /\ DOMAIN q = 1 .. Len(q)
  OBVIOUS
<1>2. Tail(q) \in Seq(EventType) /\ Head(q) = q[1] /\ Head(q) \in EventType
  OBVIOUS
<1>3. /\ DOMAIN Tail(q) = 1 .. (Len(q) - 1)
      /\ \A i \in 1 .. (Len(q) - 1) : Tail(q)[i] = q[i + 1]
  BY <1>1
<1>4. \A i, j \in 1 .. Len(q) : i < j => q[i].number < q[j].number
  BY <1>1, ZenonT(60) DEF Increasing
<1>5. \A i \in 1 .. (Len(q) - 1) : i + 1 \in 1 .. Len(q) /\ 1 < i + 1 /\ 1 \in 1 .. Len(q)
  BY <1>1
<1>6. \A i \in 1 .. Len(q) : i = 1 \/ \E j \in 1 .. (Len(q) - 1) : i = j + 1
  <2> TAKE i \in 1 .. Len(q)
  <2>1. CASE i = 1
    BY <2>1
  <2>2. CASE i # 1
    <3>1. i - 1 \in 1 .. (Len(q) - 1) /\ i = (i - 1) + 1
      BY <1>1, <2>2
    <3> QED
      BY <3>1
  <2> QED
    BY <2>1, <2>2
<1>7. Head(q) \in Range(q)
  BY <1>1, <1>2 DEF Range
<1>8. Increasing(Tail(q))
  <2>1. \A i, j \in 1 .. (Len(q) - 1) : i < j => i + 1 < j + 1
    BY <1>1
  <2> QED
    BY <1>3, <1>4, <1>5, <2>1, ZenonT(60) DEF Increasing
<1>9. \A i \in 1 .. (Len(q) - 1) : Head(q).number < q[i + 1].number
  BY <1>2, <1>4, <1>5, ZenonT(60)
<1>10. \A i \in 1 .. (Len(q) - 1) : q[i + 1] # Head(q)
  <2>1. Head(q).number \in Nat
    BY <1>2 DEF EventType
  <2>2. ~(Head(q).number < Head(q).number)
    BY <2>1
  <2> QED
    BY <1>9, <2>2, ZenonT(60)
<1>11. Range(Tail(q)) = {q[i + 1] : i \in 1 .. (Len(q) - 1)}
  BY <1>3, ZenonT(60) DEF Range
<1>12. Range(q) = {q[i + 1] : i \in 1 .. (Len(q) - 1)} \cup {Head(q)}
  BY <1>1, <1>2, <1>5, <1>6, <1>7, ZenonT(60) DEF Range
<1>13. \A f \in Range(q) \ {Head(q)} : Head(q).number < f.number
  BY <1>9, <1>12, ZenonT(60)
<1> QED
  BY <1>2, <1>7, <1>8, <1>10, <1>11, <1>12, <1>13, ZenonT(60)

\* Events of the queues are told apart.
LEMMA QueuesApart ==
    ASSUME ConfigTypes, Numbered, NEW s
    PROVE  Apart(Of(bondEvents, s), Of(modEvents, s))
<1>1. /\ bondEvents \in Seq(EventType) /\ modEvents \in Seq(EventType)
      /\ Increasing(bondEvents) /\ Increasing(modEvents)
      /\ \A e \in Range(bondEvents), f \in Range(modEvents) : e.number # f.number
  BY ZenonT(60) DEF ConfigTypes, Numbered
<1>2. ASSUME NEW q \in Seq(EventType), Increasing(q)
      PROVE  /\ \A e \in Range(q) : e \in EventType
             /\ \A e, f \in Range(q) : e.number = f.number => e = f
  <2>1. DOMAIN q = 1 .. Len(q) /\ Len(q) \in Nat /\ \A i \in DOMAIN q : q[i] \in EventType
    OBVIOUS
  <2>2. \A i, j \in DOMAIN q : i < j \/ j < i \/ i = j
    BY <2>1
  <2>3. \A x \in Nat : ~(x < x)
    OBVIOUS
  <2>4. \A i \in DOMAIN q : q[i].number \in Nat
    BY <2>1, ZenonT(60) DEF EventType
  <2>5. \A i, j \in DOMAIN q : q[i].number = q[j].number => i = j
    BY <1>2, <2>2, <2>3, <2>4, ZenonT(60) DEF Increasing
  <2> QED
    BY <2>1, <2>5, ZenonT(60) DEF Range
<1>3. /\ \A e \in Range(bondEvents) \cup Range(modEvents) : e \in EventType
      /\ \A e, f \in Range(bondEvents) : e.number = f.number => e = f
      /\ \A e, f \in Range(modEvents) : e.number = f.number => e = f
  BY <1>1, <1>2, ZenonT(60)
<1> QED
  BY <1>1, <1>3, ZenonT(60) DEF Apart, Of

\* A message of the provider puts an event in a queue.
LEMMA EventNumbered ==
    ASSUME ConfigTypes, Numbered, NEW e \in EventType, e.number = emitted + 1,
           emitted' = emitted + 1, NEW first,
           \/ /\ bondEvents' = IF first THEN Append(bondEvents, e) ELSE bondEvents
              /\ UNCHANGED modEvents
           \/ /\ modEvents' = IF first THEN Append(modEvents, e) ELSE modEvents
              /\ UNCHANGED bondEvents
    PROVE  /\ Numbered' /\ emitted' \in Nat
           /\ bondEvents' \in Seq(EventType) /\ modEvents' \in Seq(EventType)
           /\ \A f \in Range(bondEvents) \cup Range(modEvents) : f.number < e.number
<1>1. /\ bondEvents \in Seq(EventType) /\ modEvents \in Seq(EventType) /\ emitted \in Nat
      /\ Increasing(bondEvents) /\ Increasing(modEvents)
      /\ \A f \in Range(bondEvents) \cup Range(modEvents) : f.number <= emitted
      /\ \A f \in Range(bondEvents), g \in Range(modEvents) : f.number # g.number
  BY ZenonT(60) DEF ConfigTypes, Numbered
<1>2. \A f \in Range(bondEvents) \cup Range(modEvents) : f \in EventType
  <2>1. ASSUME NEW q \in Seq(EventType) PROVE \A i \in DOMAIN q : q[i] \in EventType
    OBVIOUS
  <2> QED
    BY <1>1, <2>1, ZenonT(60) DEF Range
<1>3. \A f \in Range(bondEvents) \cup Range(modEvents) : f.number \in Nat
  BY <1>2, ZenonT(60) DEF EventType
<1>4. /\ \A f \in Range(bondEvents) \cup Range(modEvents) :
           f.number < e.number /\ f.number <= emitted' /\ f.number # e.number
      /\ e.number <= emitted' /\ emitted' \in Nat
  BY <1>1, <1>3
<1>5. ASSUME NEW q \in Seq(EventType), Increasing(q),
             \A f \in Range(q) : f.number < e.number
      PROVE  /\ Append(q, e) \in Seq(EventType) /\ Increasing(Append(q, e))
             /\ Range(Append(q, e)) = Range(q) \cup {e}
  BY <1>5, QueueAppend, QueueGrows, ZenonT(60)
<1>6. /\ Append(bondEvents, e) \in Seq(EventType) /\ Increasing(Append(bondEvents, e))
      /\ Range(Append(bondEvents, e)) = Range(bondEvents) \cup {e}
  BY <1>1, <1>4, <1>5, ZenonT(60)
<1>7. /\ Append(modEvents, e) \in Seq(EventType) /\ Increasing(Append(modEvents, e))
      /\ Range(Append(modEvents, e)) = Range(modEvents) \cup {e}
  BY <1>1, <1>4, <1>5, ZenonT(60)
<1>8. CASE bondEvents' = Append(bondEvents, e) /\ UNCHANGED modEvents
  BY <1>1, <1>4, <1>6, <1>8, ZenonT(60) DEF Numbered
<1>9. CASE modEvents' = Append(modEvents, e) /\ UNCHANGED bondEvents
  BY <1>1, <1>4, <1>7, <1>9, ZenonT(60) DEF Numbered
<1>10. CASE UNCHANGED <<bondEvents, modEvents>>
  BY <1>1, <1>4, <1>10, ZenonT(60) DEF Numbered
<1> QED
  BY <1>8, <1>9, <1>10, ZenonT(60)

\* BondProvider changes one record: its bond, or all of it when nothing is left of the bond.
LEMMA BondRecord ==
    ASSUME providers \in [Providers -> Records], NEW p \in Providers, NEW bond \in Bonds,
           BondProvider(p, bond)
    PROVE  \E x \in Records, b \in Int :
             /\ providers' = [providers EXCEPT ![p] = x]
             /\ x = NewProvider \/ x = [providers[p] EXCEPT !.bond = b, !.updated = TRUE]
<1>1. providers[p] \in Records /\ bond \in Int
  BY RegistryAssumptions, ZenonT(60)
<1>2. providers[p].bond \in Int
  BY <1>1, ZenonT(60) DEF Records, Fields
<1>3. PICK b \in Int : b = providers[p].bond + bond
  BY <1>1, <1>2
<1>4. PICK y : y = [providers[p] EXCEPT !.bond = b, !.updated = TRUE]
  BY ZenonT(60)
<1>5. y \in Records
  BY <1>1, <1>4, ZenonT(60) DEF Records, Fields
<1>6. providers' = [providers EXCEPT ![p] = IF y.bond = 0 THEN NewProvider ELSE y]
  BY <1>3, <1>4, ZenonT(60) DEF BondProvider, SetProvider
<1>7. PICK x : x = IF y.bond = 0 THEN NewProvider ELSE y
  BY ZenonT(60)
<1>8. x \in Records /\ (x = NewProvider \/ x = y)
  BY <1>5, <1>7, RecordKinds, ZenonT(60)
<1> QED
  BY <1>4, <1>6, <1>7, <1>8, ZenonT(60)

\* ModProvider changes the record of a provider with a bond.
LEMMA ModRecord ==
    ASSUME providers \in [Providers -> Records], NEW p \in Providers, NEW o \in Offers,
           ModProvider(p, o)
    PROVE  /\ providers[p].bond # 0
           /\ \E x \in Records : providers' = [providers EXCEPT ![p] = x]
<1>1. providers[p] \in Records /\ providers[p].bond # 0
  BY ZenonT(60) DEF ModProvider
<1>2. /\ o.status \in {"OFFLINE", "ONLINE"}
      /\ o.minContractDuration \in Int /\ o.maxContractDuration \in Int
      /\ o.subscriptionRate \in Int /\ o.payAsYouGoRate \in Int
      /\ o.settlementDuration \in Int /\ o.metadataNonce \in Int
  BY RegistryAssumptions, ZenonT(60)
<1>3. PICK k : k = IF providers[p].metadataNonce < o.metadataNonce
                   THEN o.metadataNonce ELSE providers[p].metadataNonce
  BY ZenonT(60)
<1>4. k \in Int
  BY <1>1, <1>2, <1>3, ZenonT(60) DEF Records, Fields
<1>5. PICK y : y = [providers[p] EXCEPT
        !.status              = o.status,
        !.metadataNonce       = k,
        !.minContractDuration = o.minContractDuration,
        !.maxContractDuration = o.maxContractDuration,
        !.subscriptionRate    = o.subscriptionRate,
        !.payAsYouGoRate      = o.payAsYouGoRate,
        !.settlementDuration  = o.settlementDuration,
        !.updated             = TRUE]
  BY ZenonT(60)
<1>6. y \in Records
  BY <1>1, <1>2, <1>4, <1>5, ZenonT(60) DEF Records, Fields
<1>7. y = Modified(providers[p], o)
  BY <1>3, <1>5, ZenonT(60) DEF Modified
<1>8. providers' = [providers EXCEPT ![p] = IF y.bond = 0 THEN NewProvider ELSE y]
  BY <1>7, ZenonT(60) DEF ModProvider, SetProvider
<1>9. PICK x : x = IF y.bond = 0 THEN NewProvider ELSE y
  BY ZenonT(60)
<1>10. x \in Records
  BY <1>6, <1>9, RecordKinds, ZenonT(60)
<1> QED
  BY <1>1, <1>8, <1>9, <1>10, ZenonT(60)

\* Static services are services a provider can have.
LEMMA StaticProviders == StaticIds \subseteq Providers
BY ServiceAssumptions, ZenonT(60) DEF StaticIds

\* The order of the events of s in the next state.
OrdersNext(s) == InOrder(Of(bondEvents', s), Of(modEvents', s), configs'[s], providers'[s])

\* The invariant holds in the next state.
LEMMA ConfigNextInv ==
    ASSUME ConfigTypes', Numbered', \A s \in StaticIds \ disturbed' : OrdersNext(s)
    PROVE  ConfigInv'
BY ZenonT(60) DEF ConfigInv, OrdersNext

\* The event e of a message for the service id: the other services are not concerned, or
\* disturbed.
LEMMA OthersOrdered ==
    ASSUME ConfigInv, NEW id, NEW x, NEW e, e.id = id, NEW first,
           providers' = [providers EXCEPT ![id] = x], UNCHANGED configs,
           disturbed' = disturbed \cup Misfiled(e) \cup (IF first THEN {} ELSE {e.id}),
           Range(bondEvents') = Range(bondEvents) \/ Range(bondEvents') = Range(bondEvents) \cup {e},
           Range(modEvents') = Range(modEvents) \/ Range(modEvents') = Range(modEvents) \cup {e},
           NEW s \in StaticIds \ disturbed', s # id
    PROVE  OrdersNext(s)
<1>1. e.filed # s /\ s \in StaticIds \ disturbed
  BY ZenonT(60) DEF Misfiled
<1>2. Of(bondEvents', s) = Of(bondEvents, s) /\ Of(modEvents', s) = Of(modEvents, s)
  BY <1>1, ZenonT(60) DEF Of
<1>3. providers'[s] = providers[s]
  BY <1>1, StaticProviders, ZenonT(60) DEF ConfigInv, ConfigTypes
<1>4. InOrder(Of(bondEvents, s), Of(modEvents, s), configs[s], providers[s])
  BY <1>1, ZenonT(60) DEF ConfigInv
<1> QED
  BY <1>2, <1>3, <1>4, ZenonT(60) DEF OrdersNext

\* The events on their way have lower numbers than the next one.
LEMMA EventsBefore ==
    ASSUME ConfigInv, NEW k, k = emitted + 1
    PROVE  \A f \in Range(bondEvents) \cup Range(modEvents) : f.number < k
<1>1. /\ bondEvents \in Seq(EventType) /\ modEvents \in Seq(EventType) /\ emitted \in Nat
      /\ \A f \in Range(bondEvents) \cup Range(modEvents) : f.number <= emitted
  BY ZenonT(60) DEF ConfigInv, ConfigTypes, Numbered
<1>2. \A f \in Range(bondEvents) \cup Range(modEvents) : f \in EventType
  <2>1. ASSUME NEW q \in Seq(EventType) PROVE \A i \in DOMAIN q : q[i] \in EventType
    OBVIOUS
  <2> QED
    BY <1>1, <2>1, ZenonT(60) DEF Range
<1>3. \A f \in Range(bondEvents) \cup Range(modEvents) : f.number \in Nat
  BY <1>2, ZenonT(60) DEF EventType
<1> QED
  BY <1>1, <1>3

\* A message of the provider changes the record of a service and emits an event.
LEMMA ChainTypes ==
    ASSUME ConfigInv, NEW id \in Providers, NEW e \in EventType, e.number = emitted + 1,
           NEW first \in BOOLEAN, providers' = [providers EXCEPT ![id] = e.record],
           emitted' = emitted + 1, UNCHANGED configs,
           \/ /\ bondEvents' = IF first THEN Append(bondEvents, e) ELSE bondEvents
              /\ UNCHANGED modEvents
           \/ /\ modEvents' = IF first THEN Append(modEvents, e) ELSE modEvents
              /\ UNCHANGED bondEvents
    PROVE  ConfigTypes' /\ Numbered'
<1>1. ConfigTypes /\ Numbered
  BY ZenonT(60) DEF ConfigInv
<1>2. /\ Numbered' /\ emitted' \in Nat
      /\ bondEvents' \in Seq(EventType) /\ modEvents' \in Seq(EventType)
  BY <1>1, EventNumbered, ZenonT(60)
<1>3. e.record \in Records
  BY ZenonT(60) DEF EventType
<1>4. providers' \in [Providers -> Records] /\ configs' \in [Providers \cup {NoId} -> Configs]
  BY <1>1, <1>3, ZenonT(60) DEF ConfigTypes
<1> QED
  BY <1>2, <1>4, ZenonT(60) DEF ConfigTypes

\* MsgBondProvider.
LEMMA ChainBondKeeps ==
    ASSUME ConfigInv, ServiceTypeOK, NEW n \in Names, NEW bond \in Bonds,
           NEW spelled \in BOOLEAN, NEW first \in BOOLEAN,
           ChainBondProvider(n, bond, spelled, first)
    PROVE  ConfigInv'
<1>0. ConfigTypes /\ Numbered /\ providers \in [Providers -> Records] /\ emitted \in Nat
      /\ bondEvents \in Seq(EventType) /\ configs \in [Providers \cup {NoId} -> Configs]
  BY ZenonT(60) DEF ConfigInv, ConfigTypes
<1>1. PICK filed : filed = Lookup(n, spelled)
  BY ZenonT(60)
<1>2. filed \in Providers \cup {NoId}
  BY <1>1, ServiceAssumptions, ZenonT(60) DEF Lookup
<1>3. Resolves(n) /\ BondProvider(services[n], bond)
  BY ZenonT(60) DEF ChainBondProvider, BondService
<1>4. PICK id \in Providers : id = services[n]
  BY <1>3, ZenonT(60) DEF ServiceTypeOK, Resolves, HasService, Ids
<1>5. PICK x \in Records, b \in Int :
        /\ providers' = [providers EXCEPT ![id] = x]
        /\ x = NewProvider \/ x = [providers[id] EXCEPT !.bond = b, !.updated = TRUE]
  BY <1>0, <1>3, <1>4, BondRecord, ZenonT(60)
<1>6. providers'[id] = x
  BY <1>0, <1>5, ZenonT(60)
<1>7. PICK e : e = Event(id, filed, x)
  BY ZenonT(60)
<1>8. e \in EventType /\ e.number = emitted + 1 /\ e.id = id /\ e.filed = filed /\ e.record = x
  <2>1. PICK k \in Nat : k = emitted + 1
    BY <1>0
  <2>2. e = [number |-> k, id |-> id, filed |-> filed, record |-> x]
    BY <1>7, <2>1, ZenonT(60) DEF Event
  <2> QED
    BY <1>2, <2>1, <2>2 DEF EventType
<1>9. Emit(bondEvents, e, first) /\ UNCHANGED modEvents
  BY <1>1, <1>4, <1>6, <1>7, ZenonT(60) DEF ChainBondProvider
<1>10. /\ emitted' = emitted + 1 /\ UNCHANGED <<configs, modEvents>>
       /\ bondEvents' = IF first THEN Append(bondEvents, e) ELSE bondEvents
       /\ disturbed' = disturbed \cup Misfiled(e) \cup (IF first THEN {} ELSE {e.id})
  BY <1>9, ZenonT(60) DEF Emit
<1>11. ConfigTypes' /\ Numbered'
  BY <1>5, <1>8, <1>10, ChainTypes, ZenonT(60)
<1>12. /\ Range(Append(bondEvents, e)) = Range(bondEvents) \cup {e}
       /\ \A f \in Range(bondEvents) \cup Range(modEvents) : f.number < e.number
       /\ e.number \in Nat
  <2>1. Range(Append(bondEvents, e)) = Range(bondEvents) \cup {e}
    BY <1>0, <1>8, QueueAppend
  <2>2. \A f \in Range(bondEvents) \cup Range(modEvents) : f.number < e.number
    BY <1>8, EventsBefore
  <2> QED
    BY <1>8, <2>1, <2>2, ZenonT(60) DEF EventType
<1>13. ASSUME NEW s \in StaticIds \ disturbed' PROVE OrdersNext(s)
  <2>1. CASE s # id
    <3>1. /\ Range(bondEvents') = Range(bondEvents) \/ Range(bondEvents') = Range(bondEvents) \cup {e}
          /\ Range(modEvents') = Range(modEvents)
      BY <1>10, <1>12, ZenonT(60)
    <3> QED
      BY <1>5, <1>8, <1>10, <2>1, <3>1, OthersOrdered, ZenonT(60)
  <2>2. CASE s = id
    <3>1. e.filed = s /\ first /\ s \in StaticIds \ disturbed /\ s \in Providers
      BY <1>8, <1>10, <2>2, StaticProviders, ZenonT(60) DEF Misfiled
    <3>2. PICK B, M, c, r : /\ B = Of(bondEvents, s) /\ M = Of(modEvents, s)
                            /\ c = configs[s] /\ r = providers[s]
      BY ZenonT(60)
    <3>3. Of(bondEvents', s) = B \cup {e} /\ Of(modEvents', s) = M
      BY <1>10, <1>12, <3>1, <3>2, ZenonT(60) DEF Of
    <3>4. InOrder(B, M, c, r) /\ Apart(B, M) /\ c \in Configs /\ r \in Records
      BY <1>0, <3>1, <3>2, QueuesApart, ZenonT(60) DEF ConfigInv
    <3>5. \A f \in B \cup M : f.number < e.number
      BY <1>12, <3>2, ZenonT(60) DEF Of
    <3>6. e.record = NewProvider \/ e.record = [r EXCEPT !.bond = b, !.updated = TRUE]
      BY <1>5, <1>8, <2>2, <3>2, ZenonT(60)
    <3>7. InOrder(B \cup {e}, M, c, e.record)
      BY <1>8, <1>12, <3>4, <3>5, <3>6, BondAdded, ZenonT(60)
    <3>8. configs'[s] = c /\ providers'[s] = e.record
      BY <1>6, <1>8, <1>10, <2>2, <3>2, ZenonT(60)
    <3> QED
      BY <3>3, <3>7, <3>8, ZenonT(60) DEF OrdersNext
  <2> QED
    BY <2>1, <2>2
<1> QED
  BY <1>11, <1>13, ConfigNextInv, ZenonT(60)

\* MsgModProvider.
LEMMA ChainModKeeps ==
    ASSUME ConfigInv, ServiceTypeOK, NEW n \in Names, NEW o \in Offers, NEW first \in BOOLEAN,
           ChainModProvider(n, o, first)
    PROVE  ConfigInv'
<1>0. ConfigTypes /\ Numbered /\ providers \in [Providers -> Records] /\ emitted \in Nat
      /\ modEvents \in Seq(EventType) /\ configs \in [Providers \cup {NoId} -> Configs]
  BY ZenonT(60) DEF ConfigInv, ConfigTypes
<1>3. Resolves(n) /\ ModProvider(services[n], o)
  BY ZenonT(60) DEF ChainModProvider, ModService
<1>4. PICK id \in Providers : id = services[n]
  BY <1>3, ZenonT(60) DEF ServiceTypeOK, Resolves, HasService, Ids
<1>1. PICK filed : filed = LookupString(id)
  BY ZenonT(60)
<1>2. filed \in Providers \cup {NoId}
  BY <1>1, ZenonT(60) DEF LookupString
<1>5. PICK x \in Records : providers' = [providers EXCEPT ![id] = x]
  BY <1>0, <1>3, <1>4, ModRecord, ZenonT(60)
<1>6. providers'[id] = x /\ providers[id].bond # 0
  BY <1>0, <1>3, <1>4, <1>5, ModRecord, ZenonT(60)
<1>7. PICK e : e = Event(id, filed, x)
  BY ZenonT(60)
<1>8. e \in EventType /\ e.number = emitted + 1 /\ e.id = id /\ e.filed = filed /\ e.record = x
  <2>1. PICK k \in Nat : k = emitted + 1
    BY <1>0
  <2>2. e = [number |-> k, id |-> id, filed |-> filed, record |-> x]
    BY <1>7, <2>1, ZenonT(60) DEF Event
  <2> QED
    BY <1>2, <2>1, <2>2 DEF EventType
<1>9. Emit(modEvents, e, first) /\ UNCHANGED bondEvents
  BY <1>1, <1>4, <1>6, <1>7, ZenonT(60) DEF ChainModProvider
<1>10. /\ emitted' = emitted + 1 /\ UNCHANGED <<configs, bondEvents>>
       /\ modEvents' = IF first THEN Append(modEvents, e) ELSE modEvents
       /\ disturbed' = disturbed \cup Misfiled(e) \cup (IF first THEN {} ELSE {e.id})
  BY <1>9, ZenonT(60) DEF Emit
<1>11. ConfigTypes' /\ Numbered'
  BY <1>5, <1>8, <1>10, ChainTypes, ZenonT(60)
<1>12. /\ Range(Append(modEvents, e)) = Range(modEvents) \cup {e}
       /\ \A f \in Range(bondEvents) \cup Range(modEvents) : f.number < e.number
       /\ e.number \in Nat
  <2>1. Range(Append(modEvents, e)) = Range(modEvents) \cup {e}
    BY <1>0, <1>8, QueueAppend
  <2>2. \A f \in Range(bondEvents) \cup Range(modEvents) : f.number < e.number
    BY <1>8, EventsBefore
  <2> QED
    BY <1>8, <2>1, <2>2, ZenonT(60) DEF EventType
<1>13. ASSUME NEW s \in StaticIds \ disturbed' PROVE OrdersNext(s)
  <2>1. CASE s # id
    <3>1. /\ Range(modEvents') = Range(modEvents) \/ Range(modEvents') = Range(modEvents) \cup {e}
          /\ Range(bondEvents') = Range(bondEvents)
      BY <1>10, <1>12, ZenonT(60)
    <3> QED
      BY <1>5, <1>8, <1>10, <2>1, <3>1, OthersOrdered, ZenonT(60)
  <2>2. CASE s = id
    <3>1. e.filed = s /\ first /\ s \in StaticIds \ disturbed /\ s \in Providers
      BY <1>8, <1>10, <2>2, StaticProviders, ZenonT(60) DEF Misfiled
    <3>2. PICK B, M, c, r : /\ B = Of(bondEvents, s) /\ M = Of(modEvents, s)
                            /\ c = configs[s] /\ r = providers[s]
      BY ZenonT(60)
    <3>3. Of(bondEvents', s) = B /\ Of(modEvents', s) = M \cup {e}
      BY <1>10, <1>12, <3>1, <3>2, ZenonT(60) DEF Of
    <3>4. InOrder(B, M, c, r) /\ Apart(B, M) /\ c \in Configs /\ r \in Records /\ r.bond # 0
      BY <1>0, <1>6, <2>2, <3>1, <3>2, QueuesApart, ZenonT(60) DEF ConfigInv
    <3>5. \A f \in B \cup M : f.number < e.number
      BY <1>12, <3>2, ZenonT(60) DEF Of
    <3>7. InOrder(B, M \cup {e}, c, e.record)
      BY <1>8, <1>12, <3>4, <3>5, ModAdded, ZenonT(60)
    <3>8. configs'[s] = c /\ providers'[s] = e.record
      BY <1>6, <1>8, <1>10, <2>2, <3>2, ZenonT(60)
    <3> QED
      BY <3>3, <3>7, <3>8, ZenonT(60) DEF OrdersNext
  <2> QED
    BY <2>1, <2>2
<1> QED
  BY <1>11, <1>13, ConfigNextInv, ZenonT(60)

\* The first event of a queue is handled: the events of the queues that are left.
LEMMA QueueHandled ==
    ASSUME ConfigInv, NEW q \in {bondEvents, modEvents}, q # <<>>
    PROVE  /\ Head(q) \in Range(q) /\ Head(q) \in EventType
           /\ Tail(q) \in Seq(EventType) /\ Increasing(Tail(q))
           /\ Range(Tail(q)) = Range(q) \ {Head(q)}
           /\ \A f \in Range(q) \ {Head(q)} : Head(q).number < f.number
<1>1. q \in Seq(EventType) /\ Increasing(q)
  BY ZenonT(60) DEF ConfigInv, ConfigTypes, Numbered
<1>2. Head(q) \in EventType
  BY <1>1
<1> QED
  BY <1>1, <1>2, QueueTaken, ZenonT(60)

\* The sentinel handles a bond event.
LEMMA BondEventKeeps ==
    ASSUME ConfigInv, HandleBondProviderEvent
    PROVE  ConfigInv'
<1>0. /\ ConfigTypes /\ Numbered /\ providers \in [Providers -> Records] /\ emitted \in Nat
      /\ bondEvents \in Seq(EventType) /\ modEvents \in Seq(EventType)
      /\ configs \in [Providers \cup {NoId} -> Configs]
  BY ZenonT(60) DEF ConfigInv, ConfigTypes
<1>1. PICK h : h = Head(bondEvents)
  BY ZenonT(60)
<1>2. /\ bondEvents # <<>> /\ bondEvents' = Tail(bondEvents)
      /\ UNCHANGED <<providers, modEvents, emitted>>
      /\ configs' = [configs EXCEPT ![h.filed] = [Initialised(h.filed) EXCEPT !.bond = h.record.bond]]
      /\ disturbed' = disturbed \cup Overtakes(h, modEvents)
  BY <1>1, ZenonT(60) DEF HandleBondProviderEvent, registryVars
<1>3. /\ h \in Range(bondEvents) /\ h \in EventType
      /\ bondEvents' \in Seq(EventType) /\ Increasing(bondEvents')
      /\ Range(bondEvents') = Range(bondEvents) \ {h}
      /\ \A f \in Range(bondEvents) \ {h} : h.number < f.number
  BY <1>1, <1>2, QueueHandled, ZenonT(60)
<1>4. Numbered'
  BY <1>0, <1>2, <1>3, ZenonT(60) DEF Numbered
<1>5. PICK k, c, from, d :
        /\ k = h.filed /\ c = configs[k] /\ from = (IF c = NoConfig THEN NewProvider ELSE c)
        /\ d = [from EXCEPT !.bond = h.record.bond]
  BY ZenonT(60)
<1>6. k \in Providers \cup {NoId} /\ h.record \in Records
  BY <1>3, <1>5, ZenonT(60) DEF EventType
<1>7. configs' = [configs EXCEPT ![k] = d]
  BY <1>2, <1>5, ZenonT(60) DEF Initialised
<1>8. c \in Configs /\ from \in Configs /\ from # NoConfig
  BY <1>0, <1>5, <1>6, RecordKinds, ZenonT(60)
<1>9. d \in Configs
  <2>1. PICK b : b = h.record.bond
    BY ZenonT(60)
  <2>2. b \in Int
    BY <1>6, <2>1, ZenonT(60) DEF Records, Fields
  <2>3. [from EXCEPT !.bond = b] \in Configs
    BY <1>8, <2>2, BondConfig, ZenonT(60)
  <2> QED
    BY <1>5, <2>1, <2>3, ZenonT(60)
<1>10. ConfigTypes'
  <2>1. configs' \in [Providers \cup {NoId} -> Configs]
    BY <1>0, <1>6, <1>7, <1>9, ZenonT(60)
  <2> QED
    BY <1>0, <1>2, <1>3, <2>1, ZenonT(60) DEF ConfigTypes
<1>11. ASSUME NEW s \in StaticIds \ disturbed' PROVE OrdersNext(s)
  <2>0. s \in StaticIds \ disturbed /\ s \in Providers
    BY <1>2, StaticProviders, ZenonT(60)
  <2>1. PICK B, M, r : B = Of(bondEvents, s) /\ M = Of(modEvents, s) /\ r = providers[s]
    BY ZenonT(60)
  <2>2. InOrder(B, M, configs[s], r) /\ Apart(B, M)
    BY <1>0, <2>0, <2>1, QueuesApart, ZenonT(60) DEF ConfigInv
  <2>3. Of(modEvents', s) = M /\ Of(bondEvents', s) = B \ {h} /\ providers'[s] = r
    BY <1>2, <1>3, <2>1, ZenonT(60) DEF Of
  <2>4. CASE s # k
    <3>1. configs'[s] = configs[s] /\ B \ {h} = B
      BY <1>0, <1>5, <1>7, <2>0, <2>1, <2>4, ZenonT(60) DEF Of
    <3> QED
      BY <2>2, <2>3, <3>1, ZenonT(60) DEF OrdersNext
  <2>5. CASE s = k
    <3>1. h \in B /\ configs'[s] = d
      BY <1>0, <1>3, <1>5, <1>6, <1>7, <2>1, <2>5, ZenonT(60) DEF Of
    <3>2. \A f \in B \ {h} : h.number < f.number
      BY <1>3, <2>1, ZenonT(60) DEF Of
    <3>3. \A f \in M : ~(f.number < h.number) /\ f.number # h.number
      <4>1. Overtakes(h, modEvents) # {h.filed}
        BY <1>2, <1>5, <2>5, ZenonT(60)
      <4>2. \A i \in DOMAIN modEvents :
              ~(modEvents[i].filed = h.filed /\ modEvents[i].number < h.number)
        BY <4>1, ZenonT(60) DEF Overtakes
      <4>3. \A f \in M : ~(f.number < h.number)
        BY <1>5, <2>1, <2>5, <4>2, ZenonT(60) DEF Of, Range
      <4>4. \A f \in M : f.number # h.number
        BY <1>0, <1>3, <2>1, ZenonT(60) DEF Numbered, Of
      <4> QED
        BY <4>3, <4>4
    <3>4. \A f \in B \cup M : f.number \in Nat
      BY <2>2, EventFields, ZenonT(60)
    <3>5. \A f \in (B \cup M) \ {h} : h.number < f.number
      <4>1. \A i, j \in Nat : ~(i < j) /\ i # j => j < i
        OBVIOUS
      <4> QED
        BY <3>1, <3>2, <3>3, <3>4, <4>1, ZenonT(60)
    <3>6. InOrder(B \ {h}, M, d, r)
      <4>1. InOrder(B, M, c, r)
        BY <1>5, <2>2, <2>5, ZenonT(60)
      <4> QED
        BY <1>5, <1>8, <2>2, <3>1, <3>5, <4>1, BondHandled, ZenonT(60)
    <3> QED
      BY <2>3, <3>1, <3>6, ZenonT(60) DEF OrdersNext
  <2> QED
    BY <2>4, <2>5
<1> QED
  BY <1>4, <1>10, <1>11, ConfigNextInv, ZenonT(60)

\* The sentinel handles a mod event.
LEMMA ModEventKeeps ==
    ASSUME ConfigInv, HandleModProviderEvent
    PROVE  ConfigInv'
<1>0. /\ ConfigTypes /\ Numbered /\ providers \in [Providers -> Records] /\ emitted \in Nat
      /\ bondEvents \in Seq(EventType) /\ modEvents \in Seq(EventType)
      /\ configs \in [Providers \cup {NoId} -> Configs]
  BY ZenonT(60) DEF ConfigInv, ConfigTypes
<1>1. PICK h : h = Head(modEvents)
  BY ZenonT(60)
<1>2. /\ modEvents # <<>> /\ modEvents' = Tail(modEvents)
      /\ UNCHANGED <<providers, bondEvents, emitted>>
      /\ configs' = IF configs[h.filed] = NoConfig THEN configs
                    ELSE [configs EXCEPT ![h.filed] = [h.record EXCEPT !.updated = FALSE]]
      /\ disturbed' = disturbed \cup Overtakes(h, bondEvents)
  BY <1>1, ZenonT(60) DEF HandleModProviderEvent, registryVars
<1>3. /\ h \in Range(modEvents) /\ h \in EventType
      /\ modEvents' \in Seq(EventType) /\ Increasing(modEvents')
      /\ Range(modEvents') = Range(modEvents) \ {h}
      /\ \A f \in Range(modEvents) \ {h} : h.number < f.number
  BY <1>1, <1>2, QueueHandled, ZenonT(60)
<1>4. Numbered'
  BY <1>0, <1>2, <1>3, ZenonT(60) DEF Numbered
<1>5. PICK k, c, d :
        /\ k = h.filed /\ c = configs[k]
        /\ d = IF c = NoConfig THEN c ELSE [h.record EXCEPT !.updated = FALSE]
  BY ZenonT(60)
<1>6. k \in Providers \cup {NoId} /\ h.record \in Records
  BY <1>3, <1>5, ZenonT(60) DEF EventType
<1>7. configs' = [configs EXCEPT ![k] = d]
  BY <1>0, <1>2, <1>5, <1>6, ZenonT(60)
<1>8. c \in Configs /\ d \in Configs
  BY <1>0, <1>5, <1>6, RecordKinds, ZenonT(60)
<1>10. ConfigTypes'
  <2>1. configs' \in [Providers \cup {NoId} -> Configs]
    BY <1>0, <1>6, <1>7, <1>8, ZenonT(60)
  <2> QED
    BY <1>0, <1>2, <1>3, <2>1, ZenonT(60) DEF ConfigTypes
<1>11. ASSUME NEW s \in StaticIds \ disturbed' PROVE OrdersNext(s)
  <2>0. s \in StaticIds \ disturbed /\ s \in Providers
    BY <1>2, StaticProviders, ZenonT(60)
  <2>1. PICK B, M, r : B = Of(bondEvents, s) /\ M = Of(modEvents, s) /\ r = providers[s]
    BY ZenonT(60)
  <2>2. InOrder(B, M, configs[s], r) /\ Apart(B, M)
    BY <1>0, <2>0, <2>1, QueuesApart, ZenonT(60) DEF ConfigInv
  <2>3. Of(bondEvents', s) = B /\ Of(modEvents', s) = M \ {h} /\ providers'[s] = r
    BY <1>2, <1>3, <2>1, ZenonT(60) DEF Of
  <2>4. CASE s # k
    <3>1. configs'[s] = configs[s] /\ M \ {h} = M
      BY <1>0, <1>5, <1>7, <2>0, <2>1, <2>4, ZenonT(60) DEF Of
    <3> QED
      BY <2>2, <2>3, <3>1, ZenonT(60) DEF OrdersNext
  <2>5. CASE s = k
    <3>1. h \in M /\ configs'[s] = d
      BY <1>0, <1>3, <1>5, <1>6, <1>7, <2>1, <2>5, ZenonT(60) DEF Of
    <3>2. \A f \in M \ {h} : h.number < f.number
      BY <1>3, <2>1, ZenonT(60) DEF Of
    <3>3. \A f \in B : ~(f.number < h.number) /\ f.number # h.number
      <4>1. Overtakes(h, bondEvents) # {h.filed}
        BY <1>2, <1>5, <2>5, ZenonT(60)
      <4>2. \A i \in DOMAIN bondEvents :
              ~(bondEvents[i].filed = h.filed /\ bondEvents[i].number < h.number)
        BY <4>1, ZenonT(60) DEF Overtakes
      <4>3. \A f \in B : ~(f.number < h.number)
        BY <1>5, <2>1, <2>5, <4>2, ZenonT(60) DEF Of, Range
      <4>4. \A f \in B : f.number # h.number
        BY <1>0, <1>3, <2>1, ZenonT(60) DEF Numbered, Of
      <4> QED
        BY <4>3, <4>4
    <3>4. \A f \in B \cup M : f.number \in Nat
      BY <2>2, EventFields, ZenonT(60)
    <3>5. \A f \in (B \cup M) \ {h} : h.number < f.number
      <4>1. \A i, j \in Nat : ~(i < j) /\ i # j => j < i
        OBVIOUS
      <4> QED
        BY <3>1, <3>2, <3>3, <3>4, <4>1, ZenonT(60)
    <3>6. InOrder(B, M \ {h}, d, r)
      <4>1. InOrder(B, M, c, r)
        BY <1>5, <2>2, <2>5, ZenonT(60)
      <4> QED
        BY <1>5, <1>8, <2>2, <3>1, <3>5, <4>1, ModHandled, ZenonT(60)
    <3> QED
      BY <2>3, <3>1, <3>6, ZenonT(60) DEF OrdersNext
  <2> QED
    BY <2>4, <2>5
<1> QED
  BY <1>4, <1>10, <1>11, ConfigNextInv, ZenonT(60)

\* The events on their way are lost.
LEMMA RestartKeeps ==
    ASSUME ConfigInv, Restart
    PROVE  ConfigInv'
<1>0. /\ ConfigTypes /\ Numbered
      /\ bondEvents \in Seq(EventType) /\ modEvents \in Seq(EventType)
  BY ZenonT(60) DEF ConfigInv, ConfigTypes
<1>1. /\ bondEvents' = <<>> /\ modEvents' = <<>> /\ UNCHANGED <<providers, configs, emitted>>
      /\ disturbed' = disturbed \cup {e.filed : e \in Range(bondEvents \o modEvents)}
  BY ZenonT(60) DEF Restart, registryVars
<1>2. <<>> \in Seq(EventType) /\ DOMAIN <<>> = {}
  OBVIOUS
<1>3. Range(bondEvents') = {} /\ Range(modEvents') = {}
  BY <1>1, <1>2, ZenonT(60) DEF Range
<1>4. Numbered'
  BY <1>1, <1>2, <1>3, ZenonT(60) DEF Numbered, Increasing
<1>5. ConfigTypes'
  BY <1>0, <1>1, <1>2, ZenonT(60) DEF ConfigTypes
<1>6. ASSUME NEW s \in StaticIds \ disturbed' PROVE OrdersNext(s)
  <2>1. Range(bondEvents \o modEvents) = Range(bondEvents) \cup Range(modEvents)
    BY <1>0, QueueJoin, ZenonT(60)
  <2>2. Of(bondEvents, s) = {} /\ Of(modEvents, s) = {} /\ s \in StaticIds \ disturbed
    BY <1>1, <2>1, ZenonT(60) DEF Of
  <2>3. Of(bondEvents', s) = {} /\ Of(modEvents', s) = {}
    BY <1>3, ZenonT(60) DEF Of
  <2>4. InOrder(Of(bondEvents, s), Of(modEvents, s), configs[s], providers[s])
    BY <2>2, ZenonT(60) DEF ConfigInv
  <2> QED
    BY <1>1, <2>2, <2>3, <2>4, ZenonT(60) DEF OrdersNext
<1> QED
  BY <1>4, <1>5, <1>6, ConfigNextInv, ZenonT(60)

\* The authority's messages leave the providers and the sentinel alone.
LEMMA UnchangedKeeps ==
    ASSUME ConfigInv, UNCHANGED <<providers, bondEvents, modEvents, configs, emitted, disturbed>>
    PROVE  ConfigInv'
<1>1. ConfigTypes' /\ Numbered'
  BY ZenonT(60) DEF ConfigInv, ConfigTypes, Numbered
<1>2. \A s \in StaticIds \ disturbed' : OrdersNext(s)
  BY ZenonT(60) DEF ConfigInv, OrdersNext
<1> QED
  BY <1>1, <1>2, ConfigNextInv, ZenonT(60)

\* Nothing is bonded and no configuration stored at first.
LEMMA ConfigInitInv == ConfigInit => ConfigInv
<1> SUFFICES ASSUME ConfigInit PROVE ConfigInv
  OBVIOUS
<1>1. /\ bondEvents = <<>> /\ modEvents = <<>> /\ emitted = 0
      /\ configs = [s \in Providers \cup {NoId} |-> NoConfig]
      /\ providers = [p \in Providers |-> NewProvider]
  BY ZenonT(60) DEF ConfigInit, ServiceInit, RegistryInit
<1>2. <<>> \in Seq(EventType) /\ DOMAIN <<>> = {} /\ 0 \in Nat
  OBVIOUS
<1>3. Range(bondEvents) = {} /\ Range(modEvents) = {}
  BY <1>1, <1>2, ZenonT(60) DEF Range
<1>4. ConfigTypes
  BY <1>1, <1>2, RecordKinds, ZenonT(60) DEF ConfigTypes
<1>5. Numbered
  BY <1>1, <1>2, <1>3, ZenonT(60) DEF Numbered, Increasing
<1>6. Follows(NoConfig, NewProvider)
  <2>1. NewProvider.bond = 0
    BY DEF NewProvider
  <2> QED
    BY <2>1, RecordKinds, ZenonT(60) DEF Follows
<1>7. ASSUME NEW s \in StaticIds
      PROVE  InOrder(Of(bondEvents, s), Of(modEvents, s), configs[s], providers[s])
  <2>1. Of(bondEvents, s) = {} /\ Of(modEvents, s) = {}
    BY <1>3, ZenonT(60) DEF Of
  <2>2. configs[s] = NoConfig /\ providers[s] = NewProvider
    BY <1>1, StaticProviders, ZenonT(60)
  <2> QED
    BY <1>6, <2>1, <2>2, ZenonT(60) DEF InOrder
<1> QED
  BY <1>4, <1>5, <1>7, ZenonT(60) DEF ConfigInv

\* Every step of the chain and of the sentinel keeps the events in order.
LEMMA ConfigStepInv ==
    ASSUME ConfigInv, ServiceTypeOK, [ConfigNext]_configSpecVars
    PROVE  ConfigInv'
<1>1. ASSUME NEW n \in Names, NEW bond \in Bonds, NEW spelled \in BOOLEAN,
             NEW first \in BOOLEAN, ChainBondProvider(n, bond, spelled, first)
      PROVE  ConfigInv'
  BY <1>1, ChainBondKeeps, ZenonT(60)
<1>2. ASSUME NEW n \in Names, NEW o \in Offers, NEW first \in BOOLEAN,
             ChainModProvider(n, o, first)
      PROVE  ConfigInv'
  BY <1>2, ChainModKeeps, ZenonT(60)
<1>3. CASE ChainChangesServices
  <2>1. UNCHANGED registryVars
    BY <1>3, ZenonT(60)
    DEF ChainChangesServices, ServiceChange, EnsureServiceRegistrySeeded, RegisterService,
        UpdateService, RemoveService, AuthorityMessage
  <2>2. UNCHANGED <<providers, bondEvents, modEvents, configs, emitted, disturbed>>
    BY <1>3, <2>1, ZenonT(60) DEF ChainChangesServices, registryVars, configVars
  <2> QED
    BY <2>2, UnchangedKeeps, ZenonT(60)
<1>4. CASE HandleBondProviderEvent
  BY <1>4, BondEventKeeps, ZenonT(60)
<1>5. CASE HandleModProviderEvent
  BY <1>5, ModEventKeeps, ZenonT(60)
<1>6. CASE Restart
  BY <1>6, RestartKeeps, ZenonT(60)
<1>7. CASE UNCHANGED configSpecVars
  <2>1. UNCHANGED <<providers, bondEvents, modEvents, configs, emitted, disturbed>>
    BY <1>7, ZenonT(60) DEF configSpecVars, registryVars, configVars
  <2> QED
    BY <2>1, UnchangedKeeps, ZenonT(60)
<1> QED
  BY <1>1, <1>2, <1>3, <1>4, <1>5, <1>6, <1>7, ZenonT(60) DEF ConfigNext

\* With no event of a service on its way, the configuration follows the chain's record.
LEMMA OrderedFollows ==
    ASSUME ConfigInv
    PROVE  ConfigFollows
<1>0. bondEvents \in Seq(EventType) /\ modEvents \in Seq(EventType)
  BY ZenonT(60) DEF ConfigInv, ConfigTypes
<1>1. Range(bondEvents \o modEvents) = Range(bondEvents) \cup Range(modEvents)
  BY <1>0, QueueJoin, ZenonT(60)
<1>2. ASSUME NEW s \in StaticIds \ disturbed,
             \A e \in Range(bondEvents \o modEvents) : e.filed # s
      PROVE  Follows(configs[s], providers[s])
  <2>1. Of(bondEvents, s) = {} /\ Of(modEvents, s) = {}
    BY <1>1, <1>2, ZenonT(60) DEF Of
  <2>2. InOrder(Of(bondEvents, s), Of(modEvents, s), configs[s], providers[s])
    BY ZenonT(60) DEF ConfigInv
  <2> QED
    BY <2>1, <2>2, ZenonT(60) DEF InOrder
<1> QED
  BY <1>2, ZenonT(60) DEF ConfigFollows, Follows, Published

\* The configuration the sentinel keeps of a service follows the chain's record of it: with
\* no event of the service on its way, and unless an event of it was lost in a restart,
\* overtaken by one of the other kind or filed under another service, the bond is the
\* chain's bond, and once the provider has published its terms the configuration is the
\* chain's record. BondProvider and ModProvider emit what they save; handleBondProviderEvent
\* changes the bond alone and handleModProviderEvent replaces the configuration.
THEOREM ConfigsFollow == ConfigSpec => []ConfigFollows
<1>1. ConfigInit => ServiceInv /\ ConfigInv
  BY ServiceInitAgrees, ConfigInitInv, ZenonT(60) DEF ConfigInit
<1>2. ServiceInv /\ ConfigInv /\ [ConfigNext]_configSpecVars => (ServiceInv /\ ConfigInv)'
  BY ConfigStepsService, ServiceStepAgrees, ConfigStepInv, ZenonT(60) DEF ServiceInv
<1>3. ConfigInv => ConfigFollows
  BY OrderedFollows
<1> QED
  BY <1>1, <1>2, <1>3, PTL DEF ConfigSpec
=============================================================================
