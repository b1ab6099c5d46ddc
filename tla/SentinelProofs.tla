--------------------------- MODULE SentinelProofs ----------------------------
(***************************************************************************)
(* For any number of contracts, calls, HTTP threads and restarts, and      *)
(* every interleaving of them with the event loop and the chain: a claim   *)
(* the sentinel marks as claimed was settled on chain, the claim store     *)
(* covers the calls that were served, and no nonce is served twice.        *)
(***************************************************************************)
EXTENDS Sentinel, MarketProofs

-----------------------------------------------------------------------------
(* The chain under a sentinel *)

\* A step of the sentinel and the chain together is a step of the market, or
\* leaves it alone.
LEMMA SentinelStepsMarket ==
    ASSUME SentinelNext \/ UNCHANGED sentinelAll
    PROVE  [Next]_vars
<1>1. CASE ChainOpenContract
  BY <1>1 DEF ChainOpenContract, Next
<1>2. ASSUME NEW id \in Ids, NEW nonce \in 1 .. MaxNonce, ChainClaimContractIncome(id, nonce)
      PROVE  Next
  BY <1>2 DEF ChainClaimContractIncome, Next
<1>3. ASSUME NEW id \in Ids, ChainCloseContract(id) PROVE Next
  BY <1>3 DEF ChainCloseContract, Next
<1>4. ASSUME NEW id \in Ids, SignCall(id) PROVE Next
  BY <1>4 DEF Next
<1>5. CASE ChainEndBlock
  BY <1>5 DEF ChainEndBlock, Next
<1>6. CASE Dispatch
  BY <1>6, ZenonT(60) DEF Dispatch, HandleOpenContractEvent, HandleCloseContractEvent,
      HandleContractSettlementEvent, HandleNewBlockHeaderEvent, GetSettled, SetSettled,
      DispatchUnchanged
<1>7. ASSUME NEW t \in Threads, Proceed(t) PROVE UNCHANGED vars
  BY <1>7, ZenonT(60) DEF Proceed, HasClaim, GetClaim, SetClaim, PutContract, CheckClaim, RemoveClaim,
      SetMarked
<1>8. ASSUME NEW t \in Threads, NEW id \in Ids, NEW nonce \in 1 .. MaxNonce,
             \/ \E spender \in {EmptyPubKey, Spender(id)} : PaidTier(t, id, nonce, spender)
             \/ MarkClaimed(t, id, nonce)
      PROVE  UNCHANGED vars
  BY <1>8 DEF PaidTier, MarkClaimed
<1>9. ASSUME NEW t \in Threads, ListClaims(t) PROVE UNCHANGED vars
  BY <1>9 DEF ListClaims
<1>10. CASE Restart
  BY <1>10 DEF Restart
<1>11. CASE UNCHANGED sentinelAll
  BY <1>11 DEF sentinelAll
<1> QED
  BY <1>1, <1>2, <1>3, <1>4, <1>5, <1>6, <1>7, <1>8, <1>9, <1>10, <1>11
  DEF SentinelNext

\* A provider on line is a state the market's invariant allows.
LEMMA SentinelInitIInv == SentinelInit => IInv
<1> SUFFICES ASSUME SentinelInit PROVE IInv
  OBVIOUS
<1> USE DEF SentinelInit, ContractsInit
<1>0. PICK bond \in Bonds, o \in Offers :
        /\ bond > 0 /\ ValidOffer(o)
        /\ height = 1
        /\ providers = [p \in Providers |->
             Modified([NewProvider EXCEPT !.bond = bond, !.updated = TRUE], o)]
  BY ZenonT(60) DEF ProviderOnLine
<1>1. \A id \in Ids : contracts[id] = EmptyContract /\ closedAt[id] = {}
  OBVIOUS
<1>2. \A id \in Ids : ~Exists(id) /\ ~Settled(id)
  BY <1>1 DEF Exists, Settled, IsEmpty, EmptyContract
<1>3. TypeOK
  <2>1. Modified([NewProvider EXCEPT !.bond = bond, !.updated = TRUE], o) \in ProviderRecord
    <3>1. bond \in Nat /\ NewProvider \in ProviderRecord
      BY <1>0, RegistryAssumptions DEF NewProvider, ProviderRecord
    <3>2. [NewProvider EXCEPT !.bond = bond, !.updated = TRUE] \in ProviderRecord
      BY <3>1, ZenonT(60) DEF ProviderRecord
    <3> QED
      BY <1>0, <3>2, ModifiedType
  <2>2. height \in Heights /\ nextId \in 1 .. MaxContracts + 1
    BY <1>0, RegistryAssumptions, MarketAssumptions DEF Heights
  <2>3. \A id \in Ids : contracts[id] = EmptyContract <=> id >= nextId
    BY <1>1 DEF Ids
  <2> QED
    BY <1>0, <2>1, <2>2, <2>3, MarketAssumptions DEF TypeOK
<1>4. DepositAccounted
  BY <1>1, <1>2 DEF DepositAccounted, EmptyContract
<1>5. UserSetHoldsUnsettled
  BY <1>2 DEF UserSetHoldsUnsettled
<1>6. Opened /\ RefundedLast /\ ClosedExist /\ Entries /\ Scheduled /\ SettlementWindow
  BY <1>1, <1>2 DEF Opened, RefundedLast, ClosedExist, Entries, Scheduled, SettlementWindow
<1> QED
  BY <1>3, <1>4, <1>5, <1>6 DEF IInv

\* The nonce of a contract on chain never goes back.
LEMMA NonceGrows ==
    ASSUME IInv, [Next]_vars, NEW id \in Ids
    PROVE  contracts[id].nonce \in Nat /\ contracts[id].nonce <= contracts'[id].nonce
<1>1. /\ contracts \in [Ids -> Contract \cup {EmptyContract}] /\ height \in Heights
      /\ \A i \in Ids : contracts[i] = EmptyContract <=> i >= nextId
  BY DEF IInv, TypeOK
<1>2. contracts[id].nonce \in Nat
  BY <1>1 DEF Contract, EmptyContract
<1>3. ASSUME NEW S \in SUBSET Ids, NEW nonce \in 0 .. MaxNonce, NEW isFinal \in BOOLEAN,
             Record(S, nonce, isFinal), \A i \in S : Exists(i)
      PROVE  contracts[id].nonce <= contracts'[id].nonce
  <2>1. CASE id \notin S
    BY <1>2, <1>3, <2>1 DEF Record
  <2>2. CASE id \in S
    <3>1. contracts[id] \in Contract /\ contracts[id].paid <= contracts[id].deposit
      BY <1>3, <2>2, StoredType DEF IInv, DepositAccounted
    <3>2. contracts'[id] = SettleContract(contracts[id], nonce, isFinal).contract
      BY <1>3, <2>2 DEF Record
    <3>3. height \in Heights
      BY <1>1
    <3>4. SettleContract(contracts[id], nonce, isFinal).contract.nonce
            = Greatest(contracts[id].nonce, nonce)
      BY <3>1, <3>3, SettleEffect, ZenonT(60)
    <3>5. contracts'[id].nonce = Greatest(contracts[id].nonce, nonce)
      BY <3>2, <3>4
    <3> QED
      BY <1>2, <3>5 DEF Greatest
  <2> QED
    BY <2>1, <2>2
<1>4. CASE UNCHANGED contracts
  BY <1>2, <1>4
<1>5. ASSUME NEW r \in Requests, NEW p \in Providers, NEW client \in Users,
             NEW delegate \in Users \cup {EmptyPubKey}, OpenContract(r, p, client, delegate)
      PROVE  contracts[id].nonce <= contracts'[id].nonce
  <2>1. contracts' = [contracts EXCEPT ![nextId] = NewContract(r, p, client, delegate)]
    BY <1>5 DEF OpenContract
  <2>2. CASE id = nextId
    <3>1. contracts[id] = EmptyContract
      BY <1>1, <2>2 DEF Ids
    <3>2. contracts[id].nonce = 0 /\ contracts'[id].nonce = 0
      BY <1>1, <2>1, <2>2, <3>1 DEF EmptyContract, NewContract
    <3> QED
      BY <3>2
  <2>3. CASE id # nextId
    BY <1>1, <1>2, <2>1, <2>3
  <2> QED
    BY <2>2, <2>3
<1>6. ASSUME NEW i \in Ids, NEW nonce \in 1 .. MaxNonce, ClaimContractIncome(i, nonce)
      PROVE  contracts[id].nonce <= contracts'[id].nonce
  <2>1. {i} \in SUBSET Ids /\ (\A j \in {i} : Exists(j)) /\ nonce \in 0 .. MaxNonce
    <3>1. Settling({i}, FALSE)
      BY <1>6, ClaimSettles, ZenonT(60)
    <3> QED
      BY <3>1 DEF Settling
  <2>2. Record({i}, nonce, FALSE)
    BY <1>6, ZenonT(60) DEF ClaimContractIncome
  <2> QED
    BY <1>3, <2>1, <2>2, ZenonT(60)
<1>7. ASSUME NEW i \in Ids, CloseContract(i)
      PROVE  contracts[id].nonce <= contracts'[id].nonce
  <2>1. {i} \in SUBSET Ids /\ (\A j \in {i} : Exists(j)) /\ 0 \in 0 .. MaxNonce
    <3>1. \E f \in BOOLEAN : Settling({i}, f)
      BY <1>7, CloseSettles
    <3> QED
      BY <3>1, MarketAssumptions DEF Settling
  <2>2. Record({i}, 0, IsSubscription(contracts[i]))
    BY <1>7 DEF CloseContract
  <2>3. IsSubscription(contracts[i]) \in BOOLEAN
    BY DEF IsSubscription
  <2> QED
    BY <1>3, <2>1, <2>2, <2>3
<1>8. CASE EndBlock
  <2> DEFINE S == {i \in Due : Listed(i)}
  <2>1. S \in SUBSET Ids /\ \A i \in S : Exists(i)
    BY <1>1 DEF Due, Exists, IInv, TypeOK
  <2>2. Record(S, 0, TRUE)
    BY <1>8, ZenonT(60) DEF EndBlock
  <2>3. 0 \in 0 .. MaxNonce /\ TRUE \in BOOLEAN
    BY MarketAssumptions
  <2> HIDE DEF S
  <2> QED
    BY <1>2, <1>3, <2>1, <2>2, <2>3, ZenonT(60)
<1> QED
  BY <1>2, <1>4, <1>5, <1>6, <1>7, <1>8
  DEF Next, vars, contractVars, SignCall

-----------------------------------------------------------------------------
(* Claims that are marked *)

Claims      == [nonce : Int, claimed : BOOLEAN]
Settlements == [id : Ids, nonce : Nat]
Headers     == [height : Heights, settled : SUBSET Settlements]

\* What the argument needs of a request.
Fields == {"pc", "id", "nonce", "contract", "claim", "todo"}

IsRequest(r) ==
    /\ r = [f \in Fields |-> r[f]]
    /\ r.nonce \in Nat

\* A claim that is settled on chain.
Covered(claim, id) ==
    id \in Ids /\ claim \in Claims /\ claim.nonce <= contracts[id].nonce

\* The stores have their types.
StoresTyped ==
    /\ claims \in [Ids -> Claims]
    /\ thread = [t \in Threads |-> thread[t]]
    /\ \A t \in Threads : IsRequest(thread[t])
    /\ queue = [s \in DOMAIN NoEvents |-> queue[s]]
    /\ queue["claim"] \in {<<>>} \cup {<<e>> : e \in Settlements}
    /\ queue["block"] \in {<<>>} \cup {<<e>> : e \in Headers}
    /\ dispatcher \in [pending : SUBSET Settlements, claim : Claims, id : Nat]

\* A settlement event.
Happened(e) == e.nonce <= contracts[e.id].nonce

\* Whatever is on its way to mark a claim is about a nonce settled on chain: an
\* event that waits or is worked on, the claim the event loop has read, and the
\* claim a mark-claimed request has read.
MarksCovered ==
    /\ ClaimedWasSettled
    /\ \A t \in Threads : thread[t].pc = "mark" => Covered(thread[t].claim, thread[t].id)
    /\ dispatcher.claim # NoClaim => Covered(dispatcher.claim, dispatcher.id)
    /\ \A e \in dispatcher.pending : Happened(e)
    /\ queue["claim"] # <<>> => Happened(Head(queue["claim"]))
    /\ queue["block"] # <<>> => \A e \in Head(queue["block"]).settled : Happened(e)

SentinelInv == IInv /\ StoresTyped /\ MarksCovered

\* An HTTP thread that does nothing.
LEMMA IdleRequest == NoClaim \in Claims /\ IsRequest(Idle) /\ Idle.pc = "idle"
<1>1. NoClaim \in Claims
  BY DEF NoClaim, Claims
<1>2. Idle = [f \in Fields |-> Idle[f]]
  BY DEF Idle, Fields
<1>3. Idle.nonce \in Nat /\ Idle.pc = "idle"
  BY DEF Idle
<1> QED
  BY <1>1, <1>2, <1>3 DEF IsRequest

\* The first states of the sentinel have nothing stored.
LEMMA SentinelInitInv == SentinelInit => SentinelInv
<1> SUFFICES ASSUME SentinelInit PROVE SentinelInv
  OBVIOUS
<1>1. NoClaim \in Claims /\ IsRequest(Idle) /\ Idle.pc = "idle"
  BY IdleRequest
<1>2. StoresTyped
  BY <1>1 DEF SentinelInit, StoresTyped, NoEvents
<1>3. MarksCovered
  BY <1>1 DEF SentinelInit, MarksCovered, NoEvents, ClaimedWasSettled, NoClaim
<1> QED
  BY <1>2, <1>3, SentinelInitIInv DEF SentinelInv

\* What was settled on chain stays settled.
LEMMA HappenedStays ==
    ASSUME IInv, [Next]_vars
    PROVE  /\ \A e \in Settlements : Happened(e) => Happened(e)'
           /\ \A claim \in Claims, id \in Ids : claim.nonce <= contracts[id].nonce
                 => claim.nonce <= contracts'[id].nonce
<1>1. \A id \in Ids : contracts[id].nonce \in Nat /\ contracts[id].nonce <= contracts'[id].nonce
  BY NonceGrows
<1>2. IInv'
  BY NextIInv
<1>3. \A id \in Ids : contracts'[id].nonce \in Nat
  <2>1. \A id \in Ids : contracts'[id] \in Contract \cup {EmptyContract}
    BY <1>2 DEF IInv, TypeOK
  <2>2. \A c \in Contract \cup {EmptyContract} : c.nonce \in Nat
    BY MarketAssumptions DEF Contract, EmptyContract
  <2> QED
    BY <2>1, <2>2, Zenon
<1>4. ASSUME NEW e \in Settlements, Happened(e) PROVE e.nonce <= contracts'[e.id].nonce
  <2>1. e.id \in Ids /\ e.nonce \in Nat
    BY DEF Settlements
  <2> QED
    BY <1>1, <1>3, <1>4, <2>1 DEF Happened
<1>5. ASSUME NEW claim \in Claims, NEW id \in Ids, claim.nonce <= contracts[id].nonce
      PROVE  claim.nonce <= contracts'[id].nonce
  <2>1. claim.nonce \in Int
    BY DEF Claims
  <2> QED
    BY <1>1, <1>3, <1>5, <2>1
<1> QED
  BY <1>4, <1>5 DEF Happened

\* A step of the chain that leaves the sentinel's stores alone, but for the
\* events it adds, keeps the invariant when the events are of what happened.
LEMMA ChainKeeps ==
    ASSUME SentinelInv, [Next]_vars, ChainUnchanged,
           queue' = [s \in DOMAIN NoEvents |-> queue'[s]],
           \/ queue'["claim"] = queue["claim"]
           \/ \E e \in Settlements : queue'["claim"] = <<e>> /\ Happened(e)',
           \/ queue'["block"] = queue["block"]
           \/ \E b \in Headers : /\ queue'["block"] = <<b>>
                                 /\ \A e \in b.settled : Happened(e)'
    PROVE  SentinelInv'
<1>1. IInv /\ IInv' /\ StoresTyped /\ MarksCovered
  BY NextIInv DEF SentinelInv
<1>2. UNCHANGED <<claims, thread, dispatcher>>
  BY DEF ChainUnchanged
<1>3. StoresTyped'
  BY <1>1, <1>2, ZenonT(60) DEF StoresTyped, IsRequest
<1>4. ClaimedWasSettled'
  BY <1>1, <1>2, HappenedStays DEF StoresTyped, MarksCovered, ClaimedWasSettled, Stored
<1>5. \A t \in Threads : (thread[t].pc = "mark" => Covered(thread[t].claim, thread[t].id))'
  BY <1>1, <1>2, HappenedStays DEF MarksCovered, Covered
<1>6. (dispatcher.claim # NoClaim => Covered(dispatcher.claim, dispatcher.id))'
  BY <1>1, <1>2, HappenedStays DEF MarksCovered, Covered
<1>7. (\A e \in dispatcher.pending : Happened(e))'
  BY <1>1, <1>2, HappenedStays DEF MarksCovered, StoresTyped
<1>8. (queue["claim"] # <<>> => Happened(Head(queue["claim"])))'
  <2>1. CASE queue'["claim"] = queue["claim"]
    <3>1. CASE queue["claim"] = <<>>
      BY <2>1, <3>1
    <3>2. ASSUME NEW e \in Settlements, queue["claim"] = <<e>>
          PROVE  Happened(Head(queue["claim"]))'
      BY <1>1, <2>1, <3>2, HappenedStays DEF MarksCovered, Happened
    <3> QED
      BY <1>1, <2>1, <3>1, <3>2, ZenonT(60) DEF StoresTyped
  <2>2. CASE \E e \in Settlements : queue'["claim"] = <<e>> /\ Happened(e)'
    BY <2>2 DEF Happened
  <2> QED
    BY <2>1, <2>2
<1>9. (queue["block"] # <<>> => \A e \in Head(queue["block"]).settled : Happened(e))'
  <2>1. CASE queue'["block"] = queue["block"]
    <3>1. CASE queue["block"] = <<>>
      BY <2>1, <3>1
    <3>2. ASSUME NEW b \in Headers, queue["block"] = <<b>>
          PROVE  (\A e \in Head(queue["block"]).settled : Happened(e))'
      <4>1. Head(queue["block"]) = b /\ Head(queue'["block"]) = b /\ b.settled \subseteq Settlements
        BY <2>1, <3>2 DEF Headers
      <4>2. \A e \in b.settled : Happened(e)
        BY <1>1, <3>2, <4>1 DEF MarksCovered
      <4> QED
        BY <4>1, <4>2, HappenedStays, <1>1
    <3> QED
      BY <1>1, <2>1, <3>1, <3>2, ZenonT(60) DEF StoresTyped
  <2>2. CASE \E b \in Headers : /\ queue'["block"] = <<b>>
                                /\ \A e \in b.settled : Happened(e)'
    BY <2>2
  <2> QED
    BY <2>1, <2>2
<1> QED
  BY <1>1, <1>3, <1>4, <1>5, <1>6, <1>7, <1>8, <1>9 DEF SentinelInv, MarksCovered

\* The events of the chain's messages and blocks are of what has just happened.
LEMMA ChainSteps ==
    ASSUME SentinelInv, [Next]_vars,
           \/ ChainOpenContract
           \/ \E id \in Ids : \/ \E nonce \in 1 .. MaxNonce : ChainClaimContractIncome(id, nonce)
                              \/ ChainCloseContract(id)
                              \/ SignCall(id) /\ UNCHANGED sentinelVars
           \/ ChainEndBlock
    PROVE  SentinelInv'
<1>0. /\ IInv /\ queue = [s \in DOMAIN NoEvents |-> queue[s]]
      /\ DOMAIN NoEvents = {"open", "close", "claim", "block"}
  BY DEF SentinelInv, StoresTyped, NoEvents
<1>1. CASE ChainOpenContract
  <2>1. /\ ChainUnchanged
        /\ \E e : queue' = [queue EXCEPT !["open"] = e]
    BY <1>1, ZenonT(60) DEF ChainOpenContract, Emit
  <2>2. /\ queue' = [s \in DOMAIN NoEvents |-> queue'[s]]
        /\ queue'["claim"] = queue["claim"] /\ queue'["block"] = queue["block"]
    BY <1>0, <2>1, ZenonT(60)
  <2> QED
    BY <2>1, <2>2, ChainKeeps
<1>2. ASSUME NEW id \in Ids, ChainCloseContract(id) PROVE SentinelInv'
  <2>1. /\ ChainUnchanged
        /\ \E e : queue' = [queue EXCEPT !["close"] = e]
    BY <1>2, ZenonT(60) DEF ChainCloseContract, Emit
  <2>2. /\ queue' = [s \in DOMAIN NoEvents |-> queue'[s]]
        /\ queue'["claim"] = queue["claim"] /\ queue'["block"] = queue["block"]
    BY <1>0, <2>1, ZenonT(60)
  <2> QED
    BY <2>1, <2>2, ChainKeeps
<1>3. ASSUME NEW id \in Ids, SignCall(id), UNCHANGED sentinelVars PROVE SentinelInv'
  <2>1. ChainUnchanged /\ queue' = queue
    BY <1>3 DEF ChainUnchanged, sentinelVars
  <2> QED
    BY <1>0, <2>1, ChainKeeps
<1>4. ASSUME NEW id \in Ids, NEW nonce \in 1 .. MaxNonce, ChainClaimContractIncome(id, nonce)
      PROVE  SentinelInv'
  <2> DEFINE e == [id |-> id, nonce |-> nonce]
  <2>1. /\ ChainUnchanged /\ ClaimContractIncome(id, nonce)
        /\ queue["claim"] = <<>>
        /\ queue' = [queue EXCEPT !["claim"] = Append(@, e)]
    BY <1>4 DEF ChainClaimContractIncome, Emit
  <2>2. /\ queue' = [s \in DOMAIN NoEvents |-> queue'[s]]
        /\ queue'["claim"] = Append(<<>>, e) /\ queue'["block"] = queue["block"]
    BY <1>0, <2>1, ZenonT(60)
  <2>3. e \in Settlements /\ Append(<<>>, e) = <<e>> /\ e.id = id /\ e.nonce = nonce
    BY MarketAssumptions DEF Settlements
  <2>4. contracts'[id].nonce = Greatest(contracts[id].nonce, nonce)
    <3>1. Settling({id}, FALSE)
      BY <1>0, <2>1, ClaimSettles, ZenonT(60)
    <3>2. Exists(id) /\ nonce \in 0 .. MaxNonce /\ FALSE \in BOOLEAN
      BY <3>1 DEF Settling
    <3>3. contracts[id] \in Contract /\ contracts[id].paid <= contracts[id].deposit
      BY <1>0, <3>2, StoredType DEF IInv, DepositAccounted
    <3>4. contracts'[id] = SettleContract(contracts[id], nonce, FALSE).contract
      BY <2>1 DEF ClaimContractIncome, Record
    <3>5. height \in Heights
      BY <1>0 DEF IInv, TypeOK
    <3>6. SettleContract(contracts[id], nonce, FALSE).contract.nonce
            = Greatest(contracts[id].nonce, nonce)
      BY <3>2, <3>3, <3>5, SettleEffect, ZenonT(60)
    <3> QED
      BY <3>4, <3>6, ZenonT(60)
  <2>5. nonce <= contracts'[id].nonce
    <3>1. contracts[id].nonce \in Nat
      BY <1>0, NonceGrows
    <3> QED
      BY <2>4, <3>1 DEF Greatest
  <2>6. Happened(e)'
    BY <2>3, <2>5 DEF Happened
  <2> HIDE DEF e
  <2> QED
    BY <2>1, <2>2, <2>3, <2>6, ChainKeeps
<1>5. CASE ChainEndBlock
  <2> DEFINE settled == {id \in Due : Listed(id)}
             event(id) == [id |-> id, nonce |-> contracts[id].nonce]
             b == [height |-> height, settled |-> {event(id) : id \in settled}]
  <2>1. /\ ChainUnchanged
        /\ queue["block"] = <<>>
        /\ queue' = [queue EXCEPT !["block"] = Append(@, b)]
    BY <1>5 DEF ChainEndBlock, Emit
  <2>2. /\ queue' = [s \in DOMAIN NoEvents |-> queue'[s]]
        /\ queue'["block"] = Append(<<>>, b) /\ queue'["claim"] = queue["claim"]
    BY <1>0, <2>1, ZenonT(60)
  <2>3. height \in Heights /\ settled \subseteq Ids
    <3>1. height \in Heights /\ expirationSet \in [Heights -> SUBSET Ids]
      BY <1>0 DEF IInv, TypeOK
    <3> QED
      BY <3>1 DEF Due
  <2>4. \A id \in settled : /\ event(id) \in Settlements
                            /\ event(id).nonce <= contracts'[event(id).id].nonce
    <3>1. \A id \in Ids : /\ contracts[id].nonce \in Nat
                          /\ contracts[id].nonce <= contracts'[id].nonce
      BY <1>0, NonceGrows
    <3> QED
      BY <2>3, <3>1 DEF Settlements
  <2>5. {event(id) : id \in settled} \in SUBSET Settlements
    BY <2>4, ZenonT(60)
  <2>6. b \in Headers /\ Append(<<>>, b) = <<b>>
    <3>1. b \in Headers
      BY <2>3, <2>5, ZenonT(60) DEF Headers
    <3>2. ASSUME NEW x PROVE Append(<<>>, x) = <<x>>
      BY SMTT(60)
    <3> QED
      BY <3>1, <3>2, ZenonT(60)
  <2>7. \A e \in b.settled : Happened(e)'
    <3>1. b.settled = {event(id) : id \in settled}
      BY Zenon
    <3>2. \A e \in b.settled : e.nonce <= contracts'[e.id].nonce
      BY <2>4, <3>1, ZenonT(60)
    <3> QED
      BY <3>2, Zenon DEF Happened
  <2> HIDE DEF b
  <2> QED
    BY <2>1, <2>2, <2>6, <2>7, ChainKeeps
<1> QED
  BY <1>1, <1>2, <1>3, <1>4, <1>5

-----------------------------------------------------------------------------
(* The steps of the sentinel *)

\* What a step of one HTTP thread has to respect: a mark-claimed request has read
\* a claim that was settled, and so has whatever marks a claim.
LEMMA ThreadKeeps ==
    ASSUME SentinelInv, NEW t \in Threads, NEW next, IsRequest(next),
           next.pc = "mark" => Covered(next.claim, next.id),
           Become(t, next), UNCHANGED <<vars, queue, dispatcher>>,
           claims' \in [Ids -> Claims],
           \A id \in Ids : \/ claims'[id] = claims[id]
                           \/ ~claims'[id].claimed
                           \/ claims'[id].nonce <= contracts[id].nonce
    PROVE  SentinelInv'
<1>0. contracts' = contracts
  BY DEF vars, contractVars
<1>1. IInv /\ StoresTyped /\ MarksCovered /\ contracts' = contracts
  BY <1>0 DEF SentinelInv
<1>2. IInv'
  BY <1>1, NextIInv
<1>3. /\ thread' = [u \in Threads |-> thread'[u]]
      /\ \A u \in Threads : thread'[u] \in {thread[u], next} /\ (u # t => thread'[u] = thread[u])
      /\ thread'[t] = next
  BY <1>1 DEF StoresTyped, Become
<1>4. StoresTyped'
  <2>1. \A u \in Threads : IsRequest(thread'[u])
    BY <1>1, <1>3 DEF StoresTyped
  <2> QED
    BY <1>1, <1>3, <2>1, ZenonT(60) DEF StoresTyped, IsRequest
<1>5. ClaimedWasSettled'
  BY <1>1, ZenonT(60) DEF MarksCovered, ClaimedWasSettled, Stored
<1>6. \A u \in Threads : (thread[u].pc = "mark" => Covered(thread[u].claim, thread[u].id))'
  <2> SUFFICES ASSUME NEW u \in Threads, thread'[u].pc = "mark"
               PROVE  Covered(thread[u].claim, thread[u].id)'
    OBVIOUS
  <2>1. CASE u = t
    BY <1>1, <1>3, <2>1 DEF Covered
  <2>2. CASE u # t
    BY <1>1, <1>3, <2>2 DEF Covered, MarksCovered
  <2> QED
    BY <2>1, <2>2, ZenonT(60)
<1>7. /\ (dispatcher.claim # NoClaim => Covered(dispatcher.claim, dispatcher.id))'
      /\ (\A e \in dispatcher.pending : Happened(e))'
      /\ (queue["claim"] # <<>> => Happened(Head(queue["claim"])))'
      /\ (queue["block"] # <<>> => \A e \in Head(queue["block"]).settled : Happened(e))'
  BY <1>1 DEF MarksCovered, Covered, Happened
<1> QED
  BY <1>2, <1>4, <1>5, <1>6, <1>7, ZenonT(60) DEF SentinelInv, MarksCovered

\* The steps that take up a request.
LEMMA RequestSteps ==
    ASSUME SentinelInv, NEW t \in Threads,
           \/ \E id \in Ids, nonce \in 1 .. MaxNonce :
                \/ \E spender \in {EmptyPubKey, Spender(id)} : PaidTier(t, id, nonce, spender)
                \/ MarkClaimed(t, id, nonce)
           \/ ListClaims(t)
    PROVE  SentinelInv'
<1>0. StoresTyped /\ claims \in [Ids -> Claims]
  BY DEF SentinelInv, StoresTyped
<1>1. ASSUME NEW id \in Ids, NEW nonce \in 1 .. MaxNonce, NEW spender,
             PaidTier(t, id, nonce, spender)
      PROVE  SentinelInv'
  <2>1. UNCHANGED <<vars, queue, dispatcher, claims>>
    BY <1>1, ZenonT(60) DEF PaidTier
  <2>2. CASE UNCHANGED thread
    <3>1. Become(t, thread[t])
      BY <1>0, <2>2 DEF Become, StoresTyped
    <3>2. IsRequest(thread[t]) /\ (thread[t].pc = "mark" => Covered(thread[t].claim, thread[t].id))
      BY <1>0 DEF StoresTyped, SentinelInv, MarksCovered
    <3> QED
      BY <1>0, <2>1, <3>1, <3>2, ThreadKeeps, ZenonT(60)
  <2>3. ASSUME NEW c, Become(t, [Idle EXCEPT !.pc = "has", !.id = id, !.nonce = nonce,
                                             !.contract = c])
        PROVE  SentinelInv'
    <3> DEFINE next == [Idle EXCEPT !.pc = "has", !.id = id, !.nonce = nonce, !.contract = c]
    <3>1. next = [f \in Fields |-> next[f]]
      BY IdleRequest, ZenonT(60) DEF IsRequest, Fields
    <3>2. next.pc = "has" /\ next.nonce = nonce
      BY IdleRequest DEF IsRequest, Fields
    <3>3. IsRequest(next) /\ Become(t, next) /\ next.pc # "mark"
      BY <2>3, <3>1, <3>2 DEF IsRequest
    <3> HIDE DEF next
    <3> QED
      BY <1>0, <2>1, <3>3, ThreadKeeps, ZenonT(60)
  <2> QED
    BY <1>1, <2>2, <2>3, ZenonT(60) DEF PaidTier
<1>2. ASSUME NEW id \in Ids, NEW nonce \in 1 .. MaxNonce, MarkClaimed(t, id, nonce)
      PROVE  SentinelInv'
  <2> DEFINE next == [Idle EXCEPT !.pc = "mark", !.id = id, !.claim = claims[id]]
  <2>1. Become(t, next) /\ UNCHANGED <<vars, queue, dispatcher, claims>>
    BY <1>2, ZenonT(60) DEF MarkClaimed
  <2>2. next = [f \in Fields |-> next[f]]
    BY IdleRequest, ZenonT(60) DEF IsRequest, Fields
  <2>3. next.nonce = Idle.nonce /\ next.id = id /\ next.claim = claims[id]
    BY IdleRequest DEF IsRequest, Fields
  <2>4. IsRequest(next)
    BY <2>2, <2>3, IdleRequest, ZenonT(60) DEF IsRequest
  <2>5. Covered(next.claim, next.id)
    BY <1>0, <1>2, <2>3, ZenonT(60) DEF Covered, MarkClaimed
  <2> HIDE DEF next
  <2> QED
    BY <1>0, <2>1, <2>4, <2>5, ThreadKeeps, ZenonT(60)
<1>3. CASE ListClaims(t)
  <2>1. PICK open : /\ Become(t, [Idle EXCEPT !.pc = "check", !.todo = open])
                    /\ UNCHANGED <<vars, queue, dispatcher, claims>>
    BY <1>3, ZenonT(60) DEF ListClaims
  <2> DEFINE next == [Idle EXCEPT !.pc = "check", !.todo = open]
  <2>2. IsRequest(next) /\ next.pc # "mark"
    <3>1. next = [f \in Fields |-> next[f]]
      BY IdleRequest, ZenonT(60) DEF IsRequest, Fields
    <3>2. next.pc = "check" /\ next.nonce = Idle.nonce
      BY IdleRequest DEF IsRequest, Fields
    <3> QED
      BY IdleRequest, <3>1, <3>2, ZenonT(60) DEF IsRequest
  <2>3. Become(t, next)
    BY <2>1
  <2>4. UNCHANGED <<vars, queue, dispatcher, claims>>
    BY <2>1
  <2> HIDE DEF next
  <2> QED
    BY <1>0, <2>2, <2>3, <2>4, ThreadKeeps, ZenonT(60)
<1> QED
  BY <1>1, <1>2, <1>3

\* The steps of a request that has been taken up.
LEMMA ProceedSteps ==
    ASSUME SentinelInv, NEW t \in Threads, Proceed(t)
    PROVE  SentinelInv'
<1> DEFINE me == thread[t]
<1>0. /\ claims \in [Ids -> Claims] /\ IsRequest(me)
      /\ me.pc = "mark" => Covered(me.claim, me.id)
  BY DEF SentinelInv, StoresTyped, MarksCovered
<1>1. UNCHANGED <<vars, queue, dispatcher>>
  BY ZenonT(60) DEF Proceed, HasClaim, GetClaim, SetClaim, PutContract, CheckClaim, RemoveClaim, SetMarked
<1>2. IsRequest(Idle) /\ Idle.pc # "mark"
  BY IdleRequest
<1> HIDE DEF me
<1>3. ASSUME NEW next, IsRequest(next), next.pc # "mark", Become(t, next), UNCHANGED claims
      PROVE  SentinelInv'
  BY <1>0, <1>1, <1>3, ThreadKeeps
<1>4. ASSUME NEW id PROVE IsRequest(Done(me, id)) /\ Done(me, id).pc # "mark"
  <2> DEFINE left == me.todo \ {id}
             next == [Idle EXCEPT !.pc = "check", !.todo = left]
  <2>1. IsRequest(next) /\ next.pc = "check"
    <3>1. next = [f \in Fields |-> next[f]]
      BY IdleRequest, ZenonT(60) DEF IsRequest, Fields
    <3>2. next.pc = "check" /\ next.nonce = Idle.nonce
      BY IdleRequest DEF IsRequest, Fields
    <3> QED
      BY IdleRequest, <3>1, <3>2, ZenonT(60) DEF IsRequest
  <2> QED
    BY <1>2, <2>1 DEF Done
<1>5. CASE HasClaim(t)
  <2>1. PICK pc \in {"get", "set"} : Become(t, [me EXCEPT !.pc = pc]) /\ UNCHANGED claims
    BY <1>5 DEF HasClaim, me
  <2> DEFINE next == [me EXCEPT !.pc = pc]
  <2>2. IsRequest(next) /\ next.pc = pc
    <3>1. next = [f \in Fields |-> next[f]]
      BY <1>0 DEF IsRequest, Fields
    <3>2. next.pc = pc /\ next.nonce = me.nonce
      BY <1>0 DEF IsRequest, Fields
    <3> QED
      BY <1>0, <3>1, <3>2 DEF IsRequest
  <2> QED
    BY <1>3, <2>1, <2>2, ZenonT(60)
<1>6. CASE GetClaim(t)
  <2> DEFINE next == [me EXCEPT !.pc = "set", !.claim = Get(me.id)]
  <2>1. UNCHANGED claims /\ (Become(t, Idle) \/ Become(t, next))
    BY <1>6 DEF GetClaim, me
  <2>2. IsRequest(next) /\ next.pc = "set"
    <3>1. next = [f \in Fields |-> next[f]]
      BY <1>0, ZenonT(60) DEF IsRequest, Fields
    <3>2. next.pc = "set" /\ next.nonce = me.nonce
      BY <1>0 DEF IsRequest, Fields
    <3> QED
      BY <1>0, <3>1, <3>2, ZenonT(60) DEF IsRequest
  <2> HIDE DEF next
  <2> QED
    BY <1>2, <1>3, <2>1, <2>2
<1>7. CASE SetClaim(t)
  <2> DEFINE next == [me EXCEPT !.pc = "put", !.claim = NoClaim]
  <2>1. CASE Become(t, Idle) /\ UNCHANGED claims
    BY <1>2, <1>3, <2>1
  <2>2. CASE Set(me.id, me.claim, NewClaim(me.nonce)) /\ Become(t, next)
    <3>1. IsRequest(next) /\ next.pc = "put"
      <4>1. next = [f \in Fields |-> next[f]]
        BY <1>0, ZenonT(60) DEF IsRequest, Fields
      <4>2. next.pc = "put" /\ next.nonce = me.nonce
        BY <1>0 DEF IsRequest, Fields
      <4> QED
        BY <1>0, <4>1, <4>2, ZenonT(60) DEF IsRequest
    <3>2. NewClaim(me.nonce) \in Claims /\ ~NewClaim(me.nonce).claimed
      BY <1>0 DEF NewClaim, Claims, IsRequest
    <3>3. /\ claims' \in [Ids -> Claims]
          /\ \A id \in Ids : claims'[id] \in {claims[id], NewClaim(me.nonce)}
      BY <1>0, <2>2, <3>2, ZenonT(60) DEF Set
    <3> HIDE DEF next
    <3> QED
      BY <1>1, <2>2, <3>1, <3>2, <3>3, ThreadKeeps
  <2> QED
    BY <1>7, <2>1, <2>2 DEF SetClaim, me
<1>8. CASE PutContract(t)
  <2>1. Become(t, Idle) /\ UNCHANGED claims
    BY <1>8 DEF PutContract
  <2> QED
    BY <1>2, <1>3, <2>1
<1>9. ASSUME NEW id, CheckClaim(t, id) PROVE SentinelInv'
  <2> DEFINE next == [me EXCEPT !.pc = "remove", !.id = id]
  <2>1. UNCHANGED claims /\ (Become(t, next) \/ Become(t, Done(me, id)))
    BY <1>9 DEF CheckClaim, me
  <2>2. IsRequest(next) /\ next.pc = "remove"
    <3>1. next = [f \in Fields |-> next[f]]
      BY <1>0, ZenonT(60) DEF IsRequest, Fields
    <3>2. next.pc = "remove" /\ next.nonce = me.nonce
      BY <1>0 DEF IsRequest, Fields
    <3> QED
      BY <1>0, <3>1, <3>2, ZenonT(60) DEF IsRequest
  <2> HIDE DEF next
  <2> QED
    BY <1>3, <1>4, <2>1, <2>2
<1>10. CASE RemoveClaim(t)
  <2>1. /\ Become(t, Done(me, me.id))
        /\ claims' = [claims EXCEPT ![me.id] = NoClaim] \/ claims' = claims
    BY <1>10, ZenonT(60) DEF RemoveClaim, me
  <2>2. /\ claims' \in [Ids -> Claims]
        /\ \A id \in Ids : claims'[id] \in {claims[id], NoClaim}
    BY <1>0, <2>1, IdleRequest
  <2>3. ~NoClaim.claimed
    BY DEF NoClaim
  <2>4. IsRequest(Done(me, me.id)) /\ Done(me, me.id).pc # "mark"
    BY <1>4
  <2> QED
    BY <1>1, <2>1, <2>2, <2>3, <2>4, ThreadKeeps
<1>11. CASE SetMarked(t)
  <2> DEFINE marked == [me.claim EXCEPT !.claimed = TRUE]
  <2>1. Become(t, Idle) /\ (Set(me.id, me.claim, marked) \/ claims' = claims)
    BY <1>11 DEF SetMarked, me
  <2>2. Covered(me.claim, me.id)
    BY <1>0, <1>11 DEF SetMarked, me
  <2>3. marked \in Claims /\ marked.nonce = me.claim.nonce
    BY <2>2, ZenonT(60) DEF Covered, Claims
  <2>4. marked.nonce <= contracts[me.id].nonce
    BY <2>2, <2>3 DEF Covered
  <2> HIDE DEF marked
  <2>5. /\ claims' \in [Ids -> Claims]
        /\ \A id \in Ids : claims'[id] = claims[id] \/ (id = me.id /\ claims'[id] = marked)
    BY <1>0, <2>1, <2>3 DEF Set
  <2> QED
    BY <1>1, <1>2, <2>1, <2>4, <2>5, ThreadKeeps
<1> QED
  BY <1>5, <1>6, <1>7, <1>8, <1>9, <1>10, <1>11 DEF Proceed

\* What a step of the event loop has to respect.
LEMMA DispatchKeeps ==
    ASSUME SentinelInv, UNCHANGED <<vars, thread>>,
           dispatcher' \in [pending : SUBSET Settlements, claim : Claims, id : Nat],
           dispatcher'.claim # NoClaim => Covered(dispatcher'.claim, dispatcher'.id),
           \A e \in dispatcher'.pending : Happened(e),
           queue' = [s \in DOMAIN NoEvents |-> queue'[s]],
           queue'["claim"] \in {queue["claim"], <<>>},
           queue'["block"] \in {queue["block"], <<>>},
           claims' \in [Ids -> Claims],
           \A id \in Ids : \/ claims'[id] = claims[id]
                           \/ claims'[id].nonce <= contracts[id].nonce
    PROVE  SentinelInv'
<1>0. contracts' = contracts
  BY DEF vars, contractVars
<1>1. IInv /\ StoresTyped /\ MarksCovered /\ contracts' = contracts
  BY <1>0 DEF SentinelInv
<1>2. IInv'
  BY <1>1, NextIInv
<1>3. StoresTyped'
  BY <1>1 DEF StoresTyped, IsRequest
<1>4. ClaimedWasSettled'
  BY <1>1 DEF MarksCovered, ClaimedWasSettled, Stored
<1>5. \A u \in Threads : (thread[u].pc = "mark" => Covered(thread[u].claim, thread[u].id))'
  BY <1>1 DEF MarksCovered, Covered
<1>6. /\ (dispatcher.claim # NoClaim => Covered(dispatcher.claim, dispatcher.id))'
      /\ (\A e \in dispatcher.pending : Happened(e))'
  BY <1>1 DEF Covered, Happened
<1>7. /\ (queue["claim"] # <<>> => Happened(Head(queue["claim"])))'
      /\ (queue["block"] # <<>> => \A e \in Head(queue["block"]).settled : Happened(e))'
  BY <1>1 DEF MarksCovered, Happened
<1> QED
  BY <1>2, <1>3, <1>4, <1>5, <1>6, <1>7 DEF SentinelInv, MarksCovered

\* The steps of the event loop, and a restart.
LEMMA DispatchSteps ==
    ASSUME SentinelInv, Dispatch \/ Restart
    PROVE  SentinelInv'
<1> DEFINE Dispatchers == [pending : SUBSET Settlements, claim : Claims, id : Nat]
<1>0. /\ claims \in [Ids -> Claims] /\ dispatcher \in Dispatchers
      /\ queue = [s \in DOMAIN NoEvents |-> queue[s]]
      /\ DOMAIN NoEvents = {"open", "close", "claim", "block"}
      /\ queue["claim"] \in {<<>>} \cup {<<e>> : e \in Settlements}
      /\ queue["block"] \in {<<>>} \cup {<<b>> : b \in Headers}
      /\ dispatcher.claim # NoClaim => Covered(dispatcher.claim, dispatcher.id)
      /\ \A e \in dispatcher.pending : Happened(e)
      /\ queue["claim"] # <<>> => Happened(Head(queue["claim"]))
      /\ queue["block"] # <<>> => \A e \in Head(queue["block"]).settled : Happened(e)
  BY DEF SentinelInv, StoresTyped, MarksCovered, NoEvents
<1>1. [pending |-> {}, claim |-> NoClaim, id |-> 0] \in Dispatchers
  BY IdleRequest
<1>2. CASE HandleOpenContractEvent \/ HandleCloseContractEvent
  <2>1. /\ UNCHANGED <<vars, thread, claims, dispatcher>>
        /\ Consume("open") \/ Consume("close")
    BY <1>2, ZenonT(60) DEF HandleOpenContractEvent, HandleCloseContractEvent, DispatchUnchanged
  <2>2. /\ queue' = [s \in DOMAIN NoEvents |-> queue'[s]]
        /\ queue'["claim"] = queue["claim"] /\ queue'["block"] = queue["block"]
    BY <1>0, <2>1 DEF Consume
  <2> QED
    BY <1>0, <2>1, <2>2, DispatchKeeps
<1>3. CASE HandleContractSettlementEvent
  <2>1. /\ UNCHANGED <<vars, thread, claims>> /\ queue["claim"] # <<>>
        /\ dispatcher' = [dispatcher EXCEPT !.pending = {Head(queue["claim"])}]
        /\ queue' = [queue EXCEPT !["claim"] = Tail(@)]
    BY <1>3 DEF HandleContractSettlementEvent, DispatchUnchanged, Consume, Event, Ready
  <2>2. PICK e \in Settlements : queue["claim"] = <<e>>
    BY <1>0, <2>1
  <2>3. Head(queue["claim"]) = e /\ Tail(queue["claim"]) = <<>> /\ Happened(e)
    <3>1. Head(<<e>>) = e /\ Tail(<<e>>) = <<>>
      OBVIOUS
    <3>2. Happened(Head(queue["claim"]))
      BY <1>0, <2>1
    <3> QED
      BY <2>2, <3>1, <3>2
  <2>4. /\ queue' = [s \in DOMAIN NoEvents |-> queue'[s]]
        /\ queue'["claim"] = <<>> /\ queue'["block"] = queue["block"]
    BY <1>0, <2>1, <2>3, ZenonT(60)
  <2>5. /\ dispatcher' \in Dispatchers /\ dispatcher'.pending = {e}
        /\ dispatcher'.claim = dispatcher.claim /\ dispatcher'.id = dispatcher.id
    BY <1>0, <2>1, <2>3
  <2>6. /\ dispatcher'.claim # NoClaim => Covered(dispatcher'.claim, dispatcher'.id)
        /\ \A f \in dispatcher'.pending : Happened(f)
    BY <1>0, <2>3, <2>5
  <2> QED
    BY <1>0, <2>1, <2>4, <2>5, <2>6, DispatchKeeps
<1>4. CASE HandleNewBlockHeaderEvent
  <2>1. /\ UNCHANGED <<vars, thread, claims>> /\ queue["block"] # <<>>
        /\ dispatcher' = [dispatcher EXCEPT !.pending = Head(queue["block"]).settled]
        /\ queue' = [queue EXCEPT !["block"] = Tail(@)]
    BY <1>4 DEF HandleNewBlockHeaderEvent, DispatchUnchanged, Consume, Event, Ready
  <2>2. PICK b \in Headers : queue["block"] = <<b>>
    BY <1>0, <2>1
  <2>3. /\ Head(queue["block"]) = b /\ Tail(queue["block"]) = <<>>
        /\ \A f \in b.settled : Happened(f)
    <3>1. Head(<<b>>) = b /\ Tail(<<b>>) = <<>>
      OBVIOUS
    <3>2. \A f \in Head(queue["block"]).settled : Happened(f)
      BY <1>0, <2>1
    <3> QED
      BY <2>2, <3>1, <3>2
  <2>4. /\ queue' = [s \in DOMAIN NoEvents |-> queue'[s]]
        /\ queue'["block"] = <<>> /\ queue'["claim"] = queue["claim"]
    BY <1>0, <2>1, <2>3, ZenonT(60)
  <2>5. /\ dispatcher' \in Dispatchers /\ dispatcher'.pending = b.settled
        /\ dispatcher'.claim = dispatcher.claim /\ dispatcher'.id = dispatcher.id
    <3>1. b.settled \in SUBSET Settlements
      BY DEF Headers
    <3> QED
      BY <1>0, <2>1, <2>3, <3>1
  <2>6. /\ dispatcher'.claim # NoClaim => Covered(dispatcher'.claim, dispatcher'.id)
        /\ \A f \in dispatcher'.pending : Happened(f)
    BY <1>0, <2>3, <2>5
  <2> QED
    BY <1>0, <2>1, <2>4, <2>5, <2>6, DispatchKeeps
<1>5. ASSUME NEW e \in dispatcher.pending, GetSettled(e) PROVE SentinelInv'
  <2>1. UNCHANGED <<vars, thread, claims, queue>>
    BY <1>5 DEF GetSettled, DispatchUnchanged
  <2>2. e \in Settlements /\ Happened(e) /\ e.id \in Ids /\ e.nonce \in Nat
    BY <1>0 DEF Settlements
  <2>3. CASE /\ Settles(Get(e.id), e.nonce)
             /\ dispatcher' = [dispatcher EXCEPT !.claim = Get(e.id), !.id = e.id]
    <3>1. Get(e.id) \in Claims
      BY <1>0, <2>2 DEF Get, ZeroClaim, Claims
    <3>2. Covered(Get(e.id), e.id)
      BY <2>2, <2>3, <3>1 DEF Covered, Happened, Settles
    <3>3. /\ dispatcher' \in Dispatchers /\ dispatcher'.pending = dispatcher.pending
          /\ dispatcher'.claim = Get(e.id) /\ dispatcher'.id = e.id
      <4>1. e.id \in Nat
        BY <2>2 DEF Ids
      <4>2. dispatcher \in Dispatchers
        BY <1>0
      <4> QED
        BY <2>3, <3>1, <4>1, <4>2, ZenonT(60)
    <3> QED
      BY <1>0, <2>1, <3>2, <3>3, DispatchKeeps
  <2>4. CASE dispatcher' = [dispatcher EXCEPT !.pending = @ \ {e}]
    <3>1. /\ dispatcher' \in Dispatchers /\ dispatcher'.pending \subseteq dispatcher.pending
          /\ dispatcher'.claim = dispatcher.claim /\ dispatcher'.id = dispatcher.id
      BY <1>0, <2>4
    <3> QED
      BY <1>0, <2>1, <3>1, DispatchKeeps
  <2> QED
    BY <1>5, <2>3, <2>4 DEF GetSettled
<1>6. CASE SetSettled
  <2> DEFINE claim  == dispatcher.claim
             marked == [claim EXCEPT !.claimed = TRUE]
             left   == {e \in dispatcher.pending : e.id # dispatcher.id}
  <2>1. /\ claim # NoClaim /\ (Set(dispatcher.id, claim, marked) \/ claims' = claims)
        /\ dispatcher' = [pending |-> left, claim |-> NoClaim, id |-> 0]
        /\ UNCHANGED <<vars, thread, queue>>
    BY <1>6 DEF SetSettled
  <2>2. Covered(claim, dispatcher.id)
    BY <1>0, <2>1
  <2>3. marked \in Claims /\ marked.nonce = claim.nonce
    BY <2>2, ZenonT(60) DEF Covered, Claims
  <2>4. marked.nonce <= contracts[dispatcher.id].nonce
    BY <2>2, <2>3 DEF Covered
  <2>5. left \subseteq dispatcher.pending /\ left \in SUBSET Settlements
    BY <1>0
  <2> HIDE DEF marked, claim, left
  <2>6. /\ claims' \in [Ids -> Claims]
        /\ \A id \in Ids : claims'[id] = claims[id] \/ (id = dispatcher.id /\ claims'[id] = marked)
    BY <1>0, <2>1, <2>3 DEF Set
  <2>7. /\ dispatcher' \in Dispatchers /\ dispatcher'.claim = NoClaim
        /\ dispatcher'.pending \subseteq dispatcher.pending
    BY <2>1, <2>5, IdleRequest
  <2> QED
    BY <1>0, <2>1, <2>4, <2>6, <2>7, DispatchKeeps
<1>7. CASE Restart
  <2>1. /\ UNCHANGED <<vars, claims>> /\ thread' = [t \in Threads |-> Idle] /\ queue' = NoEvents
        /\ dispatcher' = [pending |-> {}, claim |-> NoClaim, id |-> 0]
    BY <1>7, ZenonT(60) DEF Restart
  <2>2. IInv' /\ contracts' = contracts
    <3>1. contracts' = contracts
      BY <2>1 DEF vars, contractVars
    <3> QED
      BY <2>1, <3>1, NextIInv DEF SentinelInv
  <2>3. StoresTyped'
    <3>1. NoEvents = [s \in DOMAIN NoEvents |-> NoEvents[s]]
      BY DEF NoEvents
    <3>2. NoEvents["claim"] = <<>> /\ NoEvents["block"] = <<>>
      BY DEF NoEvents
    <3>3. thread' = [t \in Threads |-> thread'[t]] /\ \A t \in Threads : IsRequest(thread'[t])
      BY <2>1, IdleRequest
    <3> QED
      BY <1>0, <1>1, <2>1, <3>1, <3>2, <3>3 DEF StoresTyped, IsRequest
  <2>4. ClaimedWasSettled'
    BY <2>1, <2>2, ZenonT(60) DEF SentinelInv, MarksCovered, ClaimedWasSettled, Stored
  <2>5. MarksCovered'
    BY <2>1, <2>4, IdleRequest, ZenonT(60) DEF MarksCovered, NoEvents
  <2> QED
    BY <2>2, <2>3, <2>5 DEF SentinelInv
<1> QED
  BY <1>2, <1>3, <1>4, <1>5, <1>6, <1>7 DEF Dispatch

-----------------------------------------------------------------------------
\* The invariant is inductive.
LEMMA SentinelNextInv == SentinelInv /\ [SentinelNext]_sentinelAll => SentinelInv'
<1> SUFFICES ASSUME SentinelInv, SentinelNext \/ UNCHANGED sentinelAll PROVE SentinelInv'
  OBVIOUS
<1>1. [Next]_vars
  BY SentinelStepsMarket
<1>2. CASE UNCHANGED sentinelAll
  <2>1. ChainUnchanged /\ queue' = queue
    BY <1>2 DEF sentinelAll, sentinelVars, ChainUnchanged
  <2>2. queue = [s \in DOMAIN NoEvents |-> queue[s]]
    BY DEF SentinelInv, StoresTyped
  <2> QED
    BY <1>1, <2>1, <2>2, ChainKeeps
<1>3. CASE SentinelNext
  <2>1. ASSUME \/ ChainOpenContract
               \/ \E id \in Ids : \/ \E nonce \in 1 .. MaxNonce :
                                       ChainClaimContractIncome(id, nonce)
                                  \/ ChainCloseContract(id)
                                  \/ SignCall(id) /\ UNCHANGED sentinelVars
               \/ ChainEndBlock
        PROVE  SentinelInv'
    BY <1>1, <2>1, ChainSteps
  <2>2. ASSUME Dispatch \/ Restart PROVE SentinelInv'
    BY <2>2, DispatchSteps
  <2>3. ASSUME NEW t \in Threads,
               \/ \E id \in Ids, nonce \in 1 .. MaxNonce :
                    \/ \E spender \in {EmptyPubKey, Spender(id)} : PaidTier(t, id, nonce, spender)
                    \/ MarkClaimed(t, id, nonce)
               \/ ListClaims(t)
        PROVE  SentinelInv'
    BY <2>3, RequestSteps
  <2>4. ASSUME NEW t \in Threads, Proceed(t) PROVE SentinelInv'
    BY <2>4, ProceedSteps
  <2> QED
    BY <1>3, <2>1, <2>2, <2>3, <2>4 DEF SentinelNext
<1> QED
  BY <1>2, <1>3

\* Whatever the HTTP threads, the operator's requests, the events of the chain and
\* restarts do to the claim store at the same time, and in whatever order the events
\* are dispatched: handleMarkClaimed and the settlement handlers mark a claim as
\* claimed only when its nonce was settled on chain.
THEOREM MarkedWasSettled == SentinelSpec => []ClaimedWasSettled
<1>1. SentinelInv => ClaimedWasSettled
  BY DEF SentinelInv, MarksCovered
<1> QED
  BY <1>1, SentinelInitInv, SentinelNextInv, PTL DEF SentinelSpec

-----------------------------------------------------------------------------
(* Calls that are served *)

\* The claims that can be in the store.
StoredClaims == [nonce : 1 .. MaxNonce, claimed : BOOLEAN]

Steps == {"idle", "has", "get", "set", "put", "check", "remove", "mark"}

\* What a request r knows of the store cl, of the calls sv that were served and of the
\* contracts ow and rm the exceptions apply to.  A call that has stored its claim is
\* covered by the store and has not been served.
RequestOK(r, cl, sv, ow, rm) ==
    /\ r.pc \in Steps /\ r.id \in Ids \cup {0} /\ r.todo \subseteq Ids /\ r.claim \in Claim
    /\ r.pc \in {"has", "get", "set", "put"} => r.id \in Ids /\ r.nonce \in 1 .. MaxNonce
    /\ r.pc \in {"has", "get"} => r.claim = NoClaim
    /\ r.pc = "get" => cl[r.id] # NoClaim \/ r.id \in rm
    /\ r.pc = "set" => /\ r.claim \in StoredClaims \cup {NoClaim, ZeroClaim}
                       /\ r.claim.nonce < r.nonce
                       /\ r.claim = ZeroClaim => r.id \in rm
    /\ r.pc = "put" /\ r.id \notin ow \cup rm =>
         cl[r.id] # NoClaim /\ r.nonce <= cl[r.id].nonce /\ sv[r.id][r.nonce] = 0
    /\ r.pc = "remove" => r.id \in Ids
    /\ r.pc = "mark" => r.id \in Ids /\ r.claim \in StoredClaims

\* Two calls that are about to be served on a contract have different nonces.
Apart(r, s, ow, rm) ==
    r.pc = "put" /\ s.pc = "put" /\ r.id = s.id /\ r.id \notin ow \cup rm => r.nonce # s.nonce

\* What was served on a contract is covered by the claim, and was served once.
ServedOK(id, cl, sv, ow, rm) ==
    id \notin ow \cup rm => \A n \in 1 .. MaxNonce :
        /\ sv[id][n] <= 1
        /\ sv[id][n] > 0 => cl[id] # NoClaim /\ n <= cl[id].nonce

ServeInv ==
    /\ claims \in [Ids -> StoredClaims \cup {NoClaim}]
    /\ served \in [Ids -> [1 .. MaxNonce -> Nat]]
    /\ overwritten \subseteq Ids /\ removed \subseteq Ids
    /\ dispatcher.claim \in StoredClaims \cup {NoClaim, ZeroClaim}
    /\ \A t \in Threads : RequestOK(thread[t], claims, served, overwritten, removed)
    /\ \A t, u \in Threads : t # u => Apart(thread[t], thread[u], overwritten, removed)
    /\ \A id \in Ids : ServedOK(id, claims, served, overwritten, removed)

\* The three kinds of claims differ.
LEMMA ClaimKinds ==
    /\ NoClaim \notin StoredClaims /\ ZeroClaim \notin StoredClaims /\ NoClaim # ZeroClaim
    /\ StoredClaims \subseteq Claim /\ NoClaim \in Claim /\ ZeroClaim \in Claim
    /\ NoClaim.nonce = -1 /\ ZeroClaim.nonce = 0
    /\ \A c \in StoredClaims : c.nonce \in 1 .. MaxNonce /\ [c EXCEPT !.claimed = TRUE] \in StoredClaims
                               /\ [c EXCEPT !.claimed = TRUE].nonce = c.nonce
<1>1. NoClaim.nonce = -1 /\ ZeroClaim.nonce = 0 /\ NoClaim.claimed = FALSE
  BY DEF NoClaim, ZeroClaim
<1>2. MaxNonce \in Nat
  BY MarketAssumptions
<1>3. \A c \in StoredClaims : c.nonce \in 1 .. MaxNonce
  BY DEF StoredClaims
<1>4. NoClaim \notin StoredClaims /\ ZeroClaim \notin StoredClaims
  BY <1>1, <1>3, <1>2
<1>5. StoredClaims \subseteq Claim
  BY <1>2 DEF StoredClaims, Claim
<1>6. NoClaim \in Claim /\ ZeroClaim \in Claim
  BY <1>2 DEF Claim, ZeroClaim
<1>7. \A c \in StoredClaims : [c EXCEPT !.claimed = TRUE] \in StoredClaims
                               /\ [c EXCEPT !.claimed = TRUE].nonce = c.nonce
  BY ZenonT(60) DEF StoredClaims
<1> QED
  BY <1>1, <1>3, <1>4, <1>5, <1>6, <1>7

\* A thread that does nothing is fine.
LEMMA IdleOK == \A cl, sv, ow, rm : RequestOK(Idle, cl, sv, ow, rm)
BY ClaimKinds DEF RequestOK, Idle, Steps

\* Nonces are natural numbers.
LEMMA NonceNat == MaxNonce \in Nat /\ 1 .. MaxNonce \subseteq Nat
BY MarketAssumptions

\* A step of one request that is not about to serve a call, or only one on a contract the
\* exceptions apply to, keeps the calls about to be served apart.
LEMMA PairsApart ==
    ASSUME ServeInv, NEW t \in Threads, \A u \in Threads \ {t} : thread'[u] = thread[u],
           overwritten \subseteq overwritten', removed \subseteq removed',
           thread'[t].pc = "put" => thread'[t].id \in removed'
    PROVE  \A u, v \in Threads : u # v => Apart(thread'[u], thread'[v], overwritten', removed')
<1>1. \A u, v \in Threads : u # v => Apart(thread[u], thread[v], overwritten, removed)
  BY ZenonT(60) DEF ServeInv
<1> SUFFICES ASSUME NEW u \in Threads, NEW v \in Threads, u # v
             PROVE  Apart(thread'[u], thread'[v], overwritten', removed')
  OBVIOUS
<1>2. CASE u = t \/ v = t
  BY <1>2 DEF Apart
<1>3. CASE u # t /\ v # t
  <2>1. thread'[u] = thread[u] /\ thread'[v] = thread[v]
    BY <1>3
  <2>2. Apart(thread[u], thread[v], overwritten, removed)
    BY <1>1
  <2> QED
    BY <2>1, <2>2 DEF Apart
<1> QED
  BY <1>2, <1>3

\* A step of one request that leaves the stores alone.
LEMMA RequestKeeps ==
    ASSUME StoresTyped, ServeInv, NEW t \in Threads, NEW next, Become(t, next),
           RequestOK(next, claims, served, overwritten, removed), next.pc # "put",
           UNCHANGED <<claims, served, overwritten, removed, dispatcher>>
    PROVE  ServeInv'
<1>1. /\ thread'[t] = next /\ \A u \in Threads \ {t} : thread'[u] = thread[u]
  BY DEF Become, StoresTyped
<1>2. \A u \in Threads : RequestOK(thread'[u], claims', served', overwritten', removed')
  BY <1>1, ZenonT(60) DEF ServeInv
<1>3. \A u, v \in Threads : u # v => Apart(thread'[u], thread'[v], overwritten', removed')
  BY <1>1, PairsApart, ZenonT(60)
<1> QED
  BY <1>2, <1>3, ZenonT(60) DEF ServeInv

\* What a request keeps when some of its fields are changed.
LEMMA RequestFields ==
    ASSUME NEW r, IsRequest(r), NEW pc, NEW claim, NEW id
    PROVE  /\ LET s == [r EXCEPT !.pc = pc]
              IN  /\ s.pc = pc /\ s.claim = r.claim /\ s.id = r.id /\ s.nonce = r.nonce
                  /\ s.todo = r.todo /\ s.contract = r.contract
           /\ LET s == [r EXCEPT !.pc = pc, !.claim = claim]
              IN  /\ s.pc = pc /\ s.claim = claim /\ s.id = r.id /\ s.nonce = r.nonce
                  /\ s.todo = r.todo /\ s.contract = r.contract
           /\ LET s == [r EXCEPT !.pc = pc, !.id = id]
              IN  /\ s.pc = pc /\ s.claim = r.claim /\ s.id = id /\ s.nonce = r.nonce
                  /\ s.todo = r.todo /\ s.contract = r.contract
BY DEF IsRequest, Fields

\* A claim is written for one contract, no lower than the claim it was computed from.
LEMMA StoreKeeps ==
    ASSUME ServeInv, NEW id \in Ids, NEW claim \in StoredClaims, NEW read,
           read.nonce <= claim.nonce,
           claims' = [claims EXCEPT ![id] = claim],
           overwritten' = IF claims[id] \notin {read, NoClaim}
                          THEN overwritten \cup {id} ELSE overwritten,
           UNCHANGED <<served, removed>>
    PROVE  /\ claims' \in [Ids -> StoredClaims \cup {NoClaim}] /\ overwritten' \subseteq Ids
           /\ \A r : RequestOK(r, claims, served, overwritten, removed)
                       => RequestOK(r, claims', served', overwritten', removed')
           /\ \A r, s : Apart(r, s, overwritten, removed) => Apart(r, s, overwritten', removed')
           /\ \A i \in Ids : ServedOK(i, claims', served', overwritten', removed')
<1>1. /\ claims \in [Ids -> StoredClaims \cup {NoClaim}] /\ overwritten \subseteq Ids
      /\ \A i \in Ids : ServedOK(i, claims, served, overwritten, removed)
  BY ZenonT(60) DEF ServeInv
<1>2. /\ claims' \in [Ids -> StoredClaims \cup {NoClaim}]
      /\ claims'[id] = claim /\ \A i \in Ids \ {id} : claims'[i] = claims[i]
      /\ claim # NoClaim
  BY <1>1, ClaimKinds
<1>3. /\ overwritten \subseteq overwritten' /\ overwritten' \subseteq Ids
      /\ id \notin overwritten' => claims[id] = read \/ claims[id] = NoClaim
  BY <1>1
<1>4. ASSUME NEW n \in Nat, id \notin overwritten', claims[id] # NoClaim, n <= claims[id].nonce
      PROVE  n <= claim.nonce
  <2>1. claims[id] = read /\ claims[id] \in StoredClaims
    BY <1>1, <1>3, <1>4
  <2>2. claims[id].nonce \in Nat /\ claim.nonce \in Nat
    BY <2>1, MarketAssumptions DEF StoredClaims
  <2> QED
    BY <1>4, <2>1, <2>2
<1>5. ASSUME NEW r, RequestOK(r, claims, served, overwritten, removed)
      PROVE  RequestOK(r, claims', served', overwritten', removed')
  <2>1. r.pc = "put" /\ r.id \notin overwritten' \cup removed' =>
          /\ claims'[r.id] # NoClaim /\ r.nonce <= claims'[r.id].nonce
          /\ served'[r.id][r.nonce] = 0
    <3> SUFFICES ASSUME r.pc = "put", r.id \notin overwritten' \cup removed'
                 PROVE  /\ claims'[r.id] # NoClaim /\ r.nonce <= claims'[r.id].nonce
                        /\ served'[r.id][r.nonce] = 0
      OBVIOUS
    <3>1. /\ claims[r.id] # NoClaim /\ r.nonce <= claims[r.id].nonce
          /\ served[r.id][r.nonce] = 0 /\ r.id \in Ids /\ r.nonce \in Nat
      <4>1. /\ r.id \in Ids /\ r.nonce \in 1 .. MaxNonce /\ r.id \notin overwritten \cup removed
        BY <1>3, <1>5, ZenonT(60) DEF RequestOK
      <4>2. claims[r.id] # NoClaim /\ r.nonce <= claims[r.id].nonce /\ served[r.id][r.nonce] = 0
        BY <1>5, <4>1, ZenonT(60) DEF RequestOK
      <4> QED
        BY <4>1, <4>2, NonceNat
    <3> QED
      BY <1>2, <1>4, <3>1
  <2>2. r.pc = "get" => claims'[r.id] # NoClaim \/ r.id \in removed'
    <3>1. r.pc = "get" => r.id \in Ids /\ (claims[r.id] # NoClaim \/ r.id \in removed)
      BY <1>5 DEF RequestOK
    <3>2. r.id = id => claims'[r.id] # NoClaim
      BY <1>2
    <3>3. r.id \in Ids /\ r.id # id => claims'[r.id] = claims[r.id]
      BY <1>2
    <3> QED
      BY <3>1, <3>2, <3>3
  <2>3. removed' = removed
    OBVIOUS
  <2> QED
    BY <1>5, <2>1, <2>2, <2>3, ZenonT(60) DEF RequestOK
<1>6. ASSUME NEW r, NEW s, Apart(r, s, overwritten, removed)
      PROVE  Apart(r, s, overwritten', removed')
  BY <1>3, <1>6 DEF Apart
<1>7. ASSUME NEW i \in Ids PROVE ServedOK(i, claims', served', overwritten', removed')
  <2> SUFFICES ASSUME i \notin overwritten' \cup removed', NEW n \in 1 .. MaxNonce
               PROVE  /\ served'[i][n] <= 1
                      /\ served'[i][n] > 0 => claims'[i] # NoClaim /\ n <= claims'[i].nonce
    BY DEF ServedOK
  <2>1. /\ served[i][n] <= 1
        /\ served[i][n] > 0 => claims[i] # NoClaim /\ n <= claims[i].nonce
    BY <1>1, <1>3, ZenonT(60) DEF ServedOK
  <2>2. n \in Nat
    BY MarketAssumptions
  <2> QED
    BY <1>2, <1>4, <2>1, <2>2
<1> QED
  BY <1>2, <1>3, <1>5, <1>6, <1>7, ZenonT(60)

\* The steps that take up a request.
LEMMA TakeUpServe ==
    ASSUME SentinelInv, ServeInv, NEW t \in Threads,
           \/ \E id \in Ids, nonce \in 1 .. MaxNonce :
                \/ \E spender \in {EmptyPubKey, Spender(id)} : PaidTier(t, id, nonce, spender)
                \/ MarkClaimed(t, id, nonce)
           \/ ListClaims(t)
    PROVE  ServeInv'
<1>1. StoresTyped
  BY DEF SentinelInv
<1>2. ASSUME NEW id \in Ids, NEW nonce \in 1 .. MaxNonce, NEW spender,
             PaidTier(t, id, nonce, spender)
      PROVE  ServeInv'
  <2>1. UNCHANGED <<claims, served, overwritten, removed, dispatcher>>
    BY <1>2, ZenonT(60) DEF PaidTier
  <2>2. CASE UNCHANGED thread
    BY <2>1, <2>2 DEF ServeInv
  <2>3. ASSUME NEW c, Become(t, [Idle EXCEPT !.pc = "has", !.id = id, !.nonce = nonce,
                                             !.contract = c])
        PROVE  ServeInv'
    <3> DEFINE next == [Idle EXCEPT !.pc = "has", !.id = id, !.nonce = nonce, !.contract = c]
    <3>1. /\ next.pc = "has" /\ next.id = id /\ next.nonce = nonce /\ next.claim = NoClaim
          /\ next.todo = {}
      BY DEF Idle
    <3>2. Become(t, next)
      BY <2>3
    <3> HIDE DEF next
    <3>3. RequestOK(next, claims, served, overwritten, removed)
      BY <3>1, ClaimKinds DEF RequestOK, Steps
    <3> QED
      BY <1>1, <2>1, <3>1, <3>2, <3>3, RequestKeeps, ZenonT(60)
  <2> QED
    BY <1>2, <2>2, <2>3, ZenonT(60) DEF PaidTier
<1>3. ASSUME NEW id \in Ids, NEW nonce \in 1 .. MaxNonce, MarkClaimed(t, id, nonce)
      PROVE  ServeInv'
  <2> DEFINE next == [Idle EXCEPT !.pc = "mark", !.id = id, !.claim = claims[id]]
  <2>1. /\ Become(t, next) /\ UNCHANGED <<claims, served, overwritten, removed, dispatcher>>
        /\ claims[id] # NoClaim
    BY <1>3, ZenonT(60) DEF MarkClaimed, Stored
  <2>2. next.pc = "mark" /\ next.id = id /\ next.claim = claims[id] /\ next.todo = {}
    BY DEF Idle
  <2> HIDE DEF next
  <2>3. claims[id] \in StoredClaims
    BY <2>1 DEF ServeInv
  <2>4. RequestOK(next, claims, served, overwritten, removed)
    BY <2>2, <2>3, ClaimKinds DEF RequestOK, Steps
  <2> QED
    BY <1>1, <2>1, <2>2, <2>4, RequestKeeps, ZenonT(60)
<1>4. CASE ListClaims(t)
  <2>1. PICK open \in SUBSET Ids :
          /\ Become(t, [Idle EXCEPT !.pc = "check", !.todo = open])
          /\ UNCHANGED <<claims, served, overwritten, removed, dispatcher>>
    BY <1>4, ZenonT(60) DEF ListClaims
  <2> DEFINE next == [Idle EXCEPT !.pc = "check", !.todo = open]
  <2>2. next.pc = "check" /\ next.id = 0 /\ next.claim = NoClaim /\ next.todo = open
    BY DEF Idle
  <2>3. Become(t, next)
    BY <2>1
  <2> HIDE DEF next
  <2>4. RequestOK(next, claims, served, overwritten, removed)
    BY <2>2, ClaimKinds DEF RequestOK, Steps
  <2> QED
    BY <1>1, <2>1, <2>2, <2>3, <2>4, RequestKeeps
<1> QED
  BY <1>2, <1>3, <1>4

\* The requests that go on to the next claim of their list are fine.
LEMMA DoneOK ==
    ASSUME NEW me, me.todo \subseteq Ids, NEW id
    PROVE  /\ Done(me, id).pc \in {"idle", "check"}
           /\ \A cl, sv, ow, rm : RequestOK(Done(me, id), cl, sv, ow, rm)
<1> DEFINE left == me.todo \ {id}
           next == [Idle EXCEPT !.pc = "check", !.todo = left]
<1>1. Idle.pc = "idle"
  BY DEF Idle
<1>2. next.pc = "check" /\ next.id = 0 /\ next.claim = NoClaim /\ next.todo = left
  BY DEF Idle
<1>3. left \subseteq Ids
  OBVIOUS
<1>4. Done(me, id) = Idle \/ Done(me, id) = next
  BY DEF Done
<1> HIDE DEF next, left
<1>5. \A cl, sv, ow, rm : RequestOK(next, cl, sv, ow, rm)
  BY <1>2, <1>3, ClaimKinds DEF RequestOK, Steps
<1> QED
  BY <1>1, <1>2, <1>4, <1>5, IdleOK, ZenonT(60)

\* A call stores its claim.
LEMMA SetClaimServe ==
    ASSUME SentinelInv, ServeInv, NEW t \in Threads, SetClaim(t)
    PROVE  ServeInv'
<1>1. StoresTyped /\ IsRequest(thread[t])
  BY DEF SentinelInv, StoresTyped
<1>2. PICK me : me = thread[t]
  OBVIOUS
<1>3. RequestOK(me, claims, served, overwritten, removed) /\ IsRequest(me) /\ me.pc = "set"
  BY <1>1, <1>2 DEF ServeInv, SetClaim
<1>4. /\ me.id \in Ids /\ me.nonce \in 1 .. MaxNonce
      /\ me.claim \in StoredClaims \cup {NoClaim, ZeroClaim} /\ me.claim.nonce < me.nonce
      /\ me.claim = ZeroClaim => me.id \in removed
      /\ me.todo \subseteq Ids
  BY <1>3, ZenonT(60) DEF RequestOK
<1>5. UNCHANGED <<served, removed, dispatcher>>
  BY ZenonT(60) DEF SetClaim
<1>6. CASE Become(t, Idle) /\ UNCHANGED <<claims, overwritten>>
  <2>1. Idle.pc # "put"
    BY DEF Idle
  <2> QED
    BY <1>1, <1>5, <1>6, <2>1, IdleOK, RequestKeeps
<1>7. ASSUME Set(me.id, me.claim, NewClaim(me.nonce)), Overwrites(me.id, me.claim),
             Become(t, [me EXCEPT !.pc = "put", !.claim = NoClaim])
      PROVE  ServeInv'
  <2> DEFINE next == [me EXCEPT !.pc = "put", !.claim = NoClaim]
             new  == NewClaim(me.nonce)
  <2>1. /\ next.pc = "put" /\ next.claim = NoClaim /\ next.id = me.id
        /\ next.nonce = me.nonce /\ next.todo = me.todo
    BY <1>3, RequestFields
  <2>2. thread'[t] = next /\ \A u \in Threads \ {t} : thread'[u] = thread[u]
    BY <1>1, <1>7 DEF Become, StoresTyped
  <2> HIDE DEF next
  <2>3. CASE me.claim = ZeroClaim
    <3>1. claims' = claims /\ overwritten' = overwritten /\ me.id \in removed
      BY <1>4, <1>7, <2>3 DEF Set, Overwrites
    <3>2. RequestOK(next, claims, served, overwritten, removed)
      BY <1>4, <2>1, <3>1, ClaimKinds DEF RequestOK, Steps
    <3>3. \A u \in Threads : RequestOK(thread'[u], claims', served', overwritten', removed')
      BY <1>5, <2>2, <3>1, <3>2, ZenonT(60) DEF ServeInv
    <3>4. \A u, v \in Threads : u # v => Apart(thread'[u], thread'[v], overwritten', removed')
      BY <1>5, <2>1, <2>2, <3>1, PairsApart, ZenonT(60)
    <3> QED
      BY <1>5, <3>1, <3>3, <3>4, ZenonT(60) DEF ServeInv
  <2>4. CASE me.claim # ZeroClaim
    <3>1. /\ claims' = [claims EXCEPT ![me.id] = new]
          /\ overwritten' = IF claims[me.id] \notin {me.claim, NoClaim}
                            THEN overwritten \cup {me.id} ELSE overwritten
      BY <1>7, <2>4 DEF Set, Overwrites
    <3>2. new \in StoredClaims /\ new.nonce = me.nonce
      BY <1>4 DEF NewClaim, StoredClaims
    <3>3. me.claim.nonce <= new.nonce /\ me.claim.nonce \in Int
      <4>1. me.claim.nonce \in Int /\ me.nonce \in Int
        BY <1>4, ClaimKinds, MarketAssumptions DEF StoredClaims
      <4> QED
        BY <1>4, <3>2, <4>1
    <3> HIDE DEF new
    <3>4. /\ claims' \in [Ids -> StoredClaims \cup {NoClaim}] /\ overwritten' \subseteq Ids
          /\ \A r : RequestOK(r, claims, served, overwritten, removed)
                      => RequestOK(r, claims', served', overwritten', removed')
          /\ \A r, s : Apart(r, s, overwritten, removed) => Apart(r, s, overwritten', removed')
          /\ \A i \in Ids : ServedOK(i, claims', served', overwritten', removed')
      BY <1>4, <1>5, <3>1, <3>2, <3>3, StoreKeeps, ZenonT(60)
    <3>5. claims'[me.id] = new /\ claims \in [Ids -> StoredClaims \cup {NoClaim}]
      BY <1>4, <3>1, ZenonT(60) DEF ServeInv
    <3>6. ASSUME me.id \notin overwritten' \cup removed', NEW n \in Nat,
                 claims[me.id] # NoClaim, n <= claims[me.id].nonce
          PROVE  n < me.nonce
      <4>1. claims[me.id] = me.claim
        BY <3>1, <3>6
      <4>2. me.claim.nonce \in Int /\ me.nonce \in Int
        BY <1>4, <3>3
      <4> QED
        BY <1>4, <3>6, <4>1, <4>2
    <3>7. me.id \notin overwritten' \cup removed' => me.id \notin overwritten \cup removed
      BY <1>5, <3>1
    <3>8. me.id \notin overwritten' \cup removed' => served[me.id][me.nonce] = 0
      <4> SUFFICES ASSUME me.id \notin overwritten' \cup removed',
                          served[me.id][me.nonce] # 0
                   PROVE  FALSE
        OBVIOUS
      <4>1. served[me.id][me.nonce] \in Nat /\ me.nonce \in Nat
        <5>1. served \in [Ids -> [1 .. MaxNonce -> Nat]]
          BY ZenonT(60) DEF ServeInv
        <5> QED
          BY <1>4, <5>1, NonceNat
      <4>2. claims[me.id] # NoClaim /\ me.nonce <= claims[me.id].nonce
        <5>1. ServedOK(me.id, claims, served, overwritten, removed)
          BY <1>4, ZenonT(60) DEF ServeInv
        <5>2. served[me.id][me.nonce] > 0
          BY <4>1
        <5> QED
          BY <1>4, <3>7, <5>1, <5>2, ZenonT(60) DEF ServedOK
      <4> QED
        BY <3>6, <4>1, <4>2
    <3>9. RequestOK(next, claims', served', overwritten', removed')
      <4>1. me.nonce <= new.nonce /\ new # NoClaim
        BY <1>4, <3>2, ClaimKinds, MarketAssumptions
      <4>2. served' = served
        BY <1>5
      <4> QED
        BY <1>4, <2>1, <3>5, <3>8, <4>1, <4>2, ClaimKinds DEF RequestOK, Steps
    <3>10. \A u \in Threads : RequestOK(thread'[u], claims', served', overwritten', removed')
      BY <2>2, <3>4, <3>9, ZenonT(60) DEF ServeInv
    <3>11. ASSUME NEW u \in Threads \ {t}
           PROVE  /\ Apart(next, thread[u], overwritten', removed')
                  /\ Apart(thread[u], next, overwritten', removed')
      <4> SUFFICES ASSUME thread[u].pc = "put", thread[u].id = me.id,
                          me.id \notin overwritten' \cup removed'
                   PROVE  thread[u].nonce < me.nonce /\ thread[u].nonce \in Nat /\ me.nonce \in Nat
        BY <2>1 DEF Apart
      <4>1. RequestOK(thread[u], claims, served, overwritten, removed)
        BY ZenonT(60) DEF ServeInv
      <4>2. /\ claims[me.id] # NoClaim /\ thread[u].nonce <= claims[me.id].nonce
            /\ thread[u].nonce \in Nat /\ me.nonce \in Nat
        <5>1. thread[u].nonce \in 1 .. MaxNonce
          BY <4>1, ZenonT(60) DEF RequestOK
        <5>2. claims[me.id] # NoClaim /\ thread[u].nonce <= claims[me.id].nonce
          BY <3>7, <4>1, ZenonT(60) DEF RequestOK
        <5> QED
          BY <1>4, <5>1, <5>2, NonceNat, ZenonT(60)
      <4> QED
        BY <3>6, <4>2, ZenonT(60)
    <3>12. \A u, v \in Threads : u # v => Apart(thread'[u], thread'[v], overwritten', removed')
      <4> SUFFICES ASSUME NEW u \in Threads, NEW v \in Threads, u # v
                   PROVE  Apart(thread'[u], thread'[v], overwritten', removed')
        OBVIOUS
      <4>1. CASE u = t
        BY <2>2, <3>11, <4>1
      <4>2. CASE v = t
        BY <2>2, <3>11, <4>2
      <4>3. CASE u # t /\ v # t
        BY <2>2, <3>4, <4>3, ZenonT(60) DEF ServeInv
      <4> QED
        BY <4>1, <4>2, <4>3
    <3> QED
      BY <1>5, <3>4, <3>10, <3>12, ZenonT(60) DEF ServeInv
  <2> QED
    BY <2>3, <2>4
<1> QED
  BY <1>2, <1>6, <1>7, ZenonT(60) DEF SetClaim

\* A claim that was read is stored as claimed.
LEMMA MarkStore ==
    ASSUME ServeInv, NEW id \in Ids, NEW read \in StoredClaims \cup {ZeroClaim},
           Set(id, read, [read EXCEPT !.claimed = TRUE]), Overwrites(id, read),
           UNCHANGED <<served, removed>>
    PROVE  /\ claims' \in [Ids -> StoredClaims \cup {NoClaim}] /\ overwritten' \subseteq Ids
           /\ \A r : RequestOK(r, claims, served, overwritten, removed)
                       => RequestOK(r, claims', served', overwritten', removed')
           /\ \A r, s : Apart(r, s, overwritten, removed) => Apart(r, s, overwritten', removed')
           /\ \A i \in Ids : ServedOK(i, claims', served', overwritten', removed')
<1>1. CASE read = ZeroClaim
  <2>1. UNCHANGED <<claims, served, overwritten, removed>>
    BY <1>1 DEF Set, Overwrites
  <2> QED
    BY <2>1 DEF ServeInv
<1>2. CASE read # ZeroClaim
  <2> DEFINE claim == [read EXCEPT !.claimed = TRUE]
  <2>1. claim \in StoredClaims /\ claim.nonce = read.nonce /\ read.nonce \in Nat
    BY <1>2, ClaimKinds, MarketAssumptions
  <2>2. /\ claims' = [claims EXCEPT ![id] = claim]
        /\ overwritten' = IF claims[id] \notin {read, NoClaim}
                          THEN overwritten \cup {id} ELSE overwritten
    BY <1>2 DEF Set, Overwrites
  <2> HIDE DEF claim
  <2>3. read.nonce <= claim.nonce
    BY <2>1
  <2> QED
    BY <2>1, <2>2, <2>3, StoreKeeps, ZenonT(60)
<1> QED
  BY <1>1, <1>2

\* The call is served.
LEMMA PutContractServe ==
    ASSUME SentinelInv, ServeInv, NEW t \in Threads, PutContract(t)
    PROVE  ServeInv'
<1>1. PICK me : me = thread[t]
  OBVIOUS
<1>2. /\ me.pc = "put" /\ Become(t, Idle)
      /\ served' = [served EXCEPT ![me.id][me.nonce] = Least(@ + 1, 2)]
      /\ UNCHANGED <<claims, overwritten, removed, dispatcher>>
  BY <1>1, ZenonT(60) DEF PutContract
<1>3. RequestOK(me, claims, served, overwritten, removed) /\ StoresTyped
  BY <1>1 DEF ServeInv, SentinelInv
<1>4. /\ me.id \in Ids /\ me.nonce \in 1 .. MaxNonce
      /\ me.id \notin overwritten \cup removed =>
           /\ claims[me.id] # NoClaim /\ me.nonce <= claims[me.id].nonce
           /\ served[me.id][me.nonce] = 0
  BY <1>2, <1>3, ZenonT(60) DEF RequestOK
<1>5. thread'[t] = Idle /\ Idle.pc = "idle" /\ \A u \in Threads \ {t} : thread'[u] = thread[u]
  BY <1>2, <1>3, IdleRequest DEF Become, StoresTyped
<1>6. /\ served \in [Ids -> [1 .. MaxNonce -> Nat]]
      /\ \A i \in Ids : ServedOK(i, claims, served, overwritten, removed)
  BY DEF ServeInv
<1>7. /\ served' \in [Ids -> [1 .. MaxNonce -> Nat]]
      /\ served[me.id][me.nonce] = 0 => served'[me.id][me.nonce] = 1
      /\ \A i \in Ids, n \in 1 .. MaxNonce :
           i # me.id \/ n # me.nonce => served'[i][n] = served[i][n]
  <2>1. served[me.id][me.nonce] \in Nat
    BY <1>4, <1>6, ZenonT(60)
  <2>2. PICK k \in Nat : /\ k = Least(served[me.id][me.nonce] + 1, 2)
                         /\ served[me.id][me.nonce] = 0 => k = 1
    BY <2>1 DEF Least
  <2>3. served' = [served EXCEPT ![me.id] = [served[me.id] EXCEPT ![me.nonce] = k]]
    BY <1>2, <2>2
  <2> QED
    BY <1>4, <1>6, <2>2, <2>3, ZenonT(60)
<1>8. ASSUME NEW i \in Ids PROVE ServedOK(i, claims', served', overwritten', removed')
  <2> SUFFICES ASSUME i \notin overwritten \cup removed, NEW n \in 1 .. MaxNonce
               PROVE  /\ served'[i][n] <= 1
                      /\ served'[i][n] > 0 => claims[i] # NoClaim /\ n <= claims[i].nonce
    BY <1>2, ZenonT(60) DEF ServedOK
  <2>1. CASE i = me.id /\ n = me.nonce
    <3>1. /\ claims[i] # NoClaim /\ n <= claims[i].nonce
          /\ served[me.id][me.nonce] = 0
      BY <1>4, <2>1, ZenonT(60)
    <3>2. served'[i][n] = 1
      BY <1>7, <2>1, <3>1, ZenonT(60)
    <3> QED
      BY <3>1, <3>2
  <2>2. CASE i # me.id \/ n # me.nonce
    BY <1>6, <1>7, <2>2 DEF ServedOK
  <2> QED
    BY <2>1, <2>2, ZenonT(60)
<1>9. ASSUME NEW u \in Threads
      PROVE  RequestOK(thread'[u], claims', served', overwritten', removed')
  <2>1. CASE u = t
    BY <1>5, <2>1, IdleOK, ZenonT(60)
  <2>2. CASE u # t
    <3>1. PICK r : r = thread[u] /\ r = thread'[u]
      BY <1>5, <2>2
    <3>2. /\ RequestOK(r, claims, served, overwritten, removed)
          /\ Apart(me, r, overwritten, removed)
      BY <1>1, <2>2, <3>1, ZenonT(60) DEF ServeInv
    <3>3. ASSUME r.pc = "put", r.id \notin overwritten \cup removed
          PROVE  served'[r.id][r.nonce] = served[r.id][r.nonce]
      <4>1. r.id \in Ids /\ r.nonce \in 1 .. MaxNonce /\ (r.id # me.id \/ r.nonce # me.nonce)
        BY <1>2, <3>2, <3>3, ZenonT(60) DEF RequestOK, Apart
      <4> QED
        BY <1>7, <4>1, ZenonT(60)
    <3> QED
      BY <1>2, <3>1, <3>2, <3>3, ZenonT(60) DEF RequestOK
  <2> QED
    BY <2>1, <2>2
<1>10. \A u, v \in Threads : u # v => Apart(thread'[u], thread'[v], overwritten', removed')
  BY <1>2, <1>5, PairsApart
<1> QED
  BY <1>2, <1>7, <1>8, <1>9, <1>10, ZenonT(60) DEF ServeInv

\* The claim of an expired contract is removed.
LEMMA RemoveClaimServe ==
    ASSUME SentinelInv, ServeInv, NEW t \in Threads, RemoveClaim(t)
    PROVE  ServeInv'
<1>1. PICK me : me = thread[t]
  OBVIOUS
<1>2. /\ me.pc = "remove" /\ Become(t, Done(me, me.id))
      /\ \/ /\ claims' = [claims EXCEPT ![me.id] = NoClaim]
            /\ removed' = removed \cup {me.id}
         \/ UNCHANGED <<claims, removed>>
      /\ UNCHANGED <<served, overwritten, dispatcher>>
  BY <1>1, ZenonT(60) DEF RemoveClaim
<1>3. RequestOK(me, claims, served, overwritten, removed) /\ StoresTyped
  BY <1>1 DEF ServeInv, SentinelInv
<1>4. me.id \in Ids /\ me.todo \subseteq Ids
  BY <1>2, <1>3, ZenonT(60) DEF RequestOK
<1>5. PICK next : /\ next = Done(me, me.id) /\ next.pc # "put"
                  /\ \A cl, sv, ow, rm : RequestOK(next, cl, sv, ow, rm)
  BY <1>4, DoneOK, ZenonT(60)
<1>6. thread'[t] = next /\ \A u \in Threads \ {t} : thread'[u] = thread[u]
  BY <1>2, <1>3, <1>5 DEF Become, StoresTyped
<1>7. CASE UNCHANGED <<claims, removed>>
  BY <1>2, <1>3, <1>5, <1>7, RequestKeeps
<1>8. ASSUME claims' = [claims EXCEPT ![me.id] = NoClaim], removed' = removed \cup {me.id}
      PROVE  ServeInv'
  <2>1. /\ claims' \in [Ids -> StoredClaims \cup {NoClaim}]
        /\ \A i \in Ids : i \notin removed' => claims'[i] = claims[i] /\ i \notin removed
        /\ removed' \subseteq Ids /\ removed \subseteq removed'
    BY <1>4, <1>8, ZenonT(60) DEF ServeInv
  <2>2. \A i \in Ids : ServedOK(i, claims', served', overwritten', removed')
    BY <1>2, <2>1, ZenonT(60) DEF ServeInv, ServedOK
  <2>3. ASSUME NEW r, RequestOK(r, claims, served, overwritten, removed)
        PROVE  RequestOK(r, claims', served', overwritten', removed')
    BY <1>2, <2>1, <2>3, ZenonT(60) DEF RequestOK
  <2>4. \A u \in Threads : RequestOK(thread'[u], claims', served', overwritten', removed')
    BY <1>5, <1>6, <2>3, ZenonT(60) DEF ServeInv
  <2>5. \A u, v \in Threads : u # v => Apart(thread'[u], thread'[v], overwritten', removed')
    BY <1>2, <1>5, <1>6, <2>1, PairsApart, ZenonT(60)
  <2> QED
    BY <1>2, <2>1, <2>2, <2>4, <2>5, ZenonT(60) DEF ServeInv
<1> QED
  BY <1>2, <1>7, <1>8

\* The other steps of a request.
LEMMA ProceedServe ==
    ASSUME SentinelInv, ServeInv, NEW t \in Threads, Proceed(t)
    PROVE  ServeInv'
<1>1. PICK me : me = thread[t]
  OBVIOUS
<1>2. RequestOK(me, claims, served, overwritten, removed) /\ IsRequest(me) /\ StoresTyped
  BY <1>1 DEF ServeInv, SentinelInv, StoresTyped
<1>3. CASE HasClaim(t)
  <2>1. PICK pc \in {"get", "set"} : /\ pc = "get" => claims[me.id] # NoClaim
                                     /\ Become(t, [me EXCEPT !.pc = pc])
    BY <1>1, <1>3 DEF HasClaim, Stored
  <2>2. me.pc = "has" /\ UNCHANGED <<claims, served, overwritten, removed, dispatcher>>
    BY <1>1, <1>3, ZenonT(60) DEF HasClaim
  <2>3. me.claim = NoClaim /\ me.id \in Ids /\ me.nonce \in 1 .. MaxNonce /\ me.todo \subseteq Ids
    BY <1>2, <2>2, ZenonT(60) DEF RequestOK
  <2> DEFINE next == [me EXCEPT !.pc = pc]
  <2>4. /\ next.pc = pc /\ next.id = me.id /\ next.nonce = me.nonce /\ next.claim = me.claim
        /\ next.todo = me.todo
    BY <1>2, RequestFields
  <2>5. Become(t, next)
    BY <2>1
  <2> HIDE DEF next
  <2>6. NoClaim.nonce < me.nonce /\ NoClaim # ZeroClaim
    BY <2>3, ClaimKinds, MarketAssumptions
  <2>7. RequestOK(next, claims, served, overwritten, removed)
    BY <2>1, <2>3, <2>4, <2>6, ClaimKinds DEF RequestOK, Steps
  <2> QED
    BY <1>2, <2>1, <2>2, <2>4, <2>5, <2>7, RequestKeeps
<1>4. CASE GetClaim(t)
  <2>1. me.pc = "get" /\ UNCHANGED <<claims, served, overwritten, removed, dispatcher>>
    BY <1>1, <1>4, ZenonT(60) DEF GetClaim
  <2>2. /\ me.claim = NoClaim /\ me.id \in Ids /\ me.nonce \in 1 .. MaxNonce
        /\ me.todo \subseteq Ids /\ (claims[me.id] # NoClaim \/ me.id \in removed)
    BY <1>2, <2>1, ZenonT(60) DEF RequestOK
  <2>3. CASE Become(t, Idle)
    BY <1>2, <2>1, <2>3, IdleOK, IdleRequest, RequestKeeps
  <2>4. CASE ~BadNonce(Get(me.id), me.nonce) /\ Become(t, [me EXCEPT !.pc = "set", !.claim = Get(me.id)])
    <3> DEFINE next == [me EXCEPT !.pc = "set", !.claim = Get(me.id)]
    <3>1. /\ next.pc = "set" /\ next.id = me.id /\ next.nonce = me.nonce
          /\ next.claim = Get(me.id) /\ next.todo = me.todo
      BY <1>2, RequestFields
    <3>2. Become(t, next)
      BY <2>4
    <3> HIDE DEF next
    <3>3. /\ Get(me.id) \in StoredClaims \cup {ZeroClaim}
          /\ Get(me.id) = ZeroClaim => me.id \in removed
      BY <2>2, ClaimKinds DEF Get, Stored, ServeInv
    <3>4. Get(me.id).nonce < me.nonce
      <4>1. Get(me.id).nonce \in Int /\ me.nonce \in Int
        <5>1. \A c \in StoredClaims \cup {ZeroClaim} : c.nonce \in Int
          BY ClaimKinds, MarketAssumptions DEF StoredClaims
        <5> QED
          <6>1. Get(me.id).nonce \in Int
            BY <3>3, <5>1, ZenonT(60)
          <6>2. me.nonce \in 1 .. MaxNonce
            BY <2>2, ZenonT(60)
          <6>3. me.nonce \in Int
            BY <6>2, NonceNat
          <6> QED
            BY <6>1, <6>3
      <4> QED
        BY <2>4, <4>1 DEF BadNonce
    <3>5. RequestOK(next, claims, served, overwritten, removed)
      BY <2>2, <3>1, <3>3, <3>4, ClaimKinds DEF RequestOK, Steps
    <3> QED
      BY <1>2, <2>1, <3>1, <3>2, <3>5, RequestKeeps
  <2> QED
    BY <1>1, <1>4, <2>3, <2>4 DEF GetClaim
<1>5. ASSUME NEW id \in me.todo, CheckClaim(t, id) PROVE ServeInv'
  <2>1. me.pc = "check" /\ UNCHANGED <<claims, served, overwritten, removed, dispatcher>>
    BY <1>1, <1>5, ZenonT(60) DEF CheckClaim
  <2>2. me.todo \subseteq Ids /\ me.claim \in Claim /\ id \in Ids
    BY <1>2, <1>5, ZenonT(60) DEF RequestOK
  <2>3. CASE Become(t, Done(me, id))
    <3>1. PICK next : /\ next = Done(me, id) /\ next.pc # "put"
                      /\ RequestOK(next, claims, served, overwritten, removed)
      BY <2>2, DoneOK, ZenonT(60)
    <3> QED
      BY <1>2, <2>1, <2>3, <3>1, RequestKeeps, ZenonT(60)
  <2>4. CASE Become(t, [me EXCEPT !.pc = "remove", !.id = id])
    <3> DEFINE next == [me EXCEPT !.pc = "remove", !.id = id]
    <3>1. next.pc = "remove" /\ next.id = id /\ next.claim = me.claim /\ next.todo = me.todo
      BY <1>2, RequestFields
    <3>2. Become(t, next)
      BY <2>4
    <3> HIDE DEF next
    <3>3. RequestOK(next, claims, served, overwritten, removed)
      BY <2>2, <3>1 DEF RequestOK, Steps
    <3> QED
      BY <1>2, <2>1, <3>1, <3>2, <3>3, RequestKeeps, ZenonT(60)
  <2> QED
    BY <1>1, <1>5, <2>3, <2>4, ZenonT(60) DEF CheckClaim
<1>6. CASE SetMarked(t)
  <2>1. me.pc = "mark" /\ Become(t, Idle) /\ UNCHANGED <<served, removed, dispatcher>>
    BY <1>1, <1>6, ZenonT(60) DEF SetMarked
  <2>2. me.id \in Ids /\ me.claim \in StoredClaims
    BY <1>2, <2>1, ZenonT(60) DEF RequestOK
  <2>3. CASE UNCHANGED <<claims, overwritten>>
    BY <1>2, <2>1, <2>3, IdleOK, IdleRequest, RequestKeeps
  <2>4. CASE /\ Set(me.id, me.claim, [me.claim EXCEPT !.claimed = TRUE])
             /\ Overwrites(me.id, me.claim)
    <3>1. /\ claims' \in [Ids -> StoredClaims \cup {NoClaim}] /\ overwritten' \subseteq Ids
          /\ \A r : RequestOK(r, claims, served, overwritten, removed)
                      => RequestOK(r, claims', served', overwritten', removed')
          /\ \A r, s : Apart(r, s, overwritten, removed) => Apart(r, s, overwritten', removed')
          /\ \A i \in Ids : ServedOK(i, claims', served', overwritten', removed')
      BY <2>1, <2>2, <2>4, MarkStore, ZenonT(60)
    <3>2. thread'[t] = Idle /\ Idle.pc = "idle" /\ \A u \in Threads \ {t} : thread'[u] = thread[u]
      BY <1>2, <2>1, IdleRequest DEF Become, StoresTyped
    <3>3. \A u \in Threads : RequestOK(thread'[u], claims', served', overwritten', removed')
      BY <3>1, <3>2, IdleOK, ZenonT(60) DEF ServeInv
    <3>4. \A u, v \in Threads : u # v => Apart(thread'[u], thread'[v], overwritten', removed')
      <4> SUFFICES ASSUME NEW u \in Threads, NEW v \in Threads, u # v
                   PROVE  Apart(thread'[u], thread'[v], overwritten', removed')
        OBVIOUS
      <4>1. CASE u = t \/ v = t
        BY <3>2, <4>1 DEF Apart
      <4>2. CASE u # t /\ v # t
        BY <3>1, <3>2, <4>2, ZenonT(60) DEF ServeInv
      <4> QED
        BY <4>1, <4>2
    <3> QED
      BY <2>1, <3>1, <3>3, <3>4, ZenonT(60) DEF ServeInv
  <2> QED
    BY <1>1, <1>6, <2>3, <2>4, ZenonT(60) DEF SetMarked
<1> QED
  BY <1>1, <1>3, <1>4, <1>5, <1>6, SetClaimServe, PutContractServe, RemoveClaimServe, ZenonT(60) DEF Proceed

\* The event loop, restarts and the chain.
LEMMA DispatchServe ==
    ASSUME SentinelInv, ServeInv, Dispatch \/ Restart
    PROVE  ServeInv'
<1> DEFINE Dispatchers == [pending : SUBSET Settlements, claim : Claims, id : Nat]
<1>1. dispatcher \in Dispatchers /\ dispatcher.claim \in StoredClaims \cup {NoClaim, ZeroClaim}
  BY DEF SentinelInv, StoresTyped, ServeInv
<1>2. ASSUME UNCHANGED <<claims, thread, served, overwritten, removed>>,
             dispatcher'.claim \in StoredClaims \cup {NoClaim, ZeroClaim}
      PROVE  ServeInv'
  BY <1>2, ZenonT(60) DEF ServeInv
<1>3. CASE HandleOpenContractEvent \/ HandleCloseContractEvent
  <2>1. UNCHANGED <<claims, thread, served, overwritten, removed, dispatcher>>
    BY <1>3, ZenonT(60) DEF HandleOpenContractEvent, HandleCloseContractEvent, DispatchUnchanged
  <2> QED
    BY <1>1, <1>2, <2>1
<1>4. CASE HandleContractSettlementEvent \/ HandleNewBlockHeaderEvent
  <2>1. PICK pending : dispatcher' = [dispatcher EXCEPT !.pending = pending]
    BY <1>4 DEF HandleContractSettlementEvent, HandleNewBlockHeaderEvent
  <2>2. dispatcher'.claim = dispatcher.claim
    BY <1>1, <2>1
  <2>3. UNCHANGED <<claims, thread, served, overwritten, removed>>
    BY <1>4, ZenonT(60) DEF HandleContractSettlementEvent, HandleNewBlockHeaderEvent,
                            DispatchUnchanged
  <2> QED
    BY <1>1, <1>2, <2>2, <2>3
<1>5. ASSUME NEW e \in dispatcher.pending, GetSettled(e) PROVE ServeInv'
  <2>1. e.id \in Ids
    BY <1>1 DEF Settlements
  <2>2. Get(e.id) \in StoredClaims \cup {ZeroClaim}
    BY <2>1, ZenonT(60) DEF Get, Stored, ServeInv
  <2>3. UNCHANGED <<claims, thread, served, overwritten, removed>>
    BY <1>5, ZenonT(60) DEF GetSettled, DispatchUnchanged
  <2>4. dispatcher'.claim \in {dispatcher.claim, Get(e.id)}
    BY <1>1, <1>5 DEF GetSettled
  <2> QED
    BY <1>1, <1>2, <2>2, <2>3, <2>4
<1>6. CASE SetSettled
  <2>1. PICK claim, id : claim = dispatcher.claim /\ id = dispatcher.id
    OBVIOUS
  <2>2. /\ claim # NoClaim /\ dispatcher'.claim = NoClaim
        /\ UNCHANGED <<thread, served, removed>>
    BY <1>6, <2>1 DEF SetSettled
  <2>3. id \in Ids /\ claim \in StoredClaims \cup {ZeroClaim}
    BY <1>1, <2>1, <2>2, ZenonT(60) DEF SentinelInv, MarksCovered, Covered
  <2>4. CASE UNCHANGED <<claims, overwritten>>
    BY <1>2, <2>2, <2>4
  <2>5. CASE Set(id, claim, [claim EXCEPT !.claimed = TRUE]) /\ Overwrites(id, claim)
    <3>1. /\ claims' \in [Ids -> StoredClaims \cup {NoClaim}] /\ overwritten' \subseteq Ids
          /\ \A r : RequestOK(r, claims, served, overwritten, removed)
                      => RequestOK(r, claims', served', overwritten', removed')
          /\ \A r, s : Apart(r, s, overwritten, removed) => Apart(r, s, overwritten', removed')
          /\ \A i \in Ids : ServedOK(i, claims', served', overwritten', removed')
      BY <2>2, <2>3, <2>5, MarkStore, ZenonT(60)
    <3> QED
      BY <2>2, <3>1, ZenonT(60) DEF ServeInv
  <2> QED
    BY <1>6, <2>1, <2>4, <2>5, ZenonT(60) DEF SetSettled
<1>7. CASE Restart
  <2>1. /\ UNCHANGED <<claims, served, overwritten, removed>> /\ dispatcher'.claim = NoClaim
        /\ \A u \in Threads : thread'[u] = Idle
    BY <1>7, ZenonT(60) DEF Restart
  <2>2. Idle.pc = "idle"
    BY IdleRequest
  <2> QED
    BY <2>1, <2>2, IdleOK, ZenonT(60) DEF ServeInv, Apart
<1> QED
  BY <1>3, <1>4, <1>5, <1>6, <1>7 DEF Dispatch

\* The invariant of the served calls, for all constants.
LEMMA ServeInvAlways == SentinelSpec => [](SentinelInv /\ ServeInv)
<1>1. SentinelInit => ServeInv
  <2> SUFFICES ASSUME SentinelInit PROVE ServeInv
    OBVIOUS
  <2>1. /\ claims = [id \in Ids |-> NoClaim] /\ overwritten = {} /\ removed = {}
        /\ served = [id \in Ids |-> [n \in 1 .. MaxNonce |-> 0]]
        /\ dispatcher.claim = NoClaim /\ \A u \in Threads : thread[u] = Idle
    BY DEF SentinelInit
  <2>2. \A id \in Ids : ServedOK(id, claims, served, overwritten, removed)
    BY <2>1 DEF ServedOK
  <2>3. Idle.pc = "idle"
    BY IdleRequest
  <2> QED
    BY <2>1, <2>2, <2>3, IdleOK, ZenonT(60) DEF ServeInv, Apart
<1>2. ASSUME SentinelInv, ServeInv, [SentinelNext]_sentinelAll PROVE ServeInv'
  <2>1. ASSUME UNCHANGED <<claims, thread, dispatcher, served, overwritten, removed>>
        PROVE  ServeInv'
    BY <1>2, <2>1 DEF ServeInv
  <2>2. CASE UNCHANGED sentinelAll
    BY <2>1, <2>2 DEF sentinelAll, sentinelVars
  <2>3. CASE ChainOpenContract \/ ChainEndBlock
    BY <2>1, <2>3, ZenonT(60) DEF ChainOpenContract, ChainEndBlock, ChainUnchanged
  <2>4. ASSUME NEW id \in Ids, \/ \E nonce \in 1 .. MaxNonce : ChainClaimContractIncome(id, nonce)
                               \/ ChainCloseContract(id)
                               \/ SignCall(id) /\ UNCHANGED sentinelVars
        PROVE  ServeInv'
    <3>1. ChainUnchanged \/ UNCHANGED sentinelVars
      BY <2>4, ZenonT(60) DEF ChainClaimContractIncome, ChainCloseContract
    <3> QED
      BY <2>1, <3>1, ZenonT(60) DEF ChainUnchanged, sentinelVars
  <2>5. CASE Dispatch \/ Restart
    BY <1>2, <2>5, DispatchServe
  <2>6. ASSUME NEW t \in Threads,
               \/ \E id \in Ids, nonce \in 1 .. MaxNonce :
                    \/ \E spender \in {EmptyPubKey, Spender(id)} : PaidTier(t, id, nonce, spender)
                    \/ MarkClaimed(t, id, nonce)
               \/ ListClaims(t)
        PROVE  ServeInv'
    BY <1>2, <2>6, TakeUpServe
  <2>7. ASSUME NEW t \in Threads, Proceed(t) PROVE ServeInv'
    BY <1>2, <2>7, ProceedServe
  <2> QED
    BY <1>2, <2>2, <2>3, <2>4, <2>5, <2>6, <2>7, ZenonT(60) DEF SentinelNext
<1> QED
  BY <1>1, <1>2, SentinelInitInv, SentinelNextInv, PTL DEF SentinelSpec

\* No signed nonce is served twice on a contract, unless a claim of the contract was
\* written over a newer one or removed: requests may be repeated and interleave with
\* each other, the event loop, the operator and restarts (paidTier).
THEOREM NeverServedTwice == SentinelSpec => []ServedOnce
<1>1. ServeInv => ServedOnce
  BY ZenonT(60) DEF ServeInv, ServedOK, ServedOnce
<1> QED
  BY <1>1, ServeInvAlways, PTL

\* With the same exceptions, the claim kept for a contract covers every call that was
\* served on it, so the provider can claim the income of all of them.
THEOREM ClaimsCoverCalls == SentinelSpec => []ClaimCoversServed
<1>1. ServeInv => ClaimCoversServed
  <2> SUFFICES ASSUME ServeInv, NEW id \in Ids \ (overwritten \cup removed), NEW n \in Served(id)
               PROVE  Stored(id) /\ claims[id].nonce >= n
    BY ZenonT(60) DEF ClaimCoversServed
  <2>0. /\ n \in 1 .. MaxNonce /\ served[id][n] > 0
        /\ ServedOK(id, claims, served, overwritten, removed)
    BY DEF ServeInv, Served
  <2>1. claims[id] # NoClaim /\ n <= claims[id].nonce /\ n \in 1 .. MaxNonce
    BY <2>0 DEF ServedOK
  <2>2. claims[id].nonce \in Int /\ n \in Int
    <3>1. claims[id] \in StoredClaims
      BY <2>1, ZenonT(60) DEF ServeInv
    <3>2. MaxNonce \in Nat
      BY MarketAssumptions
    <3> QED
      BY <2>1, <3>1, <3>2 DEF StoredClaims
  <2> QED
    BY <2>1, <2>2, ZenonT(60) DEF Stored
<1> QED
  BY <1>1, ServeInvAlways, PTL
=============================================================================
