------------------------------ MODULE Sentinel ------------------------------
(***************************************************************************)
(* The sentinel in front of a provider's service, composed with the chain  *)
(* of module Market.  Signed calls arrive on concurrent HTTP threads, are  *)
(* checked against cached contracts and stored as claims; the same store   *)
(* is read and written by the operator's open-claims and mark-claimed      *)
(* requests and by the handlers of chain events.                           *)
(*                                                                         *)
(* Every read or write of a store is one step: the stores lock or write    *)
(* one operation at a time and the handlers hold no lock across two.  The  *)
(* tests a handler makes on what it has just read belong to the step of    *)
(* the read.                                                               *)
(***************************************************************************)
EXTENDS Market, Sequences

CONSTANTS
    Threads,        \* HTTP requests served at the same time
    MaxPending,     \* bound: requests and events, blocks aside, worked on at a time
    MaxRestarts     \* bound: restarts of the sentinel

ASSUME SentinelAssumption == MaxRestarts \in Nat

VARIABLES
    mem,            \* MemStore.db, EmptyContract when there is no entry
    memHeight,      \* MemStore.blockHeight
    claims,         \* ClaimStore, on disk, by contract id
    thread,         \* what each HTTP thread is doing
    queue,          \* events of each subscription that were not dispatched yet
    dispatcher,     \* the settlements the event loop is working on
    served,         \* history: how often each nonce was served, up to twice
    overwritten,    \* history: contracts whose claim was written over a newer one
    removed,        \* history: contracts whose claim open-claims removed
    restarts        \* number of restarts so far

sentinelVars == <<mem, memHeight, claims, thread, queue, dispatcher, served,
                  overwritten, removed, restarts>>

\* A claim.  Get returns the zero claim, and no error, for a key that is not stored.
\* The zero claim carries the contract identifier 0, so what is written back of it
\* goes to the key 0, where no contract's claim is.
ZeroClaim == [nonce |-> 0, claimed |-> FALSE]
NoClaim   == [nonce |-> -1, claimed |-> FALSE]

\* Mutant: the next nonce to expect is stored.
NewClaim_Next(nonce) == [nonce |-> nonce + 1, claimed |-> FALSE]

NewClaim(nonce) == [nonce |-> nonce, claimed |-> FALSE]

Stored(id) == claims[id] # NoClaim
Get(id)    == IF Stored(id) THEN claims[id] ELSE ZeroClaim

\* ClaimStore.Set of a claim computed from the one that was read.
Set(id, read, claim) ==
    claims' = IF read = ZeroClaim THEN claims ELSE [claims EXCEPT ![id] = claim]

Idle == [pc |-> "idle", id |-> 0, nonce |-> 0,
         contract |-> EmptyContract, claim |-> NoClaim, todo |-> {}]

-----------------------------------------------------------------------------
(* The contract cache *)

\* What a contract is to the sentinel: fetchContract does not read the settlement
\* duration, an open event has no settlement height, nonce or payments, and neither
\* of the last two is ever used.
View(c) == [c EXCEPT !.nonce = 0, !.paid = 0, !.settlementDuration = 0]

\* The REST query of one contract.
Upstream(id) == View(contracts[id])

MustFetch(id) == IsExpired(mem[id], memHeight)

\* MemStore.Get: the cached contract, or the one upstream when there is none or it
\* has expired, which is cached unless it has expired as well.
MemStoreGet(id) ==
    LET c == IF MustFetch(id) THEN Upstream(id) ELSE mem[id]
    IN  [contract |-> c,
         mem |-> IF IsExpired(c, memHeight) THEN mem ELSE [mem EXCEPT ![id] = c]]

\* MemStore.Put.
Put(id, c) ==
    mem' = [mem EXCEPT ![id] = IF IsExpired(c, memHeight) THEN EmptyContract ELSE c]

-----------------------------------------------------------------------------
(* The paid tier *)

\* The bound on what is going on at a time.  Blocks keep coming whatever else does.
Room ==
    MaxPending > Cardinality({t \in Threads : thread[t] # Idle})
               + Cardinality({s \in DOMAIN queue \ {"block"} : queue[s] # <<>>})
               + Cardinality(dispatcher.pending)

Become(t, next) == thread' = [thread EXCEPT ![t] = next]

\* A claim is written that was computed from another one than the store now holds.
Overwrites(id, read) ==
    overwritten' = IF read # ZeroClaim /\ claims[id] \notin {read, NoClaim}
                   THEN overwritten \cup {id} ELSE overwritten

\* Mutant: the check on the deposit looks at the previous nonce.
Admits_OneMore(c, nonce) ==
    /\ ~IsExpired(c, memHeight)
    /\ IsPayAsYouGo(c) => c.deposit >= Int64((nonce - 1) * c.rate)

\* The contract runs and, when it is paid by the call, pays for this one.
Admits(c, nonce) ==
    /\ ~IsExpired(c, memHeight)
    /\ IsPayAsYouGo(c) => c.deposit >= Int64(nonce * c.rate)

\* The signature is the one of the contract's spender.  A call that names no spender
\* is verified with the client's key.
Verifies(c, spender) ==
    GetSpender(c) = IF spender = EmptyPubKey THEN c.client ELSE spender

\* auth and paidTier up to the claim store.  The call may carry any nonce signed so
\* far: calls are delayed, repeated and overtake each other on the way.  A refused
\* call, one over the rate limit, one whose contract cannot be fetched and one of an
\* open contract, which is served without a claim, end here.  auth and paidTier each
\* read the contract; a call that ends after the first read is one that ends here.
PaidTier(t, id, nonce, spender) ==
    LET got == MemStoreGet(id)
        c   == got.contract
    IN  /\ thread[t] = Idle /\ Room
        /\ nonce \in 1 .. signed[id]
        /\ mem' = got.mem
        /\ \/ /\ Admits(c, nonce)
              /\ ~IsOpenAuthorization(c)
              /\ Verifies(c, spender)
              /\ Become(t, [Idle EXCEPT !.pc = "has", !.id = id, !.nonce = nonce,
                                        !.contract = c])
           \/ UNCHANGED thread
        /\ UNCHANGED <<vars, memHeight, claims, queue, dispatcher, served,
                       overwritten, removed, restarts>>

\* ClaimStore.Has.
HasClaim(t) ==
    LET me == thread[t]
    IN  /\ me.pc = "has"
        /\ Become(t, [me EXCEPT !.pc = IF Stored(me.id) THEN "get" ELSE "set"])
        /\ UNCHANGED <<vars, mem, memHeight, claims, queue, dispatcher, served,
                       overwritten, removed, restarts>>

\* Mutant: a nonce equal to the stored one is accepted.
BadNonce_Strict(claim, nonce) == claim.nonce > nonce

BadNonce(claim, nonce) == claim.nonce >= nonce

\* ClaimStore.Get and the test of the nonce.
GetClaim(t) ==
    LET me == thread[t]
    IN  /\ me.pc = "get"
        /\ Become(t, IF BadNonce(Get(me.id), me.nonce)
                     THEN Idle
                     ELSE [me EXCEPT !.pc = "set", !.claim = Get(me.id)])
        /\ UNCHANGED <<vars, mem, memHeight, claims, queue, dispatcher, served,
                       overwritten, removed, restarts>>

\* The claim is stored.  When the write fails the call is refused.
SetClaim(t) ==
    LET me == thread[t]
    IN  /\ me.pc = "set"
        /\ \/ /\ Set(me.id, me.claim, NewClaim(me.nonce))
              /\ Overwrites(me.id, me.claim)
              /\ Become(t, [me EXCEPT !.pc = "put", !.claim = NoClaim])
           \/ Become(t, Idle) /\ UNCHANGED <<claims, overwritten>>
        /\ UNCHANGED <<vars, mem, memHeight, queue, dispatcher, served, removed,
                       restarts>>

\* The contract read by PaidTier is written back, and the call is served.
PutContract(t) ==
    LET me == thread[t]
    IN  /\ me.pc = "put"
        /\ Put(me.id, me.contract)
        /\ served' = [served EXCEPT ![me.id][me.nonce] = Least(@ + 1, 2)]
        /\ Become(t, Idle)
        /\ UNCHANGED <<vars, memHeight, claims, queue, dispatcher, overwritten,
                       removed, restarts>>

-----------------------------------------------------------------------------
(* The operator's requests *)

\* handleOpenClaims lists the claims that are not marked as claimed ...
ListClaims(t) ==
    LET open == {id \in Ids : Stored(id) /\ ~claims[id].claimed}
    IN  /\ thread[t] = Idle /\ Room
        /\ open # {}
        /\ Become(t, [Idle EXCEPT !.pc = "check", !.todo = open])
        /\ UNCHANGED <<vars, mem, memHeight, claims, queue, dispatcher, served,
                       overwritten, removed, restarts>>

Done(me, id) ==
    LET left == me.todo \ {id}
    IN  IF left = {} THEN Idle ELSE [Idle EXCEPT !.pc = "check", !.todo = left]

\* Mutant: a claim whose contract cannot be fetched is removed.
CheckClaim_FailedFetch(t, id) ==
    LET me  == thread[t]
        got == MemStoreGet(id)
    IN  /\ me.pc = "check"
        /\ id \in me.todo
        /\ mem' = got.mem
        /\ Become(t, IF MustFetch(id) THEN [me EXCEPT !.pc = "remove", !.id = id]
                                      ELSE Done(me, id))
        /\ UNCHANGED <<vars, memHeight, claims, queue, dispatcher, served, overwritten,
                       removed, restarts>>

\* ... reads the contract of each ...
CheckClaim(t, id) ==
    LET me  == thread[t]
        got == MemStoreGet(id)
    IN  /\ me.pc = "check"
        /\ id \in me.todo
        /\ \/ /\ mem' = got.mem
              /\ Become(t, IF IsExpired(got.contract, memHeight)
                           THEN [me EXCEPT !.pc = "remove", !.id = id]
                           ELSE Done(me, id))
           \/ MustFetch(id) /\ Become(t, Done(me, id)) /\ UNCHANGED mem
        /\ UNCHANGED <<vars, memHeight, claims, queue, dispatcher, served,
                       overwritten, removed, restarts>>

\* ... and removes the claims of expired contracts, or fails to.
RemoveClaim(t) ==
    LET me == thread[t]
    IN  /\ me.pc = "remove"
        /\ \/ /\ claims' = [claims EXCEPT ![me.id] = NoClaim]
              /\ removed' = removed \cup {me.id}
           \/ UNCHANGED <<claims, removed>>
        /\ Become(t, Done(me, me.id))
        /\ UNCHANGED <<vars, mem, memHeight, queue, dispatcher, served,
                       overwritten, restarts>>

\* handleMarkClaimed looks for the claim of a nonce the operator has settled ...
MarkClaimed(t, id, nonce) ==
    /\ thread[t] = Idle /\ Room
    /\ nonce <= contracts[id].nonce
    /\ Stored(id) /\ claims[id].nonce = nonce /\ ~claims[id].claimed
    /\ Become(t, [Idle EXCEPT !.pc = "mark", !.id = id, !.claim = claims[id]])
    /\ UNCHANGED <<vars, mem, memHeight, claims, queue, dispatcher, served,
                   overwritten, removed, restarts>>

\* Mutant: the claim is removed instead.
SetMarked_Removes(t) ==
    LET me == thread[t]
    IN  /\ me.pc = "mark"
        /\ claims' = [claims EXCEPT ![me.id] = NoClaim]
        /\ Become(t, Idle)
        /\ UNCHANGED <<vars, mem, memHeight, queue, dispatcher, served, overwritten, removed,
                       restarts>>

\* ... and stores it as claimed, or fails to.
SetMarked(t) ==
    LET me == thread[t]
    IN  /\ me.pc = "mark"
        /\ \/ /\ Set(me.id, me.claim, [me.claim EXCEPT !.claimed = TRUE])
              /\ Overwrites(me.id, me.claim)
           \/ UNCHANGED <<claims, overwritten>>
        /\ Become(t, Idle)
        /\ UNCHANGED <<vars, mem, memHeight, queue, dispatcher, served, removed,
                       restarts>>

-----------------------------------------------------------------------------
(* The chain and its events *)

\* The chain sends an event.  Bound: one is on its way in each subscription at a time.
Emit(subscription, event) ==
    /\ queue[subscription] = <<>>
    /\ subscription # "block" => Room
    /\ queue' = [queue EXCEPT ![subscription] = Append(@, event)]

ChainUnchanged == UNCHANGED <<mem, memHeight, claims, thread, dispatcher, served,
                              overwritten, removed, restarts>>

ChainOpenContract ==
    /\ \E r \in Requests, p \in Providers, client \in Users,
          delegate \in Users \cup {EmptyPubKey} : OpenContract(r, p, client, delegate)
    /\ Emit("open", [id |-> nextId, contract |-> View(contracts'[nextId])])
    /\ ChainUnchanged

\* The provider claims with a signature its sentinel has stored.
ChainClaimContractIncome(id, nonce) ==
    /\ nonce <= Get(id).nonce
    /\ ClaimContractIncome(id, nonce)
    /\ Emit("claim", [id |-> id, nonce |-> nonce])
    /\ ChainUnchanged

\* A client that closes a contract again only moves its settlement: one close is
\* followed here, any number in module Market.
ChainCloseContract(id) ==
    /\ closedAt[id] = {} /\ CloseContract(id)
    /\ Emit("close", [id |-> id])
    /\ ChainUnchanged

\* The event of a block carries the settlements of its end blocker.
ChainEndBlock ==
    LET settled == {id \in Due : Listed(id)}
    IN  /\ EndBlock
        /\ Emit("block", [height |-> height,
                          settled |-> {[id |-> id, nonce |-> contracts[id].nonce] :
                                         id \in settled}])
        /\ ChainUnchanged

-----------------------------------------------------------------------------
(* The event loop.  Each subscription is forwarded by its own goroutine, so  *)
(* the events of different subscriptions are dispatched in any order.        *)

Ready(subscription) ==
    dispatcher.pending = {} /\ queue[subscription] # <<>>
Event(subscription) == Head(queue[subscription])
Consume(subscription) == queue' = [queue EXCEPT ![subscription] = Tail(@)]

DispatchUnchanged == UNCHANGED <<vars, claims, thread, served, overwritten,
                                 removed, restarts>>

HandleOpenContractEvent ==
    /\ Ready("open")
    /\ IF Event("open").contract.deposit = 0
       THEN UNCHANGED mem
       ELSE Put(Event("open").id, Event("open").contract)
    /\ Consume("open")
    /\ UNCHANGED <<memHeight, dispatcher>> /\ DispatchUnchanged

\* The contract put here has no height, so Put deletes the entry.
HandleCloseContractEvent ==
    /\ Ready("close")
    /\ Put(Event("close").id, EmptyContract)
    /\ Consume("close")
    /\ UNCHANGED <<memHeight, dispatcher>> /\ DispatchUnchanged

HandleContractSettlementEvent ==
    /\ Ready("claim")
    /\ dispatcher' = [dispatcher EXCEPT !.pending = {Event("claim")}]
    /\ Consume("claim")
    /\ UNCHANGED <<mem, memHeight>> /\ DispatchUnchanged

HandleNewBlockHeaderEvent ==
    /\ Ready("block")
    /\ memHeight' = Event("block").height
    /\ dispatcher' = [dispatcher EXCEPT !.pending = Event("block").settled]
    /\ Consume("block")
    /\ UNCHANGED mem /\ DispatchUnchanged

\* Mutant: a claim at or above the settled nonce is taken as claimed.
Settles_AtLeast(claim, nonce) == claim.nonce >= nonce

\* The event is about the claim that is stored.
Settles(claim, nonce) == claim.nonce = nonce

\* Both handlers of a settlement read the claim, compare the nonces ...
GetSettled(e) ==
    /\ e \in dispatcher.pending /\ dispatcher.claim = NoClaim
    /\ dispatcher' = IF Settles(Get(e.id), e.nonce)
                     THEN [dispatcher EXCEPT !.claim = Get(e.id), !.id = e.id]
                     ELSE [dispatcher EXCEPT !.pending = @ \ {e}]
    /\ UNCHANGED <<mem, memHeight, queue>> /\ DispatchUnchanged

\* ... and store it as claimed, or fail to.
SetSettled ==
    LET claim == dispatcher.claim
    IN  /\ claim # NoClaim
        /\ \/ /\ Set(dispatcher.id, claim, [claim EXCEPT !.claimed = TRUE])
              /\ Overwrites(dispatcher.id, claim)
           \/ UNCHANGED <<claims, overwritten>>
        /\ dispatcher' = [pending |-> {e \in dispatcher.pending : e.id # dispatcher.id},
                          claim |-> NoClaim, id |-> 0]
        /\ UNCHANGED <<vars, mem, memHeight, thread, queue, served, removed, restarts>>

\* The sentinel stops and starts again: the cache, the height, the requests and the
\* events on their way are gone, the claims are on disk.
NoEvents == [s \in {"open", "close", "claim", "block"} |-> <<>>]

Restart ==
    /\ restarts < MaxRestarts
    /\ mem' = [id \in Ids |-> EmptyContract]
    /\ memHeight' = 0
    /\ thread' = [t \in Threads |-> Idle]
    /\ queue' = NoEvents
    /\ dispatcher' = [pending |-> {}, claim |-> NoClaim, id |-> 0]
    /\ restarts' = restarts + 1
    /\ UNCHANGED <<vars, claims, served, overwritten, removed>>

-----------------------------------------------------------------------------
\* A provider that is bonded and on line, which module Market reaches in two steps.
ProviderOnLine ==
    /\ height = 1
    /\ \E bond \in Bonds, o \in Offers :
         /\ bond > 0 /\ ValidOffer(o)
         /\ providers = [p \in Providers |->
                           Modified([NewProvider EXCEPT !.bond = bond, !.updated = TRUE], o)]
         /\ bank = [a \in Accounts |->
                      IF a \in Users THEN InitialBalance
                      ELSE IF a \in Providers THEN InitialBalance - bond
                      ELSE IF a = ProviderName THEN bond * Cardinality(Providers) ELSE 0]

SentinelInit ==
    /\ ProviderOnLine
    /\ ContractsInit
    /\ mem = [id \in Ids |-> EmptyContract]
    /\ memHeight = 0
    /\ claims = [id \in Ids |-> NoClaim]
    /\ thread = [t \in Threads |-> Idle]
    /\ queue = NoEvents
    /\ dispatcher = [pending |-> {}, claim |-> NoClaim, id |-> 0]
    /\ served = [id \in Ids |-> [n \in 1 .. MaxNonce |-> 0]]
    /\ overwritten = {}
    /\ removed = {}
    /\ restarts = 0

Dispatch ==
    \/ HandleOpenContractEvent
    \/ HandleCloseContractEvent
    \/ HandleContractSettlementEvent
    \/ HandleNewBlockHeaderEvent
    \/ \E e \in dispatcher.pending : GetSettled(e)
    \/ SetSettled

\* The steps of a request that has been taken up.
Proceed(t) ==
    \/ HasClaim(t) \/ GetClaim(t) \/ SetClaim(t) \/ PutContract(t)
    \/ \E id \in thread[t].todo : CheckClaim(t, id)
    \/ RemoveClaim(t)
    \/ SetMarked(t)

SentinelNext ==
    \/ ChainOpenContract
    \/ \E id \in Ids : \/ \E nonce \in 1 .. MaxNonce : ChainClaimContractIncome(id, nonce)
                       \/ ChainCloseContract(id)
                       \/ SignCall(id) /\ UNCHANGED sentinelVars
    \/ ChainEndBlock
    \/ Dispatch
    \/ \E t \in Threads :
         \/ \E id \in Ids, nonce \in 1 .. MaxNonce :
              \/ \E spender \in {EmptyPubKey, Spender(id)} : PaidTier(t, id, nonce, spender)
              \/ MarkClaimed(t, id, nonce)
         \/ ListClaims(t)
         \/ Proceed(t)
    \/ Restart

sentinelAll == <<vars, sentinelVars>>

SentinelSpec == SentinelInit /\ [][SentinelNext]_sentinelAll
-----------------------------------------------------------------------------
(* Properties *)

Claim == [nonce : 0 .. MaxNonce, claimed : BOOLEAN] \cup {NoClaim}

\* Every variable of the sentinel has its type.
SentinelTypeOK ==
    /\ TypeOK
    /\ memHeight \in 0 .. MaxHeight
    /\ claims \in [Ids -> Claim]
    /\ \A t \in Threads : /\ thread[t].claim \in Claim
                          /\ thread[t].id \in Ids \cup {0} /\ thread[t].todo \subseteq Ids
    /\ dispatcher.claim \in Claim
    /\ overwritten \subseteq Ids /\ removed \subseteq Ids
    /\ restarts \in 0 .. MaxRestarts

\* The nonces of the calls served on a contract.
Served(id) == {n \in 1 .. MaxNonce : served[id][n] > 0}

\* The claim kept for a contract covers every call served on it, across restarts and
\* whatever the event loop and the operator do to the store at the same time.  There
\* are two exceptions, the races of paidTier's read and write of the store with
\* another writer, and the removal of the claim once the contract has expired.
ClaimCoversServed ==
    \A id \in Ids \ (overwritten \cup removed) : \A n \in Served(id) :
        Stored(id) /\ claims[id].nonce >= n

\* No signed nonce is served twice ("prevent replay or duplicate"), with the same
\* exceptions: calls may be repeated, and the sentinel may restart between storing
\* the claim and serving the call.
ServedOnce ==
    \A id \in Ids \ (overwritten \cup removed) : \A n \in 1 .. MaxNonce : served[id][n] <= 1

\* Every nonce served is paid for by what the client deposited, even though the
\* contract it is checked against was cached some time ago.
ServedIsFunded ==
    \A id \in Ids : IsPayAsYouGo(contracts[id]) =>
        \A n \in Served(id) : n * contracts[id].rate <= ledger[id].deposited

\* open-claims removes a claim only when the chain, too, takes the contract as expired:
\* the height and the contract it tests are old, but expiring cannot be undone.
RemovedOnlyExpired == \A id \in removed : IsExpired(contracts[id], height)

\* A claim marked as claimed was settled on chain: marking one that was not would keep
\* it out of open-claims, and the provider would never be paid for it.
ClaimedWasSettled ==
    \A id \in Ids : Stored(id) /\ claims[id].claimed => claims[id].nonce <= contracts[id].nonce

\* "a period of time in which no additional API calls should be allowed but a claim can
\* still be posted for previously made calls": a claim is kept as long as the chain
\* would still accept it.
ClaimKeptWhileClaimable ==
    \A id \in removed : IsSettled(contracts[id], height)
                          \/ \A n \in Served(id) : n <= contracts[id].nonce

\* "do NOT remove - we want highestNonce to remain monotonic": as long as the contract
\* runs, the claim kept for it is the highest nonce served.
HighestNonceKept ==
    \A id \in Ids \ removed : \A n \in Served(id) : Stored(id) /\ claims[id].nonce >= n
=============================================================================
