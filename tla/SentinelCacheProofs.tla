------------------------ MODULE SentinelCacheProofs ------------------------
(***************************************************************************)
(* The contract cache of the sentinel, for any number of contracts, calls, *)
(* HTTP threads and restarts: however far it lags behind the chain, every  *)
(* call served is paid for, and only claims of expired contracts are       *)
(* removed.                                                                *)
(***************************************************************************)
EXTENDS SentinelProofs

\* No amount that Admits computes leaves the signed words.
NoOverflow == \A r \in Requests : MaxNonce * r.rate < WordSize \div 2

\* c is a version of the stored contract d, on which dep was deposited, or empty.
Version(c, d, dep) ==
    ~IsEmpty(c) => /\ ~IsEmpty(d)
                   /\ c.type = d.type /\ c.rate = d.rate
                   /\ c.deposit \in Nat /\ c.deposit <= dep

\* The call with the nonce n is paid for.
Paid(n, d, dep) == NoOverflow /\ IsPayAsYouGo(d) => n * d.rate <= dep

\* What a request r knows of the contracts con, their ledger led and the height h.  The
\* contracts it deals with exist, the call it serves is paid for, and the contract whose
\* claim it is about to remove has expired.
CallOK(r, con, led, h) ==
    /\ r.pc \in {"has", "get", "set", "put"} =>
         /\ ~IsEmpty(con[r.id])
         /\ Version(r.contract, con[r.id], led[r.id].deposited)
         /\ Paid(r.nonce, con[r.id], led[r.id].deposited)
    /\ r.pc \in {"mark", "remove"} => ~IsEmpty(con[r.id])
    /\ r.pc = "remove" => IsExpired(con[r.id], h)
    /\ \A id \in r.todo : ~IsEmpty(con[id])

\* An open event is about a contract that is stored.
OpenEvents ==
    \/ queue["open"] = <<>>
    \/ \E e : /\ queue["open"] = <<e>> /\ e.id \in Ids
              /\ Version(e.contract, contracts[e.id], ledger[e.id].deposited)

\* The cache holds versions of stored contracts and a height the chain has reached.
Cached ==
    /\ mem = [id \in Ids |-> mem[id]]
    /\ \A id \in Ids : Version(mem[id], contracts[id], ledger[id].deposited)
    /\ memHeight \in Nat /\ memHeight <= height

\* What was stored, removed or served is about contracts that exist.
Accepted ==
    /\ \A id \in Ids : claims[id] # NoClaim => ~IsEmpty(contracts[id])
    /\ dispatcher.claim \notin {NoClaim, ZeroClaim} => ~IsEmpty(contracts[dispatcher.id])
    /\ \A id \in removed : ~IsEmpty(contracts[id]) /\ IsExpired(contracts[id], height)
    /\ \A id \in Ids, n \in 1 .. MaxNonce : served[id][n] > 0 =>
         ~IsEmpty(contracts[id]) /\ Paid(n, contracts[id], ledger[id].deposited)

\* The rate of a stored contract is the one of a request.
RatesRequested ==
    \A id \in Ids : ~IsEmpty(contracts[id]) => \E r \in Requests : contracts[id].rate = r.rate

CacheInv ==
    /\ Cached /\ OpenEvents /\ Accepted
    /\ \A b \in Headers : queue["block"] = <<b>> => b.height <= height
    /\ \A t \in Threads : CallOK(thread[t], contracts, ledger, height)
    /\ RatesRequested
    /\ restarts \in 0 .. MaxRestarts

\* A contract that is not there is a version of every contract.
LEMMA EmptyVersion == IsEmpty(EmptyContract) /\ \A d, dep : Version(EmptyContract, d, dep)
<1>1. IsEmpty(EmptyContract)
  BY DEF IsEmpty, EmptyContract
<1> QED
  BY <1>1, Zenon DEF Version

\* What the chain does to a contract that is stored: the terms and the deposit stay,
\* the height grows, and what has expired stays expired.
LEMMA ContractStays ==
    ASSUME IInv, [Next]_vars
    PROVE  /\ height \in Nat /\ height' \in Nat /\ height <= height'
           /\ \A id \in Ids : ~IsEmpty(contracts[id]) =>
                /\ ~IsEmpty(contracts'[id])
                /\ contracts'[id].type = contracts[id].type
                /\ contracts'[id].rate = contracts[id].rate
                /\ ledger'[id].deposited = ledger[id].deposited
                /\ IsExpired(contracts[id], height) => IsExpired(contracts'[id], height')
<1>1. height \in Nat /\ height' \in Nat /\ contracts \in [Ids -> Contract \cup {EmptyContract}]
  BY NextIInv DEF IInv, TypeOK, Heights
<1>2. height <= height'
  <2>1. CASE EndBlock
    BY <1>1, <2>1 DEF EndBlock
  <2>2. CASE RegistryNext \/ UNCHANGED vars
    <3>1. height' = height
      BY <2>2, ZenonT(60) DEF RegistryNext, BondProvider, ModProvider, vars, registryVars
    <3> QED
      BY <1>1, <3>1
  <2>3. ASSUME NEW r, NEW p, NEW client, NEW delegate, OpenContract(r, p, client, delegate)
        PROVE  height <= height'
    BY <1>1, <2>3 DEF OpenContract
  <2>4. ASSUME NEW id, \/ SignCall(id) \/ CloseContract(id)
                       \/ \E nonce \in 1 .. MaxNonce : ClaimContractIncome(id, nonce)
        PROVE  height <= height'
    <3>1. height' = height
      BY <2>4, ZenonT(60) DEF SignCall, CloseContract, ClaimContractIncome, registryVars
    <3> QED
      BY <1>1, <3>1
  <2> QED
    BY <2>1, <2>2, <2>3, <2>4 DEF Next
<1>3. ASSUME NEW id \in Ids, ~IsEmpty(contracts[id])
      PROVE  /\ ~IsEmpty(contracts'[id])
             /\ contracts'[id].type = contracts[id].type
             /\ contracts'[id].rate = contracts[id].rate
             /\ ledger'[id].deposited = ledger[id].deposited
             /\ IsExpired(contracts[id], height) => IsExpired(contracts'[id], height')
  <2>1. contracts[id] \in Contract
    BY <1>1, <1>3, EmptyOnly
  <2>2. Expiration(contracts[id]) \in Nat
    BY <2>1, Dates
  <2>3. CASE contracts'[id] = contracts[id] /\ ledger'[id] = ledger[id]
    <3>1. contracts[id].settlementHeight \in Nat
      BY <2>1 DEF Contract, Heights
    <3> QED
      BY <1>1, <1>2, <1>3, <2>2, <2>3, <3>1 DEF IsExpired, IsOpen
  <2>4. CASE UNCHANGED <<contracts, ledger>>
    BY <2>3, <2>4
  <2>5. ASSUME NEW r \in Requests, NEW p \in Providers, NEW client \in Users,
               NEW delegate \in Users \cup {EmptyPubKey}, OpenContract(r, p, client, delegate)
        PROVE  contracts'[id] = contracts[id] /\ ledger'[id] = ledger[id]
    <3>1. id # nextId
      BY <1>3, <2>1 DEF IInv, TypeOK, IsEmpty, EmptyContract, Ids
    <3>2. ledger = [i \in Ids |-> ledger[i]]
      BY DEF IInv, TypeOK
    <3> QED
      BY <1>1, <2>5, <3>1, <3>2 DEF OpenContract
  <2>6. ASSUME NEW S \in SUBSET Ids, NEW isFinal \in BOOLEAN, Settling(S, isFinal), id \in S
        PROVE  /\ ~IsEmpty(contracts'[id])
               /\ contracts'[id].type = contracts[id].type
               /\ contracts'[id].rate = contracts[id].rate
               /\ ledger'[id].deposited = ledger[id].deposited
               /\ IsExpired(contracts[id], height) => IsExpired(contracts'[id], height')
    <3>1. /\ SameTerms(contracts[id], contracts'[id])
          /\ contracts'[id].settlementHeight =
               IF isFinal THEN height ELSE contracts[id].settlementHeight
          /\ ledger'[id].deposited = ledger[id].deposited
          /\ isFinal => ~Settled(id)
      BY <2>6, ZenonT(60) DEF Settling, Touched, CoinsMoved
    <3>2. PICK c, d : c = contracts[id] /\ d = contracts'[id]
      OBVIOUS
    <3>3. /\ d.height = c.height /\ d.duration = c.duration /\ d.type = c.type /\ d.rate = c.rate
          /\ Expiration(d) = Expiration(c) /\ Expiration(c) \in Nat /\ c.height # 0
          /\ c.settlementHeight \in Nat
          /\ d.settlementHeight = IF isFinal THEN height ELSE c.settlementHeight
          /\ isFinal => c.settlementHeight = 0
      <4>1. d.height = c.height /\ d.duration = c.duration /\ d.type = c.type /\ d.rate = c.rate
        BY <3>1, <3>2 DEF SameTerms
      <4>2. Expiration(d) = Expiration(c)
        BY <4>1 DEF Expiration
      <4>3. c.height # 0 /\ Expiration(c) \in Nat /\ c.settlementHeight \in Nat
        BY <1>3, <2>1, <2>2, <3>2 DEF Contract, Heights, IsEmpty
      <4> QED
        BY <3>1, <3>2, <4>1, <4>2, <4>3 DEF Settled
    <3>4. IsExpired(c, height) => IsExpired(d, height')
      BY <1>1, <1>2, <3>3 DEF IsExpired, IsOpen, IsEmpty
    <3> QED
      BY <3>1, <3>2, <3>3, <3>4 DEF IsEmpty
  <2>7. ASSUME NEW S \in SUBSET Ids, NEW isFinal \in BOOLEAN, Settling(S, isFinal), id \notin S
        PROVE  contracts'[id] = contracts[id] /\ ledger'[id] = ledger[id]
    BY <2>7, ZenonT(60) DEF Settling, Touched
  <2> QED
    BY <2>3, <2>4, <2>5, <2>6, <2>7, StepKinds
<1> QED
  BY <1>1, <1>2, <1>3

\* A request knows as much after a step of the chain.
LEMMA CallStays ==
    ASSUME IInv, [Next]_vars, NEW r, r.id \in Ids \/ r.pc \in {"idle", "check"},
           r.todo \subseteq Ids, CallOK(r, contracts, ledger, height)
    PROVE  CallOK(r, contracts', ledger', height')
<1> DEFINE Kept(id) == /\ ~IsEmpty(contracts'[id])
                       /\ contracts'[id].type = contracts[id].type
                       /\ contracts'[id].rate = contracts[id].rate
                       /\ ledger'[id].deposited = ledger[id].deposited
                       /\ IsExpired(contracts[id], height) => IsExpired(contracts'[id], height')
<1>1. \A id \in Ids : ~IsEmpty(contracts[id]) => Kept(id)
  BY ContractStays
<1>2. \A id \in r.todo : ~IsEmpty(contracts'[id])
  BY <1>1 DEF CallOK
<1>3. CASE r.pc \in {"has", "get", "set", "put", "mark", "remove"}
  <2>1. Kept(r.id)
    BY <1>1, <1>3 DEF CallOK
  <2> QED
    BY <1>2, <2>1 DEF CallOK, Version, Paid, IsPayAsYouGo
<1>4. CASE r.pc \notin {"has", "get", "set", "put", "mark", "remove"}
  BY <1>2, <1>4 DEF CallOK
<1> QED
  BY <1>3, <1>4

\* An amount within the signed words is itself.
LEMMA Int64Small ==
    ASSUME NEW x \in Nat, x < WordSize \div 2
    PROVE  Int64(x) = x
<1>1. WordSize \in Nat \ {0}
  BY MarketAssumptions
<1> DEFINE half == WordSize \div 2
           y    == x + half
<1>2. half \in Nat /\ half + half <= WordSize /\ x < half
  BY <1>1
<1> HIDE DEF half
<1>3. y \in Nat /\ y < WordSize
  BY <1>1, <1>2
<1> HIDE DEF y
<1>4. y % WordSize = y
  <2> DEFINE q == y \div WordSize
             r == y % WordSize
  <2>1. q \in Int /\ r \in Int /\ y = WordSize * q + r /\ 0 <= r /\ r < WordSize
    BY <1>1, <1>3
  <2> HIDE DEF q, r
  <2>2. q >= 1 => WordSize * q >= WordSize
    BY <1>1, <2>1
  <2>3. q <= -1 => WordSize * q <= -WordSize
    BY <1>1, <2>1
  <2>4. q = 0
    BY <1>1, <1>3, <2>1, <2>2, <2>3
  <2>5. y = r
    BY <1>1, <2>1, <2>4
  <2> QED
    BY <2>5 DEF r
<1> QED
  BY <1>2, <1>4 DEF Int64, half, y

\* A call that is admitted with a version of the contract is paid for.
LEMMA Admitted ==
    ASSUME IInv, CacheInv, NEW id \in Ids, NEW nonce \in 1 .. MaxNonce, NEW c,
           Version(c, contracts[id], ledger[id].deposited), Admits(c, nonce)
    PROVE  /\ ~IsEmpty(contracts[id])
           /\ Paid(nonce, contracts[id], ledger[id].deposited)
<1>1. ~IsEmpty(c)
  BY DEF Admits, IsExpired, IsOpen
<1>2. /\ ~IsEmpty(contracts[id]) /\ c.type = contracts[id].type /\ c.rate = contracts[id].rate
      /\ c.deposit \in Nat /\ c.deposit <= ledger[id].deposited
  BY <1>1 DEF Version
<1>3. ASSUME NoOverflow, IsPayAsYouGo(contracts[id])
      PROVE  nonce * contracts[id].rate <= ledger[id].deposited
  <2>1. PICK rate \in Nat : rate = contracts[id].rate /\ MaxNonce * rate < WordSize \div 2
    <3>1. contracts[id] \in Contract
      BY <1>2, EmptyOnly DEF IInv, TypeOK
    <3>2. contracts[id].rate \in Nat
      BY <3>1 DEF Contract
    <3>3. \E r \in Requests : contracts[id].rate = r.rate
      BY <1>2 DEF CacheInv, RatesRequested
    <3> QED
      BY <1>3, <3>2, <3>3 DEF NoOverflow
  <2>2. nonce \in Nat /\ MaxNonce \in Nat /\ nonce <= MaxNonce
    BY MarketAssumptions
  <2>3. nonce * rate \in Nat /\ nonce * rate <= MaxNonce * rate /\ MaxNonce * rate \in Nat
    BY <2>1, <2>2
  <2>4. nonce * rate < WordSize \div 2
    <3>1. WordSize \div 2 \in Int
      BY MarketAssumptions
    <3> QED
      BY <2>1, <2>3, <3>1
  <2>5. Int64(nonce * rate) = nonce * rate
    BY <2>3, <2>4, Int64Small
  <2>6. c.deposit >= Int64(nonce * rate)
    BY <1>2, <1>3, <2>1 DEF Admits, IsPayAsYouGo
  <2>7. ledger[id].deposited \in Nat
    BY DEF IInv, TypeOK
  <2> QED
    BY <1>2, <2>1, <2>3, <2>5, <2>6, <2>7
<1> QED
  BY <1>2, <1>3 DEF Paid

\* What the sentinel reads of a stored contract is a version of it.
LEMMA ViewVersion ==
    ASSUME NEW c \in Contract \cup {EmptyContract}, NEW l \in Ledger,
           c.paid = l.provider + l.reserve,
           l.deposited = l.provider + l.reserve + l.client + (c.deposit - c.paid)
    PROVE  Version(View(c), c, l.deposited)
<1>1. c.deposit \in Nat /\ c.paid \in Nat
  BY DEF Contract, EmptyContract
<1>2. c.deposit <= l.deposited
  BY <1>1 DEF Ledger
<1> DEFINE v == View(c)
<1>3. v.type = c.type /\ v.rate = c.rate /\ v.deposit = c.deposit /\ v.height = c.height
  BY DEF View, Contract, EmptyContract
<1> QED
  BY <1>1, <1>2, <1>3 DEF Version, IsEmpty

\* What MemStore.Get returns and caches.
LEMMA GetCached ==
    ASSUME IInv, CacheInv, NEW id \in Ids, NEW got, got = MemStoreGet(id)
    PROVE  /\ Version(got.contract, contracts[id], ledger[id].deposited)
           /\ got.mem = mem \/ got.mem = [mem EXCEPT ![id] = got.contract]
           /\ ~IsEmpty(contracts[id]) /\ IsExpired(got.contract, memHeight)
                => IsExpired(contracts[id], height)
<1>1. PICK c : c = contracts[id]
  OBVIOUS
<1>2. c \in Contract \cup {EmptyContract}
  BY <1>1 DEF IInv, TypeOK
<1> DEFINE v == View(c)
<1>3. /\ v.type = c.type /\ v.rate = c.rate /\ v.deposit = c.deposit /\ v.height = c.height
      /\ v.duration = c.duration /\ v.settlementHeight = c.settlementHeight
  BY <1>2 DEF View, Contract, EmptyContract
<1>4. Upstream(id) = v
  BY <1>1 DEF Upstream
<1> HIDE DEF v
<1>5. Version(v, c, ledger[id].deposited)
  <2>1. PICK l \in Ledger : l = ledger[id]
    BY DEF IInv, TypeOK, Ledger
  <2>2. /\ c.paid = l.provider + l.reserve
        /\ l.deposited = l.provider + l.reserve + l.client + (c.deposit - c.paid)
    BY <1>1, <2>1 DEF IInv, DepositAccounted
  <2> QED
    BY <1>2, <2>1, <2>2, ViewVersion DEF v
<1>6. ASSUME c.height # 0, IsExpired(v, memHeight) PROVE IsExpired(c, height)
  <2>1. /\ memHeight \in Nat /\ memHeight <= height /\ height \in Nat
    BY DEF CacheInv, Cached, IInv, TypeOK, Heights
  <2>2. c \in Contract
    BY <1>2, <1>6 DEF EmptyContract
  <2>3. Expiration(c) \in Nat /\ c.settlementHeight \in Nat
    BY <2>2, Dates DEF Contract
  <2>4. Expiration(v) = Expiration(c)
    BY <1>3 DEF Expiration
  <2> QED
    BY <1>3, <1>6, <2>1, <2>3, <2>4 DEF IsExpired, IsOpen, IsEmpty
<1>7. got.contract = IF IsExpired(mem[id], memHeight) THEN v ELSE mem[id]
  BY <1>4 DEF MemStoreGet, MustFetch
<1>8. got.mem = mem \/ got.mem = [mem EXCEPT ![id] = got.contract]
  BY DEF MemStoreGet
<1>9. Version(got.contract, contracts[id], ledger[id].deposited)
  BY <1>1, <1>5, <1>7 DEF CacheInv, Cached
<1> QED
  BY <1>1, <1>6, <1>7, <1>8, <1>9 DEF IsEmpty

\* The step of one request.
LEMMA RequestCache ==
    ASSUME SentinelInv, CacheInv, NEW t \in Threads, NEW next, Become(t, next),
           CallOK(next, contracts, ledger, height),
           UNCHANGED <<vars, memHeight, queue, restarts>>, Accepted',
           \/ mem' = mem
           \/ \E id \in Ids : \E c : /\ Version(c, contracts[id], ledger[id].deposited)
                                     /\ mem' = [mem EXCEPT ![id] = c]
    PROVE  CacheInv'
<1>1. UNCHANGED <<contracts, ledger, height>>
  BY DEF vars, contractVars, registryVars
<1>2. \A u \in Threads : CallOK(thread'[u], contracts', ledger', height')
  <2>1. thread'[t] = next /\ \A u \in Threads \ {t} : thread'[u] = thread[u]
    BY DEF Become, SentinelInv, StoresTyped
  <2> QED
    BY <1>1, <2>1 DEF CacheInv
<1>3. Cached'
  <2>1. mem' = [id \in Ids |-> mem'[id]]
    BY DEF CacheInv, Cached
  <2>2. \A id \in Ids : Version(mem'[id], contracts[id], ledger[id].deposited)
    BY DEF CacheInv, Cached
  <2> QED
    BY <1>1, <2>1, <2>2 DEF CacheInv, Cached
<1>4. OpenEvents'
  BY <1>1 DEF CacheInv, OpenEvents
<1> QED
  BY <1>1, <1>2, <1>3, <1>4, ZenonT(60) DEF CacheInv, RatesRequested

\* The history is left alone.
LEMMA AcceptedSame ==
    ASSUME Accepted, UNCHANGED <<contracts, ledger, height, claims, dispatcher, removed, served>>
    PROVE  Accepted'
BY ZenonT(60) DEF Accepted

\* The requests of a list.
LEMMA ListedOK ==
    ASSUME NEW todo, NEW con, NEW led, NEW h, \A id \in todo : ~IsEmpty(con[id])
    PROVE  /\ CallOK(Idle, con, led, h)
           /\ CallOK([Idle EXCEPT !.pc = "check", !.todo = todo], con, led, h)
BY DEF CallOK, Idle

\* The steps that take up a request.
LEMMA TakeUpCache ==
    ASSUME SentinelInv, ServeInv, CacheInv, NEW t \in Threads,
           \/ \E id \in Ids, nonce \in 1 .. MaxNonce :
                \/ \E spender \in {EmptyPubKey, Spender(id)} : PaidTier(t, id, nonce, spender)
                \/ MarkClaimed(t, id, nonce)
           \/ ListClaims(t)
    PROVE  CacheInv'
<1>1. IInv /\ StoresTyped /\ Accepted
  BY DEF SentinelInv, CacheInv
<1>2. ASSUME NEW id \in Ids, NEW nonce \in 1 .. MaxNonce, NEW spender,
             PaidTier(t, id, nonce, spender)
      PROVE  CacheInv'
  <2>1. UNCHANGED <<vars, memHeight, claims, queue, dispatcher, served, removed, restarts>>
    BY <1>2, ZenonT(60) DEF PaidTier
  <2>2. Accepted'
    BY <1>1, <2>1, AcceptedSame DEF vars, contractVars, registryVars
  <2>3. PICK got : got = MemStoreGet(id)
    OBVIOUS
  <2>4. /\ Version(got.contract, contracts[id], ledger[id].deposited)
        /\ got.mem = mem \/ got.mem = [mem EXCEPT ![id] = got.contract]
    BY <1>1, <2>3, GetCached
  <2>5. mem' = mem \/ mem' = [mem EXCEPT ![id] = got.contract]
    BY <1>2, <2>3, <2>4, ZenonT(60) DEF PaidTier
  <2>6. CASE UNCHANGED thread
    <3>1. Become(t, thread[t]) /\ CallOK(thread[t], contracts, ledger, height)
      BY <1>1, <2>6 DEF Become, StoresTyped, CacheInv
    <3> QED
      BY <2>1, <2>2, <2>4, <2>5, <3>1, RequestCache, ZenonT(60)
  <2>7. CASE /\ Admits(got.contract, nonce)
             /\ Become(t, [Idle EXCEPT !.pc = "has", !.id = id, !.nonce = nonce,
                                       !.contract = got.contract])
    <3> DEFINE next == [Idle EXCEPT !.pc = "has", !.id = id, !.nonce = nonce,
                                    !.contract = got.contract]
    <3>1. /\ next.pc = "has" /\ next.id = id /\ next.nonce = nonce
          /\ next.contract = got.contract /\ next.todo = {}
      BY DEF Idle
    <3>2. Become(t, next)
      BY <2>7
    <3> HIDE DEF next
    <3>3. ~IsEmpty(contracts[id]) /\ Paid(nonce, contracts[id], ledger[id].deposited)
      BY <1>1, <2>4, <2>7, Admitted, ZenonT(60)
    <3>4. CallOK(next, contracts, ledger, height)
      BY <2>4, <3>1, <3>3, ZenonT(60) DEF CallOK
    <3> QED
      BY <2>1, <2>2, <2>4, <2>5, <3>2, <3>4, RequestCache, ZenonT(60)
  <2> QED
    BY <1>2, <2>3, <2>6, <2>7, ZenonT(60) DEF PaidTier
<1>3. ASSUME NEW id \in Ids, NEW nonce \in 1 .. MaxNonce, MarkClaimed(t, id, nonce)
      PROVE  CacheInv'
  <2> DEFINE next == [Idle EXCEPT !.pc = "mark", !.id = id, !.claim = claims[id]]
  <2>1. /\ Become(t, next) /\ claims[id] # NoClaim
        /\ UNCHANGED <<vars, mem, memHeight, claims, queue, dispatcher, served, removed, restarts>>
    BY <1>3, ZenonT(60) DEF MarkClaimed, Stored
  <2>2. next.pc = "mark" /\ next.id = id /\ next.todo = {}
    BY DEF Idle
  <2> HIDE DEF next
  <2>3. ~IsEmpty(contracts[id])
    BY <1>1, <2>1, ZenonT(60) DEF Accepted
  <2>4. CallOK(next, contracts, ledger, height)
    BY <2>2, <2>3 DEF CallOK
  <2>5. Accepted'
    BY <1>1, <2>1, AcceptedSame DEF vars, contractVars, registryVars
  <2> QED
    BY <2>1, <2>4, <2>5, RequestCache, ZenonT(60)
<1>4. CASE ListClaims(t)
  <2> DEFINE open == {id \in Ids : Stored(id) /\ ~claims[id].claimed}
  <2>1. /\ Become(t, [Idle EXCEPT !.pc = "check", !.todo = open])
        /\ UNCHANGED <<vars, mem, memHeight, claims, queue, dispatcher, served, removed, restarts>>
    BY <1>4, ZenonT(60) DEF ListClaims
  <2>2. \A id \in open : ~IsEmpty(contracts[id])
    BY <1>1 DEF Accepted, Stored
  <2> HIDE DEF open
  <2>3. CallOK([Idle EXCEPT !.pc = "check", !.todo = open], contracts, ledger, height)
    BY <2>2, ListedOK, ZenonT(60)
  <2>4. Accepted'
    BY <1>1, <2>1, AcceptedSame DEF vars, contractVars, registryVars
  <2> QED
    BY <2>1, <2>3, <2>4, RequestCache, ZenonT(60)
<1> QED
  BY <1>2, <1>3, <1>4

\* A claim is stored for a contract that exists, or none is.
LEMMA AcceptedSet ==
    ASSUME Accepted, NEW id, NEW read, NEW claim, ~IsEmpty(contracts[id]),
           claims \in [Ids -> StoredClaims \cup {NoClaim}],
           Set(id, read, claim) \/ UNCHANGED claims,
           UNCHANGED <<contracts, ledger, height, removed, served>>,
           dispatcher' = dispatcher \/ dispatcher'.claim = NoClaim
    PROVE  Accepted'
<1>1. \A i \in Ids : claims'[i] # NoClaim => ~IsEmpty(contracts[i])
  BY DEF Accepted, Set
<1> QED
  BY <1>1, ZenonT(60) DEF Accepted

\* The steps of a request that has been taken up.
LEMMA ProceedCache ==
    ASSUME SentinelInv, ServeInv, CacheInv, NEW t \in Threads, Proceed(t)
    PROVE  CacheInv'
<1>1. PICK me : me = thread[t]
  OBVIOUS
<1>2. /\ IsRequest(me) /\ CallOK(me, contracts, ledger, height)
      /\ RequestOK(me, claims, served, overwritten, removed)
  BY <1>1 DEF SentinelInv, StoresTyped, ServeInv, CacheInv
<1>3. UNCHANGED <<vars, memHeight, queue, dispatcher, restarts, contracts, ledger, height>>
  BY ZenonT(60) DEF Proceed, HasClaim, GetClaim, SetClaim, PutContract, CheckClaim, RemoveClaim,
     SetMarked, vars, contractVars, registryVars
<1>4. IInv /\ Accepted /\ claims \in [Ids -> StoredClaims \cup {NoClaim}]
  BY ZenonT(60) DEF SentinelInv, CacheInv, ServeInv
<1>5. CallOK(Idle, contracts, ledger, height)
  BY DEF CallOK, Idle
<1>6. ASSUME NEW id PROVE CallOK(Done(me, id), contracts, ledger, height)
  <2> DEFINE left == me.todo \ {id}
  <2>1. \A i \in left : ~IsEmpty(contracts[i])
    BY <1>2, ZenonT(60) DEF CallOK
  <2>2. Done(me, id) = Idle \/ Done(me, id) = [Idle EXCEPT !.pc = "check", !.todo = left]
    BY DEF Done
  <2> HIDE DEF left
  <2>3. CallOK([Idle EXCEPT !.pc = "check", !.todo = left], contracts, ledger, height)
    BY <2>1, ListedOK, ZenonT(60)
  <2> QED
    BY <1>5, <2>2, <2>3, ZenonT(60)
<1>7. CASE HasClaim(t)
  <2>1. PICK pc \in {"get", "set"} : Become(t, [me EXCEPT !.pc = pc])
    BY <1>1, <1>7 DEF HasClaim
  <2>2. me.pc = "has" /\ UNCHANGED <<mem, claims, served, removed>>
    BY <1>1, <1>7, ZenonT(60) DEF HasClaim
  <2> DEFINE next == [me EXCEPT !.pc = pc]
  <2>3. /\ next.pc = pc /\ next.id = me.id /\ next.nonce = me.nonce
        /\ next.contract = me.contract /\ next.todo = me.todo
    BY <1>2, RequestFields
  <2>4. Become(t, next)
    BY <2>1
  <2> HIDE DEF next
  <2>5. CallOK(next, contracts, ledger, height)
    BY <1>2, <2>2, <2>3, ZenonT(60) DEF CallOK
  <2>6. Accepted'
    BY <1>3, <1>4, <2>2, AcceptedSame
  <2> QED
    BY <1>3, <2>2, <2>4, <2>5, <2>6, RequestCache, ZenonT(60)
<1>8. CASE GetClaim(t)
  <2>1. me.pc = "get" /\ UNCHANGED <<mem, claims, served, removed>>
    BY <1>1, <1>8, ZenonT(60) DEF GetClaim
  <2> DEFINE next == [me EXCEPT !.pc = "set", !.claim = Get(me.id)]
  <2>2. Become(t, Idle) \/ Become(t, next)
    BY <1>1, <1>8 DEF GetClaim
  <2>3. /\ next.pc = "set" /\ next.id = me.id /\ next.nonce = me.nonce
        /\ next.contract = me.contract /\ next.todo = me.todo
    BY <1>2, RequestFields
  <2> HIDE DEF next
  <2>4. CallOK(next, contracts, ledger, height)
    BY <1>2, <2>1, <2>3, ZenonT(60) DEF CallOK
  <2>5. Accepted'
    BY <1>3, <1>4, <2>1, AcceptedSame
  <2> QED
    BY <1>3, <1>5, <2>1, <2>2, <2>4, <2>5, RequestCache
<1>9. CASE SetClaim(t)
  <2>1. me.pc = "set" /\ UNCHANGED <<mem, served, removed>>
    BY <1>1, <1>9, ZenonT(60) DEF SetClaim
  <2> DEFINE next == [me EXCEPT !.pc = "put", !.claim = NoClaim]
  <2>2. /\ Become(t, Idle) \/ Become(t, next)
        /\ Set(me.id, me.claim, NewClaim(me.nonce)) \/ UNCHANGED claims
    BY <1>1, <1>9, ZenonT(60) DEF SetClaim
  <2>3. /\ next.pc = "put" /\ next.id = me.id /\ next.nonce = me.nonce
        /\ next.contract = me.contract /\ next.todo = me.todo
    BY <1>2, RequestFields
  <2> HIDE DEF next
  <2>4. CallOK(next, contracts, ledger, height) /\ ~IsEmpty(contracts[me.id])
    BY <1>2, <2>1, <2>3, ZenonT(60) DEF CallOK
  <2>5. Accepted'
    BY <1>3, <1>4, <2>1, <2>2, <2>4, AcceptedSet, ZenonT(60)
  <2> QED
    BY <1>3, <1>5, <2>1, <2>2, <2>4, <2>5, RequestCache, ZenonT(60)
<1>10. CASE PutContract(t)
  <2> DEFINE c == IF IsExpired(me.contract, memHeight) THEN EmptyContract ELSE me.contract
  <2>1. /\ me.pc = "put" /\ Become(t, Idle) /\ UNCHANGED <<claims, removed>>
        /\ mem' = [mem EXCEPT ![me.id] = c]
        /\ served' = [served EXCEPT ![me.id][me.nonce] = Least(@ + 1, 2)]
    BY <1>1, <1>10 DEF PutContract, Put
  <2>2. /\ me.id \in Ids /\ me.nonce \in 1 .. MaxNonce /\ ~IsEmpty(contracts[me.id])
        /\ Version(me.contract, contracts[me.id], ledger[me.id].deposited)
        /\ Paid(me.nonce, contracts[me.id], ledger[me.id].deposited)
    BY <1>2, <2>1 DEF RequestOK, CallOK
  <2>3. Version(c, contracts[me.id], ledger[me.id].deposited)
    BY <2>2, ZenonT(60) DEF Version, IsEmpty, EmptyContract
  <2> HIDE DEF c
  <2>4. \A i \in Ids, n \in 1 .. MaxNonce :
          i # me.id \/ n # me.nonce => served'[i][n] = served[i][n]
    BY <2>1, <2>2, ZenonT(60) DEF ServeInv
  <2>5. \A i \in Ids, n \in 1 .. MaxNonce : served'[i][n] > 0 =>
          ~IsEmpty(contracts[i]) /\ Paid(n, contracts[i], ledger[i].deposited)
    BY <1>4, <2>2, <2>4, ZenonT(60) DEF Accepted
  <2>6. Accepted'
    BY <1>3, <1>4, <2>1, <2>5, ZenonT(60) DEF Accepted
  <2> QED
    BY <1>3, <1>5, <2>1, <2>2, <2>3, <2>6, RequestCache, ZenonT(60)
<1>11. ASSUME NEW id \in me.todo, CheckClaim(t, id) PROVE CacheInv'
  <2>1. me.pc = "check" /\ UNCHANGED <<claims, served, removed>>
    BY <1>1, <1>11, ZenonT(60) DEF CheckClaim
  <2>2. PICK got : got = MemStoreGet(id)
    OBVIOUS
  <2>3. id \in Ids /\ ~IsEmpty(contracts[id])
    BY <1>2, <1>11, ZenonT(60) DEF RequestOK, CallOK
  <2>4. /\ Version(got.contract, contracts[id], ledger[id].deposited)
        /\ got.mem = mem \/ got.mem = [mem EXCEPT ![id] = got.contract]
        /\ IsExpired(got.contract, memHeight) => IsExpired(contracts[id], height)
    BY <1>4, <2>2, <2>3, GetCached, ZenonT(60)
  <2>5. mem' = mem \/ mem' = [mem EXCEPT ![id] = got.contract]
    BY <1>11, <2>2, <2>4, ZenonT(60) DEF CheckClaim
  <2>6. Accepted'
    BY <1>3, <1>4, <2>1, AcceptedSame
  <2>7. CASE Become(t, Done(me, id))
    BY <1>3, <1>6, <2>3, <2>4, <2>5, <2>6, <2>7, RequestCache, ZenonT(60)
  <2>8. CASE /\ IsExpired(got.contract, memHeight)
             /\ Become(t, [me EXCEPT !.pc = "remove", !.id = id])
    <3> DEFINE next == [me EXCEPT !.pc = "remove", !.id = id]
    <3>1. next.pc = "remove" /\ next.id = id /\ next.todo = me.todo
      BY <1>2, RequestFields
    <3>2. Become(t, next)
      BY <2>8
    <3> HIDE DEF next
    <3>3. CallOK(next, contracts, ledger, height)
      BY <1>2, <2>3, <2>4, <2>8, <3>1 DEF CallOK
    <3> QED
      BY <1>3, <2>3, <2>4, <2>5, <2>6, <3>2, <3>3, RequestCache, ZenonT(60)
  <2> QED
    BY <1>1, <1>11, <2>2, <2>7, <2>8 DEF CheckClaim
<1>12. CASE RemoveClaim(t)
  <2>1. /\ me.pc = "remove" /\ Become(t, Done(me, me.id)) /\ UNCHANGED <<mem, served>>
        /\ \/ /\ claims' = [claims EXCEPT ![me.id] = NoClaim]
              /\ removed' = removed \cup {me.id}
           \/ UNCHANGED <<claims, removed>>
    BY <1>1, <1>12, ZenonT(60) DEF RemoveClaim
  <2>2. ~IsEmpty(contracts[me.id]) /\ IsExpired(contracts[me.id], height)
    BY <1>2, <2>1, ZenonT(60) DEF CallOK
  <2>3. \A i \in Ids : claims'[i] # NoClaim => claims[i] # NoClaim
    BY <1>4, <2>1
  <2>4. Accepted'
    BY <1>3, <1>4, <2>1, <2>2, <2>3, ZenonT(60) DEF Accepted
  <2> QED
    BY <1>3, <1>6, <2>1, <2>4, RequestCache, ZenonT(60)
<1>13. CASE SetMarked(t)
  <2>1. /\ me.pc = "mark" /\ Become(t, Idle) /\ UNCHANGED <<mem, served, removed>>
        /\ \/ Set(me.id, me.claim, [me.claim EXCEPT !.claimed = TRUE])
           \/ UNCHANGED claims
    BY <1>1, <1>13, ZenonT(60) DEF SetMarked
  <2>2. ~IsEmpty(contracts[me.id])
    BY <1>2, <2>1 DEF CallOK
  <2>3. Accepted'
    BY <1>3, <1>4, <2>1, <2>2, AcceptedSet, ZenonT(60)
  <2> QED
    BY <1>3, <1>5, <2>1, <2>3, RequestCache
<1> QED
  BY <1>1, <1>7, <1>8, <1>9, <1>10, <1>11, <1>12, <1>13 DEF Proceed

\* The step of the event loop.
LEMMA LoopCache ==
    ASSUME CacheInv, UNCHANGED <<vars, thread, restarts>>, Cached', Accepted', OpenEvents',
           queue'["block"] \in {queue["block"], <<>>}
    PROVE  CacheInv'
<1>1. UNCHANGED <<contracts, ledger, height>>
  BY DEF vars, contractVars, registryVars
<1>2. \A b \in Headers : <<b>> # <<>>
  OBVIOUS
<1>3. \A b \in Headers : queue'["block"] = <<b>> => b.height <= height
  BY <1>2, ZenonT(60) DEF CacheInv
<1> QED
  BY <1>1, <1>3, ZenonT(60) DEF CacheInv, RatesRequested

\* The steps of the event loop, and a restart.
LEMMA DispatchCache ==
    ASSUME SentinelInv, ServeInv, CacheInv, Dispatch \/ Restart
    PROVE  CacheInv'
<1> DEFINE Dispatchers == [pending : SUBSET Settlements, claim : Claims, id : Nat]
<1>1. /\ IInv /\ Cached /\ Accepted /\ OpenEvents /\ dispatcher \in Dispatchers
      /\ queue = [s \in DOMAIN NoEvents |-> queue[s]]
      /\ DOMAIN NoEvents = {"open", "close", "claim", "block"}
      /\ queue["block"] \in {<<>>} \cup {<<b>> : b \in Headers}
  BY DEF SentinelInv, StoresTyped, CacheInv, NoEvents
<1>2. ASSUME UNCHANGED vars PROVE UNCHANGED <<contracts, ledger, height>>
  BY <1>2 DEF vars, contractVars, registryVars
<1>3. ASSUME UNCHANGED <<vars, claims, dispatcher, removed, served>> PROVE Accepted'
  BY <1>1, <1>2, <1>3, AcceptedSame
<1>4. ASSUME UNCHANGED <<vars, mem, memHeight>> PROVE Cached'
  BY <1>1, <1>2, <1>4 DEF Cached
<1>5. ASSUME UNCHANGED vars, queue'["open"] = queue["open"] PROVE OpenEvents'
  BY <1>1, <1>2, <1>5 DEF OpenEvents
<1>6. ASSUME UNCHANGED <<vars, memHeight>>, NEW id, NEW c,
             id \in Ids => Version(c, contracts[id], ledger[id].deposited), Put(id, c)
      PROVE  Cached'
  <2>1. \A i \in Ids : Version(EmptyContract, contracts[i], ledger[i].deposited)
    BY ZenonT(60) DEF Version, IsEmpty, EmptyContract
  <2>2. PICK d : /\ mem' = [mem EXCEPT ![id] = d]
                 /\ id \in Ids => Version(d, contracts[id], ledger[id].deposited)
    BY <1>6, <2>1, ZenonT(60) DEF Put
  <2>3. /\ mem' = [i \in Ids |-> mem'[i]]
        /\ \A i \in Ids : Version(mem'[i], contracts[i], ledger[i].deposited)
    BY <1>1, <2>2 DEF Cached
  <2> QED
    BY <1>1, <1>2, <1>6, <2>3 DEF Cached
<1>7. CASE HandleOpenContractEvent
  <2>1. /\ UNCHANGED <<vars, thread, claims, dispatcher, removed, served, memHeight, restarts>>
        /\ queue["open"] # <<>> /\ queue' = [queue EXCEPT !["open"] = Tail(@)]
        /\ UNCHANGED mem \/ Put(Head(queue["open"]).id, Head(queue["open"]).contract)
    BY <1>7 DEF HandleOpenContractEvent, DispatchUnchanged, Consume, Event, Ready
  <2>2. PICK e : /\ queue["open"] = <<e>>
                 /\ Version(e.contract, contracts[e.id], ledger[e.id].deposited)
    BY <1>1, <2>1, ZenonT(60) DEF OpenEvents
  <2>3. Head(<<e>>) = e /\ Tail(<<e>>) = <<>>
    OBVIOUS
  <2>4. Cached'
    <3>1. CASE UNCHANGED mem
      BY <1>4, <2>1, <3>1, ZenonT(60)
    <3>2. CASE Put(e.id, e.contract)
      BY <1>6, <2>1, <2>2, <3>2, ZenonT(60)
    <3> QED
      BY <2>1, <2>2, <2>3, <3>1, <3>2
  <2>5. queue'["open"] = <<>> /\ queue'["block"] = queue["block"]
    BY <1>1, <2>1, <2>2, <2>3, ZenonT(60)
  <2>6. Accepted' /\ OpenEvents'
    BY <1>3, <2>1, <2>5 DEF OpenEvents
  <2> QED
    BY <2>1, <2>4, <2>5, <2>6, LoopCache
<1>8. CASE HandleCloseContractEvent
  <2>1. /\ UNCHANGED <<vars, thread, claims, dispatcher, removed, served, memHeight, restarts>>
        /\ queue' = [queue EXCEPT !["close"] = Tail(@)]
        /\ Put(Event("close").id, EmptyContract)
    BY <1>8, ZenonT(60) DEF HandleCloseContractEvent, DispatchUnchanged, Consume
  <2>2. queue'["open"] = queue["open"] /\ queue'["block"] = queue["block"]
    BY <1>1, <2>1
  <2>3. Cached'
    <3>1. \A i \in Ids : Version(EmptyContract, contracts[i], ledger[i].deposited)
      BY ZenonT(60) DEF Version, IsEmpty, EmptyContract
    <3> QED
      BY <1>6, <2>1, <3>1, ZenonT(60)
  <2>4. Accepted' /\ OpenEvents'
    BY <1>3, <1>5, <2>1, <2>2
  <2> QED
    BY <2>1, <2>2, <2>3, <2>4, LoopCache
<1>9. CASE HandleContractSettlementEvent
  <2>1. /\ UNCHANGED <<vars, thread, claims, removed, served, mem, memHeight, restarts>>
        /\ queue' = [queue EXCEPT !["claim"] = Tail(@)]
        /\ dispatcher' = [dispatcher EXCEPT !.pending = {Event("claim")}]
    BY <1>9, ZenonT(60) DEF HandleContractSettlementEvent, DispatchUnchanged, Consume
  <2>2. queue'["open"] = queue["open"] /\ queue'["block"] = queue["block"]
    BY <1>1, <2>1
  <2>3. dispatcher'.claim = dispatcher.claim /\ dispatcher'.id = dispatcher.id
    BY <1>1, <2>1
  <2>4. Accepted'
    BY <1>1, <1>2, <2>1, <2>3, ZenonT(60) DEF Accepted
  <2> QED
    BY <1>4, <1>5, <2>1, <2>2, <2>4, LoopCache
<1>10. CASE HandleNewBlockHeaderEvent
  <2>1. /\ UNCHANGED <<vars, thread, claims, removed, served, mem, restarts>>
        /\ queue["block"] # <<>> /\ queue' = [queue EXCEPT !["block"] = Tail(@)]
        /\ memHeight' = Head(queue["block"]).height
        /\ dispatcher' = [dispatcher EXCEPT !.pending = Head(queue["block"]).settled]
    BY <1>10 DEF HandleNewBlockHeaderEvent, DispatchUnchanged, Consume, Event, Ready
  <2>2. PICK b \in Headers : queue["block"] = <<b>>
    BY <1>1, <2>1
  <2>3. Head(<<b>>) = b /\ Tail(<<b>>) = <<>> /\ b.height \in Nat /\ b.height <= height
    BY <2>2 DEF CacheInv, Headers, Heights
  <2>4. memHeight' \in Nat /\ memHeight' <= height
    BY <2>1, <2>2, <2>3
  <2>5. Cached'
    BY <1>1, <1>2, <2>1, <2>4 DEF Cached
  <2>6. queue'["open"] = queue["open"] /\ queue'["block"] = <<>>
    BY <1>1, <2>1, <2>2, <2>3, ZenonT(60)
  <2>7. dispatcher'.claim = dispatcher.claim /\ dispatcher'.id = dispatcher.id
    BY <1>1, <2>1
  <2>8. Accepted'
    BY <1>1, <1>2, <2>1, <2>7, ZenonT(60) DEF Accepted
  <2> QED
    BY <1>5, <2>1, <2>5, <2>6, <2>8, LoopCache
<1>11. ASSUME NEW e \in dispatcher.pending, GetSettled(e) PROVE CacheInv'
  <2>1. UNCHANGED <<vars, thread, claims, queue, removed, served, mem, memHeight, restarts>>
    BY <1>11, ZenonT(60) DEF GetSettled, DispatchUnchanged
  <2>2. e.id \in Ids
    BY <1>1 DEF Settlements
  <2>3. Get(e.id) # ZeroClaim => ~IsEmpty(contracts[e.id])
    BY <1>1, <2>2 DEF Get, Stored, Accepted
  <2>4. \/ dispatcher'.claim = dispatcher.claim /\ dispatcher'.id = dispatcher.id
        \/ dispatcher'.claim = Get(e.id) /\ dispatcher'.id = e.id
    BY <1>1, <1>11 DEF GetSettled
  <2>5. dispatcher'.claim \notin {NoClaim, ZeroClaim} => ~IsEmpty(contracts[dispatcher'.id])
    BY <1>1, <2>3, <2>4 DEF Accepted
  <2>6. Accepted'
    BY <1>1, <1>2, <2>1, <2>5, ZenonT(60) DEF Accepted
  <2> QED
    BY <1>4, <1>5, <2>1, <2>6, LoopCache, ZenonT(60)
<1>12. CASE SetSettled
  <2>1. PICK claim, id : claim = dispatcher.claim /\ id = dispatcher.id
    OBVIOUS
  <2>2. /\ claim # NoClaim /\ dispatcher'.claim = NoClaim
        /\ UNCHANGED <<vars, thread, queue, removed, served, mem, memHeight, restarts>>
    BY <1>12, <2>1 DEF SetSettled
  <2>3. Set(id, claim, [claim EXCEPT !.claimed = TRUE]) \/ UNCHANGED claims
    BY <1>12, <2>1, ZenonT(60) DEF SetSettled
  <2>4. \A i \in Ids : claims'[i] # NoClaim => ~IsEmpty(contracts[i])
    <3>1. claim # ZeroClaim => ~IsEmpty(contracts[id])
      BY <1>1, <2>1, <2>2, ZenonT(60) DEF Accepted
    <3> QED
      BY <1>1, <2>3, <3>1 DEF Accepted, Set, ServeInv
  <2>5. Accepted'
    BY <1>1, <1>2, <2>2, <2>4, ZenonT(60) DEF Accepted
  <2> QED
    BY <1>4, <1>5, <2>2, <2>5, LoopCache
<1>13. CASE Restart
  <2>1. /\ UNCHANGED <<vars, claims, removed, served>> /\ dispatcher'.claim = NoClaim
        /\ mem' = [id \in Ids |-> EmptyContract] /\ memHeight' = 0
        /\ queue'["open"] = <<>> /\ queue'["block"] = <<>>
        /\ \A u \in Threads : thread'[u] = Idle
    BY <1>13 DEF Restart, NoEvents
  <2>2. restarts' \in 0 .. MaxRestarts
    <3>1. restarts \in 0 .. MaxRestarts /\ restarts < MaxRestarts /\ restarts' = restarts + 1
      BY <1>13, ZenonT(60) DEF Restart, CacheInv
    <3> QED
      BY <3>1, SentinelAssumption
  <2>3. Cached'
    <3>1. height \in Nat
      BY <1>1 DEF IInv, TypeOK, Heights
    <3> QED
      <4>1. \A id \in Ids : mem'[id] = EmptyContract
        BY <2>1
      <4>2. mem' = [id \in Ids |-> mem'[id]]
        BY <2>1, ZenonT(60)
      <4>3. memHeight' \in Nat /\ memHeight' <= height'
        BY <1>2, <2>1, <3>1
      <4> QED
        BY <4>1, <4>2, <4>3, EmptyVersion, ZenonT(60) DEF Cached
  <2>4. Accepted' /\ OpenEvents'
    BY <1>1, <1>2, <2>1 DEF Accepted, OpenEvents
  <2>5. \A b \in Headers : <<b>> # <<>>
    OBVIOUS
  <2>6. CallOK(Idle, contracts, ledger, height)
    BY DEF CallOK, Idle
  <2>7. /\ \A b \in Headers : queue'["block"] = <<b>> => b.height <= height
        /\ \A u \in Threads : CallOK(thread'[u], contracts, ledger, height)
    BY <2>1, <2>5, <2>6, ZenonT(60)
  <2> QED
    BY <1>2, <2>1, <2>2, <2>3, <2>4, <2>7, ZenonT(60) DEF CacheInv, RatesRequested
<1> QED
  BY <1>7, <1>8, <1>9, <1>10, <1>11, <1>12, <1>13 DEF Dispatch

\* A contract is opened with the rate that was asked for.
LEMMA OpenedRate == \A r, p, client, delegate : NewContract(r, p, client, delegate).rate = r.rate
BY DEF NewContract

\* No step changes the rate of a contract.
LEMMA RatesStay ==
    ASSUME IInv, RatesRequested, [Next]_vars
    PROVE  RatesRequested'
<1> SUFFICES ASSUME NEW id \in Ids, ~IsEmpty(contracts'[id])
             PROVE  \E r \in Requests : contracts'[id].rate = r.rate
  BY DEF RatesRequested
<1>1. CASE ~IsEmpty(contracts[id])
  BY <1>1, ContractStays DEF RatesRequested
<1>2. CASE IsEmpty(contracts[id])
  <2>1. contracts'[id] # contracts[id]
    BY <1>2
  <2>2. ASSUME NEW r \in Requests, NEW p \in Providers, NEW client \in Users,
               NEW delegate \in Users \cup {EmptyPubKey}, OpenContract(r, p, client, delegate)
        PROVE  contracts'[id].rate = r.rate
    <3>1. contracts' = [contracts EXCEPT ![nextId] = NewContract(r, p, client, delegate)]
      BY <2>2 DEF OpenContract
    <3>2. contracts'[id] = NewContract(r, p, client, delegate)
      BY <2>1, <3>1 DEF IInv, TypeOK
    <3> QED
      BY <3>2, OpenedRate
  <2>3. ASSUME NEW S \in SUBSET Ids, NEW isFinal \in BOOLEAN, Settling(S, isFinal)
        PROVE  FALSE
    BY <1>2, <2>1, <2>3, ZenonT(60) DEF Settling, Touched, Exists
  <2> QED
    BY <2>1, <2>2, <2>3, StepKinds, ZenonT(60)
<1> QED
  BY <1>1, <1>2

\* A step of the chain keeps what the cache, the requests and the history know of it.
LEMMA ChainCache ==
    ASSUME SentinelInv, ServeInv, CacheInv, [Next]_vars, ChainUnchanged,
           \/ queue'["open"] = queue["open"]
           \/ \E e : /\ queue'["open"] = <<e>> /\ e.id \in Ids
                     /\ Version(e.contract, contracts'[e.id], ledger'[e.id].deposited),
           \/ queue'["block"] = queue["block"]
           \/ \E b \in Headers : queue'["block"] = <<b>> /\ b.height <= height'
    PROVE  CacheInv'
<1>1. /\ IInv /\ Cached /\ Accepted /\ OpenEvents
      /\ \A t \in Threads : /\ CallOK(thread[t], contracts, ledger, height)
                            /\ RequestOK(thread[t], claims, served, overwritten, removed)
      /\ removed \subseteq Ids
      /\ UNCHANGED <<mem, memHeight, claims, thread, dispatcher, served, removed, restarts>>
  BY ZenonT(60) DEF SentinelInv, ServeInv, CacheInv, ChainUnchanged
<1> DEFINE Kept(id) == /\ ~IsEmpty(contracts'[id])
                       /\ contracts'[id].type = contracts[id].type
                       /\ contracts'[id].rate = contracts[id].rate
                       /\ ledger'[id].deposited = ledger[id].deposited
                       /\ IsExpired(contracts[id], height) => IsExpired(contracts'[id], height')
<1>2. /\ height \in Nat /\ height' \in Nat /\ height <= height'
      /\ \A id \in Ids : ~IsEmpty(contracts[id]) => Kept(id)
  BY <1>1, ContractStays, ZenonT(60)
<1>3. \A id \in Ids : \A c : Version(c, contracts[id], ledger[id].deposited)
                           => Version(c, contracts'[id], ledger'[id].deposited)
  BY <1>2, ZenonT(60) DEF Version
<1>4. \A id \in Ids : \A n : ~IsEmpty(contracts[id]) /\ Paid(n, contracts[id], ledger[id].deposited)
                           => Paid(n, contracts'[id], ledger'[id].deposited)
  BY <1>2, ZenonT(60) DEF Paid, IsPayAsYouGo
<1>5. Cached'
  <2>1. memHeight' \in Nat /\ memHeight' <= height'
    BY <1>1, <1>2 DEF Cached
  <2> QED
    BY <1>1, <1>3, <2>1, ZenonT(60) DEF Cached
<1>6. Accepted'
  <2>1. dispatcher.claim # NoClaim => dispatcher.id \in Ids
    BY ZenonT(60) DEF SentinelInv, MarksCovered, Covered
  <2>2. \A id \in removed : ~IsEmpty(contracts'[id]) /\ IsExpired(contracts'[id], height')
    BY <1>1, <1>2, ZenonT(60) DEF Accepted
  <2>3. \A id \in Ids, n \in 1 .. MaxNonce : served[id][n] > 0 =>
          ~IsEmpty(contracts'[id]) /\ Paid(n, contracts'[id], ledger'[id].deposited)
    BY <1>1, <1>2, <1>4, ZenonT(60) DEF Accepted
  <2> QED
    BY <1>1, <1>2, <2>1, <2>2, <2>3, ZenonT(60) DEF Accepted
<1>7. OpenEvents'
  BY <1>1, <1>3, ZenonT(60) DEF OpenEvents
<1>8. \A b \in Headers : queue'["block"] = <<b>> => b.height <= height'
  <2>1. \A b \in Headers : b.height \in Nat
    BY DEF Headers, Heights
  <2>2. \A b, d \in Headers : <<b>> = <<d>> => b = d
    BY Zenon
  <2>3. CASE queue'["block"] = queue["block"]
    <3>1. \A b \in Headers : queue["block"] = <<b>> => b.height <= height
      BY ZenonT(60) DEF CacheInv
    <3>2. \A b \in Headers : b.height <= height => b.height <= height'
      <4>1. height \in Nat /\ height' \in Nat /\ height <= height'
        BY <1>2, ZenonT(60)
      <4> QED
        BY <2>1, <4>1
    <3> QED
      BY <2>3, <3>1, <3>2, ZenonT(60)
  <2>4. ASSUME NEW b \in Headers, queue'["block"] = <<b>>, b.height <= height'
        PROVE  \A d \in Headers : queue'["block"] = <<d>> => d.height <= height'
    BY <2>2, <2>4, ZenonT(60)
  <2> QED
    BY <2>3, <2>4, ZenonT(60)
<1>9. \A t \in Threads : CallOK(thread'[t], contracts', ledger', height')
  <2> SUFFICES ASSUME NEW t \in Threads
               PROVE  CallOK(thread[t], contracts', ledger', height')
    BY <1>1, ZenonT(60)
  <2>1. PICK r : r = thread[t]
    BY Zenon
  <2>2. /\ CallOK(r, contracts, ledger, height)
        /\ RequestOK(r, claims, served, overwritten, removed)
    BY <1>1, <2>1, ZenonT(60)
  <2>3. (r.id \in Ids \/ r.pc \in {"idle", "check"}) /\ r.todo \subseteq Ids
    BY <2>2, ZenonT(60) DEF RequestOK, Steps
  <2> QED
    BY <1>1, <2>1, <2>2, <2>3, CallStays, ZenonT(60)
<1>10. RatesRequested'
  BY <1>1, RatesStay, ZenonT(60) DEF CacheInv
<1>11. restarts' \in 0 .. MaxRestarts
  BY <1>1, ZenonT(60) DEF CacheInv
<1> QED
  BY <1>5, <1>6, <1>7, <1>8, <1>9, <1>10, <1>11, ZenonT(60) DEF CacheInv


\* The chain's messages and blocks.
LEMMA ChainStepsCache ==
    ASSUME SentinelInv, ServeInv, CacheInv, [Next]_vars,
           \/ ChainOpenContract
           \/ \E id \in Ids : \/ \E nonce \in 1 .. MaxNonce : ChainClaimContractIncome(id, nonce)
                              \/ ChainCloseContract(id)
                              \/ SignCall(id) /\ UNCHANGED sentinelVars
           \/ ChainEndBlock
    PROVE  CacheInv'
<1>0. /\ IInv /\ IInv' /\ queue = [s \in DOMAIN NoEvents |-> queue[s]]
      /\ DOMAIN NoEvents = {"open", "close", "claim", "block"}
  BY NextIInv DEF SentinelInv, StoresTyped, NoEvents
<1>1. CASE ChainOpenContract
  <2> DEFINE e == [id |-> nextId, contract |-> View(contracts'[nextId])]
  <2>1. /\ ChainUnchanged /\ nextId \in Ids /\ queue["open"] = <<>>
        /\ queue' = [queue EXCEPT !["open"] = Append(@, e)]
    BY <1>1 DEF ChainOpenContract, Emit, OpenContract
  <2>2. e.id = nextId /\ e.contract = View(contracts'[nextId])
    OBVIOUS
  <2> HIDE DEF e
  <2>3. Append(<<>>, e) = <<e>>
    OBVIOUS
  <2>4. queue'["open"] = <<e>> /\ queue'["block"] = queue["block"]
    BY <1>0, <2>1, <2>3, ZenonT(60)
  <2>5. Version(View(contracts'[nextId]), contracts'[nextId], ledger'[nextId].deposited)
    <3>1. PICK c \in Contract \cup {EmptyContract}, l \in Ledger :
            c = contracts'[nextId] /\ l = ledger'[nextId]
      BY <1>0, <2>1, ZenonT(60) DEF IInv, TypeOK, Ledger
    <3>2. /\ c.paid = l.provider + l.reserve
          /\ l.deposited = l.provider + l.reserve + l.client + (c.deposit - c.paid)
      BY <1>0, <2>1, <3>1, ZenonT(60) DEF IInv, DepositAccounted
    <3> QED
      BY <3>1, <3>2, ViewVersion, ZenonT(60)
  <2> QED
    BY <2>1, <2>2, <2>4, <2>5, ChainCache, ZenonT(60)
<1>2. ASSUME NEW id \in Ids, \/ \E nonce \in 1 .. MaxNonce : ChainClaimContractIncome(id, nonce)
                             \/ ChainCloseContract(id)
      PROVE  CacheInv'
  <2>1. /\ ChainUnchanged
        /\ \E s \in {"claim", "close"} : \E e : queue' = [queue EXCEPT ![s] = e]
    BY <1>2, ZenonT(60) DEF ChainClaimContractIncome, ChainCloseContract, Emit
  <2>2. queue'["open"] = queue["open"] /\ queue'["block"] = queue["block"]
    BY <1>0, <2>1
  <2> QED
    BY <2>1, <2>2, ChainCache
<1>3. ASSUME UNCHANGED sentinelVars PROVE CacheInv'
  <2>1. ChainUnchanged /\ queue' = queue
    BY <1>3 DEF ChainUnchanged, sentinelVars
  <2> QED
    BY <2>1, ChainCache
<1>4. CASE ChainEndBlock
  <2>1. PICK b : /\ ChainUnchanged /\ b.height = height
                 /\ queue["block"] = <<>>
                 /\ queue' = [queue EXCEPT !["block"] = Append(@, b)]
    BY <1>4, ZenonT(60) DEF ChainEndBlock, Emit
  <2>2. Append(<<>>, b) = <<b>>
    OBVIOUS
  <2>3. queue'["block"] = <<b>> /\ queue'["open"] = queue["open"]
    BY <1>0, <2>1, <2>2, ZenonT(60)
  <2>4. b \in Headers
    <3>1. SentinelInv'
      BY <1>4, ChainSteps
    <3>2. queue'["block"] \in {<<>>} \cup {<<d>> : d \in Headers}
      BY <3>1 DEF SentinelInv, StoresTyped
    <3>3. \A d : <<b>> = <<d>> => b = d
      OBVIOUS
    <3> QED
      BY <2>3, <3>2, <3>3
  <2>5. height <= height'
    BY <1>0, ContractStays
  <2> QED
    BY <2>1, <2>3, <2>4, <2>5, ChainCache
<1> QED
  BY <1>1, <1>2, <1>3, <1>4

\* The invariant of the cache, for all constants.
LEMMA CacheInvAlways == SentinelSpec => [](SentinelInv /\ ServeInv /\ CacheInv)
<1>1. SentinelInit => CacheInv
  <2> SUFFICES ASSUME SentinelInit PROVE CacheInv
    OBVIOUS
  <2>1. /\ mem = [id \in Ids |-> EmptyContract] /\ memHeight = 0 /\ height = 1
        /\ claims = [id \in Ids |-> NoClaim] /\ removed = {}
        /\ served = [id \in Ids |-> [n \in 1 .. MaxNonce |-> 0]]
        /\ contracts = [id \in Ids |-> EmptyContract]
        /\ queue["open"] = <<>> /\ queue["block"] = <<>>
        /\ dispatcher.claim = NoClaim /\ restarts = 0
        /\ \A u \in Threads : thread[u] = Idle
    BY DEF SentinelInit, ContractsInit, ProviderOnLine, NoEvents
  <2>2. /\ \A id \in Ids : mem[id] = EmptyContract /\ claims[id] = NoClaim
        /\ \A id \in Ids : IsEmpty(contracts[id])
        /\ \A id \in Ids, n \in 1 .. MaxNonce : ~(served[id][n] > 0)
    <3>1. \A id \in Ids : /\ mem[id] = EmptyContract /\ claims[id] = NoClaim
                         /\ contracts[id] = EmptyContract
      BY <2>1, ZenonT(60)
    <3>2. \A id \in Ids, n \in 1 .. MaxNonce : served[id][n] = 0
      BY <2>1, ZenonT(60)
    <3>3. ~(0 > 0)
      OBVIOUS
    <3> QED
      BY <3>1, <3>2, <3>3, EmptyVersion, ZenonT(60)
  <2>3. Cached /\ OpenEvents /\ Accepted /\ RatesRequested
    <3>1. mem = [id \in Ids |-> mem[id]]
      BY <2>1, ZenonT(60)
    <3>2. memHeight \in Nat /\ memHeight <= height
      <4>1. memHeight = 0 /\ height = 1
        BY <2>1, ZenonT(60)
      <4> QED
        BY <4>1
    <3>3. Cached
      BY <2>2, <3>1, <3>2, EmptyVersion, ZenonT(60) DEF Cached
    <3>4. Accepted
      BY <2>1, <2>2, ZenonT(60) DEF Accepted
    <3> QED
      BY <2>1, <2>2, <3>3, <3>4, ZenonT(60) DEF OpenEvents, RatesRequested
  <2>4. restarts \in 0 .. MaxRestarts
    <3>1. MaxRestarts \in Nat
      BY SentinelAssumption
    <3>2. 0 \in 0 .. MaxRestarts
      BY <3>1
    <3> QED
      BY <2>1, <3>2
  <2>5. \A b \in Headers : <<b>> # <<>>
    OBVIOUS
  <2>6. CallOK(Idle, contracts, ledger, height)
    BY DEF CallOK, Idle
  <2> QED
    BY <2>1, <2>3, <2>4, <2>5, <2>6, ZenonT(60) DEF CacheInv
<1>2. ASSUME SentinelInv, ServeInv, CacheInv, [SentinelNext]_sentinelAll PROVE CacheInv'
  <2>1. [Next]_vars
    BY <1>2, SentinelStepsMarket
  <2>2. CASE UNCHANGED sentinelAll
    <3>1. ChainUnchanged /\ queue' = queue
      BY <2>2 DEF sentinelAll, sentinelVars, ChainUnchanged
    <3> QED
      BY <1>2, <2>1, <3>1, ChainCache, ZenonT(60)
  <2>3. CASE Dispatch \/ Restart
    BY <1>2, <2>3, DispatchCache
  <2>4. ASSUME NEW t \in Threads,
               \/ \E id \in Ids, nonce \in 1 .. MaxNonce :
                    \/ \E spender \in {EmptyPubKey, Spender(id)} : PaidTier(t, id, nonce, spender)
                    \/ MarkClaimed(t, id, nonce)
               \/ ListClaims(t)
        PROVE  CacheInv'
    BY <1>2, <2>4, TakeUpCache
  <2>5. ASSUME NEW t \in Threads, Proceed(t) PROVE CacheInv'
    BY <1>2, <2>5, ProceedCache
  <2> QED
    BY <1>2, <2>1, <2>2, <2>3, <2>4, <2>5, ChainStepsCache DEF SentinelNext
<1>3. SentinelSpec => [](SentinelInv /\ ServeInv)
  BY ServeInvAlways
<1> QED
  BY <1>1, <1>2, <1>3, PTL DEF SentinelSpec

\* Every variable of the sentinel has its type.
THEOREM SentinelTyped == SentinelSpec => []SentinelTypeOK
<1>1. SentinelInv /\ ServeInv /\ CacheInv => SentinelTypeOK
  <2> SUFFICES ASSUME SentinelInv, ServeInv, CacheInv PROVE SentinelTypeOK
    OBVIOUS
  <2>1. TypeOK /\ memHeight \in 0 .. MaxHeight
    <3>1. TypeOK /\ height \in Heights
      BY DEF SentinelInv, IInv, TypeOK
    <3>2. memHeight \in Nat /\ memHeight <= height
      BY DEF CacheInv, Cached
    <3> QED
      BY <3>1, <3>2, RegistryAssumptions DEF Heights
  <2>2. claims \in [Ids -> Claim] /\ dispatcher.claim \in Claim
    BY ClaimKinds DEF ServeInv
  <2>3. \A t \in Threads : /\ thread[t].claim \in Claim
                           /\ thread[t].id \in Ids \cup {0} /\ thread[t].todo \subseteq Ids
    BY ZenonT(60) DEF ServeInv, RequestOK
  <2> QED
    BY <2>1, <2>2, <2>3, ZenonT(60) DEF SentinelTypeOK, ServeInv, CacheInv
<1> QED
  BY <1>1, CacheInvAlways, PTL

\* handleOpenClaims removes the claim of a contract only when the contract has expired
\* on chain as well, however old the cached contract and the height it tests.
THEOREM RemovesOnlyExpired == SentinelSpec => []RemovedOnlyExpired
<1>1. CacheInv => RemovedOnlyExpired
  BY ZenonT(60) DEF CacheInv, Accepted, RemovedOnlyExpired
<1> QED
  BY <1>1, CacheInvAlways, PTL

\* Every nonce paidTier serves on a pay-as-you-go contract is paid for by the deposit,
\* although the contract it is checked against may have been cached long ago, as long
\* as nonce times rate does not leave the signed words it is computed in.
THEOREM ServesFunded == ASSUME NoOverflow PROVE SentinelSpec => []ServedIsFunded
<1>1. CacheInv => ServedIsFunded
  BY NoOverflow, ZenonT(60) DEF CacheInv, Accepted, ServedIsFunded, Served, Paid
<1> QED
  BY <1>1, CacheInvAlways, PTL
=============================================================================
