--------------------------- MODULE TreasuryProofs ---------------------------
(***************************************************************************)
(* What is paid beside the market: the airdrop and the block rewards.      *)
(* They share no state.                                                    *)
(*                                                                         *)
(* The airdrop, for any number of addresses, any claim records of the      *)
(* genesis file and any parameters: no grant is paid twice, the module can *)
(* pay every record until it is swept, waiting is never worth more, and    *)
(* after the end nobody is paid.                                           *)
(*                                                                         *)
(* The block rewards, for any number of validators, all shares and         *)
(* parameters: the distribution module holds what was allocated and the    *)
(* community pool, and the version that is stored does not depend on what  *)
(* the validators announce.                                                *)
(***************************************************************************)
EXTENDS Airdrop, Reserve, TLAPS

-----------------------------------------------------------------------------
(* The airdrop: the amount that is left *)

\* Division with remainder.
LEMMA Division ==
    ASSUME NEW n \in Nat, NEW d \in Nat \ {0}
    PROVE  \E q, r \in Nat : q = n \div d /\ r = n % d /\ r < d /\ n = d * q + r
<1> DEFINE q == n \div d
           r == n % d
<1>1. q \in Int /\ r \in 0 .. d - 1 /\ n = d * q + r
  OBVIOUS
<1>q. q = n \div d /\ r = n % d
  OBVIOUS
<1> HIDE DEF q, r
<1>2. q <= -1 => d * q <= -d
  BY <1>1
<1>3. q \in Nat /\ r \in Nat /\ r < d
  BY <1>1, <1>2
<1> QED
  BY <1>1, <1>3, <1>q, ZenonT(60)

\* A quotient is monotonic.
LEMMA QuotientGrows ==
    ASSUME NEW a \in Nat, NEW b \in Nat, NEW r \in Nat, NEW s \in Nat, NEW d \in Nat \ {0},
           r < d, s < d, d * a + r <= d * b + s
    PROVE  a <= b /\ (a = b => r <= s)
<1>1. ASSUME a >= b + 1 PROVE FALSE
  <2>1. d * a >= d * (b + 1)
    BY <1>1
  <2>2. d * (b + 1) = d * b + d /\ d * b \in Nat /\ d * a \in Nat
    OBVIOUS
  <2> QED
    BY <2>1, <2>2
<1>2. a = b => r <= s
  <2>1. d * a \in Nat
    OBVIOUS
  <2> QED
    BY <2>1
<1> QED
  BY <1>1, <1>2

\* Rounding half to even is monotonic.
LEMMA RoundGrows ==
    ASSUME NEW m \in Nat, NEW n \in Nat, m <= n, NEW d \in Nat \ {0}
    PROVE  /\ RoundInt(m, d) \in Nat /\ RoundInt(n, d) \in Nat
           /\ RoundInt(m, d) <= RoundInt(n, d)
<1>1. PICK a \in Nat, r \in Nat : a = m \div d /\ r = m % d /\ r < d /\ m = d * a + r
  BY Division
<1>2. PICK b \in Nat, s \in Nat : b = n \div d /\ s = n % d /\ s < d /\ n = d * b + s
  BY Division
<1>3. a <= b /\ (a = b => r <= s)
  BY <1>1, <1>2, QuotientGrows
<1>4. RoundInt(m, d) = IF 2 * r > d \/ (2 * r = d /\ a % 2 = 1) THEN a + 1 ELSE a
  BY <1>1 DEF RoundInt
<1>5. RoundInt(n, d) = IF 2 * s > d \/ (2 * s = d /\ b % 2 = 1) THEN b + 1 ELSE b
  BY <1>2 DEF RoundInt
<1>6. CASE a = b
  BY <1>3, <1>4, <1>5, <1>6
<1>7. CASE a < b
  BY <1>3, <1>4, <1>5, <1>7
<1> QED
  BY <1>3, <1>6, <1>7

\* A whole number is not rounded.
LEMMA RoundWhole ==
    ASSUME NEW d \in Nat \ {0}
    PROVE  RoundInt(10000 * d, d) = 10000
<1> DEFINE n == 10000 * d
<1>1. n \in Nat /\ n = d * 10000 + 0
  OBVIOUS
<1> HIDE DEF n
<1>2. PICK b \in Nat, s \in Nat : b = n \div d /\ s = n % d /\ s < d /\ n = d * b + s
  BY <1>1, Division
<1>3. /\ d * 10000 + 0 <= d * b + s /\ d * b + s <= d * 10000 + 0
  BY <1>1, <1>2
<1>4. b <= 10000 /\ 10000 <= b /\ (b = 10000 => s <= 0)
  BY <1>2, <1>3, QuotientGrows
<1>5. b = 10000 /\ s = 0
  BY <1>2, <1>4
<1>6. RoundInt(n, d) = 10000
  BY <1>2, <1>5 DEF RoundInt
<1> QED
  BY <1>6 DEF n

\* The share of an amount.
Share(amount, points) == (amount * points) \div 10000

\* A share grows with the points and is at most the amount.
LEMMA ShareGrows ==
    ASSUME NEW amount \in Nat, NEW p \in Nat, NEW q \in Nat, p <= q, q <= 10000
    PROVE  /\ Share(amount, p) \in Nat /\ Share(amount, q) \in Nat
           /\ Share(amount, p) <= Share(amount, q) /\ Share(amount, q) <= amount
<1>1. /\ amount * p \in Nat /\ amount * q \in Nat /\ amount * p <= amount * q
      /\ amount * q <= amount * 10000
  OBVIOUS
<1>2. PICK a \in Nat, r \in Nat : /\ a = Share(amount, p) /\ r < 10000
                                  /\ amount * p = 10000 * a + r
  BY <1>1, Division DEF Share
<1>3. PICK b \in Nat, s \in Nat : /\ b = Share(amount, q) /\ s < 10000
                                  /\ amount * q = 10000 * b + s
  BY <1>1, Division DEF Share
<1>4. a <= b
  BY <1>1, <1>2, <1>3
<1>5. b <= amount
  BY <1>1, <1>3
<1> QED
  BY <1>2, <1>3, <1>4, <1>5

\* The basis points that are left some time after the decay has begun.
Points(params, elapsed) ==
    RoundInt(10000 * (params.ofDecay - (elapsed - params.untilDecay)), params.ofDecay)

\* The points fall with time, from 10000 at most.
LEMMA PointsFall ==
    ASSUME NEW params \in ParamValues, NEW s \in Nat, NEW t \in Nat, s <= t,
           params.untilDecay < s, t <= params.untilDecay + params.ofDecay
    PROVE  /\ Points(params, s) \in Nat /\ Points(params, t) \in Nat
           /\ Points(params, t) <= Points(params, s) /\ Points(params, s) <= 10000
<1>1. PICK u \in Nat, d \in Nat \ {0} : u = params.untilDecay /\ d = params.ofDecay
  BY DEF ParamValues
<1>2. PICK x \in Nat, y \in Nat : x = d - (t - u) /\ y = d - (s - u) /\ x <= y /\ y <= d
  BY <1>1
<1>3. 10000 * x \in Nat /\ 10000 * y \in Nat /\ 10000 * d \in Nat
      /\ 10000 * x <= 10000 * y /\ 10000 * y <= 10000 * d
  BY <1>2
<1>4. /\ RoundInt(10000 * x, d) \in Nat /\ RoundInt(10000 * y, d) \in Nat
      /\ RoundInt(10000 * x, d) <= RoundInt(10000 * y, d)
  BY <1>3, RoundGrows
<1>5. RoundInt(10000 * y, d) <= RoundInt(10000 * d, d)
  BY <1>3, RoundGrows
<1>6. RoundInt(10000 * d, d) = 10000
  BY RoundWhole
<1> QED
  BY <1>1, <1>2, <1>4, <1>5, <1>6 DEF Points

\* What can be claimed from an amount at a time, with given parameters.
ClaimableAt(params, t, amount) ==
    IF t - AirdropStartTime < 0 \/ amount = 0 THEN 0
    ELSE IF t - AirdropStartTime <= params.untilDecay THEN amount
    ELSE IF t - AirdropStartTime > params.untilDecay + params.ofDecay THEN ErrAirdropEnded
    ELSE Share(amount, Points(params, t - AirdropStartTime))

\* GetClaimableAmountForAction reads the amount, the time and the parameters.
LEMMA ClaimableIs ==
    ASSUME NEW record, NEW action, durations \in ParamValues, time \in Nat
    PROVE  GetClaimableAmountForAction(record, action)
             = ClaimableAt(durations, time, record.amount[action])
<1>1. durations.untilDecay \in Nat /\ durations.ofDecay \in Nat
  BY DEF ParamValues
<1> QED
  BY <1>1, AirdropAssumptions
     DEF GetClaimableAmountForAction, ClaimableAt, DecayedAmount, Share, Points

\* What can be claimed is the error after the end or at most the amount, all
\* of it before the decay and nothing after the end.
LEMMA ClaimableBounds ==
    ASSUME NEW params \in ParamValues, NEW t \in Nat, NEW amount \in Nat,
           NEW c, c = ClaimableAt(params, t, amount), c # ErrAirdropEnded
    PROVE  /\ c \in Nat /\ c <= amount
           /\ t > EndTime(params) => c = 0
           /\ AirdropStartTime <= t /\ t <= AirdropStartTime + params.untilDecay => c = amount
           /\ t < AirdropStartTime => c = 0
<1>1. params.untilDecay \in Nat /\ params.ofDecay \in Nat \ {0} /\ AirdropStartTime \in Nat
  BY AirdropAssumptions DEF ParamValues
<1>2. ASSUME t - AirdropStartTime > params.untilDecay,
             t - AirdropStartTime <= params.untilDecay + params.ofDecay
      PROVE  LET share == Share(amount, Points(params, t - AirdropStartTime))
             IN  share \in Nat /\ share <= amount
  <2>1. t - AirdropStartTime \in Nat
    BY <1>1, <1>2
  <2>2. PICK p \in Nat : p = Points(params, t - AirdropStartTime) /\ p <= 10000
    BY <1>2, <2>1, PointsFall
  <2> QED
    BY <2>2, ShareGrows
<1> QED
  BY <1>1, <1>2 DEF ClaimableAt, ErrAirdropEnded, EndTime

\* From the start on, what can be claimed falls with time.
LEMMA ClaimableFalls ==
    ASSUME NEW params \in ParamValues, NEW s \in Nat, NEW t \in Nat, NEW amount \in Nat,
           AirdropStartTime <= s, s <= t
    PROVE  ClaimableAt(params, t, amount) <= ClaimableAt(params, s, amount)
<1>1. params.untilDecay \in Nat /\ params.ofDecay \in Nat \ {0} /\ AirdropStartTime \in Nat
  BY AirdropAssumptions DEF ParamValues
<1>2. PICK x \in Nat, y \in Nat : /\ x = s - AirdropStartTime /\ y = t - AirdropStartTime
                                  /\ x <= y
  BY <1>1
<1>3. CASE amount = 0
  BY <1>3 DEF ClaimableAt
<1>4. CASE amount # 0 /\ y > params.untilDecay + params.ofDecay
  <2>1. ClaimableAt(params, t, amount) = -1
    BY <1>1, <1>2, <1>4 DEF ClaimableAt, ErrAirdropEnded
  <2>2. ClaimableAt(params, s, amount) # -1 => ClaimableAt(params, s, amount) \in Nat
    BY ClaimableBounds DEF ErrAirdropEnded
  <2> QED
    BY <2>1, <2>2
<1>5. CASE amount # 0 /\ y <= params.untilDecay
  BY <1>1, <1>2, <1>5 DEF ClaimableAt
<1>6. CASE /\ amount # 0 /\ y > params.untilDecay /\ y <= params.untilDecay + params.ofDecay
           /\ x > params.untilDecay
  <2>1. PICK p \in Nat, q \in Nat : /\ p = Points(params, y) /\ q = Points(params, x)
                                    /\ p <= q /\ q <= 10000
    BY <1>2, <1>6, PointsFall
  <2>2. Share(amount, p) <= Share(amount, q)
    BY <2>1, ShareGrows
  <2> QED
    BY <1>1, <1>2, <1>6, <2>1, <2>2 DEF ClaimableAt
<1>7. CASE /\ amount # 0 /\ y > params.untilDecay /\ y <= params.untilDecay + params.ofDecay
           /\ x <= params.untilDecay
  <2>1. PICK p \in Nat : p = Points(params, y) /\ p <= 10000
    BY <1>7, PointsFall
  <2>2. Share(amount, p) <= amount
    BY <2>1, ShareGrows
  <2> QED
    BY <1>1, <1>2, <1>7, <2>1, <2>2 DEF ClaimableAt
<1> QED
  BY <1>1, <1>2, <1>3, <1>4, <1>5, <1>6, <1>7

-----------------------------------------------------------------------------
(* Sums *)

\* The lemmas about sums, which the rest needs.
INSTANCE SumTheorems

\* The context of the leaves below is large: give the provers time to read it.
USE SMTT(30), ZenonT(30)

-----------------------------------------------------------------------------
(* The airdrop: records and what they promise *)

\* There are three actions.
LEMMA ActionsFinite == IsFiniteSet(Actions)
<1>1. IsFiniteSet({"claim"})
  BY FS_Singleton
<1>2. IsFiniteSet({"claim"} \cup {"vote"})
  BY <1>1, FS_AddElement
<1>3. IsFiniteSet(({"claim"} \cup {"vote"}) \cup {"delegate"})
  BY <1>2, FS_AddElement
<1>4. Actions = ({"claim"} \cup {"vote"}) \cup {"delegate"}
  BY DEF Actions
<1> QED
  BY <1>3, <1>4

\* What records promise is a natural number.
LEMMA PromisedNat ==
    ASSUME NEW S, IsFiniteSet(S), NEW given \in [S -> ClaimRecords], NEW action \in Actions
    PROVE  Promised(given, S, action) \in Nat
<1> DEFINE f == [s \in S |-> given[s].amount[action]]
<1>1. \A s \in S : f[s] \in Nat
  BY DEF ClaimRecords
<1> HIDE DEF f
<1>2. SumFunctionOnSet(f, S) \in Nat
  BY <1>1, SumNat
<1> QED
  BY <1>2 DEF f, Promised

\* A record that is replaced changes the promise by the difference.
LEMMA PromisedUpdate ==
    ASSUME NEW S, IsFiniteSet(S), NEW given \in [S -> ClaimRecords],
           NEW after \in [S -> ClaimRecords], NEW action \in Actions,
           NEW e \in S, \A s \in S \ {e} : after[s] = given[s]
    PROVE  Promised(after, S, action)
             = Promised(given, S, action) + after[e].amount[action] - given[e].amount[action]
<1> DEFINE f == [s \in S |-> given[s].amount[action]]
           g == [s \in S |-> after[s].amount[action]]
<1>1. /\ \A s \in S : f[s] \in Int /\ g[s] \in Int
      /\ f[e] = given[e].amount[action] /\ g[e] = after[e].amount[action]
      /\ \A s \in S \ {e} : f[s] = g[s]
  BY DEF ClaimRecords
<1>2. Promised(given, S, action) = SumFunctionOnSet(f, S)
      /\ Promised(after, S, action) = SumFunctionOnSet(g, S)
  BY DEF Promised
<1> HIDE DEF f, g
<1>3. SumFunctionOnSet(g, S) = SumFunctionOnSet(f, S) + g[e] - f[e]
  BY <1>1, SumUpdate
<1> QED
  BY <1>1, <1>2, <1>3

\* The records after and given of the addresses S differ at e at most.
OneReplaced(after, given, S, e) ==
    /\ IsFiniteSet(S) /\ e \in S
    /\ given \in [S -> ClaimRecords] /\ after \in [S -> ClaimRecords]
    /\ \A s \in S \ {e} : after[s] = given[s]

\* The same of all actions at once.
LEMMA PromisedReplaced ==
    ASSUME NEW after, NEW given, NEW S, NEW e, OneReplaced(after, given, S, e)
    PROVE  \A x \in Actions : Promised(after, S, x)
             = Promised(given, S, x) + after[e].amount[x] - given[e].amount[x]
BY PromisedUpdate DEF OneReplaced

\* A record with other coins is a record.
LEMMA ChangedRecord ==
    ASSUME NEW r \in ClaimRecords, NEW p \in [Actions -> Nat], NEW d \in SUBSET Actions
    PROVE  [r EXCEPT !.amount = p, !.denom = d] \in ClaimRecords
BY ZenonT(60) DEF ClaimRecords

\* Completing actions leaves nothing for them and keeps the others.
LEMMA CompletedRecord ==
    ASSUME NEW r \in ClaimRecords, NEW done \in SUBSET Actions
    PROVE  /\ SetCompleted(r, done) \in ClaimRecords
           /\ \A x \in Actions : SetCompleted(r, done).amount[x]
                                   = IF x \in done THEN 0 ELSE r.amount[x]
<1>1. /\ [x \in Actions |-> IF x \in done THEN 0 ELSE r.amount[x]] \in [Actions -> Nat]
      /\ r.denom \ done \in SUBSET Actions
  BY DEF ClaimRecords
<1>2. SetCompleted(r, done) \in ClaimRecords
  BY <1>1, ChangedRecord, ZenonT(60) DEF SetCompleted
<1>3. \A x \in Actions : SetCompleted(r, done).amount[x]
                           = IF x \in done THEN 0 ELSE r.amount[x]
  BY DEF SetCompleted, ClaimRecords
<1> QED
  BY <1>2, <1>3

\* A merged record promises what the two records promise.
LEMMA MergedRecord ==
    ASSUME NEW a \in ClaimRecords, NEW b \in ClaimRecords
    PROVE  /\ MergeClaimRecords(a, Moved(b)) \in ClaimRecords
           /\ \A x \in Actions : MergeClaimRecords(a, Moved(b)).amount[x]
                                   = a.amount[x] + b.amount[x]
<1>m. Moved(b) \in ClaimRecords
  BY ZenonT(60) DEF Moved, ClaimRecords
<1>a. Moved(b).amount = b.amount
  BY DEF Moved, ClaimRecords
<1>1. PICK m \in ClaimRecords : m = Moved(b) /\ m.amount = b.amount
  BY <1>m, <1>a
<1>2. CASE IsEmpty(a)
  <2>1. MergeClaimRecords(a, m) = m
    BY <1>2 DEF MergeClaimRecords
  <2> QED
    BY <1>1, <1>2, <2>1 DEF IsEmpty, ClaimRecords
<1>3. CASE ~IsEmpty(a) /\ IsEmpty(m)
  <2>1. MergeClaimRecords(a, m) = a
    BY <1>3 DEF MergeClaimRecords
  <2> QED
    BY <1>1, <1>3, <2>1 DEF IsEmpty, ClaimRecords
<1>4. CASE ~IsEmpty(a) /\ ~IsEmpty(m)
  <2>1. MergeClaimRecords(a, m)
          = [a EXCEPT !.amount = [x \in Actions |-> @[x] + m.amount[x]],
                      !.denom  = @ \cup m.denom]
    BY <1>4 DEF MergeClaimRecords
  <2>2. PICK d \in SUBSET Actions : d = a.denom \cup m.denom
    BY ZenonT(60) DEF ClaimRecords
  <2>3. PICK p : p = [x \in Actions |-> a.amount[x] + m.amount[x]]
    BY ZenonT(60)
  <2>4. PICK r : r = [a EXCEPT !.amount = p, !.denom = d]
    BY ZenonT(60)
  <2>5. p \in [Actions -> Nat]
    BY <2>3 DEF ClaimRecords
  <2>6. r \in ClaimRecords
    BY <2>4, <2>5, ChangedRecord, ZenonT(60)
  <2>7. r.amount = p
    BY <2>4 DEF ClaimRecords
  <2>8. r = MergeClaimRecords(a, m)
    BY <2>1, <2>2, <2>3, <2>4, ZenonT(60)
  <2> QED
    BY <1>1, <2>3, <2>6, <2>7, <2>8
<1> QED
  BY <1>1, <1>2, <1>3, <1>4

-----------------------------------------------------------------------------
(* The airdrop: the steps *)

\* A step that pays: one action of one record is completed and at most its
\* amount is paid, all of it before the decay and nothing after the end.
Pays(action) ==
    \E amount, full \in Nat :
        /\ amount <= full /\ amount <= claimModule
        /\ amount = 0 => full = 0
        /\ AfterEnd => full = 0
        /\ time <= AirdropStartTime + durations.untilDecay => amount = full
        /\ claimModule' = claimModule - amount
        /\ paid' = [paid EXCEPT ![action] = @ + amount]
        /\ records' \in [Addresses -> ClaimRecords]
        /\ ethRecords' \in [EthAddresses -> ClaimRecords]
        /\ Outstanding(action)' = Outstanding(action) - full
        /\ \A x \in Actions \ {action} : Outstanding(x)' = Outstanding(x)
        /\ UNCHANGED <<reserve, durations, keys, time, swept>>

\* The parameters are values of the two kinds.
LEMMA TypedParams ==
    ASSUME AirdropTypeOK
    PROVE  /\ durations \in ParamValues /\ time \in Nat
           /\ durations.untilDecay \in Nat /\ durations.ofDecay \in Nat \ {0}
           /\ IsFiniteSet(Addresses) /\ IsFiniteSet(EthAddresses)
<1>1. durations \in ParamValues /\ time \in Nat
  BY AirdropAssumptions DEF AirdropTypeOK
<1> QED
  BY <1>1, AirdropAssumptions DEF ParamValues

\* ClaimCoinsForAction pays from the records it is given.
LEMMA ClaimPays ==
    ASSUME AirdropTypeOK, NEW given \in [Addresses -> ClaimRecords],
           NEW address \in Addresses, NEW action \in Actions,
           ClaimCoinsForAction(given, address, action),
           ethRecords' \in [EthAddresses -> ClaimRecords],
           \A x \in Actions : Promised(given, Addresses, x)
                                + Promised(ethRecords', EthAddresses, x) = Outstanding(x)
    PROVE  Pays(action)
<1>1. PICK amount : amount = GetClaimableAmountForAction(given[address], action)
  OBVIOUS
<1>2. /\ amount # ErrAirdropEnded /\ amount <= claimModule
      /\ claimModule' = claimModule - amount
      /\ paid' = [paid EXCEPT ![action] = @ + amount]
      /\ records' = [given EXCEPT ![address] = Completed(given[address], action, amount)]
      /\ UNCHANGED <<reserve, durations, keys, time, swept>>
  BY <1>1 DEF ClaimCoinsForAction
<1>3. PICK r \in ClaimRecords : r = given[address]
  OBVIOUS
<1>4. PICK owed \in Nat : owed = r.amount[action]
  BY DEF ClaimRecords
<1>5. amount = ClaimableAt(durations, time, owed)
  BY <1>1, <1>3, <1>4, ClaimableIs, TypedParams
<1>6. /\ amount \in Nat /\ amount <= owed
      /\ AfterEnd => amount = 0
      /\ AirdropStartTime <= time /\ time <= AirdropStartTime + durations.untilDecay
           => amount = owed
      /\ time < AirdropStartTime => amount = 0
  BY <1>2, <1>5, ClaimableBounds, TypedParams DEF AfterEnd
<1>7. PICK c \in ClaimRecords : c = Completed(r, action, amount)
                                /\ \A x \in Actions : c.amount[x] =
                                     IF amount # 0 /\ x = action THEN 0 ELSE r.amount[x]
  BY CompletedRecord DEF Completed
<1>8. /\ records' \in [Addresses -> ClaimRecords]
      /\ \A x \in Actions : Promised(records', Addresses, x)
           = Promised(given, Addresses, x) + c.amount[x] - r.amount[x]
  <2>1. records' = [given EXCEPT ![address] = c]
    BY <1>2, <1>3, <1>7
  <2>2. IsFiniteSet(Addresses)
    BY TypedParams
  <2>3. /\ records' \in [Addresses -> ClaimRecords] /\ records'[address] = c
        /\ \A s \in Addresses \ {address} : records'[s] = given[s]
    BY <2>1
  <2>4. \A x \in Actions : Promised(records', Addresses, x)
           = Promised(given, Addresses, x) + records'[address].amount[x] - given[address].amount[x]
    <3>1. OneReplaced(records', given, Addresses, address)
      BY <2>2, <2>3, ZenonT(60) DEF OneReplaced
    <3> QED
      BY <3>1, PromisedReplaced
  <2> QED
    BY <1>3, <2>3, <2>4
<1>9. \A x \in Actions : /\ Promised(given, Addresses, x) \in Nat
                         /\ Promised(ethRecords', EthAddresses, x) \in Nat
                         /\ r.amount[x] \in Nat
  BY PromisedNat, TypedParams DEF ClaimRecords
<1>10. \A x \in Actions : Outstanding(x)' = Outstanding(x) + c.amount[x] - r.amount[x]
  <2> SUFFICES ASSUME NEW x \in Actions
               PROVE  Outstanding(x)' = Outstanding(x) + c.amount[x] - r.amount[x]
    OBVIOUS
  <2>1. Outstanding(x)' = Promised(records', Addresses, x) + Promised(ethRecords', EthAddresses, x)
    BY DEF Outstanding, Promised
  <2>2. c.amount[x] \in Nat
    BY <1>7 DEF ClaimRecords
  <2> QED
    BY <1>8, <1>9, <2>1, <2>2
<1> DEFINE full == IF amount = 0 THEN 0 ELSE owed
<1>11. full \in Nat /\ c.amount[action] - r.amount[action] = -full
  BY <1>4, <1>6, <1>7
<1>12. \A x \in Actions : Outstanding(x) \in Int
  BY <1>9
<1>13. /\ Outstanding(action)' = Outstanding(action) - full
       /\ \A x \in Actions \ {action} : Outstanding(x)' = Outstanding(x)
  BY <1>4, <1>7, <1>9, <1>10, <1>11, <1>12
<1>14. /\ amount <= full /\ amount <= claimModule /\ (amount = 0 => full = 0)
       /\ (AfterEnd => full = 0)
       /\ (time <= AirdropStartTime + durations.untilDecay => amount = full)
  BY <1>2, <1>6, TypedParams, AirdropAssumptions
<1> HIDE DEF full
<1> QED
  BY <1>2, <1>6, <1>8, <1>11, <1>13, <1>14, ZenonT(60) DEF Pays

\* The records as they are promise what is outstanding.
LEMMA RecordsAsTheyAre ==
    ASSUME UNCHANGED ethRecords
    PROVE  \A x \in Actions : Promised(records, Addresses, x)
                                + Promised(ethRecords', EthAddresses, x) = Outstanding(x)
BY DEF Outstanding

\* MsgClaimEth pays from the merged record.
LEMMA ClaimEthPays ==
    ASSUME AirdropTypeOK, NEW e \in EthAddresses, NEW a \in Addresses, ClaimEth(e, a)
    PROVE  Pays("claim")
<1>1. PICK eth \in ClaimRecords, r \in ClaimRecords : eth = ethRecords[e] /\ r = records[a]
  BY DEF AirdropTypeOK
<1>2. PICK m \in ClaimRecords : /\ m = MergeClaimRecords(r, Moved(eth))
                                /\ \A x \in Actions : m.amount[x] = r.amount[x] + eth.amount[x]
  BY MergedRecord
<1>3. PICK c \in ClaimRecords : /\ c = SetCompleted(eth, Actions)
                                /\ \A x \in Actions : c.amount[x] = 0
  BY CompletedRecord
<1>4. PICK given : given = [records EXCEPT ![a] = m]
  BY ZenonT(60)
<1>5. /\ ethRecords' = [ethRecords EXCEPT ![e] = c]
      /\ ClaimCoinsForAction(given, a, "claim")
  BY <1>1, <1>2, <1>3, <1>4 DEF ClaimEth
<1>6. /\ IsFiniteSet(Addresses) /\ IsFiniteSet(EthAddresses) /\ "claim" \in Actions
      /\ records \in [Addresses -> ClaimRecords]
      /\ ethRecords \in [EthAddresses -> ClaimRecords]
  BY TypedParams DEF AirdropTypeOK, Actions
<1>7. /\ given \in [Addresses -> ClaimRecords]
      /\ \A x \in Actions : Promised(given, Addresses, x)
           = Promised(records, Addresses, x) + m.amount[x] - records[a].amount[x]
  <2>1. /\ given \in [Addresses -> ClaimRecords] /\ given[a] = m
        /\ \A s \in Addresses \ {a} : given[s] = records[s]
    BY <1>4, <1>6
  <2>2. \A x \in Actions : Promised(given, Addresses, x)
           = Promised(records, Addresses, x) + given[a].amount[x] - records[a].amount[x]
    <3>1. OneReplaced(given, records, Addresses, a)
      BY <1>6, <2>1, ZenonT(60) DEF OneReplaced
    <3> QED
      BY <3>1, PromisedReplaced
  <2> QED
    BY <2>1, <2>2
<1>8. /\ ethRecords' \in [EthAddresses -> ClaimRecords]
      /\ \A x \in Actions : Promised(ethRecords', EthAddresses, x)
           = Promised(ethRecords, EthAddresses, x) + c.amount[x] - ethRecords[e].amount[x]
  <2>1. /\ ethRecords' \in [EthAddresses -> ClaimRecords] /\ ethRecords'[e] = c
        /\ \A s \in EthAddresses \ {e} : ethRecords'[s] = ethRecords[s]
    BY <1>5, <1>6
  <2>2. \A x \in Actions : Promised(ethRecords', EthAddresses, x)
           = Promised(ethRecords, EthAddresses, x) + ethRecords'[e].amount[x] - ethRecords[e].amount[x]
    <3>1. OneReplaced(ethRecords', ethRecords, EthAddresses, e)
      BY <1>6, <2>1, ZenonT(60) DEF OneReplaced
    <3> QED
      BY <3>1, PromisedReplaced
  <2> QED
    BY <2>1, <2>2
<1>9. \A x \in Actions : /\ Promised(records, Addresses, x) \in Nat
                         /\ Promised(ethRecords, EthAddresses, x) \in Nat
                         /\ r.amount[x] \in Nat /\ eth.amount[x] \in Nat
  BY <1>6, PromisedNat DEF ClaimRecords
<1>10. \A x \in Actions : Promised(given, Addresses, x)
                            + Promised(ethRecords', EthAddresses, x) = Outstanding(x)
  <2> SUFFICES ASSUME NEW x \in Actions
               PROVE  Promised(given, Addresses, x)
                        + Promised(ethRecords', EthAddresses, x) = Outstanding(x)
    OBVIOUS
  <2>1. PICK p, q, f, g : /\ p = Promised(records, Addresses, x)
                          /\ q = Promised(ethRecords, EthAddresses, x)
                          /\ f = r.amount[x] /\ g = eth.amount[x]
    BY ZenonT(60)
  <2>2. p \in Nat /\ q \in Nat /\ f \in Nat /\ g \in Nat
    BY <1>9, <2>1, ZenonT(60)
  <2>3. Promised(given, Addresses, x) = p + (f + g) - f
    BY <1>1, <1>2, <1>7, <2>1, ZenonT(60)
  <2>4. Promised(ethRecords', EthAddresses, x) = q + 0 - g
    BY <1>1, <1>3, <1>8, <2>1, ZenonT(60)
  <2>5. p + (f + g) - f + (q + 0 - g) = p + q
    BY <2>2
  <2> QED
    BY <2>1, <2>3, <2>4, <2>5, ZenonT(60) DEF Outstanding
<1> QED
  BY <1>5, <1>6, <1>7, <1>8, <1>10, ClaimPays, ZenonT(60)

\* MsgTransferClaim pays from the merged record, whoever the receiver is.
LEMMA TransferPays ==
    ASSUME AirdropTypeOK, NEW a \in Addresses, NEW b \in Addresses, TransferClaim(a, b)
    PROVE  Pays("claim")
<1>1. PICK original \in ClaimRecords : original = records[a]
  BY DEF AirdropTypeOK
<1>2. PICK c \in ClaimRecords : /\ c = SetCompleted(original, Actions)
                                /\ \A x \in Actions : c.amount[x] = 0
  BY CompletedRecord
<1>3. /\ IsFiniteSet(Addresses) /\ IsFiniteSet(EthAddresses) /\ "claim" \in Actions
      /\ records \in [Addresses -> ClaimRecords]
      /\ ethRecords \in [EthAddresses -> ClaimRecords]
  BY TypedParams DEF AirdropTypeOK, Actions
<1>4. PICK completed : completed = [records EXCEPT ![a] = c]
  BY ZenonT(60)
<1>5. /\ completed \in [Addresses -> ClaimRecords]
      /\ \A x \in Actions : Promised(completed, Addresses, x)
           = Promised(records, Addresses, x) + c.amount[x] - records[a].amount[x]
  <2>1. /\ completed \in [Addresses -> ClaimRecords] /\ completed[a] = c
        /\ \A s \in Addresses \ {a} : completed[s] = records[s]
    BY <1>3, <1>4
  <2>2. \A x \in Actions : Promised(completed, Addresses, x)
           = Promised(records, Addresses, x) + completed[a].amount[x] - records[a].amount[x]
    <3>1. OneReplaced(completed, records, Addresses, a)
      BY <1>3, <2>1, ZenonT(60) DEF OneReplaced
    <3> QED
      BY <3>1, PromisedReplaced
  <2> QED
    BY <2>1, <2>2
<1>6. PICK r \in ClaimRecords : r = completed[b]
  BY <1>5
<1>7. PICK m \in ClaimRecords : /\ m = MergeClaimRecords(r, Moved(original))
                                /\ \A x \in Actions : m.amount[x] = r.amount[x] + original.amount[x]
  BY MergedRecord
<1>8. PICK given : given = [completed EXCEPT ![b] = m]
  BY ZenonT(60)
<1>9. /\ ethRecords' = ethRecords
      /\ ClaimCoinsForAction(given, b, "claim")
  BY <1>1, <1>2, <1>4, <1>6, <1>7, <1>8 DEF TransferClaim
<1>10. /\ given \in [Addresses -> ClaimRecords]
       /\ \A x \in Actions : Promised(given, Addresses, x)
            = Promised(completed, Addresses, x) + m.amount[x] - completed[b].amount[x]
  <2>1. /\ given \in [Addresses -> ClaimRecords] /\ given[b] = m
        /\ \A s \in Addresses \ {b} : given[s] = completed[s]
    BY <1>3, <1>5, <1>8
  <2>2. \A x \in Actions : Promised(given, Addresses, x)
           = Promised(completed, Addresses, x) + given[b].amount[x] - completed[b].amount[x]
    <3>1. OneReplaced(given, completed, Addresses, b)
      BY <1>3, <1>5, <2>1, ZenonT(60) DEF OneReplaced
    <3> QED
      BY <3>1, PromisedReplaced
  <2> QED
    BY <2>1, <2>2
<1>11. \A x \in Actions : /\ Promised(records, Addresses, x) \in Nat
                          /\ Promised(ethRecords, EthAddresses, x) \in Nat
                          /\ r.amount[x] \in Nat /\ original.amount[x] \in Nat
  BY <1>3, PromisedNat DEF ClaimRecords
<1>12. \A x \in Actions : Promised(given, Addresses, x)
                            + Promised(ethRecords', EthAddresses, x) = Outstanding(x)
  <2> SUFFICES ASSUME NEW x \in Actions
               PROVE  Promised(given, Addresses, x)
                        + Promised(ethRecords', EthAddresses, x) = Outstanding(x)
    OBVIOUS
  <2>1. PICK p, q, f, g : /\ p = Promised(records, Addresses, x)
                          /\ q = Promised(ethRecords, EthAddresses, x)
                          /\ f = r.amount[x] /\ g = original.amount[x]
    BY ZenonT(60)
  <2>2. p \in Nat /\ q \in Nat /\ f \in Nat /\ g \in Nat
    BY <1>11, <2>1, ZenonT(60)
  <2>3. Promised(completed, Addresses, x) = p + 0 - g
    BY <1>1, <1>2, <1>5, <2>1, ZenonT(60)
  <2>4. Promised(given, Addresses, x) = p + 0 - g + (f + g) - f
    BY <1>6, <1>7, <1>10, <2>1, <2>3, ZenonT(60)
  <2>5. Promised(ethRecords', EthAddresses, x) = q
    BY <1>9, <2>1, ZenonT(60)
  <2>6. p + 0 - g + (f + g) - f + q = p + q
    BY <2>2
  <2> QED
    BY <2>1, <2>4, <2>5, <2>6, ZenonT(60) DEF Outstanding
<1>13. ethRecords' \in [EthAddresses -> ClaimRecords]
  BY <1>3, <1>9
<1> QED
  BY <1>3, <1>9, <1>10, <1>12, <1>13, ClaimPays, ZenonT(60)

\* MsgClaimThorchain moves what a record promises and pays nothing.
LEMMA ThorchainPays ==
    ASSUME AirdropTypeOK, NEW a \in Addresses, NEW b \in Addresses, ClaimThorchain(a, b)
    PROVE  Pays("claim")
<1>1. PICK from \in ClaimRecords, to \in ClaimRecords : from = records[a] /\ to = records[b]
  BY DEF AirdropTypeOK
<1>2. PICK p : p = [x \in Actions |-> to.amount[x] + from.amount[x]]
  BY ZenonT(60)
<1>3. PICK r : r = [to EXCEPT !.amount = p, !.denom = Actions]
  BY ZenonT(60)
<1>4. p \in [Actions -> Nat] /\ Actions \in SUBSET Actions
  BY <1>2 DEF ClaimRecords
<1>5. r \in ClaimRecords
  BY <1>3, <1>4, ChangedRecord, ZenonT(60)
<1>6. r.amount = p
  BY <1>3 DEF ClaimRecords
<1>7. PICK z : z = [amount |-> [action \in Actions |-> 0], denom |-> Actions,
                    transferable |-> FALSE]
  BY ZenonT(60)
<1>8. z \in ClaimRecords /\ \A x \in Actions : z.amount[x] = 0
  BY <1>7 DEF ClaimRecords
<1>9. PICK middle : middle = [records EXCEPT ![b] = r]
  BY ZenonT(60)
<1>10. /\ a # b /\ records' = [middle EXCEPT ![a] = z]
       /\ UNCHANGED <<ethRecords, claimModule, reserve, durations, keys, time, paid, swept>>
  BY <1>1, <1>2, <1>3, <1>7, <1>9, ZenonT(60) DEF ClaimThorchain
<1>11. /\ IsFiniteSet(Addresses) /\ IsFiniteSet(EthAddresses) /\ "claim" \in Actions
       /\ records \in [Addresses -> ClaimRecords]
       /\ ethRecords \in [EthAddresses -> ClaimRecords]
       /\ claimModule \in Nat /\ paid \in [Actions -> Nat]
  BY TypedParams DEF AirdropTypeOK, Actions
<1>12. /\ middle \in [Addresses -> ClaimRecords] /\ middle[b] = r
       /\ \A s \in Addresses \ {b} : middle[s] = records[s]
  BY <1>5, <1>9, <1>11
<1>13. /\ records' \in [Addresses -> ClaimRecords] /\ records'[a] = z
       /\ \A s \in Addresses \ {a} : records'[s] = middle[s]
  BY <1>8, <1>10, <1>12, ZenonT(60)
<1>14. \A x \in Actions : Promised(middle, Addresses, x)
           = Promised(records, Addresses, x) + middle[b].amount[x] - records[b].amount[x]
  <2>1. OneReplaced(middle, records, Addresses, b)
    BY <1>11, <1>12, ZenonT(60) DEF OneReplaced
  <2> QED
    BY <2>1, PromisedReplaced
<1>15. \A x \in Actions : Promised(records', Addresses, x)
           = Promised(middle, Addresses, x) + records'[a].amount[x] - middle[a].amount[x]
  <2>1. OneReplaced(records', middle, Addresses, a)
    BY <1>11, <1>12, <1>13, ZenonT(60) DEF OneReplaced
  <2> QED
    BY <2>1, PromisedReplaced
<1>16. \A x \in Actions : /\ Promised(records, Addresses, x) \in Nat
                          /\ Promised(ethRecords, EthAddresses, x) \in Nat
                          /\ from.amount[x] \in Nat /\ to.amount[x] \in Nat
  BY <1>11, PromisedNat DEF ClaimRecords
<1>17. \A x \in Actions : Promised(records', Addresses, x) = Promised(records, Addresses, x)
  <2> SUFFICES ASSUME NEW x \in Actions
               PROVE  Promised(records', Addresses, x) = Promised(records, Addresses, x)
    OBVIOUS
  <2>1. middle[b].amount[x] = to.amount[x] + from.amount[x] /\ records[b].amount[x] = to.amount[x]
    BY <1>1, <1>2, <1>6, <1>12
  <2>2. records'[a].amount[x] = 0 /\ middle[a].amount[x] = from.amount[x]
    BY <1>1, <1>8, <1>10, <1>12, <1>13
  <2> QED
    <3>1. PICK p0, p1, p2, f, g : /\ p0 = Promised(records, Addresses, x)
                                  /\ p1 = Promised(middle, Addresses, x)
                                  /\ p2 = Promised(records', Addresses, x)
                                  /\ f = from.amount[x] /\ g = to.amount[x]
      BY ZenonT(60)
    <3>2. p0 \in Nat /\ f \in Nat /\ g \in Nat
      BY <1>16, <3>1, ZenonT(60)
    <3>3. p1 = p0 + (g + f) - g /\ p2 = p1 + 0 - f
      BY <1>14, <1>15, <2>1, <2>2, <3>1, ZenonT(60)
    <3>4. p2 = p0
      BY <3>2, <3>3
    <3> QED
      BY <3>1, <3>4, ZenonT(60)
<1>18. \A x \in Actions : /\ Outstanding(x) \in Nat
                          /\ Outstanding(x)' = Outstanding(x)
  <2> SUFFICES ASSUME NEW x \in Actions
               PROVE  Outstanding(x) \in Nat /\ Outstanding(x)' = Outstanding(x)
    OBVIOUS
  <2>1. Outstanding(x)' = Promised(records', Addresses, x) + Promised(ethRecords', EthAddresses, x)
    BY DEF Outstanding, Promised
  <2>2. ethRecords' = ethRecords
    BY <1>10
  <2> QED
    <3>1. Outstanding(x)' = Outstanding(x)
      BY <1>17, <2>1, <2>2, ZenonT(60) DEF Outstanding
    <3>2. Outstanding(x) \in Nat
      BY <1>16 DEF Outstanding
    <3> QED
      BY <3>1, <3>2
<1>19. paid' = [paid EXCEPT !["claim"] = @ + 0] /\ claimModule' = claimModule - 0
  BY <1>10, <1>11
<1>20. ethRecords' \in [EthAddresses -> ClaimRecords]
  BY <1>10, <1>11
<1>21. 0 \in Nat /\ 0 <= claimModule /\ 0 <= 0
       /\ \A x \in Actions : Outstanding(x)' = Outstanding(x) - 0
  BY <1>11, <1>18
<1> QED
  BY <1>10, <1>11, <1>13, <1>18, <1>19, <1>20, <1>21, ZenonT(60) DEF Pays

\* A step pays, ends a block, or is the upgrade.
LEMMA StepKinds ==
    ASSUME AirdropTypeOK, [Next]_vars
    PROVE  \/ \E action \in Actions : Pays(action)
           \/ EndBlocker
           \/ RunUpgradeClaimFix
           \/ UNCHANGED vars
<1>a. {"claim", "vote", "delegate"} \subseteq Actions
      /\ records \in [Addresses -> ClaimRecords] /\ ethRecords \in [EthAddresses -> ClaimRecords]
  BY DEF Actions, AirdropTypeOK
<1>0. ASSUME NEW a \in Addresses, NEW action \in Actions,
             ClaimCoinsForAction(records, a, action), UNCHANGED ethRecords
      PROVE  Pays(action)
  <2>1. ethRecords' \in [EthAddresses -> ClaimRecords]
    BY <1>0, <1>a
  <2> QED
    BY <1>0, <1>a, <2>1, RecordsAsTheyAre, ClaimPays, ZenonT(60)
<1>1. ASSUME NEW a \in Addresses, ClaimArkeo(a) PROVE Pays("claim")
  BY <1>0, <1>1, <1>a DEF ClaimArkeo
<1>2. ASSUME NEW a \in Addresses, AfterProposalVote(a) PROVE Pays("vote")
  BY <1>0, <1>2, <1>a DEF AfterProposalVote
<1>3. ASSUME NEW a \in Addresses, AfterDelegationModified(a) PROVE Pays("delegate")
  BY <1>0, <1>3, <1>a DEF AfterDelegationModified
<1> QED
  BY <1>1, <1>2, <1>3, <1>a, ClaimEthPays, TransferPays, ThorchainPays, ZenonT(60) DEF Next

-----------------------------------------------------------------------------
(* The airdrop: grants and funds *)

\* What the records still promise for all actions.
Due == SumFunctionOnSet([action \in Actions |-> Outstanding(action)], Actions)

\* What is outstanding is a natural number.
LEMMA OutstandingNat ==
    ASSUME AirdropTypeOK
    PROVE  \A x \in Actions : Outstanding(x) \in Nat
<1>1. \A x \in Actions : /\ Promised(records, Addresses, x) \in Nat
                         /\ Promised(ethRecords, EthAddresses, x) \in Nat
  BY PromisedNat, TypedParams DEF AirdropTypeOK
<1> QED
  BY <1>1 DEF Outstanding

\* A payment lowers what is due by the amount of the record.
LEMMA PaysDue ==
    ASSUME AirdropTypeOK, NEW action \in Actions, NEW full \in Nat,
           Outstanding(action)' = Outstanding(action) - full,
           \A x \in Actions \ {action} : Outstanding(x)' = Outstanding(x)
    PROVE  Due \in Int /\ Due' = Due - full
<1>1. PICK f, g : /\ f = [x \in Actions |-> Outstanding(x)]
                  /\ g = [x \in Actions |-> Outstanding(x)']
  BY ZenonT(60)
<1>2. /\ \A x \in Actions : f[x] \in Int /\ g[x] \in Int
      /\ \A x \in Actions \ {action} : f[x] = g[x]
      /\ g[action] = f[action] - full
  BY <1>1, OutstandingNat
<1>3. Due = SumFunctionOnSet(f, Actions) /\ Due' = SumFunctionOnSet(g, Actions)
  BY <1>1 DEF Due
<1>4. SumFunctionOnSet(g, Actions) = SumFunctionOnSet(f, Actions) + g[action] - f[action]
  BY <1>2, ActionsFinite, SumUpdate
<1>5. SumFunctionOnSet(f, Actions) \in Int
  BY <1>2, ActionsFinite, SumType
<1> QED
  BY <1>2, <1>3, <1>4, <1>5

\* The sweep takes at least what is due, and the upgrade reopens the airdrop
\* at most once.
SweepInv ==
    /\ "TransferTokens" \notin keys /\ "MoveClaimTokens" \in keys => swept >= Due
    /\ "TransferTokens" \in keys => "UpdateParams" \in keys
    /\ "TransferTokens" \notin keys /\ "MoveClaimTokens" \notin keys => swept = 0

AirdropInv == AirdropTypeOK /\ GrantsPaidOnce /\ RecordsFunded /\ SweepInv

\* What is due is a natural number.
LEMMA DueNat ==
    ASSUME AirdropTypeOK
    PROVE  Due \in Nat
<1> DEFINE f == [x \in Actions |-> Outstanding(x)]
<1>1. \A x \in Actions : f[x] \in Nat
  BY OutstandingNat
<1>2. Due = SumFunctionOnSet(f, Actions)
  BY DEF Due
<1> HIDE DEF f
<1> QED
  BY <1>1, <1>2, ActionsFinite, SumNat

\* It holds in the initial state.
LEMMA InitInv == Init => AirdropInv
<1> SUFFICES ASSUME Init PROVE AirdropInv
  OBVIOUS
<1>1. \A x \in Actions : Outstanding(x) = Granted(x)
  BY DEF Init, Outstanding, Granted
<1>2. claimModule = Due
  BY <1>1 DEF Init, Due
<1>3. \A x \in Actions : Outstanding(x) \in Nat
  <2>1. \A x \in Actions : /\ Promised(records, Addresses, x) \in Nat
                           /\ Promised(ethRecords, EthAddresses, x) \in Nat
    BY PromisedNat, AirdropAssumptions DEF Init
  <2> QED
    BY <2>1 DEF Outstanding
<1>4. Due \in Nat
  <2> DEFINE f == [x \in Actions |-> Outstanding(x)]
  <2>1. \A x \in Actions : f[x] \in Nat
    BY <1>3
  <2>2. Due = SumFunctionOnSet(f, Actions)
    BY DEF Due
  <2> HIDE DEF f
  <2> QED
    BY <2>1, <2>2, ActionsFinite, SumNat
<1>5. AirdropTypeOK
  BY <1>2, <1>4, AirdropAssumptions DEF AirdropTypeOK, Init
<1>6. GrantsPaidOnce
  BY <1>1, <1>3 DEF GrantsPaidOnce, Init
<1>7. RecordsFunded
  BY <1>2, <1>4 DEF RecordsFunded, Due
<1>8. SweepInv
  BY DEF SweepInv, Init
<1> QED
  BY <1>5, <1>6, <1>7, <1>8 DEF AirdropInv

\* What a genesis file grants is a natural number.
LEMMA GrantedNat == \A x \in Actions : Granted(x) \in Nat
<1>1. \A x \in Actions : /\ Promised(Genesis, Addresses, x) \in Nat
                         /\ Promised(EthGenesis, EthAddresses, x) \in Nat
  BY PromisedNat, AirdropAssumptions
<1> QED
  BY <1>1 DEF Granted

\* A payment keeps the invariant.
LEMMA PaysInv ==
    ASSUME AirdropInv, NEW action \in Actions, Pays(action)
    PROVE  AirdropInv'
<1>1. PICK amount \in Nat, full \in Nat :
        /\ amount <= full /\ amount <= claimModule
        /\ amount = 0 => full = 0
        /\ time <= AirdropStartTime + durations.untilDecay => amount = full
        /\ claimModule' = claimModule - amount
        /\ paid' = [paid EXCEPT ![action] = @ + amount]
        /\ records' \in [Addresses -> ClaimRecords]
        /\ ethRecords' \in [EthAddresses -> ClaimRecords]
        /\ Outstanding(action)' = Outstanding(action) - full
        /\ \A x \in Actions \ {action} : Outstanding(x)' = Outstanding(x)
        /\ reserve' = reserve /\ durations' = durations /\ keys' = keys
        /\ time' = time /\ swept' = swept
  BY ZenonT(60) DEF Pays
<1>2. AirdropTypeOK
  BY DEF AirdropInv
<1>3. AirdropTypeOK'
  BY <1>1, <1>2 DEF AirdropTypeOK
<1>4. Due \in Nat /\ Due' = Due - full
  BY <1>1, <1>2, DueNat, PaysDue
<1>5. RecordsFunded'
  <2>1. "MoveClaimTokens" \notin keys /\ swept <= MovedBack => claimModule >= Due
    BY DEF AirdropInv, RecordsFunded, Due
  <2>2. claimModule \in Nat
    BY <1>2 DEF AirdropTypeOK
  <2>3. "MoveClaimTokens" \notin keys' /\ swept' <= MovedBack => claimModule' >= Due'
    BY <1>1, <1>4, <2>1, <2>2
  <2> QED
    BY <2>3 DEF RecordsFunded, Due
<1>6. SweepInv'
  <2>1. swept \in Nat
    BY <1>2 DEF AirdropTypeOK
  <2> QED
    BY <1>1, <1>4, <2>1 DEF AirdropInv, SweepInv
<1>7. GrantsPaidOnce'
  <2> SUFFICES ASSUME NEW x \in Actions
               PROVE  /\ paid'[x] + Outstanding(x)' <= Granted(x)
                      /\ (\A params \in {Durations, FixedDurations} :
                            time' <= AirdropStartTime + params.untilDecay)
                           => paid'[x] + Outstanding(x)' = Granted(x)
    BY ZenonT(60) DEF GrantsPaidOnce, Granted, Promised
  <2>1. /\ paid[x] + Outstanding(x) <= Granted(x)
        /\ (\A params \in {Durations, FixedDurations} :
               time <= AirdropStartTime + params.untilDecay)
              => paid[x] + Outstanding(x) = Granted(x)
    BY DEF AirdropInv, GrantsPaidOnce
  <2>2. paid[x] \in Nat /\ Outstanding(x) \in Nat /\ Granted(x) \in Nat
    BY <1>2, OutstandingNat, GrantedNat DEF AirdropTypeOK
  <2>3. paid'[x] = IF x = action THEN paid[x] + amount ELSE paid[x]
    BY <1>1, <1>2 DEF AirdropTypeOK
  <2>4. Outstanding(x)' = IF x = action THEN Outstanding(x) - full ELSE Outstanding(x)
    BY <1>1
  <2>5. (\A params \in {Durations, FixedDurations} :
           time <= AirdropStartTime + params.untilDecay) => amount = full
    BY <1>1, <1>2 DEF AirdropTypeOK
  <2> QED
    BY <1>1, <2>1, <2>2, <2>3, <2>4, <2>5
<1> QED
  BY <1>3, <1>5, <1>6, <1>7 DEF AirdropInv

\* A step that leaves records and payments alone keeps what is outstanding.
LEMMA SameOutstanding ==
    ASSUME UNCHANGED <<records, ethRecords>>
    PROVE  /\ \A x \in Actions : Outstanding(x)' = Outstanding(x)
           /\ Due' = Due
<1>1. \A x : Outstanding(x)' = Outstanding(x)
  BY DEF Outstanding, Promised
<1>2. Due' = Due
  BY <1>1 DEF Due
<1> QED
  BY <1>1, <1>2

\* If time does not go back, grants stay accounted for.
LEMMA SameGrants ==
    ASSUME AirdropTypeOK, AirdropTypeOK', GrantsPaidOnce,
           UNCHANGED <<records, ethRecords, paid>>, time <= time'
    PROVE  GrantsPaidOnce'
<1> SUFFICES ASSUME NEW x \in Actions
             PROVE  /\ paid'[x] + Outstanding(x)' <= Granted(x)
                    /\ (\A params \in {Durations, FixedDurations} :
                          time' <= AirdropStartTime + params.untilDecay)
                         => paid'[x] + Outstanding(x)' = Granted(x)
  BY ZenonT(60) DEF GrantsPaidOnce, Granted, Promised
<1>1. Outstanding(x)' = Outstanding(x) /\ paid'[x] = paid[x]
  BY SameOutstanding
<1>2. \A params \in {Durations, FixedDurations} :
        time' <= AirdropStartTime + params.untilDecay
          => time <= AirdropStartTime + params.untilDecay
  <2>1. \A params \in {Durations, FixedDurations} : params.untilDecay \in Nat
    BY AirdropAssumptions DEF ParamValues
  <2>2. time \in Nat /\ time' \in Nat /\ AirdropStartTime \in Nat
    BY AirdropAssumptions DEF AirdropTypeOK
  <2> QED
    BY <2>1, <2>2
<1> QED
  BY <1>1, <1>2 DEF GrantsPaidOnce

\* The end of a block keeps the invariant: the first sweep takes at least what
\* is due.
LEMMA EndBlockInv ==
    ASSUME AirdropInv, EndBlocker
    PROVE  AirdropInv'
<1>1. AirdropTypeOK /\ RecordsFunded /\ SweepInv /\ GrantsPaidOnce
  BY DEF AirdropInv
<1>2. UNCHANGED <<records, ethRecords, durations, paid>> /\ time' \in NextTimes
  BY DEF EndBlocker
<1>3. time' \in 0 .. MaxTime /\ time <= time'
  BY <1>1, <1>2, AirdropAssumptions DEF AirdropTypeOK, NextTimes
<1>4. claimModule \in Nat /\ reserve \in Nat /\ swept \in Nat
      /\ keys \subseteq {"MoveClaimTokens", "UpdateParams", "TransferTokens"}
  BY <1>1 DEF AirdropTypeOK
<1>5. Due \in Nat /\ Due' = Due
  BY <1>1, <1>2, DueNat, SameOutstanding
<1>6. "MoveClaimTokens" \notin keys /\ swept <= MovedBack => claimModule >= Due
  BY <1>1 DEF RecordsFunded, Due
<1>7. CASE "MoveClaimTokens" \notin keys /\ AfterEnd
  <2>1. /\ claimModule' = 0 /\ reserve' = reserve + claimModule
        /\ keys' = keys \cup {"MoveClaimTokens"}
        /\ swept' = IF "TransferTokens" \in keys THEN swept ELSE claimModule
    BY <1>7 DEF EndBlocker
  <2>2. AirdropTypeOK'
    BY <1>1, <1>2, <1>3, <1>4, <2>1 DEF AirdropTypeOK
  <2>3. RecordsFunded'
    BY <2>1 DEF RecordsFunded
  <2>4. SweepInv'
    <3>1. "TransferTokens" \notin keys => claimModule >= Due
      BY <1>1, <1>6, <1>7, AirdropAssumptions DEF SweepInv
    <3> QED
      BY <1>1, <1>5, <2>1, <3>1 DEF SweepInv
  <2> QED
    BY <1>1, <1>2, <1>3, <2>2, <2>3, <2>4, SameGrants DEF AirdropInv
<1>8. CASE ~("MoveClaimTokens" \notin keys /\ AfterEnd)
  <2>1. UNCHANGED <<claimModule, reserve, keys, swept>>
    BY <1>8 DEF EndBlocker
  <2>2. AirdropTypeOK'
    BY <1>1, <1>2, <1>3, <2>1 DEF AirdropTypeOK
  <2>3. RecordsFunded'
    BY <1>5, <1>6, <2>1 DEF RecordsFunded, Due
  <2>4. SweepInv'
    BY <1>1, <1>5, <2>1 DEF SweepInv
  <2> QED
    BY <1>1, <1>2, <1>3, <2>2, <2>3, <2>4, SameGrants DEF AirdropInv
<1> QED
  BY <1>7, <1>8

\* The upgrade keeps the invariant: it moves coins back at most once.
LEMMA UpgradeInv ==
    ASSUME AirdropInv, RunUpgradeClaimFix
    PROVE  AirdropInv'
<1>1. AirdropTypeOK /\ RecordsFunded /\ SweepInv /\ GrantsPaidOnce
  BY DEF AirdropInv
<1>2. /\ UNCHANGED <<records, ethRecords, time, paid, swept>> /\ durations' = FixedDurations
      /\ "UpdateParams" \notin keys
  BY DEF RunUpgradeClaimFix
<1>3. claimModule \in Nat /\ reserve \in Nat /\ swept \in Nat /\ time \in Nat /\ MovedBack \in Nat
      /\ keys \subseteq {"MoveClaimTokens", "UpdateParams", "TransferTokens"}
  BY <1>1, AirdropAssumptions DEF AirdropTypeOK
<1>4. Due \in Nat /\ Due' = Due
  BY <1>1, <1>2, DueNat, SameOutstanding
<1>5. "MoveClaimTokens" \notin keys /\ swept <= MovedBack => claimModule >= Due
  BY <1>1 DEF RecordsFunded, Due
<1>6. "TransferTokens" \notin keys
  BY <1>1, <1>2 DEF SweepInv
<1>7. CASE CanMoveBack
  <2>1. /\ claimModule' = claimModule + MovedBack /\ reserve' = reserve - MovedBack
        /\ keys' = (keys \ {"MoveClaimTokens"}) \cup {"UpdateParams", "TransferTokens"}
        /\ reserve >= MovedBack
    BY <1>7 DEF RunUpgradeClaimFix, CanMoveBack, KeysMovedBack
  <2>2. AirdropTypeOK'
    BY <1>1, <1>2, <1>3, <2>1 DEF AirdropTypeOK
  <2>3. RecordsFunded'
    <3>1. swept <= MovedBack => claimModule + MovedBack >= Due
      BY <1>1, <1>3, <1>4, <1>5, <1>6 DEF SweepInv
    <3>2. swept' <= MovedBack => claimModule' >= Due'
      BY <1>2, <1>4, <2>1, <3>1
    <3> QED
      BY <3>2 DEF RecordsFunded, Due
  <2>4. SweepInv'
    BY <2>1 DEF SweepInv
  <2> QED
    BY <1>1, <1>2, <1>3, <2>2, <2>3, <2>4, SameGrants DEF AirdropInv
<1>8. CASE ~CanMoveBack
  <2>1. UNCHANGED <<claimModule, reserve>> /\ keys' = keys \cup {"UpdateParams"}
    BY <1>8 DEF RunUpgradeClaimFix
  <2>2. AirdropTypeOK'
    BY <1>1, <1>2, <2>1 DEF AirdropTypeOK
  <2>3. RecordsFunded'
    BY <1>2, <1>4, <1>5, <2>1 DEF RecordsFunded, Due
  <2>4. SweepInv'
    BY <1>1, <1>2, <1>4, <2>1 DEF SweepInv
  <2> QED
    BY <1>1, <1>2, <1>3, <2>2, <2>3, <2>4, SameGrants DEF AirdropInv
<1> QED
  BY <1>7, <1>8

\* Every step keeps the invariant.
LEMMA NextInv == AirdropInv /\ [Next]_vars => AirdropInv'
<1> SUFFICES ASSUME AirdropInv, [Next]_vars PROVE AirdropInv'
  OBVIOUS
<1>1. AirdropTypeOK
  BY DEF AirdropInv
<1>2. ASSUME UNCHANGED vars PROVE AirdropInv'
  <2>1. \A x \in Actions : Outstanding(x)' = Outstanding(x) /\ Granted(x)' = Granted(x)
    BY <1>2, ZenonT(60) DEF vars, Outstanding, Promised, Granted
  <2>2. Due' = Due
    BY <1>2, SameOutstanding DEF vars
  <2>3. AirdropTypeOK'
    BY <1>1, <1>2 DEF AirdropTypeOK, vars
  <2>4. GrantsPaidOnce'
    BY <1>2, <2>1 DEF AirdropInv, GrantsPaidOnce, vars
  <2>5. RecordsFunded' /\ SweepInv'
    BY <1>2, <2>2 DEF AirdropInv, RecordsFunded, SweepInv, Due, vars
  <2> QED
    BY <2>3, <2>4, <2>5 DEF AirdropInv
<1> QED
  BY <1>1, <1>2, StepKinds, PaysInv, EndBlockInv, UpgradeInv

\* The invariant holds throughout.
LEMMA AirdropInvAlways == Spec => []AirdropInv
BY InitInv, NextInv, PTL DEF Spec

\* The stores of x/claim keep their types, and no balance goes negative,
\* whatever is claimed, merged, transferred, swept and moved back.
THEOREM AirdropTyped == Spec => []AirdropTypeOK
<1>1. AirdropInv => AirdropTypeOK
  BY DEF AirdropInv
<1> QED
  BY <1>1, AirdropInvAlways, PTL

\* However records are claimed, merged, transferred and combined, what was
\* paid for an action and what is still promised for it never exceed the
\* grants of the genesis file, and equal them until the decay begins.
THEOREM NoGrantPaidTwice == Spec => []GrantsPaidOnce
<1>1. AirdropInv => GrantsPaidOnce
  BY DEF AirdropInv
<1> QED
  BY <1>1, AirdropInvAlways, PTL

\* Until the module is swept, and after the upgrade if it moves back at least
\* what the sweep took, the claim module can pay every record in full.
THEOREM ClaimsFunded == Spec => []RecordsFunded
<1>1. AirdropInv => RecordsFunded
  BY DEF AirdropInv
<1> QED
  BY <1>1, AirdropInvAlways, PTL

-----------------------------------------------------------------------------
(* The airdrop: what a step may never do *)

\* Once the airdrop has ended no message and no hook pays anybody, and what is
\* promised for an action stays.
THEOREM NobodyPaidAfterEnd == Spec => EndedPaysNobody
<1> DEFINE Kept == AfterEnd => /\ paid' = paid
                               /\ \A action \in Actions :
                                     Outstanding(action)' = Outstanding(action)
<1>1. ASSUME AirdropInv, [Next]_vars PROVE [Kept]_vars
  <2>1. AirdropTypeOK
    BY <1>1 DEF AirdropInv
  <2>2. ASSUME NEW action \in Actions, Pays(action) PROVE Kept
    <3>1. PICK amount \in Nat, full \in Nat :
            /\ amount <= full /\ (AfterEnd => full = 0)
            /\ paid' = [paid EXCEPT ![action] = @ + amount]
            /\ Outstanding(action)' = Outstanding(action) - full
            /\ \A x \in Actions \ {action} : Outstanding(x)' = Outstanding(x)
      BY <2>2, ZenonT(60) DEF Pays
    <3>2. paid \in [Actions -> Nat] /\ \A x \in Actions : Outstanding(x) \in Nat
      BY <2>1, OutstandingNat DEF AirdropTypeOK
    <3>3. ASSUME AfterEnd PROVE paid' = paid
      BY <3>1, <3>2, <3>3
    <3>4. ASSUME AfterEnd, NEW x \in Actions PROVE Outstanding(x)' = Outstanding(x)
      BY <3>1, <3>2, <3>4
    <3> QED
      BY <3>3, <3>4
  <2>3. ASSUME EndBlocker \/ RunUpgradeClaimFix PROVE Kept
    <3>1. UNCHANGED <<records, ethRecords, paid>>
      BY <2>3 DEF EndBlocker, RunUpgradeClaimFix
    <3> QED
      BY <3>1, SameOutstanding
  <2> QED
    BY <1>1, <2>1, <2>2, <2>3, StepKinds
<1> QED
  BY <1>1, AirdropInvAlways, PTL DEF Spec, EndedPaysNobody

\* While nobody touches a record and the parameters stay, what it can be
\* claimed for never grows from the start of the airdrop on.
THEOREM WaitingNeverPays == Spec => ClaimableNeverGrows
<1> DEFINE Falls == AirdropStartTime <= time /\ durations' = durations =>
                      \A a \in Addresses, action \in Actions :
                        records'[a] = records[a] =>
                          GetClaimableAmountForAction(records[a], action)'
                            <= GetClaimableAmountForAction(records[a], action)
<1>1. ASSUME AirdropInv, AirdropInv', [Next]_vars PROVE [Falls]_vars
  <2> SUFFICES ASSUME AirdropStartTime <= time, durations' = durations,
                      NEW a \in Addresses, NEW action \in Actions, records'[a] = records[a]
               PROVE  GetClaimableAmountForAction(records[a], action)'
                        <= GetClaimableAmountForAction(records[a], action)
    OBVIOUS
  <2> HIDE DEF Falls
  <2>1. AirdropTypeOK /\ AirdropTypeOK'
    BY <1>1, ZenonT(60) DEF AirdropInv
  <2>t. time \in Nat /\ time' \in Nat
    <3>1. time \in 0 .. MaxTime /\ time' \in 0 .. MaxTime /\ MaxTime \in Nat
      BY <2>1, AirdropAssumptions, ZenonT(60) DEF AirdropTypeOK
    <3> QED
      BY <3>1
  <2>2. time <= time'
    <3>1. ASSUME EndBlocker PROVE time <= time'
      <4>1. time' \in NextTimes
        BY <3>1, ZenonT(60) DEF EndBlocker
      <4>2. time \in 0 .. MaxTime /\ MaxTime \in Nat
        BY <2>1, AirdropAssumptions, ZenonT(60) DEF AirdropTypeOK
      <4> QED
        BY <4>1, <4>2 DEF NextTimes
    <3>2. ASSUME time' = time PROVE time <= time'
      BY <2>t, <3>2
    <3>3. ASSUME NEW x \in Actions, Pays(x) PROVE time' = time
      BY <3>3, ZenonT(60) DEF Pays
    <3>4. RunUpgradeClaimFix \/ UNCHANGED vars => time' = time
      BY ZenonT(60) DEF RunUpgradeClaimFix, vars
    <3> QED
      BY <1>1, <2>1, <3>1, <3>2, <3>3, <3>4, StepKinds, ZenonT(60)
  <2>3. PICK owed \in Nat : owed = records[a].amount[action]
    <3>1. records[a] \in ClaimRecords
      BY <2>1, ZenonT(60) DEF AirdropTypeOK
    <3> QED
      BY <3>1 DEF ClaimRecords
  <2>4. durations \in ParamValues /\ time \in Nat /\ time' \in Nat
    BY <2>1, <2>t, TypedParams, ZenonT(60)
  <2>5. GetClaimableAmountForAction(records[a], action) = ClaimableAt(durations, time, owed)
    BY <2>3, <2>4, ClaimableIs, ZenonT(60)
  <2>6. GetClaimableAmountForAction(records[a], action)' = ClaimableAt(durations', time', owed)
    BY <2>3, <2>4, AirdropAssumptions
       DEF GetClaimableAmountForAction, ClaimableAt, DecayedAmount, Share, Points, ParamValues
  <2> QED
    BY <2>2, <2>3, <2>4, <2>5, <2>6, ClaimableFalls, ZenonT(60)
<1> QED
  BY <1>1, AirdropInvAlways, PTL DEF Spec, ClaimableNeverGrows

-----------------------------------------------------------------------------
(* Block rewards: the inductive invariant *)

\* Every balance and counter is a natural number.
Balances == {block, reserveCoins, distribution, allocated, pool, faults} \subseteq Nat

\* The inductive invariant.  Whatever was announced, what BeginBlock reads is 1.
ReserveInv ==
    /\ Balances
    /\ RewardsBacked
    /\ versions \in [ValidatorSet -> [Encodings -> Nat]]
    /\ \A v \in ValidatorSet : VersionOf(v) = 1

-----------------------------------------------------------------------------
(* Block rewards: decimals *)

\* A decimal has digits.
LEMMA PrecisionType == Precision \in Nat /\ Precision > 0
<1>1. Precision \in Nat /\ Precision # 0
  BY ReserveAssumptions, ZenonT(60)
<1> QED
  BY <1>1

\* A quotient of naturals is a natural when it is rounded.
LEMMA RoundNat ==
    ASSUME NEW num \in Nat, NEW den \in Nat, den > 0
    PROVE  RoundInt(num, den) \in Nat
<1>1. num \div den \in Nat
  OBVIOUS
<1> QED
  BY <1>1 DEF RoundInt

\* ... so that shares are.
LEMMA ShareNat ==
    ASSUME NEW part \in Nat, NEW total \in Nat, NEW allocation \in Nat
    PROVE  GetSafeShare(part, total, allocation) \in Nat
<1>1. ASSUME NEW a \in Nat, NEW b \in Nat, b # 0 PROVE Quo(a, b) \in Nat
  <2>1. a * Precision \in Nat /\ b > 0
    BY <1>1, PrecisionType
  <2> QED
    BY <2>1, RoundNat DEF Quo
<1>2. ASSUME NEW x \in Nat PROVE GetUncappedShare(x, total, allocation) \in Nat
  <2>1. CASE x = 0 \/ total = 0 \/ Quo(total, x) = 0
    BY <2>1 DEF GetUncappedShare
  <2>2. CASE ~(x = 0 \/ total = 0 \/ Quo(total, x) = 0)
    <3>1. allocation * Precision \in Nat
      BY PrecisionType
    <3>2. Quo(total, x) \in Nat
      BY <1>1, <2>2, ZenonT(60)
    <3>3. Quo(allocation * Precision, Quo(total, x)) \in Nat
      BY <1>1, <2>2, <3>1, <3>2, ZenonT(60)
    <3> QED
      BY <2>2, <3>3, ZenonT(60) DEF GetUncappedShare
  <2> QED
    BY <2>1, <2>2
<1> QED
  BY <1>2 DEF GetSafeShare

\* A product of positive numbers is positive.
LEMMA ProductPositive ==
    ASSUME NEW a \in Nat \ {0}, NEW b \in Nat \ {0}
    PROVE  a * b \in Nat /\ a * b > 0
<1>1. a * b \in Nat
  OBVIOUS
<1>2. a * b # 0
  OBVIOUS
<1> QED
  BY <1>1, <1>2

\* The reward of a block is a natural number of coins.
LEMMA RewardNat ==
    ASSUME NEW total \in Nat, NEW h \in Nat
    PROVE  CalcBlockReward(total, h) \in Nat
<1>1. CASE 0 \in {EmissionCurve, BlocksPerYear, ValidatorPayoutCycle}
  BY <1>1 DEF CalcBlockReward
<1>2. CASE 0 \notin {EmissionCurve, BlocksPerYear, ValidatorPayoutCycle}
  <2>1. /\ total * ValidatorPayoutCycle \in Nat
        /\ EmissionCurve * BlocksPerYear \in Nat /\ EmissionCurve * BlocksPerYear > 0
    <3>1. total * ValidatorPayoutCycle \in Nat
      BY ReserveAssumptions
    <3>2. EmissionCurve \in Nat \ {0} /\ BlocksPerYear \in Nat \ {0}
      BY <1>2, ReserveAssumptions
    <3> QED
      BY <3>1, <3>2, ProductPositive, ZenonT(60)
  <2>2. RoundInt(total * ValidatorPayoutCycle, EmissionCurve * BlocksPerYear) \in Nat
    BY <2>1, RoundNat
  <2> QED
    BY <1>2, <2>2, ZenonT(60) DEF CalcBlockReward
<1> QED
  BY <1>1, <1>2

\* There are finitely many validators.
LEMMA ValidatorsFinite == IsFiniteSet(ValidatorSet)
<1>1. Len(Validators) \in Nat /\ DOMAIN Validators = 1 .. Len(Validators)
  BY ReserveAssumptions
<1>2. IsFiniteSet(DOMAIN Validators)
  BY <1>1, FS_Interval
<1>3. PICK f : f = [i \in DOMAIN Validators |-> Validators[i]]
  BY ZenonT(60)
<1>4. f \in Surjection(DOMAIN Validators, ValidatorSet)
  BY <1>3, ZenonT(60) DEF Surjection, ValidatorSet
<1> QED
  BY <1>2, <1>4, FS_Surjection

\* The shares of any of them add up to a natural number.
LEMMA SharesNat ==
    ASSUME NEW voters \in SUBSET ValidatorSet
    PROVE  TotalShares(voters) \in Nat
<1>1. PICK f : f = [v \in voters |-> IF status[v] = "bonded" THEN Shares[v] ELSE 0]
  BY ZenonT(60)
<1>2. \A v \in voters : f[v] \in Nat
  BY <1>1, ReserveAssumptions
<1>3. IsFiniteSet(voters)
  BY ValidatorsFinite, FS_Subset
<1>4. SumFunctionOnSet(f, voters) \in Nat
  BY <1>2, <1>3, SumNat
<1>5. DOMAIN f = voters
  BY <1>1
<1> QED
  BY <1>1, <1>4, <1>5 DEF TotalShares, SumFunction

-----------------------------------------------------------------------------
(* Block rewards: the loop over the votes *)

\* Induction on the natural numbers, with the property as a set: a smallest number outside
\* of P would be neither zero nor the successor of another.
LEMMA CountingUp ==
    ASSUME NEW P, 0 \in P, \A n \in Nat : n \in P => n + 1 \in P
    PROVE  \A n \in Nat : n \in P
<1> DEFINE R   == OpToRel(<, Nat)
           bad == {n \in Nat : n \notin P}
<1> SUFFICES ASSUME bad # {} PROVE FALSE
  OBVIOUS
<1>1. PICK n \in bad : \A m \in bad : <<m, n>> \notin R
  <2>1. bad \subseteq Nat
    OBVIOUS
  <2> HIDE DEF R, bad
  <2> QED
    BY <2>1, NatLessThanWellFounded, WFMin, ZenonT(60) DEF R
<1>2. n \in Nat /\ n # 0 /\ n \notin P
  BY <1>1, ZenonT(60)
<1>3. PICK m \in Nat : m < n /\ m + 1 = n
  <2>1. n - 1 \in Nat /\ n - 1 < n /\ (n - 1) + 1 = n
    <3> HIDE DEF R, bad
    <3> QED
      BY <1>2
  <2> QED
    BY <2>1, ZenonT(60)
<1>4. <<m, n>> \in R
  BY <1>2, <1>3, ZenonT(60) DEF OpToRel
<1>5. m \in P
  BY <1>1, <1>2, <1>3, <1>4, ZenonT(60)
<1> QED
  BY <1>2, <1>3, <1>5, ZenonT(60)

\* What the loop has so far, after payments of which none failed or some did.
Account == [reserve : Nat, distribution : Nat, allocated : Nat, pool : Nat, remainder : Nat]

Sound(acc, failed) ==
    /\ acc \in Account
    /\ acc.distribution >= acc.allocated + acc.pool
    /\ ~failed => acc.distribution = acc.allocated + acc.pool

\* A validator is paid what is allocated to it, unless the allocation fails.
LEMMA PaidSound ==
    ASSUME NEW acc, NEW failed, Sound(acc, failed), NEW v \in ValidatorSet, NEW total \in Nat,
           NEW blockReward \in Nat, NEW current, NEW fails, v \in fails => failed
    PROVE  Sound(PayValidator(acc, v, total, blockReward, current, fails), failed)
<1>1. PICK reward \in Nat : reward = GetSafeShare(Shares[v], total, blockReward)
  <2>1. Shares[v] \in Nat
    BY ReserveAssumptions, ZenonT(60)
  <2> QED
    BY <2>1, ShareNat, ZenonT(60)
<1>2. PICK amount \in Nat, left \in Nat :
        amount = reward \div Precision /\ left = reward % Precision
  <2>1. reward \div Precision \in Nat /\ reward % Precision \in Nat
    BY PrecisionType
  <2> QED
    BY <2>1, ZenonT(60)
<1>3. PICK rest, after :
        /\ rest = [acc EXCEPT !.remainder = @ + left]
        /\ after = [rest EXCEPT !.reserve = @ - amount, !.distribution = @ + amount,
                               !.allocated = IF v \in fails THEN @ ELSE @ + amount]
  BY ZenonT(60)
<1>4. acc \in Account
  BY ZenonT(60) DEF Sound
<1>5. rest \in Account /\ rest = [acc EXCEPT !.remainder = rest.remainder]
      /\ rest.reserve = acc.reserve
  BY <1>3, <1>4 DEF Account
<1>6. \/ PayValidator(acc, v, total, blockReward, current, fails) = acc
      \/ PayValidator(acc, v, total, blockReward, current, fails) = rest
      \/ /\ ~(amount > acc.reserve)
         /\ PayValidator(acc, v, total, blockReward, current, fails) = after
  BY <1>1, <1>2, <1>3, ZenonT(60) DEF PayValidator, Allocated
<1>7. Sound(rest, failed)
  BY <1>4, <1>5 DEF Sound, Account
<1>8. ASSUME ~(amount > acc.reserve) PROVE Sound(after, failed)
  <2>1. /\ after.reserve = rest.reserve - amount
        /\ after.distribution = rest.distribution + amount
        /\ after.allocated = IF v \in fails THEN rest.allocated ELSE rest.allocated + amount
        /\ after.pool = rest.pool /\ after.remainder = rest.remainder
        /\ after = [reserve |-> after.reserve, distribution |-> after.distribution,
                   allocated |-> after.allocated, pool |-> after.pool,
                   remainder |-> after.remainder]
    BY <1>3, <1>5, ZenonT(60) DEF Account
  <2>2. /\ rest.reserve \in Nat /\ rest.distribution \in Nat /\ rest.allocated \in Nat
        /\ rest.pool \in Nat /\ rest.remainder \in Nat
        /\ rest.distribution >= rest.allocated + rest.pool
        /\ ~failed => rest.distribution = rest.allocated + rest.pool
    BY <1>7 DEF Sound, Account
  <2>3. /\ after.reserve \in Nat /\ after.distribution \in Nat /\ after.allocated \in Nat
        /\ after.pool \in Nat /\ after.remainder \in Nat
        /\ after.distribution >= after.allocated + after.pool
        /\ ~failed => after.distribution = after.allocated + after.pool
    BY <1>5, <1>8, <2>1, <2>2
  <2> QED
    BY <2>1, <2>3, ZenonT(60) DEF Sound, Account
<1> QED
  BY <1>6, <1>7, <1>8, ZenonT(60)

\* ... and the pool what is sent to it.
LEMMA FundedSound ==
    ASSUME NEW acc, NEW failed, Sound(acc, failed)
    PROVE  Sound(FundPool(acc), failed)
<1>1. acc.remainder \in Nat
  BY ZenonT(60) DEF Sound, Account
<1>2. PICK amount \in Nat : amount = PoolShare(acc.remainder)
  <2>1. PoolShare(acc.remainder) \in Nat
    BY <1>1, PrecisionType, RoundNat, ZenonT(60) DEF PoolShare
  <2> QED
    BY <2>1, ZenonT(60)
<1>3. FundPool(acc) = IF amount > acc.reserve THEN acc
                      ELSE [acc EXCEPT !.reserve = @ - amount, !.distribution = @ + amount,
                                       !.pool = @ + amount]
  BY <1>2, ZenonT(60) DEF FundPool
<1>4. CASE amount > acc.reserve
  BY <1>3, <1>4, ZenonT(60)
<1>5. CASE ~(amount > acc.reserve)
  <2>1. PICK after : after = FundPool(acc)
    OBVIOUS
  <2>2. /\ acc.reserve \in Nat /\ acc.distribution \in Nat /\ acc.allocated \in Nat
        /\ acc.pool \in Nat /\ acc.distribution >= acc.allocated + acc.pool
        /\ ~failed => acc.distribution = acc.allocated + acc.pool
    BY ZenonT(60) DEF Sound, Account
  <2>3. acc \in Account
    BY ZenonT(60) DEF Sound
  <2>4. /\ after.reserve = acc.reserve - amount
        /\ after.distribution = acc.distribution + amount
        /\ after.allocated = acc.allocated
        /\ after.pool = acc.pool + amount /\ after.remainder = acc.remainder
        /\ after = [reserve |-> after.reserve, distribution |-> after.distribution,
                   allocated |-> after.allocated, pool |-> after.pool,
                   remainder |-> after.remainder]
    BY <1>3, <1>5, <2>1, <2>3, ZenonT(60) DEF Account
  <2>5. /\ after.reserve \in Nat /\ after.distribution \in Nat /\ after.allocated \in Nat
        /\ after.pool \in Nat /\ after.remainder \in Nat
        /\ after.distribution >= after.allocated + after.pool
        /\ ~failed => after.distribution = after.allocated + after.pool
    BY <1>1, <1>5, <2>2, <2>4
  <2> QED
    BY <2>1, <2>4, <2>5, ZenonT(60) DEF Sound, Account
<1> QED
  BY <1>4, <1>5

\* What the loop has after i votes, given what it had after one less.
Turn(h, i, start, signers, total, blockReward, current, fails) ==
    IF i = 0 THEN start
    ELSE IF Validators[i] \notin signers THEN h[i - 1]
    ELSE PayValidator(h[i - 1], Validators[i], total, blockReward, current, fails)

\* The recursive function that is the loop.
Loop(start, signers, total, blockReward, current, fails) ==
    CHOOSE h : h = [i \in 0 .. Len(Validators) |->
                      Turn(h, i, start, signers, total, blockReward, current, fails)]

\* The loop pays, and then the remainders go to the pool.
LEMMA PayoutUnfold ==
    ASSUME NEW voters, NEW signers, NEW current, NEW fails, NEW start,
           start = [reserve |-> reserveCoins, distribution |-> distribution,
                    allocated |-> allocated, pool |-> pool, remainder |-> 0],
           NEW total, total = TotalShares(voters),
           NEW blockReward, blockReward = CalcBlockReward(reserveCoins, block + 1)
    PROVE  \/ ValidatorPayout(voters, signers, current, fails) = start
           \/ ValidatorPayout(voters, signers, current, fails)
                = FundPool(Loop(start, signers, total, blockReward, current, fails)
                             [Len(Validators)])
BY ZenonT(60) DEF ValidatorPayout, Loop, Turn

\* The loop keeps the accounts sound: the function exists, and every turn does.
LEMMA LoopSound ==
    ASSUME NEW start, NEW failed, Sound(start, failed), NEW signers, NEW total \in Nat,
           NEW blockReward \in Nat, NEW current, NEW fails, fails # {} => failed
    PROVE  Sound(Loop(start, signers, total, blockReward, current, fails)[Len(Validators)],
                 failed)
<1> DEFINE T(h, i) == Turn(h, i, start, signers, total, blockReward, current, fails)
           N == Len(Validators)
           P == {n \in Nat : \E h : h = [i \in 0 .. n |-> T(h, i)]}
<1>1. /\ \A h : T(h, 0) = start
      /\ \A h, g, i : h[i - 1] = g[i - 1] => T(h, i) = T(g, i)
  BY ZenonT(60) DEF Turn
<1>2. N \in Nat /\ \A i \in 1 .. N : Validators[i] \in ValidatorSet
  BY ReserveAssumptions
<1>3. ASSUME NEW h, NEW i \in 1 .. N, Sound(h[i - 1], failed) PROVE Sound(T(h, i), failed)
  <2>1. PICK v \in ValidatorSet : v = Validators[i]
    BY <1>2, ZenonT(60)
  <2>2. i # 0
    BY <1>2
  <2>3. T(h, i) \in {h[i - 1], PayValidator(h[i - 1], v, total, blockReward, current, fails)}
    BY <2>1, <2>2, ZenonT(60) DEF Turn
  <2>4. v \in fails => failed
    BY ZenonT(60)
  <2>5. Sound(PayValidator(h[i - 1], v, total, blockReward, current, fails), failed)
    BY <1>3, <2>4, PaidSound, ZenonT(60)
  <2> QED
    BY <1>3, <2>3, <2>5, ZenonT(60)
<1> HIDE DEF T
<1>4. 0 \in P
  <2>1. PICK g : g = [i \in 0 .. 0 |-> start]
    BY ZenonT(60)
  <2>2. \A i \in 0 .. 0 : i = 0
    OBVIOUS
  <2>3. g = [i \in 0 .. 0 |-> T(g, i)]
    BY <1>1, <2>1, <2>2, ZenonT(60)
  <2> QED
    BY <2>3, ZenonT(60)
<1>5. ASSUME NEW n \in Nat, n \in P PROVE n + 1 \in P
  <2>1. PICK h : h = [i \in 0 .. n |-> T(h, i)]
    BY <1>5
  <2>2. PICK g : g = [i \in 0 .. n + 1 |-> IF i \in 0 .. n THEN h[i] ELSE T(h, i)]
    BY ZenonT(60)
  <2>3. ASSUME NEW i \in 0 .. n + 1 PROVE g[i] = T(g, i)
    <3>1. i = 0 \/ i - 1 \in 0 .. n
      OBVIOUS
    <3>2. \A j \in 0 .. n : j \in 0 .. n + 1
      OBVIOUS
    <3>3. g[i] = T(h, i) /\ \A j \in 0 .. n : g[j] = h[j]
      BY <2>1, <2>2, <3>2, ZenonT(60)
    <3> QED
      BY <1>1, <3>1, <3>3, ZenonT(60)
  <2>4. g = [i \in 0 .. n + 1 |-> T(g, i)]
    BY <2>2, <2>3, ZenonT(60)
  <2>5. n + 1 \in Nat
    OBVIOUS
  <2> QED
    BY <2>4, <2>5, ZenonT(60)
<1>6. N \in P
  <2> HIDE DEF P
  <2> QED
    BY <1>2, <1>4, <1>5, CountingUp, ZenonT(60)
<1>7. PICK h : /\ h = Loop(start, signers, total, blockReward, current, fails)
               /\ h = [i \in 0 .. N |-> T(h, i)]
  BY <1>6, ZenonT(60) DEF Loop, T
<1> DEFINE Q == {n \in Nat : n \in 0 .. N => Sound(h[n], failed)}
<1>8. 0 \in Q
  <2>1. 0 \in 0 .. N /\ 0 \in Nat
    BY <1>2
  <2>2. h[0] = start
    BY <1>1, <1>7, <2>1, ZenonT(60)
  <2> QED
    BY <2>1, <2>2, ZenonT(60)
<1>9. ASSUME NEW n \in Nat, n \in Q PROVE n + 1 \in Q
  <2>1. n + 1 \in Nat /\ (n + 1) - 1 = n
    OBVIOUS
  <2>2. ASSUME n + 1 \in 0 .. N PROVE Sound(h[n + 1], failed)
    <3>1. n \in 0 .. N /\ n + 1 \in 1 .. N
      BY <1>2, <2>2
    <3>2. Sound(h[(n + 1) - 1], failed) /\ h[n + 1] = T(h, n + 1)
      BY <1>7, <1>9, <2>1, <2>2, <3>1, ZenonT(60)
    <3> QED
      BY <1>3, <3>1, <3>2, ZenonT(60)
  <2> QED
    BY <2>1, <2>2, ZenonT(60)
<1>10. N \in Q
  <2> HIDE DEF Q
  <2> QED
    BY <1>2, <1>8, <1>9, CountingUp, ZenonT(60)
<1>11. N \in 0 .. N
  BY <1>2
<1> QED
  BY <1>7, <1>10, <1>11, ZenonT(60)

-----------------------------------------------------------------------------
(* Block rewards: the versions *)

\* Every validator that is bonded is read as announcing 1, which is enough of them.
LEMMA VersionComputed ==
    ASSUME \A v \in ValidatorSet : VersionOf(v) = 1, Bonded # {},
           NEW ver \in GetComputedVersion
    PROVE  ver = IF Cardinality(Bonded) = 1 THEN SWVersion ELSE 1
<1> DEFINE count(w) == Cardinality({v \in Bonded : VersionOf(v) = w})
           min      == (Cardinality(Bonded) * VersionConsensus) \div 100
           accepted == {w \in {VersionOf(v) : v \in Bonded} : count(w) >= min}
<1>1. /\ Cardinality(Bonded) = 1 => ver = SWVersion
      /\ Cardinality(Bonded) # 1 /\ accepted # {} => ver \in accepted
  BY ZenonT(60) DEF GetComputedVersion
<1>2. Bonded \subseteq ValidatorSet
  BY ZenonT(60) DEF Bonded
<1>3. {v \in Bonded : VersionOf(v) = 1} = Bonded /\ {VersionOf(v) : v \in Bonded} = {1}
  BY <1>2, ZenonT(60)
<1>4. PICK n \in Nat : n = Cardinality(Bonded)
  <2>1. IsFiniteSet(Bonded)
    BY <1>2, ValidatorsFinite, FS_Subset
  <2> QED
    BY <2>1, FS_CardinalityType
<1>5. n >= min
  <2>1. PICK c \in Nat : c = VersionConsensus /\ c <= 100
    <3>1. VersionConsensus \in 0 .. 100
      BY ReserveAssumptions, ZenonT(60)
    <3> QED
      BY <3>1
  <2>2. (n * c) \div 100 <= n
    BY <2>1
  <2>3. (n * c) \div 100 \in Int
    BY <2>1
  <2>4. n >= (n * c) \div 100
    BY <2>2, <2>3
  <2> QED
    BY <1>4, <2>1, <2>4, ZenonT(60)
<1> HIDE DEF min
<1>6. accepted = {1}
  BY <1>3, <1>4, <1>5, ZenonT(60)
<1> HIDE DEF accepted
<1> QED
  BY <1>1, <1>6, ZenonT(60)

-----------------------------------------------------------------------------
(* Block rewards: the invariant *)

\* The first block comes after no other.
LEMMA ReserveInvInit == RewardsInit => ReserveInv
<1> SUFFICES ASSUME RewardsInit PROVE ReserveInv
  OBVIOUS
<1>1. /\ block = 0 /\ reserveCoins \in Nat /\ distribution = 0 /\ allocated = 0 /\ pool = 0
      /\ faults = 0 /\ versions = [v \in ValidatorSet |-> [e \in Encodings |-> 1]]
  BY ReserveAssumptions, ZenonT(60) DEF RewardsInit
<1>2. Balances
  BY <1>1 DEF Balances
<1>3. RewardsBacked
  BY <1>1 DEF RewardsBacked
<1>4. versions \in [ValidatorSet -> [Encodings -> Nat]]
  BY <1>1
<1>5. \A v \in ValidatorSet : VersionOf(v) = 1
  BY <1>1, ZenonT(60) DEF VersionOf, Encodings
<1> QED
  BY <1>2, <1>3, <1>4, <1>5, ZenonT(60) DEF ReserveInv

\* A block pays rewards and fails as it may.
LEMMA BlockKeeps ==
    ASSUME ReserveInv, NEW voters \in SUBSET ValidatorSet, NEW signers \in SUBSET voters,
           NEW fails \in SUBSET signers, BeginBlock(voters, signers, fails)
    PROVE  ReserveInv'
<1>1. PICK ver, after :
        /\ after = ValidatorPayout(voters, signers, ver, fails)
        /\ block' = block + 1 /\ faults' = faults + Cardinality(fails)
        /\ reserveCoins' = after.reserve /\ distribution' = after.distribution
        /\ allocated' = after.allocated /\ pool' = after.pool
        /\ versions' = versions
  BY ZenonT(60) DEF BeginBlock
<1>2. PICK start : start = [reserve |-> reserveCoins, distribution |-> distribution,
                            allocated |-> allocated, pool |-> pool, remainder |-> 0]
  BY ZenonT(60)
<1>3. /\ block \in Nat /\ reserveCoins \in Nat /\ distribution \in Nat /\ allocated \in Nat
      /\ pool \in Nat /\ faults \in Nat
      /\ distribution >= allocated + pool
      /\ faults = 0 => distribution = allocated + pool
  BY ZenonT(60) DEF ReserveInv, Balances, RewardsBacked
<1>4. PICK n \in Nat : n = Cardinality(fails) /\ (n = 0 <=> fails = {})
  <2>1. IsFiniteSet(fails)
    <3>1. fails \in SUBSET ValidatorSet
      BY ZenonT(60)
    <3> QED
      BY <3>1, ValidatorsFinite, FS_Subset
  <2> QED
    BY <2>1, FS_CardinalityType, FS_EmptySet
<1> DEFINE failed == faults + n # 0
<1>5. /\ ~failed => faults = 0 /\ n = 0
      /\ fails # {} => failed
  BY <1>3, <1>4
<1> HIDE DEF failed
<1>6. Sound(start, failed)
  <2>1. 0 \in Nat
    OBVIOUS
  <2>2. start \in Account
    BY <1>2, <1>3, <2>1, ZenonT(60) DEF Account
  <2> QED
    BY <1>2, <1>3, <1>5, <2>2, ZenonT(60) DEF Sound
<1>7. PICK total \in Nat, blockReward \in Nat :
        total = TotalShares(voters) /\ blockReward = CalcBlockReward(reserveCoins, block + 1)
  <2>1. block + 1 \in Nat
    BY <1>3
  <2> QED
    BY <1>3, <2>1, SharesNat, RewardNat, ZenonT(60)
<1>8. Sound(after, failed)
  <2>1. Sound(FundPool(Loop(start, signers, total, blockReward, ver, fails)[Len(Validators)]),
              failed)
    BY <1>5, <1>6, LoopSound, FundedSound, ZenonT(60)
  <2>2. \/ ValidatorPayout(voters, signers, ver, fails) = start
        \/ ValidatorPayout(voters, signers, ver, fails)
             = FundPool(Loop(start, signers, total, blockReward, ver, fails)[Len(Validators)])
    BY <1>2, <1>7, PayoutUnfold
  <2> QED
    BY <1>1, <1>6, <2>1, <2>2, ZenonT(60)
<1>9. /\ block' \in Nat /\ faults' \in Nat /\ (faults' = 0 => ~failed)
  BY <1>1, <1>3, <1>4 DEF failed
<1>10. /\ {reserveCoins', distribution', allocated', pool'} \subseteq Nat
       /\ distribution' >= allocated' + pool'
       /\ ~failed => distribution' = allocated' + pool'
  BY <1>1, <1>8, ZenonT(60) DEF Sound, Account
<1>11. Balances' /\ RewardsBacked'
  BY <1>9, <1>10, ZenonT(60) DEF Balances, RewardsBacked
<1> QED
  BY <1>1, <1>11, ZenonT(60) DEF ReserveInv, VersionOf

\* What a validator announces is stored where no block reads it.
LEMMA AnnouncedKeeps ==
    ASSUME ReserveInv, NEW v \in ValidatorSet, NEW ver \in Versions, SetVersion(v, ver)
    PROVE  ReserveInv'
<1>1. /\ versions' = [versions EXCEPT ![v]["characters"] = ver] /\ ver \in Nat
      /\ UNCHANGED <<block, reserveCoins, distribution, allocated, pool, faults>>
  BY ReserveAssumptions, ZenonT(60) DEF SetVersion, StoredUnder
<1>2. versions \in [ValidatorSet -> [Encodings -> Nat]] /\ "characters" # "decoded"
  BY ZenonT(60) DEF ReserveInv
<1>3. /\ versions' \in [ValidatorSet -> [Encodings -> Nat]]
      /\ \A w \in ValidatorSet : versions'[w]["decoded"] = versions[w]["decoded"]
  BY <1>1, <1>2 DEF Encodings
<1>4. Balances' /\ RewardsBacked'
  BY <1>1, ZenonT(60) DEF ReserveInv, Balances, RewardsBacked
<1> QED
  BY <1>3, <1>4, ZenonT(60) DEF ReserveInv, VersionOf

\* Every step keeps the invariant.
LEMMA ReserveInvStep == ReserveInv /\ [RewardsNext]_rewardsVars => ReserveInv'
<1> SUFFICES ASSUME ReserveInv, [RewardsNext]_rewardsVars PROVE ReserveInv'
  OBVIOUS
<1>1. ASSUME UNCHANGED <<block, reserveCoins, distribution, allocated, pool, versions, faults>>
      PROVE  ReserveInv'
  BY <1>1, ZenonT(60) DEF ReserveInv, Balances, RewardsBacked, VersionOf
<1>2. ASSUME NEW v \in ValidatorSet, NEW s \in Statuses, StakingChanges(v, s)
      PROVE  ReserveInv'
  BY <1>1, <1>2, ZenonT(60) DEF StakingChanges
<1>3. CASE UNCHANGED rewardsVars
  BY <1>1, <1>3, ZenonT(60) DEF rewardsVars
<1> QED
  BY <1>2, <1>3, BlockKeeps, AnnouncedKeeps, ZenonT(60) DEF RewardsNext

\* The invariant holds throughout.
LEMMA ReserveAlways == RewardsSpec => []ReserveInv
BY ReserveInvInit, ReserveInvStep, PTL DEF RewardsSpec

\* The distribution module holds what was allocated to validators and the community pool,
\* whatever the shares, however the rewards are rounded and whichever allocations fail.
THEOREM RewardsStayBacked == RewardsSpec => []RewardsBacked
<1>1. ReserveInv => RewardsBacked
  BY ZenonT(60) DEF ReserveInv
<1> QED
  BY <1>1, ReserveAlways, PTL

\* No announcement moves the version that is stored: with one validator bonded it is that
\* of the binary and with more of them 1, for every percentage that has to agree.
THEOREM AnnouncementsNeverRead == RewardsSpec => AnnouncementsUnread
<1>1. ReserveInv /\ [RewardsNext]_rewardsVars =>
        [block' # block /\ Bonded # {} =>
          version' = IF Cardinality(Bonded) = 1 THEN SWVersion ELSE 1]_rewardsVars
  <2> SUFFICES ASSUME ReserveInv, [RewardsNext]_rewardsVars, block' # block, Bonded # {}
               PROVE  version' = IF Cardinality(Bonded) = 1 THEN SWVersion ELSE 1
    BY ZenonT(60)
  <2>1. PICK voters, signers, fails : BeginBlock(voters, signers, fails)
    BY ZenonT(60) DEF RewardsNext, SetVersion, StakingChanges, rewardsVars
  <2>2. version' \in GetComputedVersion
    BY <2>1, ZenonT(60) DEF BeginBlock
  <2> QED
    BY <2>2, VersionComputed, ZenonT(60) DEF ReserveInv
<1> QED
  BY <1>1, ReserveAlways, PTL DEF RewardsSpec, AnnouncementsUnread
=============================================================================
