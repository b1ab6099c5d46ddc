---------------------------- MODULE MarketProofs ----------------------------
(* Theorems about Market, for every value of its constants. *)
EXTENDS Market, TLAPS

-----------------------------------------------------------------------------
(* Arithmetic of one settlement *)

\* Rounding T/k, k >= 2, stays below T.
LEMMA RoundBounds ==
    ASSUME NEW T \in Nat, NEW k \in Nat, k >= 2
    PROVE  /\ RoundInt(T, k) \in Nat
           /\ T = 0 => RoundInt(T, k) = 0
           /\ T > 0 => RoundInt(T, k) < T
<1> DEFINE q == T \div k
           r == T % k
<1>1. q \in Nat /\ r \in 0 .. k - 1 /\ T = k * q + r
  OBVIOUS
<1>2. RoundInt(T, k) = IF 2 * r > k \/ (2 * r = k /\ q % 2 = 1) THEN q + 1 ELSE q
  BY DEF RoundInt
<1> HIDE DEF q, r
<1>3. 2 * q <= k * q
  BY <1>1
<1>4. CASE q = 0
  BY <1>1, <1>2, <1>4
<1>5. CASE q > 0
  BY <1>1, <1>2, <1>3, <1>5
<1> QED
  BY <1>1, <1>4, <1>5

\* The tax on a debt of at least one coin is smaller than the debt: the provider is
\* always sent something, so SettleContract never skips the transfer of the tax.
LEMMA ShareBounds ==
    ASSUME NEW T \in Nat
    PROVE  /\ ReserveShare(T) \in Nat
           /\ T = 0 => ReserveShare(T) = 0
           /\ T > 0 => ReserveShare(T) < T
<1>1. MaxBasisPoints \div ReserveTax \in Nat /\ MaxBasisPoints \div ReserveTax >= 2
  BY MarketAssumptions
<1> QED
  BY <1>1, RoundBounds DEF ReserveShare

\* A debt is never negative and never exceeds what is left of the deposit.
LEMMA DebtBounds ==
    ASSUME NEW c \in Contract, c.paid <= c.deposit, NEW h \in Nat
    PROVE  /\ ContractDebt(c, h) \in Nat
           /\ ContractDebt(c, h) <= c.deposit - c.paid
<1> DEFINE earned == IF IsSubscription(c)
                     THEN c.rate * (Least(h, SettlementPeriodEnd(c)) - c.height)
                                 * c.queriesPerMinute
                     ELSE c.rate * c.nonce
<1>1. /\ c.paid \in Nat /\ c.deposit \in Nat /\ c.rate \in Nat /\ c.nonce \in Nat
      /\ c.height \in Nat /\ c.duration \in Nat /\ c.queriesPerMinute \in Nat
      /\ c.settlementDuration \in Nat
  BY RegistryAssumptions, MarketAssumptions DEF Contract, Heights
<1>2. Least(h, SettlementPeriodEnd(c)) - c.height \in Int
  BY <1>1 DEF Least, SettlementPeriodEnd, Expiration
<1>3. earned \in Int
  <2> DEFINE d == Least(h, SettlementPeriodEnd(c)) - c.height
  <2>1. d \in Int
    BY <1>2
  <2> HIDE DEF d
  <2>2. c.rate * d * c.queriesPerMinute \in Int
    BY <1>1, <2>1
  <2> QED
    BY <1>1, <2>2 DEF d
<1> HIDE DEF earned
<1>4. ContractDebt(c, h) = IF earned - c.paid < 0 THEN 0
                           ELSE Least(earned - c.paid, c.deposit - c.paid)
  BY DEF ContractDebt, earned
<1> QED
  BY <1>1, <1>3, <1>4 DEF Least

\* A contract record is the empty one exactly when its height is zero.
LEMMA EmptyOnly ==
    ASSUME NEW c \in Contract \cup {EmptyContract}
    PROVE  /\ c = EmptyContract <=> IsEmpty(c)
           /\ ~IsEmpty(c) => c \in Contract
<1>1. ASSUME c \in Contract PROVE c.height # 0
  BY <1>1, RegistryAssumptions DEF Contract, Heights
<1>2. EmptyContract.height = 0
  BY DEF EmptyContract
<1> QED
  BY <1>1, <1>2 DEF IsEmpty

\* What GetContract returns for an identifier in use is a proper contract.
LEMMA StoredType ==
    ASSUME TypeOK, NEW id \in Ids, Exists(id)
    PROVE  contracts[id] \in Contract
<1>1. contracts[id] \in Contract \cup {EmptyContract}
  BY DEF TypeOK
<1> QED
  BY <1>1, EmptyOnly DEF Exists

\* The dates of a contract: only a pay-as-you-go contract has a settlement period
\* after its expiration.
LEMMA Dates ==
    ASSUME NEW c \in Contract
    PROVE  /\ c.height \in Nat /\ c.settlementDuration \in Nat
           /\ Expiration(c) \in Nat /\ Expiration(c) > c.height
           /\ SettlementPeriodEnd(c) \in Nat /\ SettlementPeriodEnd(c) >= Expiration(c)
           /\ IsPayAsYouGo(c) => SettlementPeriodEnd(c) = Expiration(c) + c.settlementDuration
           /\ IsSubscription(c) => SettlementPeriodEnd(c) = Expiration(c)
<1>1. /\ c.height \in Nat /\ c.duration \in Nat \ {0} /\ c.settlementDuration \in Nat
  BY DEF Contract, Heights
<1>2. Expiration(c) \in Nat /\ Expiration(c) > c.height
  BY <1>1 DEF Expiration
<1>3. IsSubscription(c) => ~IsPayAsYouGo(c)
  BY DEF IsSubscription, IsPayAsYouGo, SUBSCRIPTION, PAY_AS_YOU_GO
<1>4. SettlementPeriodEnd(c) = IF IsPayAsYouGo(c) THEN Expiration(c) + c.settlementDuration
                               ELSE Expiration(c) + 0
  BY DEF SettlementPeriodEnd
<1> QED
  BY <1>1, <1>2, <1>3, <1>4

\* The fields of a contract that settlements leave alone.
SameTerms(c, d) ==
    /\ d.provider = c.provider /\ d.client = c.client /\ d.delegate = c.delegate
    /\ d.type = c.type /\ d.authorization = c.authorization
    /\ d.height = c.height /\ d.duration = c.duration /\ d.rate = c.rate
    /\ d.queriesPerMinute = c.queriesPerMinute
    /\ d.settlementDuration = c.settlementDuration

\* What one call of SettleContract does to a contract and to its coins.
LEMMA SettleEffect ==
    ASSUME NEW c \in Contract, c.paid <= c.deposit, height \in Heights,
           NEW nonce \in 0 .. MaxNonce, NEW isFinal \in BOOLEAN
    PROVE  LET s == SettleContract(c, nonce, isFinal)
           IN  /\ s.contract \in Contract
               /\ SameTerms(c, s.contract)
               /\ {s.provider, s.reserve, s.client} \subseteq Nat
               /\ s.contract.paid = c.paid + s.provider + s.reserve
               /\ s.contract.deposit = c.deposit - s.client
               /\ s.contract.paid <= s.contract.deposit
               /\ s.contract.nonce = Greatest(c.nonce, nonce)
               /\ s.contract.paid = c.paid + ContractDebt([c EXCEPT !.nonce = Greatest(@, nonce)], height)
               /\ isFinal => /\ s.contract.paid = s.contract.deposit
                             /\ s.contract.settlementHeight = height
               /\ ~isFinal => /\ s.client = 0
                              /\ s.contract.settlementHeight = c.settlementHeight
               /\ c.paid = c.deposit => s.provider = 0 /\ s.reserve = 0 /\ s.client = 0
<1> DEFINE n    == Greatest(c.nonce, nonce)
           d    == [c EXCEPT !.nonce = n]
           T    == ContractDebt(d, height)
           V    == ReserveShare(T)
           paid == c.paid + T
           rem  == IF isFinal THEN c.deposit - paid ELSE 0
           s    == SettleContract(c, nonce, isFinal)
           sh   == IF isFinal THEN height ELSE c.settlementHeight
<1>1. /\ c.paid \in Nat /\ c.deposit \in Nat /\ c.nonce \in 0 .. MaxNonce
      /\ MaxNonce \in Nat /\ height \in Nat
  BY MarketAssumptions, RegistryAssumptions DEF Contract, Heights
<1>2. n \in 0 .. MaxNonce
  BY <1>1 DEF Greatest
<1>3. /\ d \in Contract /\ d.paid = c.paid /\ d.deposit = c.deposit /\ d.nonce = n
      /\ SameTerms(c, d) /\ d.settlementHeight = c.settlementHeight
  BY <1>2 DEF Contract, SameTerms
<1>4. T \in Nat /\ T <= c.deposit - c.paid
  BY <1>1, <1>3, DebtBounds, ZenonT(60)
<1>5. V \in Nat /\ (T = 0 => V = 0) /\ (T > 0 => V < T)
  BY <1>4, ShareBounds
<1>6. /\ s.contract = [d EXCEPT !.paid = paid, !.deposit = c.deposit - rem,
                                !.settlementHeight = sh]
      /\ s.provider = T - V
      /\ s.reserve = IF T - V # 0 THEN V ELSE 0
      /\ s.client = rem
  BY <1>3 DEF SettleContract
<1> HIDE DEF n, d, T, V, s
<1>7. /\ paid \in Nat /\ rem \in Nat /\ c.deposit - rem \in Nat
      /\ paid <= c.deposit - rem /\ (isFinal => paid = c.deposit - rem)
      /\ sh \in 0 .. MaxHeight
  BY <1>1, <1>3, <1>4 DEF Contract, Heights
<1> HIDE DEF paid, rem, sh
<1>8. /\ s.contract \in Contract /\ SameTerms(c, s.contract)
      /\ s.contract.paid = paid /\ s.contract.deposit = c.deposit - rem
      /\ s.contract.nonce = n /\ s.contract.settlementHeight = sh
  <2> DEFINE dep == c.deposit - rem
  <2>1. dep \in Nat
    BY <1>7
  <2>2. s.contract = [d EXCEPT !.paid = paid, !.deposit = dep, !.settlementHeight = sh]
    BY <1>6
  <2> HIDE DEF dep
  <2>3. s.contract \in Contract
    BY <1>3, <1>7, <2>1, <2>2, ZenonT(60) DEF Contract
  <2>4. /\ s.contract.paid = paid /\ s.contract.deposit = dep
        /\ s.contract.nonce = n /\ s.contract.settlementHeight = sh
    BY <1>3, <2>2 DEF Contract
  <2>5. SameTerms(c, s.contract)
    BY <1>3, <2>2 DEF Contract, SameTerms
  <2> QED
    BY <2>3, <2>4, <2>5 DEF dep
<1>9. s.reserve = V /\ s.provider \in Nat
  BY <1>4, <1>5, <1>6
<1>10. T = ContractDebt([c EXCEPT !.nonce = Greatest(@, nonce)], height)
  BY DEF T, d, n
<1>11. /\ s.contract.paid = c.paid + s.provider + s.reserve
       /\ s.contract.nonce = Greatest(c.nonce, nonce)
  BY <1>1, <1>4, <1>5, <1>6, <1>8, <1>9 DEF n, paid
<1>12. c.paid = c.deposit => s.provider = 0 /\ s.reserve = 0 /\ s.client = 0
  BY <1>1, <1>4, <1>5, <1>6, <1>9 DEF rem, paid
<1>13. {s.provider, s.reserve, s.client} \subseteq Nat
  BY <1>5, <1>6, <1>7, <1>9
<1>14. s.contract.paid = c.paid + ContractDebt([c EXCEPT !.nonce = Greatest(@, nonce)], height)
  BY <1>8, <1>10 DEF paid
<1>15. /\ s.contract.deposit = c.deposit - s.client
       /\ s.contract.paid <= s.contract.deposit
       /\ isFinal => s.contract.paid = s.contract.deposit
  BY <1>6, <1>7, <1>8
<1>16. /\ isFinal => s.contract.settlementHeight = height
       /\ ~isFinal => s.client = 0 /\ s.contract.settlementHeight = c.settlementHeight
  BY <1>6, <1>8 DEF sh, rem
<1> QED
  BY <1>8, <1>11, <1>12, <1>13, <1>14, <1>15, <1>16 DEF s

-----------------------------------------------------------------------------
(* The inductive invariant *)

\* A stored contract was opened in this block or before it, and its settlement
\* period ends before the last block that is followed.
Opened ==
    \A id \in Ids : Exists(id) =>
        contracts[id].height <= height /\ SettlementPeriodEnd(contracts[id]) < MaxHeight

\* Nothing is refunded before the settlement.
RefundedLast == \A id \in Ids : ~Settled(id) => ledger[id].client = 0

\* Only stored contracts are closed, and only up to their expiration.
ClosedExist ==
    \A id \in Ids : \A k \in closedAt[id] : Exists(id) /\ k <= Expiration(contracts[id])

\* Where the entries of the expiration sets come from: OpenContract adds one at the
\* end of the settlement period, CloseContract one settlement period from the close.
Entries ==
    \A h \in Heights : \A id \in expirationSet[h] :
        /\ Exists(id)
        /\ \/ h = SettlementPeriodEnd(contracts[id])
           \/ /\ IsPayAsYouGo(contracts[id])
              /\ \E k \in closedAt[id] : h = k + contracts[id].settlementDuration

\* A contract that is not settled has an entry in the expiration sets that lies ahead,
\* unless the close of another contract removed one.
Scheduled ==
    \A id \in Ids : Exists(id) /\ ~Settled(id) =>
        \/ Unscheduled(id)
        \/ \E h \in Heights : h >= height /\ id \in expirationSet[h]

IInv ==
    /\ TypeOK /\ DepositAccounted /\ UserSetHoldsUnsettled /\ Opened /\ RefundedLast
    /\ ClosedExist /\ Entries /\ Scheduled /\ SettlementWindow

\* The accounts of one contract, as DepositAccounted states them.
Accounted(l, c) ==
    /\ c.paid <= c.deposit
    /\ c.paid = l.provider + l.reserve
    /\ l.deposited = l.provider + l.reserve + l.client + (c.deposit - c.paid)
    /\ c.settlementHeight # 0 => c.paid = c.deposit

Ledger == [deposited : Nat, provider : Nat, reserve : Nat, client : Nat]

\* The contracts of S have been settled, finally or not, and the others left alone.
Touched(S, isFinal) ==
    /\ contracts' \in [Ids -> Contract \cup {EmptyContract}]
    /\ ledger' \in [Ids -> Ledger]
    /\ userSet' = IF isFinal THEN [u \in Users |-> userSet[u] \ S] ELSE userSet
    /\ \A id \in Ids \ S : contracts'[id] = contracts[id] /\ ledger'[id] = ledger[id]
    /\ \A id \in S : /\ SameTerms(contracts[id], contracts'[id])
                      /\ Accounted(ledger'[id], contracts'[id])
                      /\ contracts'[id].settlementHeight =
                           IF isFinal THEN height ELSE contracts[id].settlementHeight

\* How the coins of the contracts of S have moved.
CoinsMoved(S, isFinal) ==
    \A id \in S :
        /\ contracts[id] \in Contract /\ contracts'[id] \in Contract
        /\ ledger'[id].deposited = ledger[id].deposited
        /\ contracts'[id].paid >= contracts[id].paid
        /\ contracts'[id].paid + ledger'[id].client <= ledger[id].deposited
        /\ ~isFinal => contracts'[id].deposit = contracts[id].deposit
                        /\ ledger'[id].client = ledger[id].client
        /\ Settled(id) => /\ ledger'[id] = ledger[id]
                          /\ contracts'[id].paid = contracts[id].paid
                          /\ contracts'[id].deposit = contracts[id].deposit

\* The common part of a claim, a close and an end block: coins are paid for the
\* contracts of P, the records of S are stored, and what P adds to S is settled
\* already.  Then nothing happens outside S, and the accounts of S still agree.
LEMMA SettleStep ==
    ASSUME TypeOK, DepositAccounted,
           NEW P \in SUBSET Ids, NEW S \in SUBSET P,
           \A id \in P : Exists(id), \A id \in P \ S : Settled(id),
           NEW nonce \in 0 .. MaxNonce, NEW isFinal \in BOOLEAN,
           PayOut(P, nonce, isFinal), Record(S, nonce, isFinal)
    PROVE  Touched(S, isFinal) /\ CoinsMoved(S, isFinal)
<1> DEFINE s(id) == SettleContract(contracts[id], nonce, isFinal)
<1>1. height \in Heights /\ contracts \in [Ids -> Contract \cup {EmptyContract}]
      /\ ledger \in [Ids -> Ledger]
  BY DEF TypeOK, Ledger
<1>2. \A id \in P : contracts[id] \in Contract
  BY <1>1 DEF Exists, IsEmpty, EmptyContract
<1>3. \A id \in Ids : Accounted(ledger[id], contracts[id])
  BY DEF DepositAccounted, Accounted, Settled
<1>4. \A id \in Ids :
        ledger'[id] = IF id \in P
                      THEN [ledger[id] EXCEPT !.provider = @ + s(id).provider,
                                              !.reserve  = @ + s(id).reserve,
                                              !.client   = @ + s(id).client]
                      ELSE ledger[id]
  BY ZenonT(60) DEF PayOut
<1>5. \A id \in Ids : contracts'[id] = IF id \in S THEN s(id).contract ELSE contracts[id]
  BY DEF Record
<1>6. DOMAIN ledger' = Ids /\ ledger' = [id \in Ids |-> ledger'[id]]
      /\ contracts' = [id \in Ids |-> contracts'[id]]
  BY ZenonT(60) DEF PayOut, Record
<1> HIDE DEF s
<1>7. ASSUME NEW id \in P
      PROVE  /\ s(id).contract \in Contract /\ SameTerms(contracts[id], s(id).contract)
             /\ s(id).provider \in Nat /\ s(id).reserve \in Nat /\ s(id).client \in Nat
             /\ s(id).contract.paid = contracts[id].paid + s(id).provider + s(id).reserve
             /\ s(id).contract.deposit = contracts[id].deposit - s(id).client
             /\ s(id).contract.paid <= s(id).contract.deposit
             /\ s(id).contract.nonce = Greatest(contracts[id].nonce, nonce)
             /\ isFinal => /\ s(id).contract.paid = s(id).contract.deposit
                           /\ s(id).contract.settlementHeight = height
             /\ ~isFinal => /\ s(id).client = 0
                            /\ s(id).contract.settlementHeight
                                 = contracts[id].settlementHeight
             /\ contracts[id].paid = contracts[id].deposit =>
                  s(id).provider = 0 /\ s(id).reserve = 0 /\ s(id).client = 0
  <2>1. contracts[id].paid <= contracts[id].deposit
    BY <1>3 DEF Accounted
  <2> QED
    BY <1>1, <1>2, <2>1, SettleEffect, ZenonT(60) DEF s
<1>8. ASSUME NEW id \in P
      PROVE  /\ ledger'[id] \in Ledger
             /\ ledger'[id].deposited = ledger[id].deposited
             /\ ledger'[id].provider = ledger[id].provider + s(id).provider
             /\ ledger'[id].reserve = ledger[id].reserve + s(id).reserve
             /\ ledger'[id].client = ledger[id].client + s(id).client
  <2> DEFINE p == s(id).provider
             r == s(id).reserve
             cl == s(id).client
             l == ledger[id]
  <2>1. p \in Nat /\ r \in Nat /\ cl \in Nat /\ l \in Ledger
    BY <1>1, <1>7
  <2>2. ledger'[id] = [l EXCEPT !.provider = l.provider + p, !.reserve = l.reserve + r,
                                !.client = l.client + cl]
    BY <1>4, <2>1, ZenonT(60) DEF Ledger
  <2> HIDE DEF p, r, cl, l
  <2> DEFINE lp == l.provider + p
             lr == l.reserve + r
             lc == l.client + cl
  <2>3. lp \in Nat /\ lr \in Nat /\ lc \in Nat
    BY <2>1 DEF Ledger
  <2>4. ledger'[id] = [l EXCEPT !.provider = lp, !.reserve = lr, !.client = lc]
    BY <2>2
  <2> HIDE DEF lp, lr, lc
  <2>5. /\ ledger'[id] \in Ledger
        /\ ledger'[id].deposited = l.deposited
        /\ ledger'[id].provider = lp
        /\ ledger'[id].reserve = lr
        /\ ledger'[id].client = lc
    BY <2>1, <2>3, <2>4, ZenonT(60) DEF Ledger
  <2> QED
    BY <2>5 DEF p, r, cl, l, lp, lr, lc
<1>9. ASSUME NEW id \in P, Settled(id)
      PROVE  /\ ledger'[id] = ledger[id]
             /\ s(id).contract.paid = contracts[id].paid
             /\ s(id).contract.deposit = contracts[id].deposit
  <2>1. contracts[id].paid = contracts[id].deposit
    BY <1>3, <1>9 DEF Accounted, Settled
  <2>2. s(id).provider = 0 /\ s(id).reserve = 0 /\ s(id).client = 0
    BY <1>7, <2>1
  <2>3. /\ contracts[id].paid \in Nat /\ contracts[id].deposit \in Nat
        /\ ledger[id] \in Ledger
    BY <1>1, <1>2 DEF Contract
  <2>4. s(id).contract.paid = contracts[id].paid
        /\ s(id).contract.deposit = contracts[id].deposit
    BY <1>7, <2>2, <2>3
  <2>5. ledger'[id] = ledger[id]
    <3>1. /\ ledger'[id] \in Ledger
          /\ ledger'[id].deposited = ledger[id].deposited
          /\ ledger'[id].provider = ledger[id].provider
          /\ ledger'[id].reserve = ledger[id].reserve
          /\ ledger'[id].client = ledger[id].client
      BY <1>8, <2>2, <2>3 DEF Ledger
    <3> QED
      BY <2>3, <3>1 DEF Ledger
  <2> QED
    BY <2>4, <2>5
<1>10. ASSUME NEW id \in S
       PROVE  /\ Accounted(ledger'[id], contracts'[id])
              /\ contracts'[id].paid >= contracts[id].paid
              /\ contracts'[id].paid + ledger'[id].client <= ledger[id].deposited
  <2>1. contracts'[id] = s(id).contract /\ id \in P
    BY <1>5
  <2>2. /\ contracts[id].paid \in Nat /\ contracts[id].deposit \in Nat
        /\ contracts[id].settlementHeight \in Nat
        /\ ledger[id].deposited \in Nat /\ ledger[id].provider \in Nat
        /\ ledger[id].reserve \in Nat /\ ledger[id].client \in Nat
    BY <1>1, <1>2 DEF Contract, Ledger
  <2>3. Accounted(ledger[id], contracts[id])
    BY <1>3
  <2>4. contracts'[id].settlementHeight # 0 => contracts'[id].paid = contracts'[id].deposit
    <3>1. CASE isFinal
      BY <1>7, <2>1, <3>1
    <3>2. CASE ~isFinal
      BY <1>7, <1>9, <2>1, <2>3, <3>2 DEF Accounted, Settled
    <3> QED
      BY <3>1, <3>2
  <2> QED
    <3> DEFINE cp == contracts[id].paid    cd == contracts[id].deposit
               dp == contracts'[id].paid   dd == contracts'[id].deposit
               p  == s(id).provider   r == s(id).reserve   x == s(id).client
               lt == ledger[id].deposited  lp == ledger[id].provider
               lr == ledger[id].reserve    lc == ledger[id].client
               mt == ledger'[id].deposited mp == ledger'[id].provider
               mr == ledger'[id].reserve   mc == ledger'[id].client
    <3>1. /\ dp = cp + p + r /\ dd = cd - x /\ dp <= dd
          /\ p \in Nat /\ r \in Nat /\ x \in Nat
      BY <1>7, <2>1
    <3>2. mt = lt /\ mp = lp + p /\ mr = lr + r /\ mc = lc + x
      BY <1>8, <2>1
    <3>3. cp <= cd /\ cp = lp + lr /\ lt = lp + lr + lc + (cd - cp)
      BY <2>3 DEF Accounted
    <3>4. /\ cp \in Nat /\ cd \in Nat
          /\ lt \in Nat /\ lp \in Nat /\ lr \in Nat /\ lc \in Nat
      BY <2>2
    <3>5. contracts'[id].settlementHeight # 0 => dp = dd
      BY <2>4
    <3> HIDE DEF cp, cd, dp, dd, p, r, x, lt, lp, lr, lc, mt, mp, mr, mc
    <3>6. dp = mp + mr /\ dp >= cp
      BY <3>1, <3>2, <3>3, <3>4
    <3>7. mt = mp + mr + mc + (dd - dp)
      BY <3>1, <3>2, <3>3, <3>4
    <3>8. dp + mc <= lt
      BY <3>1, <3>2, <3>3, <3>4
    <3> QED
      BY <3>1, <3>5, <3>6, <3>7, <3>8
      DEF Accounted, cp, dp, dd, lt, mt, mp, mr, mc
<1>11. \A id \in Ids \ S :
         contracts'[id] = contracts[id] /\ ledger'[id] = ledger[id]
  BY <1>4, <1>5, <1>9, ZenonT(60)
<1>12. /\ contracts' \in [Ids -> Contract \cup {EmptyContract}]
       /\ ledger' \in [Ids -> Ledger]
  BY <1>1, <1>4, <1>5, <1>6, <1>7, <1>8, ZenonT(60)
<1>13. \A id \in S : contracts'[id] = s(id).contract /\ id \in P
  BY <1>5
<1>14. \A id \in S : ~isFinal => contracts'[id].deposit = contracts[id].deposit
                                 /\ ledger'[id].client = ledger[id].client
  <2> SUFFICES ASSUME NEW id \in S, ~isFinal
               PROVE  /\ contracts'[id].deposit = contracts[id].deposit
                      /\ ledger'[id].client = ledger[id].client
    OBVIOUS
  <2>1. id \in P /\ contracts'[id] = s(id).contract
    BY <1>13
  <2>2. s(id).client = 0 /\ s(id).contract.deposit = contracts[id].deposit - s(id).client
    BY <1>7, <2>1
  <2>3. ledger'[id].client = ledger[id].client + s(id).client
    BY <1>8, <2>1
  <2>4. contracts[id].deposit \in Nat /\ ledger[id].client \in Nat
    BY <1>1, <1>2, <2>1 DEF Contract, Ledger
  <2> QED
    BY <2>1, <2>2, <2>3, <2>4
<1>15. Touched(S, isFinal)
  BY <1>7, <1>10, <1>11, <1>12, <1>13, ZenonT(60) DEF Touched, Record
<1>16. CoinsMoved(S, isFinal)
  BY <1>2, <1>7, <1>8, <1>9, <1>10, <1>13, <1>14 DEF CoinsMoved
<1> QED
  BY <1>15, <1>16

\* The invariant holds initially.
LEMMA InitIInv == Init => IInv
<1> SUFFICES ASSUME Init PROVE IInv
  OBVIOUS
<1> USE DEF Init, RegistryInit, ContractsInit
<1>1. \A id \in Ids : contracts[id] = EmptyContract /\ closedAt[id] = {}
  OBVIOUS
<1>2. \A id \in Ids : ~Exists(id) /\ ~Settled(id)
  BY <1>1 DEF Exists, Settled, IsEmpty, EmptyContract
<1>3. TypeOK
  <2>1. NewProvider \in ProviderRecord
    BY DEF NewProvider, ProviderRecord
  <2>2. height \in Heights /\ nextId \in 1 .. MaxContracts + 1
    BY RegistryAssumptions, MarketAssumptions DEF Heights
  <2>3. \A id \in Ids : contracts[id] = EmptyContract <=> id >= nextId
    BY <1>1 DEF Ids
  <2> QED
    BY <2>1, <2>2, <2>3, MarketAssumptions DEF TypeOK
<1>4. DepositAccounted
  BY <1>1, <1>2 DEF DepositAccounted, EmptyContract
<1>5. UserSetHoldsUnsettled
  BY <1>2 DEF UserSetHoldsUnsettled
<1>6. Opened /\ RefundedLast /\ ClosedExist /\ Entries /\ Scheduled /\ SettlementWindow
  BY <1>1, <1>2 DEF Opened, RefundedLast, ClosedExist, Entries, Scheduled, SettlementWindow
<1> QED
  BY <1>3, <1>4, <1>5, <1>6 DEF IInv

\* The record a valid MsgModProvider leaves is a provider record.
LEMMA ModifiedType ==
    ASSUME NEW r \in ProviderRecord, NEW o \in Offers, ValidOffer(o)
    PROVE  Modified(r, o) \in ProviderRecord
<1>1. /\ o.minContractDuration \in Nat /\ o.maxContractDuration \in Nat
      /\ o.settlementDuration \in Nat /\ o.subscriptionRate \in Nat
      /\ o.payAsYouGoRate \in Nat /\ o.status \in {"OFFLINE", "ONLINE"}
      /\ o.metadataNonce \in Int
  BY RegistryAssumptions DEF ValidOffer
<1>2. (IF r.metadataNonce < o.metadataNonce
       THEN o.metadataNonce ELSE r.metadataNonce) \in Nat
  BY <1>1 DEF ProviderRecord
<1> QED
  BY <1>1, <1>2, ZenonT(60) DEF Modified, ProviderRecord

\* The provider records keep their type.
LEMMA RegistryType ==
    ASSUME TypeOK, RegistryNext
    PROVE  providers' \in [Providers -> ProviderRecord] /\ height' = height
<1>1. providers \in [Providers -> ProviderRecord]
  BY DEF TypeOK
<1>2. NewProvider \in ProviderRecord
  BY DEF NewProvider, ProviderRecord
<1>3. ASSUME NEW p \in Providers, NEW bond \in Bonds, BondProvider(p, bond)
      PROVE  providers' \in [Providers -> ProviderRecord] /\ height' = height
  <2> DEFINE new == [providers[p] EXCEPT !.bond = providers[p].bond + bond, !.updated = TRUE]
  <2>1. providers[p].bond + bond \in Nat
    BY <1>1, <1>3, RegistryAssumptions DEF BondProvider, ProviderRecord
  <2>2. new \in ProviderRecord
    BY <1>1, <2>1, ZenonT(60) DEF ProviderRecord
  <2>3. SetProvider(p, new) /\ height' = height
    BY <1>3 DEF BondProvider
  <2> HIDE DEF new
  <2> QED
    BY <1>1, <1>2, <2>2, <2>3 DEF SetProvider
<1>4. ASSUME NEW p \in Providers, NEW o \in Offers, ModProvider(p, o)
      PROVE  providers' \in [Providers -> ProviderRecord] /\ height' = height
  <2> DEFINE new == Modified(providers[p], o)
  <2>3. new \in ProviderRecord
    BY <1>1, <1>4, ModifiedType DEF ModProvider
  <2>4. SetProvider(p, new) /\ height' = height
    BY <1>4 DEF ModProvider
  <2> HIDE DEF new
  <2> QED
    BY <1>1, <1>2, <2>3, <2>4 DEF SetProvider
<1> QED
  BY <1>3, <1>4 DEF RegistryNext

\* A step that leaves the contracts and the lists alone preserves all of the
\* invariant but the types.
LEMMA ContractsSame ==
    ASSUME IInv, UNCHANGED <<height, contracts, expirationSet, userSet, ledger, closedAt>>
    PROVE  /\ DepositAccounted' /\ UserSetHoldsUnsettled' /\ Opened' /\ RefundedLast'
           /\ ClosedExist' /\ Entries' /\ Scheduled' /\ SettlementWindow'
<1> USE DEF Settled, Exists, Spender
<1>1. DepositAccounted'
  BY DEF IInv, DepositAccounted
<1>2. UserSetHoldsUnsettled'
  BY DEF IInv, UserSetHoldsUnsettled
<1>3. Opened' /\ RefundedLast'
  BY DEF IInv, Opened, RefundedLast
<1>4. ClosedExist'
  BY DEF IInv, ClosedExist
<1>5. Entries'
  BY DEF IInv, Entries
<1>6. Scheduled'
  BY DEF IInv, Scheduled, Unscheduled, SettlementDates
<1>7. SettlementWindow'
  BY DEF IInv, SettlementWindow, SettlementDates
<1> QED
  BY <1>1, <1>2, <1>3, <1>4, <1>5, <1>6, <1>7

\* BondProvider and ModProvider preserve the invariant: they touch no contract.
LEMMA RegistryStep ==
    ASSUME IInv, RegistryNext, UNCHANGED contractVars
    PROVE  IInv'
<1>1. providers' \in [Providers -> ProviderRecord] /\ height' = height
  BY RegistryType DEF IInv
<1>2. TypeOK'
  BY <1>1 DEF IInv, TypeOK, contractVars
<1>3. /\ DepositAccounted' /\ UserSetHoldsUnsettled' /\ Opened' /\ RefundedLast'
      /\ ClosedExist' /\ Entries' /\ Scheduled' /\ SettlementWindow'
  BY <1>1, ContractsSame DEF contractVars
<1> QED
  BY <1>2, <1>3 DEF IInv

\* Signing a call preserves the invariant.
LEMMA SignStep ==
    ASSUME IInv, NEW id \in Ids, SignCall(id)
    PROVE  IInv'
<1> USE DEF SignCall, registryVars
<1>1. signed' \in [Ids -> 0 .. MaxNonce]
  BY MarketAssumptions DEF IInv, TypeOK
<1>2. TypeOK'
  BY <1>1 DEF IInv, TypeOK
<1>3. /\ DepositAccounted' /\ UserSetHoldsUnsettled' /\ Opened' /\ RefundedLast'
      /\ ClosedExist' /\ Entries' /\ Scheduled' /\ SettlementWindow'
  BY ContractsSame
<1> QED
  BY <1>2, <1>3 DEF IInv

\* OpenContract stores a well-formed contract.
LEMMA NewContractType ==
    ASSUME height \in Heights, NEW r \in Requests, NEW p \in Providers,
           NEW client \in Users, NEW delegate \in Users \cup {EmptyPubKey},
           OpenContractValidate(r, p, GetSpender(NewContract(r, p, client, delegate)))
    PROVE  LET c == NewContract(r, p, client, delegate)
           IN  /\ c \in Contract /\ c.height = height /\ c.paid = 0
               /\ c.deposit = r.deposit /\ c.settlementHeight = 0 /\ c.nonce = 0
               /\ SettlementPeriodEnd(c) > height
               /\ GetSpender(c) \in Users
<1> DEFINE c == NewContract(r, p, client, delegate)
<1>1. /\ r.duration \in Int /\ r.rate \in Int /\ r.queriesPerMinute \in Int
      /\ r.deposit \in Int /\ r.settlementDuration \in Int
      /\ r.type \in {SUBSCRIPTION, PAY_AS_YOU_GO} /\ r.authorization \in {STRICT, OPEN}
  BY MarketAssumptions
<1>2. /\ r.duration > 0 /\ r.rate > 0 /\ r.queriesPerMinute > 0 /\ r.deposit >= 0
      /\ r.settlementDuration >= 0
  BY DEF OpenContractValidate, ValidRequest, MatchesOffer
<1>3. /\ r.duration \in Nat \ {0} /\ r.rate \in Nat \ {0}
      /\ r.queriesPerMinute \in Nat \ {0} /\ r.deposit \in Nat
      /\ r.settlementDuration \in Nat
  BY <1>1, <1>2
<1>4. 0 \in 0 .. MaxNonce /\ 0 \in 0 .. MaxHeight /\ height \in Nat
  BY MarketAssumptions, RegistryAssumptions DEF Heights
<1>5. (IF delegate = EmptyPubKey THEN client ELSE delegate) \in Users
  OBVIOUS
<1>6. c \in Contract
  BY <1>1, <1>3, <1>4, <1>5, ZenonT(60) DEF NewContract, Contract
<1>7. /\ c.height = height /\ c.paid = 0 /\ c.deposit = r.deposit
      /\ c.settlementHeight = 0 /\ c.nonce = 0 /\ c.duration = r.duration
      /\ c.settlementDuration = r.settlementDuration
      /\ c.client = client /\ c.delegate \in Users
  BY <1>5 DEF NewContract
<1> HIDE DEF c
<1>8. SettlementPeriodEnd(c) > height
  <2>1. /\ SettlementPeriodEnd(c) \in Nat /\ Expiration(c) \in Nat
        /\ SettlementPeriodEnd(c) >= Expiration(c) /\ Expiration(c) > c.height
    BY <1>6, Dates
  <2>2. c.height = height /\ height \in Nat
    BY <1>4, <1>7
  <2> QED
    BY <2>1, <2>2, SMTT(60)
<1>9. GetSpender(c) \in Users
  BY <1>7 DEF GetSpender
<1> QED
  BY <1>6, <1>7, <1>8, <1>9 DEF c

\* OpenContract preserves the invariant.
LEMMA OpenStep ==
    ASSUME IInv, NEW r \in Requests, NEW p \in Providers, NEW client \in Users,
           NEW delegate \in Users \cup {EmptyPubKey}, OpenContract(r, p, client, delegate)
    PROVE  IInv'
<1> DEFINE c == NewContract(r, p, client, delegate)
           e == SettlementPeriodEnd(c)
<1>0. PICK n \in Ids : n = nextId
  BY DEF OpenContract
<1>1. /\ n = nextId /\ n \in Ids /\ e < MaxHeight
      /\ OpenContractValidate(r, p, GetSpender(c))
      /\ contracts' = [contracts EXCEPT ![n] = c]
      /\ expirationSet' = [expirationSet EXCEPT ![e] = @ \cup {n}]
      /\ userSet' = [userSet EXCEPT ![GetSpender(c)] = @ \cup {n}]
      /\ ledger' = [ledger EXCEPT ![n].deposited = r.deposit]
      /\ nextId' = n + 1
      /\ UNCHANGED <<height, providers, signed, closedAt>>
  BY <1>0 DEF OpenContract
<1>2. /\ height \in Heights /\ height \in Nat /\ MaxHeight \in Nat
      /\ nextId \in 1 .. MaxContracts + 1 /\ MaxContracts \in Nat
      /\ contracts \in [Ids -> Contract \cup {EmptyContract}]
      /\ \A id \in Ids : contracts[id] = EmptyContract <=> id >= nextId
      /\ expirationSet \in [Heights -> SUBSET Ids]
      /\ userSet \in [Users -> SUBSET Ids]
      /\ ledger \in [Ids -> Ledger]
  BY RegistryAssumptions, MarketAssumptions DEF IInv, TypeOK, Heights, Ledger
<1>3. /\ c \in Contract /\ c.height = height /\ c.paid = 0
      /\ c.deposit = r.deposit /\ c.settlementHeight = 0
      /\ e > height /\ GetSpender(c) \in Users
  BY <1>1, <1>2, NewContractType
<1> HIDE DEF c
<1>4. e \in Heights /\ c # EmptyContract /\ r.deposit \in Nat
  <2>1. c.height \in Nat /\ c.duration \in Nat /\ c.settlementDuration \in Nat
    BY <1>3, <1>2 DEF Contract
  <2>2. e \in Int
    BY <2>1 DEF SettlementPeriodEnd, Expiration
  <2>3. c # EmptyContract
    BY <1>2, <1>3 DEF EmptyContract, Heights
  <2> QED
    BY <1>1, <1>2, <1>3, <2>2, <2>3 DEF Heights, Contract
<1> HIDE DEF e
<1>5. ~Exists(n) /\ n \in Nat
  BY <1>1, <1>2 DEF Exists, IsEmpty, EmptyContract
<1>6. /\ contracts'[n] = c
      /\ \A id \in Ids \ {n} : contracts'[id] = contracts[id] /\ ledger'[id] = ledger[id]
      /\ ledger'[n] = [ledger[n] EXCEPT !.deposited = r.deposit]
  BY <1>1, <1>2
<1>7. TypeOK'
  <2>1. contracts' \in [Ids -> Contract \cup {EmptyContract}]
    BY <1>1, <1>2, <1>3
  <2>2. (\A id \in Ids : contracts[id] = EmptyContract <=> id >= nextId)'
    BY <1>1, <1>2, <1>4, <1>6 DEF Ids
  <2>3. ledger' \in [Ids -> Ledger]
    BY <1>1, <1>2, <1>4 DEF Ledger
  <2>4. expirationSet' \in [Heights -> SUBSET Ids] /\ userSet' \in [Users -> SUBSET Ids]
    BY <1>1, <1>2, <1>3, <1>4
  <2>5. nextId' \in 1 .. MaxContracts + 1
    BY <1>1, <1>2 DEF Ids
  <2>6. /\ height' \in Heights /\ providers' \in [Providers -> ProviderRecord]
        /\ signed' \in [Ids -> 0 .. MaxNonce] /\ closedAt' \in [Ids -> SUBSET Heights]
    BY <1>1 DEF IInv, TypeOK
  <2> QED
    BY <2>1, <2>2, <2>3, <2>4, <2>5, <2>6 DEF TypeOK, Ledger
<1>8. /\ Exists(n)' /\ ~Settled(n)'
      /\ \A id \in Ids \ {n} : (Exists(id)' <=> Exists(id)) /\ (Settled(id)' <=> Settled(id))
                               /\ Spender(id)' = Spender(id)
  <2>1. c.height # 0
    BY <1>2, <1>3 DEF Heights
  <2> QED
    BY <1>3, <1>6, <2>1 DEF Exists, Settled, Spender, IsEmpty
<1>9. DepositAccounted' /\ RefundedLast'
  <2>1. ledger[n].client = 0 /\ ledger[n].provider = 0 /\ ledger[n].reserve = 0
    <3>1. contracts[n].paid = 0 /\ contracts[n].paid = ledger[n].provider + ledger[n].reserve
      BY <1>1, <1>2 DEF IInv, DepositAccounted, EmptyContract
    <3>2. ledger[n].client = 0
      BY <1>1, <1>2 DEF IInv, RefundedLast, Settled, EmptyContract
    <3> QED
      BY <1>1, <1>2, <3>1, <3>2 DEF Ledger
  <2>2. /\ ledger'[n].deposited = r.deposit /\ ledger'[n].client = 0
        /\ ledger'[n].provider = 0 /\ ledger'[n].reserve = 0
    BY <1>1, <1>2, <1>6, <2>1 DEF Ledger
  <2>3. DepositAccounted'
    <3>1. \A id \in Ids : Accounted(ledger[id], contracts[id])
      BY DEF IInv, DepositAccounted, Accounted, Settled
    <3>2. Accounted(ledger'[n], contracts'[n])
      BY <1>3, <1>4, <1>6, <2>2 DEF Accounted
    <3>3. \A id \in Ids : Accounted(ledger'[id], contracts'[id])
      BY <1>6, <3>1, <3>2
    <3> QED
      BY <3>3 DEF DepositAccounted, Accounted, Settled
  <2>4. RefundedLast'
    BY <1>6, <1>8, <2>2, ZenonT(60) DEF IInv, RefundedLast, Settled
  <2> QED
    BY <2>3, <2>4
<1>10. UserSetHoldsUnsettled'
  <2>1. Spender(n)' = GetSpender(c)
    BY <1>6 DEF Spender
  <2>2. \A u \in Users : n \notin userSet[u]
    BY <1>1, <1>5 DEF IInv, UserSetHoldsUnsettled
  <2>3. \A id \in Ids, u \in Users :
          id \in userSet'[u] <=> id \in userSet[u] \/ (id = n /\ u = GetSpender(c))
    BY <1>1, <1>2
  <2>4. ASSUME NEW id \in Ids, NEW u \in Users
        PROVE  id \in userSet'[u] <=> Exists(id)' /\ ~Settled(id)' /\ Spender(id)' = u
    <3>1. CASE id = n
      BY <1>8, <2>1, <2>2, <2>3, <3>1
    <3>2. CASE id # n
      BY <1>8, <2>3, <3>2 DEF IInv, UserSetHoldsUnsettled
    <3> QED
      BY <3>1, <3>2
  <2> QED
    BY <2>4 DEF UserSetHoldsUnsettled
<1>11. Opened' /\ ClosedExist'
  <2>1. Opened'
    BY <1>1, <1>2, <1>3, <1>6, <1>8 DEF IInv, Opened, e
  <2>2. ClosedExist'
    BY <1>1, <1>5, <1>6, <1>8 DEF IInv, ClosedExist
  <2> QED
    BY <2>1, <2>2
<1>12. Entries'
  <2>1. \A h \in Heights, id \in Ids :
          id \in expirationSet'[h] <=> id \in expirationSet[h] \/ (id = n /\ h = e)
    BY <1>1, <1>2, <1>4
  <2>2. \A h \in Heights : n \notin expirationSet[h]
    BY <1>5 DEF IInv, Entries
  <2>3. ASSUME NEW h \in Heights, NEW id \in expirationSet'[h]
        PROVE  /\ Exists(id)'
               /\ \/ h = SettlementPeriodEnd(contracts'[id])
                  \/ /\ IsPayAsYouGo(contracts'[id])
                     /\ \E k \in closedAt'[id] : h = k + contracts'[id].settlementDuration
    <3>0. id \in Ids
      BY <1>7 DEF TypeOK
    <3>1. CASE id = n
      BY <1>6, <1>8, <2>1, <2>2, <3>0, <3>1 DEF e
    <3>2. CASE id # n
      BY <1>1, <1>6, <1>8, <2>1, <3>0, <3>2 DEF IInv, Entries
    <3> QED
      BY <3>1, <3>2
  <2> QED
    BY <1>1, <2>3 DEF Entries, Heights
<1>13. Scheduled'
  <2>1. ASSUME NEW id \in Ids, id # n, Unscheduled(id)
        PROVE  Unscheduled(id)'
    <3>1. PICK j \in Ids \ {id} :
            /\ closedAt[j] # {} /\ IsPayAsYouGo(contracts[j])
            /\ Expiration(contracts[j]) \in SettlementDates(id)
      BY <2>1, ZenonT(60) DEF Unscheduled
    <3>2. j # n
      BY <1>5, <3>1 DEF IInv, ClosedExist
    <3>3. SettlementDates(id)' = SettlementDates(id)
      BY <1>1, <1>6, <2>1 DEF SettlementDates
    <3> QED
      BY <1>1, <1>6, <2>1, <3>1, <3>2, <3>3 DEF Unscheduled
  <2>2. n \in expirationSet'[e] /\ \A h \in Heights : expirationSet[h] \subseteq expirationSet'[h]
    BY <1>1, <1>2, <1>4
  <2>3. ASSUME NEW id \in Ids, Exists(id)', ~Settled(id)'
        PROVE  \/ Unscheduled(id)'
               \/ \E h \in Heights : h >= height' /\ id \in expirationSet'[h]
    <3>1. CASE id = n
      BY <1>1, <1>2, <1>3, <1>4, <2>2, <3>1 DEF Heights
    <3>2. CASE id # n
      <4>1. Exists(id) /\ ~Settled(id)
        BY <1>8, <2>3, <3>2
      <4>2. Unscheduled(id) \/ \E h \in Heights : h >= height /\ id \in expirationSet[h]
        BY <4>1 DEF IInv, Scheduled
      <4> QED
        BY <1>1, <2>1, <2>2, <3>2, <4>2
    <3> QED
      BY <3>1, <3>2
  <2> QED
    BY <1>1, <2>3 DEF Scheduled
<1>14. SettlementWindow'
  BY <1>1, <1>6, <1>8 DEF IInv, SettlementWindow, SettlementDates
<1> QED
  BY <1>7, <1>9, <1>10, <1>11, <1>12, <1>13, <1>14 DEF IInv

\* The dates and the spender of a contract depend on its terms only.
LEMMA TermsKept ==
    ASSUME NEW c, NEW d, SameTerms(c, d)
    PROVE  /\ Expiration(d) = Expiration(c)
           /\ SettlementPeriodEnd(d) = SettlementPeriodEnd(c)
           /\ IsPayAsYouGo(d) = IsPayAsYouGo(c)
           /\ IsSubscription(d) = IsSubscription(c)
           /\ GetSpender(d) = GetSpender(c)
           /\ IsEmpty(d) = IsEmpty(c)
  BY DEF SameTerms, Expiration, SettlementPeriodEnd, IsPayAsYouGo, IsSubscription,
     GetSpender, IsEmpty

\* What a settlement of S preserves, whatever else the step does to the dates.
LEMMA TouchedKeeps ==
    ASSUME IInv, NEW S \in SUBSET Ids, \A id \in S : Exists(id),
           NEW isFinal \in BOOLEAN, Touched(S, isFinal), CoinsMoved(S, isFinal),
           height' \in Heights, height' >= height, UNCHANGED <<providers, nextId, signed>>,
           expirationSet' \in [Heights -> SUBSET Ids],
           closedAt' \in [Ids -> SUBSET Heights],
           \A id \in Ids : \A k \in closedAt'[id] :
             k \in closedAt[id] \/ (Exists(id) /\ k <= Expiration(contracts[id]))
    PROVE  /\ TypeOK' /\ DepositAccounted' /\ UserSetHoldsUnsettled' /\ Opened'
           /\ RefundedLast' /\ ClosedExist'
           /\ \A id \in Ids :
                /\ SameTerms(contracts[id], contracts'[id])
                /\ Exists(id)' <=> Exists(id)
                /\ Settled(id)' <=> Settled(id) \/ (isFinal /\ id \in S)
<1>1. /\ height \in Heights /\ height \in Nat /\ height # 0 /\ MaxHeight \in Nat
      /\ \A id \in Ids : contracts[id] = EmptyContract <=> id >= nextId
      /\ userSet \in [Users -> SUBSET Ids]
  BY RegistryAssumptions DEF IInv, TypeOK, Heights
<1>2. \A id \in Ids : SameTerms(contracts[id], contracts'[id])
  BY ZenonT(60) DEF Touched, SameTerms
<1>3. \A id \in Ids : /\ Exists(id)' <=> Exists(id)
                      /\ Spender(id)' = Spender(id)
                      /\ SettlementPeriodEnd(contracts'[id]) = SettlementPeriodEnd(contracts[id])
                      /\ contracts'[id].height = contracts[id].height
  BY <1>2, TermsKept, ZenonT(60) DEF Exists, Spender, SameTerms
<1>4. \A id \in Ids : Settled(id)' <=> Settled(id) \/ (isFinal /\ id \in S)
  BY <1>1, ZenonT(60) DEF Touched, Settled
<1>5. TypeOK'
  <2>1. \A id \in Ids : contracts[id] = EmptyContract <=> ~Exists(id)
    <3>1. \A id \in Ids : contracts[id] \in Contract \cup {EmptyContract}
      BY DEF IInv, TypeOK
    <3> QED
      BY <3>1, EmptyOnly DEF Exists
  <2>2. \A id \in Ids : contracts'[id] = EmptyContract <=> ~Exists(id)'
    <3>1. \A id \in Ids : contracts'[id] \in Contract \cup {EmptyContract}
      BY ZenonT(60) DEF Touched
    <3> QED
      BY <3>1, EmptyOnly DEF Exists
  <2>3. (\A id \in Ids : contracts[id] = EmptyContract <=> id >= nextId)'
    BY <1>1, <1>3, <2>1, <2>2, ZenonT(60) DEF Exists, Settled, Spender
  <2>4. userSet' \in [Users -> SUBSET Ids]
    BY <1>1, ZenonT(60) DEF Touched
  <2>5. /\ providers' \in [Providers -> ProviderRecord]
        /\ nextId' \in 1 .. MaxContracts + 1
        /\ signed' \in [Ids -> 0 .. MaxNonce]
    BY DEF IInv, TypeOK
  <2>6. /\ contracts' \in [Ids -> Contract \cup {EmptyContract}]
        /\ ledger' \in [Ids -> Ledger]
    BY DEF Touched
  <2> QED
    BY <2>3, <2>4, <2>5, <2>6, ZenonT(60) DEF TypeOK, Ledger
<1>6. DepositAccounted'
  <2>1. \A id \in Ids : Accounted(ledger[id], contracts[id])
    BY ZenonT(60) DEF IInv, DepositAccounted, Accounted, Settled
  <2>2. \A id \in Ids : Accounted(ledger'[id], contracts'[id])
    BY <2>1, ZenonT(60) DEF Touched
  <2> QED
    BY <2>2, ZenonT(60) DEF DepositAccounted, Accounted, Settled
<1>7. UserSetHoldsUnsettled'
  <2>1. \A id \in Ids, u \in Users :
          id \in userSet'[u] <=> id \in userSet[u] /\ ~(isFinal /\ id \in S)
    BY <1>1 DEF Touched
  <2>2. \A id \in Ids, u \in Users :
          id \in userSet[u] <=> Exists(id) /\ ~Settled(id) /\ Spender(id) = u
    BY ZenonT(60) DEF IInv, UserSetHoldsUnsettled
  <2>3. \A id \in Ids, u \in Users :
          id \in userSet'[u] <=> Exists(id)' /\ ~Settled(id)' /\ Spender(id)' = u
    BY <1>3, <1>4, <2>1, <2>2, ZenonT(60) DEF Exists, Settled, Spender
  <2> QED
    BY <2>3, ZenonT(60) DEF UserSetHoldsUnsettled
<1>8. Opened'
  <2>1. ASSUME NEW id \in Ids, Exists(id)
        PROVE  /\ contracts[id].height \in Nat /\ contracts[id].height <= height
               /\ SettlementPeriodEnd(contracts[id]) < MaxHeight
    <3>1. contracts[id] \in Contract
      BY <2>1, StoredType DEF IInv
    <3>2. contracts[id].height \in Nat
      BY <3>1, Dates
    <3> QED
      BY <2>1, <3>2 DEF IInv, Opened
  <2>2. height' \in Nat
    BY <1>1 DEF Heights
  <2>3. ASSUME NEW id \in Ids, Exists(id)'
        PROVE  /\ contracts'[id].height <= height'
               /\ SettlementPeriodEnd(contracts'[id]) < MaxHeight
    <3>1. /\ Exists(id) /\ contracts'[id].height = contracts[id].height
          /\ SettlementPeriodEnd(contracts'[id]) = SettlementPeriodEnd(contracts[id])
      BY <1>3, <2>3, ZenonT(60)
    <3>2. height <= height'
      BY <1>1, <2>2, ZenonT(60)
    <3>3. /\ contracts[id].height \in Nat /\ contracts[id].height <= height
          /\ SettlementPeriodEnd(contracts[id]) < MaxHeight
      BY <2>1, <3>1, ZenonT(60)
    <3>4. contracts[id].height <= height'
      BY <1>1, <2>2, <3>2, <3>3, SMTT(60)
    <3> QED
      BY <3>1, <3>3, <3>4, ZenonT(60)
  <2> QED
    BY <2>3 DEF Opened, Exists
<1>9. RefundedLast'
  <2>1. \A id \in Ids : ~(isFinal /\ id \in S) => ledger'[id].client = ledger[id].client
    BY ZenonT(60) DEF Touched, CoinsMoved
  <2> QED
    BY <1>4, <2>1, ZenonT(60) DEF IInv, RefundedLast, Settled
<1>10. ClosedExist'
  <2>1. \A id \in Ids : Expiration(contracts'[id]) = Expiration(contracts[id])
    BY <1>2, TermsKept, ZenonT(60)
  <2> QED
    BY <1>3, <2>1, ZenonT(60) DEF IInv, ClosedExist, Exists
<1> QED
  BY <1>2, <1>3, <1>4, <1>5, <1>6, <1>7, <1>8, <1>9, <1>10, ZenonT(60) DEF Exists, Settled, Spender

\* Settlement dates are only ever added, so a contract once unscheduled stays so.
LEMMA DatesGrow ==
    ASSUME \A id \in Ids : SameTerms(contracts[id], contracts'[id]),
           \A id \in Ids : closedAt[id] \subseteq closedAt'[id]
    PROVE  \A id \in Ids : /\ SettlementDates(id) \subseteq SettlementDates(id)'
                           /\ Unscheduled(id) => Unscheduled(id)'
<1>1. \A id \in Ids : /\ SettlementPeriodEnd(contracts'[id]) = SettlementPeriodEnd(contracts[id])
                      /\ Expiration(contracts'[id]) = Expiration(contracts[id])
                      /\ IsPayAsYouGo(contracts'[id]) = IsPayAsYouGo(contracts[id])
                      /\ contracts'[id].settlementDuration = contracts[id].settlementDuration
  BY TermsKept, ZenonT(60) DEF SameTerms
<1>2. \A id \in Ids : SettlementDates(id) \subseteq SettlementDates(id)'
  BY <1>1, ZenonT(60) DEF SettlementDates
<1>3. ASSUME NEW id \in Ids, Unscheduled(id)
      PROVE  Unscheduled(id)'
  <2>1. PICK j \in Ids \ {id} :
          /\ closedAt[j] # {} /\ IsPayAsYouGo(contracts[j])
          /\ Expiration(contracts[j]) \in SettlementDates(id)
    BY <1>3 DEF Unscheduled
  <2>2. closedAt'[j] # {} /\ IsPayAsYouGo(contracts'[j])
    BY <1>1, <2>1, ZenonT(60)
  <2>3. Expiration(contracts'[j]) \in SettlementDates(id)'
    BY <1>1, <1>2, <2>1
  <2> QED
    BY <2>1, <2>2, <2>3 DEF Unscheduled
<1> QED
  BY <1>2, <1>3

\* A contract that is not stored counts as settled, so what is not settled is stored.
LEMMA UnsettledExists ==
    ASSUME TypeOK, height \in Nat, NEW id \in Ids, ~IsSettled(contracts[id], height)
    PROVE  Exists(id)
<1>1. IsSettled(EmptyContract, height)
  <2>1. IsEmpty(EmptyContract)
    BY DEF IsEmpty, EmptyContract
  <2>2. SettlementPeriodEnd(EmptyContract) = 0
    BY DEF EmptyContract, SettlementPeriodEnd, Expiration, IsPayAsYouGo, SUBSCRIPTION,
       PAY_AS_YOU_GO
  <2>3. ~IsOpen(EmptyContract, height)
    BY <2>1, Zenon DEF IsOpen
  <2>4. 0 <= height
    OBVIOUS
  <2> QED
    BY <2>2, <2>3, <2>4, ZenonT(60) DEF IsSettled
<1>2. contracts[id] \in Contract \cup {EmptyContract}
  BY ZenonT(60) DEF TypeOK
<1>3. contracts[id] \in Contract
  BY <1>1, <1>2, ZenonT(60)
<1>4. \A c \in Contract : c.height \in Heights
  BY ZenonT(60) DEF Contract
<1>5. 0 \notin Heights
  BY RegistryAssumptions DEF Heights
<1> QED
  BY <1>3, <1>4, <1>5, ZenonT(60) DEF Exists, IsEmpty

\* ClaimContractIncome preserves the invariant.
LEMMA ClaimStep ==
    ASSUME IInv, NEW id \in Ids, NEW nonce \in 1 .. MaxNonce, ClaimContractIncome(id, nonce)
    PROVE  IInv'
<1>1. /\ ~IsSettled(contracts[id], height)
      /\ PayOut({id}, nonce, FALSE) /\ Record({id}, nonce, FALSE)
      /\ UNCHANGED <<height, providers, nextId, expirationSet, signed, closedAt>>
  BY ZenonT(60) DEF ClaimContractIncome
<1>2. /\ TypeOK /\ DepositAccounted /\ height \in Heights /\ height \in Nat
      /\ expirationSet \in [Heights -> SUBSET Ids] /\ closedAt \in [Ids -> SUBSET Heights]
  BY DEF IInv, TypeOK, Heights
<1>3. Exists(id)
  BY <1>1, <1>2, UnsettledExists, ZenonT(60)
<1>4. Touched({id}, FALSE) /\ CoinsMoved({id}, FALSE)
  <2>1. nonce \in 0 .. MaxNonce
    BY MarketAssumptions
  <2>2. /\ {id} \in SUBSET Ids /\ {id} \in SUBSET {id}
        /\ (\A i \in {id} : Exists(i)) /\ (\A i \in {id} \ {id} : Settled(i))
    BY <1>3
  <2> QED
    BY <1>1, <1>2, <2>1, <2>2, SettleStep, ZenonT(60)
<1>5. /\ TypeOK' /\ DepositAccounted' /\ UserSetHoldsUnsettled' /\ Opened'
      /\ RefundedLast' /\ ClosedExist'
      /\ \A i \in Ids : /\ SameTerms(contracts[i], contracts'[i])
                        /\ Exists(i)' <=> Exists(i)
                        /\ Settled(i)' <=> Settled(i)
  <2>1. /\ {id} \in SUBSET Ids /\ (\A i \in {id} : Exists(i)) /\ FALSE \in BOOLEAN
        /\ height' \in Heights /\ height' >= height /\ UNCHANGED <<providers, nextId, signed>>
        /\ expirationSet' \in [Heights -> SUBSET Ids] /\ closedAt' \in [Ids -> SUBSET Heights]
        /\ \A i \in Ids : \A k \in closedAt'[i] :
              k \in closedAt[i] \/ (Exists(i) /\ k <= Expiration(contracts[i]))
    BY <1>1, <1>2, <1>3
  <2> QED
    BY <1>4, <2>1, TouchedKeeps, ZenonT(60)
<1>6. \A i \in Ids : /\ SettlementDates(i) \subseteq SettlementDates(i)'
                     /\ Unscheduled(i) => Unscheduled(i)'
  BY <1>1, <1>5, DatesGrow, ZenonT(60)
<1>7. Entries'
  <2>1. \A i \in Ids : /\ SettlementPeriodEnd(contracts'[i]) = SettlementPeriodEnd(contracts[i])
                       /\ IsPayAsYouGo(contracts'[i]) = IsPayAsYouGo(contracts[i])
                       /\ contracts'[i].settlementDuration = contracts[i].settlementDuration
    BY <1>5, TermsKept, ZenonT(60) DEF SameTerms
  <2> QED
    BY <1>1, <1>2, <1>5, <2>1, ZenonT(60) DEF IInv, Entries, Exists
<1>8. Scheduled'
  BY <1>1, <1>5, <1>6, ZenonT(60) DEF IInv, Scheduled, Exists, Settled
<1>9. SettlementWindow'
  <2>1. \A i \in Ids : contracts'[i].settlementHeight = contracts[i].settlementHeight
    BY <1>4, ZenonT(60) DEF Touched
  <2> QED
    BY <1>6, <2>1, ZenonT(60) DEF IInv, SettlementWindow, Settled
<1> QED
  BY <1>5, <1>7, <1>8, <1>9, ZenonT(60) DEF IInv

\* CloseContract preserves the invariant.
LEMMA CloseStep ==
    ASSUME IInv, NEW id \in Ids, CloseContract(id)
    PROVE  IInv'
<1> DEFINE c == contracts[id]
           f == IsSubscription(c)
           e == Expiration(c)
           d == height + c.settlementDuration
<1>1. /\ ~IsExpired(c, height) /\ (f => Listed(id))
      /\ expirationSet' = IF IsPayAsYouGo(c) THEN Rescheduled(id) ELSE expirationSet
      /\ PayOut({id}, 0, f) /\ Record({id}, 0, f)
      /\ closedAt' = [closedAt EXCEPT ![id] = @ \cup {height}]
      /\ UNCHANGED <<height, providers, nextId, signed>>
  BY DEF CloseContract
<1>2. /\ TypeOK /\ DepositAccounted /\ height \in Heights /\ height \in Nat
      /\ MaxHeight \in Nat
      /\ expirationSet \in [Heights -> SUBSET Ids] /\ closedAt \in [Ids -> SUBSET Heights]
  BY RegistryAssumptions DEF IInv, TypeOK, Heights
<1>3. /\ Exists(id) /\ c \in Contract /\ e >= height
      /\ c.settlementDuration \in Nat /\ e \in Nat
  <2>1. IsOpen(c, height)
    BY <1>1 DEF IsExpired
  <2>2. ~IsEmpty(c) /\ e >= height
    BY <2>1, ZenonT(60) DEF IsOpen
  <2>3. c \in Contract
    BY <1>2, <2>2, StoredType DEF Exists
  <2> QED
    BY <2>2, <2>3, Dates, ZenonT(60) DEF Exists
<1>4. SettlementPeriodEnd(c) < MaxHeight /\ (IsPayAsYouGo(c) => SettlementPeriodEnd(c) = e + c.settlementDuration)
      /\ (f => SettlementPeriodEnd(c) = e)
  <2>1. SettlementPeriodEnd(c) < MaxHeight
    BY <1>3 DEF IInv, Opened
  <2> QED
    BY <1>3, <2>1, Dates
<1>5. IsPayAsYouGo(c) => d \in Heights /\ e \in Heights /\ d >= height
  BY <1>2, <1>3, <1>4, SMTT(60) DEF Heights
<1>6. f \in BOOLEAN /\ (IsPayAsYouGo(c) <=> ~f)
  BY <1>3 DEF IsSubscription, IsPayAsYouGo, Contract, SUBSCRIPTION, PAY_AS_YOU_GO
<1>7. f => ~Settled(id)
  BY <1>1, ZenonT(60) DEF Listed, IInv, UserSetHoldsUnsettled
<1>8. Touched({id}, f) /\ CoinsMoved({id}, f)
  <2>1. 0 \in 0 .. MaxNonce
    BY MarketAssumptions
  <2> HIDE DEF f
  <2>2. /\ {id} \in SUBSET Ids /\ {id} \in SUBSET {id}
        /\ (\A i \in {id} : Exists(i)) /\ (\A i \in {id} \ {id} : Settled(i))
    BY <1>3
  <2> QED
    BY <1>1, <1>2, <1>6, <2>1, <2>2, SettleStep
<1>9. \A h \in Heights, i \in Ids :
        i \in expirationSet'[h] <=>
          IF f THEN i \in expirationSet[h]
          ELSE (i \in expirationSet[h] /\ h # e) \/ (i = id /\ h = d)
  <2>1. CASE f
    BY <1>1, <1>6, <2>1, ZenonT(60)
  <2>2. CASE ~f
    BY <1>1, <1>2, <1>5, <1>6, <2>2, ZenonT(60) DEF Rescheduled
  <2> QED
    BY <2>1, <2>2, ZenonT(60)
<1>10. /\ expirationSet' \in [Heights -> SUBSET Ids]
       /\ closedAt' \in [Ids -> SUBSET Heights]
       /\ height \in closedAt'[id]
       /\ \A i \in Ids : closedAt[i] \subseteq closedAt'[i]
       /\ \A i \in Ids : \A k \in closedAt'[i] :
             k \in closedAt[i] \/ (i = id /\ k = height)
  <2>1. expirationSet' \in [Heights -> SUBSET Ids]
    BY <1>1, <1>2, <1>5, ZenonT(60) DEF Rescheduled
  <2> QED
    BY <1>1, <1>2, <2>1
<1>11. /\ TypeOK' /\ DepositAccounted' /\ UserSetHoldsUnsettled' /\ Opened'
       /\ RefundedLast' /\ ClosedExist'
       /\ \A i \in Ids : /\ SameTerms(contracts[i], contracts'[i])
                         /\ Exists(i)' <=> Exists(i)
                         /\ Settled(i)' <=> Settled(i) \/ (f /\ i = id)
  <2>1. \A i \in Ids : \A k \in closedAt'[i] :
          k \in closedAt[i] \/ (Exists(i) /\ k <= Expiration(contracts[i]))
    BY <1>3, <1>10
  <2>2. /\ {id} \in SUBSET Ids /\ (\A i \in {id} : Exists(i))
        /\ height' \in Heights /\ height' >= height /\ UNCHANGED <<providers, nextId, signed>>
    <3>1. height' = height /\ UNCHANGED <<providers, nextId, signed>>
      BY <1>1
    <3>2. height' \in Heights /\ height' >= height
      BY <1>2, <3>1
    <3> QED
      BY <1>3, <3>1, <3>2
  <2> HIDE DEF f
  <2> QED
    BY <1>6, <1>8, <1>10, <2>1, <2>2, TouchedKeeps, ZenonT(60)
<1>12. \A i \in Ids : /\ SettlementDates(i) \subseteq SettlementDates(i)'
                      /\ Unscheduled(i) => Unscheduled(i)'
  BY <1>10, <1>11, DatesGrow, ZenonT(60)
<1>13. \A i \in Ids : /\ SettlementPeriodEnd(contracts'[i]) = SettlementPeriodEnd(contracts[i])
                      /\ Expiration(contracts'[i]) = Expiration(contracts[i])
                      /\ IsPayAsYouGo(contracts'[i]) = IsPayAsYouGo(contracts[i])
                      /\ contracts'[i].settlementDuration = contracts[i].settlementDuration
  BY <1>11, TermsKept, ZenonT(60) DEF SameTerms
<1>14. Entries'
  <2>1. ASSUME NEW h \in Heights, NEW i \in Ids, i \in expirationSet'[h]
        PROVE  /\ Exists(i)'
               /\ \/ h = SettlementPeriodEnd(contracts'[i])
                  \/ /\ IsPayAsYouGo(contracts'[i])
                     /\ \E k \in closedAt'[i] : h = k + contracts'[i].settlementDuration
    <3>1. CASE i \in expirationSet[h]
      BY <1>10, <1>11, <1>13, <3>1, ZenonT(60) DEF IInv, Entries
    <3>2. CASE i = id /\ h = d /\ ~f
      BY <1>3, <1>6, <1>10, <1>11, <1>13, <3>2, ZenonT(60)
    <3> QED
      BY <1>9, <2>1, <3>1, <3>2, ZenonT(60)
  <2> QED
    BY <1>10, <2>1, ZenonT(60) DEF Entries, Exists
<1>15. Scheduled'
  <2>1. ASSUME NEW i \in Ids, Exists(i)', ~Settled(i)'
        PROVE  \/ Unscheduled(i)'
               \/ \E h \in Heights : h >= height' /\ i \in expirationSet'[h]
    <3>1. Exists(i) /\ ~Settled(i) /\ ~(f /\ i = id)
      BY <1>11, <2>1
    <3>2. CASE f
      BY <1>1, <1>6, <1>12, <3>1, <3>2, ZenonT(60) DEF IInv, Scheduled
    <3>3. CASE ~f /\ i = id
      BY <1>1, <1>5, <1>6, <1>9, <3>3, ZenonT(60)
    <3>4. CASE ~f /\ i # id
      <4>1. CASE Unscheduled(i)
        BY <1>12, <4>1
      <4>2. CASE \E h \in Heights : h >= height /\ i \in expirationSet[h]
        <5>1. PICK h \in Heights : h >= height /\ i \in expirationSet[h]
          BY <4>2
        <5>2. CASE h # e
          BY <1>1, <1>9, <3>4, <5>1, <5>2, ZenonT(60)
        <5>3. CASE h = e
          <6>1. h \in SettlementDates(i)
            BY <5>1, ZenonT(60) DEF IInv, Entries, SettlementDates
          <6>2. Expiration(contracts'[id]) \in SettlementDates(i)'
            BY <1>12, <1>13, <5>3, <6>1, ZenonT(60)
          <6>3. closedAt'[id] # {} /\ IsPayAsYouGo(contracts'[id])
            BY <1>6, <1>10, <1>13, <3>4
          <6> QED
            BY <3>4, <6>2, <6>3, ZenonT(60) DEF Unscheduled
        <5> QED
          BY <5>2, <5>3
      <4> QED
        BY <3>1, <4>1, <4>2 DEF IInv, Scheduled
    <3> QED
      BY <3>2, <3>3, <3>4
  <2> QED
    BY <2>1 DEF Scheduled
<1>16. SettlementWindow'
  <2>1. ASSUME NEW i \in Ids, Settled(i)'
        PROVE  contracts'[i].settlementHeight \in SettlementDates(i)'
    <3>1. CASE f /\ i = id
      <4>1. contracts'[id].settlementHeight = height
        BY <1>8, <3>1, ZenonT(60) DEF Touched
      <4>2. height + 0 \in SettlementDates(id)'
        BY <1>6, <1>10, <1>13, <3>1, ZenonT(60) DEF SettlementDates
      <4> QED
        BY <1>2, <3>1, <4>1, <4>2
    <3>2. CASE ~(f /\ i = id)
      <4>1. Settled(i) /\ contracts'[i].settlementHeight = contracts[i].settlementHeight
        BY <1>8, <1>11, <2>1, <3>2, ZenonT(60) DEF Touched
      <4> QED
        BY <1>12, <4>1 DEF IInv, SettlementWindow
    <3> QED
      BY <3>1, <3>2
  <2> QED
    BY <2>1 DEF SettlementWindow
<1> QED
  BY <1>11, <1>14, <1>15, <1>16, ZenonT(60) DEF IInv

\* What the end blocker settles: the contracts that are due and not settled yet.
LEMMA EndBlockSettles ==
    ASSUME IInv, EndBlock
    PROVE  LET S == {id \in Due : Listed(id)}
           IN  /\ S \in SUBSET Ids
               /\ \A id \in S : Exists(id) /\ ~Settled(id) /\ id \in expirationSet[height]
               /\ \A id \in expirationSet[height] : Settled(id) \/ id \in S
               /\ Touched(S, TRUE) /\ CoinsMoved(S, TRUE)
<1> DEFINE S == {id \in Due : Listed(id)}
<1>1. PayOut(Due, 0, TRUE) /\ Record(S, 0, TRUE)
  BY ZenonT(60) DEF EndBlock
<1>2. /\ TypeOK /\ DepositAccounted /\ height \in Heights
      /\ expirationSet \in [Heights -> SUBSET Ids]
  BY DEF IInv, TypeOK
<1>3. Due \in SUBSET Ids /\ \A id \in Due : Exists(id) /\ id \in expirationSet[height]
  BY <1>2 DEF Due, Exists
<1>4. \A id \in Due : Listed(id) <=> ~Settled(id)
  <2>1. ASSUME NEW id \in Due PROVE Spender(id) \in Users
    <3>1. contracts[id] \in Contract
      BY <1>2, <1>3, StoredType
    <3>2. contracts[id].delegate \in Users /\ contracts[id].client \in Users
      BY <3>1 DEF Contract
    <3> QED
      BY <3>2 DEF Spender, GetSpender
  <2> QED
    BY <1>3, <2>1 DEF Listed, IInv, UserSetHoldsUnsettled, Spender
<1>5. \A id \in expirationSet[height] : id \in Due
  BY <1>2 DEF IInv, Entries, Due, Exists
<1>6. /\ S \in SUBSET Due /\ (\A id \in Due \ S : Settled(id)) /\ 0 \in 0 .. MaxNonce
      /\ (\A id \in Due : Exists(id)) /\ TRUE \in BOOLEAN
  BY <1>3, <1>4, MarketAssumptions
<1> HIDE DEF S
<1>7. Touched(S, TRUE) /\ CoinsMoved(S, TRUE)
  BY <1>1, <1>2, <1>3, <1>6, SettleStep, ZenonT(60)
<1> QED
  BY <1>3, <1>4, <1>5, <1>7, ZenonT(60) DEF S

\* EndBlock preserves the invariant.
LEMMA EndBlockStep ==
    ASSUME IInv, EndBlock
    PROVE  IInv'
<1>1. PICK S \in SUBSET Ids :
        /\ S = {id \in Due : Listed(id)}
        /\ \A id \in S : Exists(id) /\ ~Settled(id) /\ id \in expirationSet[height]
        /\ \A id \in expirationSet[height] : Settled(id) \/ id \in S
        /\ Touched(S, TRUE) /\ CoinsMoved(S, TRUE)
  BY EndBlockSettles, ZenonT(60)
<1>2. PICK removed : removed = {Expiration(contracts[id]) : id \in S}
  BY Zenon
<1>3. /\ height < MaxHeight /\ height' = height + 1
      /\ expirationSet' = [h \in Heights |-> IF h \in removed THEN {} ELSE expirationSet[h]]
      /\ UNCHANGED <<providers, nextId, signed, closedAt>>
  BY <1>1, <1>2, ZenonT(60) DEF EndBlock
<1>4. /\ height \in Heights /\ height \in Nat /\ MaxHeight \in Nat
      /\ expirationSet \in [Heights -> SUBSET Ids] /\ closedAt \in [Ids -> SUBSET Heights]
  BY RegistryAssumptions DEF IInv, TypeOK, Heights
<1>5. /\ TypeOK' /\ DepositAccounted' /\ UserSetHoldsUnsettled' /\ Opened'
      /\ RefundedLast' /\ ClosedExist'
      /\ \A i \in Ids : /\ SameTerms(contracts[i], contracts'[i])
                        /\ Exists(i)' <=> Exists(i)
                        /\ Settled(i)' <=> Settled(i) \/ i \in S
  <2>1. /\ (\A i \in S : Exists(i)) /\ TRUE \in BOOLEAN
        /\ height' \in Heights /\ height' >= height /\ UNCHANGED <<providers, nextId, signed>>
        /\ expirationSet' \in [Heights -> SUBSET Ids] /\ closedAt' \in [Ids -> SUBSET Heights]
        /\ \A i \in Ids : \A k \in closedAt'[i] :
              k \in closedAt[i] \/ (Exists(i) /\ k <= Expiration(contracts[i]))
    BY <1>1, <1>3, <1>4 DEF Heights
  <2> QED
    BY <1>1, <2>1, TouchedKeeps, ZenonT(60)
<1>6. \A i \in Ids : /\ SettlementDates(i) \subseteq SettlementDates(i)'
                     /\ Unscheduled(i) => Unscheduled(i)'
  BY <1>3, <1>5, DatesGrow, ZenonT(60)
<1>7. \A i \in Ids : /\ SettlementPeriodEnd(contracts'[i]) = SettlementPeriodEnd(contracts[i])
                     /\ Expiration(contracts'[i]) = Expiration(contracts[i])
                     /\ IsPayAsYouGo(contracts'[i]) = IsPayAsYouGo(contracts[i])
                     /\ contracts'[i].settlementDuration = contracts[i].settlementDuration
  BY <1>5, TermsKept, ZenonT(60) DEF SameTerms
<1>8. \A h \in Heights : \A i \in expirationSet[h] : i \in Ids /\ h \in SettlementDates(i)
  BY <1>4, ZenonT(60) DEF IInv, Entries, SettlementDates
<1>9. Entries'
  <2>1. \A h \in Heights : expirationSet'[h] \subseteq expirationSet[h]
    BY <1>3
  <2>2. ASSUME NEW h \in Heights, NEW i \in expirationSet'[h]
        PROVE  /\ Exists(i)'
               /\ \/ h = SettlementPeriodEnd(contracts'[i])
                  \/ /\ IsPayAsYouGo(contracts'[i])
                     /\ \E k \in closedAt'[i] : h = k + contracts'[i].settlementDuration
    <3>1. i \in expirationSet[h] /\ i \in Ids
      BY <1>4, <2>1, <2>2
    <3>2. /\ Exists(i)
          /\ \/ h = SettlementPeriodEnd(contracts[i])
             \/ /\ IsPayAsYouGo(contracts[i])
                /\ \E k \in closedAt[i] : h = k + contracts[i].settlementDuration
      BY <3>1 DEF IInv, Entries
    <3>3. Exists(i)' /\ closedAt' = closedAt
      BY <1>3, <1>5, <3>1, <3>2, ZenonT(60)
    <3> QED
      BY <1>7, <3>1, <3>2, <3>3
  <2> QED
    BY <2>2 DEF Entries
<1>10. Scheduled'
  <2>1. ASSUME NEW i \in Ids, Exists(i)', ~Settled(i)'
        PROVE  \/ Unscheduled(i)'
               \/ \E h \in Heights : h >= height' /\ i \in expirationSet'[h]
    <3>1. Exists(i) /\ ~Settled(i) /\ i \notin S
      BY <1>5, <2>1
    <3>2. CASE Unscheduled(i)
      BY <1>6, <3>2
    <3>3. CASE \E h \in Heights : h >= height /\ i \in expirationSet[h]
      <4>1. PICK h \in Heights : h >= height /\ i \in expirationSet[h]
        BY <3>3
      <4>2. h # height /\ h \in Nat
        <5>1. i \notin expirationSet[height]
          BY <1>1, <3>1
        <5> QED
          BY <4>1, <5>1 DEF Heights
      <4>3. CASE h \notin removed
        BY <1>3, <1>4, <4>1, <4>2, <4>3
      <4>4. CASE h \in removed
        <5>1. PICK j \in S : h = Expiration(contracts[j])
          BY <1>2, <4>4
        <5>2. IsPayAsYouGo(contracts[j]) /\ closedAt[j] # {}
          <6>1. SettlementPeriodEnd(contracts[j]) >= Expiration(contracts[j])
            <7>1. contracts[j] \in Contract
              BY <1>1, StoredType, ZenonT(60) DEF IInv
            <7> QED
              BY <7>1, Dates
          <6>2. height # SettlementPeriodEnd(contracts[j])
            BY <1>4, <4>1, <4>2, <5>1, <6>1
          <6> QED
            BY <1>1, <1>4, <6>2, ZenonT(60) DEF IInv, Entries
        <5>3. j \in Ids \ {i}
          BY <3>1
        <5>4. Expiration(contracts[j]) \in SettlementDates(i)
          BY <1>8, <4>1, <5>1
        <5>5. Unscheduled(i)
          BY <5>2, <5>3, <5>4 DEF Unscheduled
        <5> QED
          BY <1>6, <5>5
      <4> QED
        BY <4>3, <4>4
    <3> QED
      BY <3>1, <3>2, <3>3 DEF IInv, Scheduled
  <2> QED
    BY <2>1 DEF Scheduled
<1>11. SettlementWindow'
  <2>1. ASSUME NEW i \in Ids, Settled(i)'
        PROVE  contracts'[i].settlementHeight \in SettlementDates(i)'
    <3>1. CASE i \in S
      <4>1. contracts'[i].settlementHeight = height
        BY <1>1, <3>1, ZenonT(60) DEF Touched
      <4>2. height \in SettlementDates(i)
        BY <1>1, <1>4, <1>8, <3>1
      <4> QED
        BY <1>6, <4>1, <4>2
    <3>2. CASE i \notin S
      <4>1. Settled(i) /\ contracts'[i].settlementHeight = contracts[i].settlementHeight
        BY <1>1, <1>5, <2>1, <3>2, ZenonT(60) DEF Touched
      <4> QED
        BY <1>6, <4>1 DEF IInv, SettlementWindow
    <3> QED
      BY <3>1, <3>2
  <2> QED
    BY <2>1 DEF SettlementWindow
<1> QED
  BY <1>5, <1>9, <1>10, <1>11, ZenonT(60) DEF IInv

-----------------------------------------------------------------------------
(* Theorems *)

\* Every step of the market preserves the invariant.
LEMMA NextIInv == IInv /\ [Next]_vars => IInv'
<1> SUFFICES ASSUME IInv, [Next]_vars PROVE IInv'
  OBVIOUS
<1>1. CASE RegistryNext /\ UNCHANGED contractVars
  BY <1>1, RegistryStep
<1>2. ASSUME NEW r \in Requests, NEW p \in Providers, NEW client \in Users,
             NEW delegate \in Users \cup {EmptyPubKey}, OpenContract(r, p, client, delegate)
      PROVE  IInv'
  BY <1>2, OpenStep
<1>3. ASSUME NEW id \in Ids, SignCall(id) PROVE IInv'
  BY <1>3, SignStep
<1>4. ASSUME NEW id \in Ids, NEW nonce \in 1 .. MaxNonce, ClaimContractIncome(id, nonce)
      PROVE  IInv'
  BY <1>4, ClaimStep
<1>5. ASSUME NEW id \in Ids, CloseContract(id) PROVE IInv'
  BY <1>5, CloseStep
<1>6. CASE EndBlock
  BY <1>6, EndBlockStep
<1>7. CASE UNCHANGED vars
  <2>1. /\ height' = height /\ providers' = providers /\ contracts' = contracts
        /\ nextId' = nextId /\ expirationSet' = expirationSet /\ userSet' = userSet
        /\ signed' = signed /\ ledger' = ledger /\ closedAt' = closedAt
    BY <1>7 DEF vars, registryVars, contractVars
  <2>2. TypeOK' /\ RefundedLast' /\ Opened' /\ ClosedExist' /\ Entries'
    BY <2>1, ZenonT(60) DEF IInv, TypeOK, RefundedLast, Opened, ClosedExist, Entries, Exists, Settled
  <2>3. DepositAccounted' /\ UserSetHoldsUnsettled'
    BY <2>1, ZenonT(60) DEF IInv, DepositAccounted, UserSetHoldsUnsettled, Exists, Settled, Spender
  <2>4. Scheduled' /\ SettlementWindow'
    BY <2>1, ZenonT(60) DEF IInv, Scheduled, Unscheduled, SettlementWindow, SettlementDates, Settled, Exists
  <2> QED
    BY <2>2, <2>3, <2>4 DEF IInv
<1> QED
  BY <1>1, <1>2, <1>3, <1>4, <1>5, <1>6, <1>7 DEF Next

\* The inductive invariant holds in every reachable state.
THEOREM Invariant == Spec => []IInv
  BY InitIInv, NextIInv, PTL DEF Spec

\* Every variable of the market keeps its type.
THEOREM TypeCorrect == Spec => []TypeOK
<1>1. IInv => TypeOK
  BY DEF IInv
<1> QED
  BY <1>1, Invariant, PTL

\* Every coin deposited for a contract is accounted for, however many claims, closes
\* and end blocks settle it.
THEOREM DepositsAccounted == Spec => []DepositAccounted
<1>1. IInv => DepositAccounted
  BY DEF IInv
<1> QED
  BY <1>1, Invariant, PTL

\* The lists of the spenders hold exactly the contracts that are not settled.
THEOREM ListsExact == Spec => []UserSetHoldsUnsettled
<1>1. IInv => UserSetHoldsUnsettled
  BY DEF IInv
<1> QED
  BY <1>1, Invariant, PTL

\* A contract is settled only at one of its settlement dates.
THEOREM SettledInWindow == Spec => []SettlementWindow
<1>1. IInv => SettlementWindow
  BY DEF IInv
<1> QED
  BY <1>1, Invariant, PTL

\* A contract past its settlement period is settled, unless the close of another one
\* removed an entry of it from the expiration sets.
THEOREM SettledByThen == Spec => []SettledOnTime
<1>1. IInv => SettledOnTime
  <2> SUFFICES ASSUME IInv, NEW id \in Ids, Exists(id), ~Settled(id),
                      SettlementPeriodEnd(contracts[id]) < height
               PROVE  Unscheduled(id)
    BY DEF SettledOnTime
  <2>1. contracts[id] \in Contract /\ height \in Nat
    <3>1. TypeOK
      BY DEF IInv
    <3>2. height \in Nat
      BY <3>1 DEF TypeOK, Heights
    <3> QED
      BY <3>1, <3>2, StoredType
  <2>2. /\ contracts[id].settlementDuration \in Nat /\ Expiration(contracts[id]) \in Nat
        /\ SettlementPeriodEnd(contracts[id]) \in Nat
        /\ IsPayAsYouGo(contracts[id]) => SettlementPeriodEnd(contracts[id])
              = Expiration(contracts[id]) + contracts[id].settlementDuration
    BY <2>1, Dates, ZenonT(60)
  <2>3. ASSUME NEW h \in Heights, h >= height, id \in expirationSet[h]
        PROVE  FALSE
    <3>1. h # SettlementPeriodEnd(contracts[id]) /\ h \in Nat
      BY <2>1, <2>2, <2>3 DEF Heights
    <3>2. PICK k \in closedAt[id] : h = k + contracts[id].settlementDuration
      BY <2>3, <3>1 DEF IInv, Entries
    <3>3. IsPayAsYouGo(contracts[id])
      BY <2>3, <3>1 DEF IInv, Entries
    <3>4. k \in Nat /\ k <= Expiration(contracts[id])
      <4>1. closedAt[id] \in SUBSET Heights
        BY DEF IInv, TypeOK
      <4>2. k <= Expiration(contracts[id])
        BY <3>2 DEF IInv, ClosedExist
      <4> QED
        BY <3>2, <4>1, <4>2 DEF Heights
    <3>5. h <= SettlementPeriodEnd(contracts[id])
      BY <2>2, <3>2, <3>3, <3>4, SMTT(30)
    <3> QED
      BY <2>1, <2>2, <2>3, <3>1, <3>5
  <2> QED
    BY <2>3 DEF IInv, Scheduled
<1> QED
  BY <1>1, Invariant, PTL

-----------------------------------------------------------------------------
(* Settlements *)

\* The contracts of S are settled by one step.
Settling(S, isFinal) ==
    /\ Touched(S, isFinal) /\ CoinsMoved(S, isFinal)
    /\ \A id \in S : Exists(id)
    /\ isFinal => \A id \in S : ~Settled(id)
    /\ ~isFinal => \E id \in Ids : S = {id}

\* A claim settles its contract, not finally.
LEMMA ClaimSettles ==
    ASSUME IInv, NEW id \in Ids, NEW nonce \in 1 .. MaxNonce, ClaimContractIncome(id, nonce)
    PROVE  Settling({id}, FALSE)
<1>1. /\ ~IsSettled(contracts[id], height)
      /\ PayOut({id}, nonce, FALSE) /\ Record({id}, nonce, FALSE)
  BY ZenonT(60) DEF ClaimContractIncome
<1>2. TypeOK /\ DepositAccounted /\ height \in Nat
  BY DEF IInv, TypeOK, Heights
<1>3. Exists(id)
  BY <1>1, <1>2, UnsettledExists, ZenonT(60)
<1>4. /\ {id} \in SUBSET Ids /\ {id} \in SUBSET {id} /\ nonce \in 0 .. MaxNonce
      /\ (\A i \in {id} : Exists(i)) /\ (\A i \in {id} \ {id} : Settled(i))
  BY <1>3, MarketAssumptions
<1>5. Touched({id}, FALSE) /\ CoinsMoved({id}, FALSE)
  BY <1>1, <1>2, <1>4, SettleStep, ZenonT(60)
<1> QED
  BY <1>4, <1>5, ZenonT(60) DEF Settling

\* A close settles its contract, finally when it is a subscription.
LEMMA CloseSettles ==
    ASSUME IInv, NEW id \in Ids, CloseContract(id)
    PROVE  \E f \in BOOLEAN : Settling({id}, f)
<1>1. PICK f \in BOOLEAN : f = IsSubscription(contracts[id])
  BY ZenonT(60) DEF IsSubscription
<1>2. /\ ~IsExpired(contracts[id], height) /\ (f => Listed(id))
      /\ PayOut({id}, 0, f) /\ Record({id}, 0, f)
  BY <1>1 DEF CloseContract
<1>3. TypeOK /\ DepositAccounted
  BY DEF IInv
<1>4. Exists(id)
  BY <1>2 DEF IsExpired, IsOpen, Exists
<1>5. f => ~Settled(id)
  BY <1>2, ZenonT(60) DEF Listed, IInv, UserSetHoldsUnsettled
<1>6. /\ {id} \in SUBSET Ids /\ {id} \in SUBSET {id} /\ 0 \in 0 .. MaxNonce
      /\ (\A i \in {id} : Exists(i)) /\ (\A i \in {id} \ {id} : Settled(i))
  BY <1>4, MarketAssumptions
<1>7. Touched({id}, f) /\ CoinsMoved({id}, f)
  BY <1>2, <1>3, <1>6, SettleStep
<1> QED
  BY <1>5, <1>6, <1>7 DEF Settling

\* The three kinds of steps.
LEMMA StepKinds ==
    ASSUME IInv, [Next]_vars
    PROVE  \/ UNCHANGED <<contracts, ledger>>
           \/ \E r \in Requests, p \in Providers, client \in Users,
                 delegate \in Users \cup {EmptyPubKey} : OpenContract(r, p, client, delegate)
           \/ \E S \in SUBSET Ids, isFinal \in BOOLEAN : Settling(S, isFinal)
<1>1. CASE UNCHANGED vars
  BY <1>1 DEF vars, contractVars
<1>2. CASE RegistryNext /\ UNCHANGED contractVars
  BY <1>2 DEF contractVars
<1>3. ASSUME NEW id \in Ids, SignCall(id) PROVE UNCHANGED <<contracts, ledger>>
  BY <1>3 DEF SignCall
<1>4. ASSUME NEW id \in Ids, NEW nonce \in 1 .. MaxNonce, ClaimContractIncome(id, nonce)
      PROVE  \E S \in SUBSET Ids, isFinal \in BOOLEAN : Settling(S, isFinal)
  BY <1>4, ClaimSettles, {id} \in SUBSET Ids, ZenonT(60)
<1>5. ASSUME NEW id \in Ids, CloseContract(id)
      PROVE  \E S \in SUBSET Ids, isFinal \in BOOLEAN : Settling(S, isFinal)
  BY <1>5, CloseSettles, {id} \in SUBSET Ids, ZenonT(60)
<1>6. CASE EndBlock
  <2>1. PICK S \in SUBSET Ids : /\ Touched(S, TRUE) /\ CoinsMoved(S, TRUE)
                                /\ \A id \in S : Exists(id) /\ ~Settled(id)
    BY <1>6, EndBlockSettles, ZenonT(60)
  <2>2. Settling(S, TRUE)
    BY <2>1, ZenonT(60) DEF Settling
  <2> QED
    BY <2>2, ZenonT(60)
<1> QED
  BY <1>1, <1>2, <1>3, <1>4, <1>5, <1>6 DEF Next
=============================================================================
