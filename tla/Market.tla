------------------------------- MODULE Market -------------------------------
(***************************************************************************)
(* The contract market of x/arkeo: contracts are opened against a provider *)
(* record, claimed against, closed early by their client, and settled by   *)
(* the end blocker at the heights recorded in the expiration sets.         *)
(*                                                                         *)
(* A message handler runs in a cached context that is committed only when  *)
(* it returns no error, so an action is enabled exactly when its handler   *)
(* succeeds.  The end blocker has no such context: what a settlement paid  *)
(* out before it failed stays paid (PayOut covers every due contract,      *)
(* Record only those whose settlement ran to its end).                     *)
(***************************************************************************)
EXTENDS ProviderRegistry, ContractTypes, Decimals

CONSTANTS
    Requests,           \* terms a MsgOpenContract may carry
    OpenContractCost,   \* configs.OpenContractCost
    MinProviderBond,    \* configs.MinProviderBond
    ReserveTax,         \* configs.ReserveTax, out of MaxBasisPoints
    MaxBasisPoints,
    WordSize,           \* number of values of an int64
    MaxContracts,       \* bound: contracts that may be opened
    MaxNonce            \* bound: calls a spender may sign for one contract

VARIABLES
    contracts,      \* GetContract(id) for every identifier
    nextId,         \* next contract identifier
    expirationSet,  \* identifiers the end blocker visits at each height
    userSet,        \* identifiers listed under each spender
    signed,         \* highest nonce the spender has signed for each contract
    ledger,         \* history: coins moved in and out on behalf of a contract
    closedAt        \* history: heights at which a contract was closed

contractVars == <<contracts, nextId, expirationSet, userSet, signed, ledger, closedAt>>
vars == <<registryVars, contractVars>>

Ids     == 1 .. MaxContracts
Heights == 1 .. MaxHeight

ASSUME MarketAssumptions ==
    /\ {OpenContractCost, MinProviderBond, MaxContracts, MaxNonce} \subseteq Nat
    /\ ReserveTax \in Nat \ {0}
    /\ MaxBasisPoints \in Nat
    /\ MaxBasisPoints % ReserveTax = 0
    /\ MaxBasisPoints \div ReserveTax >= 2
    /\ WordSize \in Nat \ {0}
    /\ \A r \in Requests :
         /\ r.type \in {SUBSCRIPTION, PAY_AS_YOU_GO}
         /\ r.authorization \in {STRICT, OPEN}
         /\ {r.duration, r.rate, r.queriesPerMinute, r.deposit,
             r.settlementDuration} \subseteq Int

Least(a, b)    == IF a < b THEN a ELSE b
Greatest(a, b) == IF a < b THEN b ELSE a

\* int64 multiplication wraps around.
Int64(x) == ((x + WordSize \div 2) % WordSize) - WordSize \div 2

\* GetSafeShare, which divides the allocation by total / part, rounded.  The tax
\* divides MaxBasisPoints, so that quotient is exact.
ReserveShare(allocation) == RoundInt(allocation, MaxBasisPoints \div ReserveTax)

-----------------------------------------------------------------------------
(* Settlement *)

\* Mutant: the debt is not capped by the deposit.
ContractDebt_Uncapped(c, h) ==
    IF IsSubscription(c)
    THEN c.rate * (h - c.height) * c.queriesPerMinute - c.paid
    ELSE c.rate * c.nonce - c.paid

\* Mutant: the subscription formula without the queries per minute.
ContractDebt_NoQPM(c, h) ==
    LET earned == c.rate * (IF IsSubscription(c) THEN h - c.height ELSE c.nonce)
    IN  Least(Greatest(earned - c.paid, 0), c.deposit - c.paid)

\* Mutant: what was paid before is not subtracted.
ContractDebt_PaysAgain(c, h) ==
    LET earned == c.rate * (IF IsSubscription(c) THEN h - c.height ELSE c.nonce)
    IN  Least(earned, c.deposit - c.paid)

\* What the provider is owed at height h beyond what was already paid, never
\* more than what is left of the deposit.
ContractDebt(c, h) ==
    LET earned == IF IsSubscription(c)
                  THEN c.rate * (Least(h, SettlementPeriodEnd(c)) - c.height)
                              * c.queriesPerMinute
                  ELSE c.rate * c.nonce
        debt == earned - c.paid
    IN  IF debt < 0 THEN 0 ELSE Least(debt, c.deposit - c.paid)

\* Mutant: the tax is paid on top of the provider's income.
SettleContract_TaxOnTop(contract, nonce, isFinal) ==
    LET c         == [contract EXCEPT !.nonce = Greatest(@, nonce)]
        totalDebt == ContractDebt(c, height)
        remainder == IF isFinal THEN c.deposit - c.paid - totalDebt ELSE 0
    IN  [contract |-> [c EXCEPT !.paid = @ + totalDebt, !.deposit = @ - remainder,
                                !.settlementHeight = IF isFinal THEN height ELSE @],
         provider |-> totalDebt, reserve |-> ReserveShare(totalDebt), client |-> remainder]

\* Mutant: the deposit is not lowered to what was paid after the refund.
SettleContract_KeepsDeposit(contract, nonce, isFinal) ==
    LET c         == [contract EXCEPT !.nonce = Greatest(@, nonce)]
        totalDebt == ContractDebt(c, height)
        tax       == ReserveShare(totalDebt)
    IN  [contract |-> [c EXCEPT !.paid = @ + totalDebt,
                                !.settlementHeight = IF isFinal THEN height ELSE @],
         provider |-> totalDebt - tax, reserve |-> tax,
         client   |-> IF isFinal THEN c.deposit - c.paid - totalDebt ELSE 0]

\* SettleContract: the contract it stores, and the coins it sends from the
\* contract module to the provider, to the reserve and to the client.
SettleContract(contract, nonce, isFinal) ==
    LET c         == [contract EXCEPT !.nonce = Greatest(@, nonce)]
        totalDebt == ContractDebt(c, height)
        valIncome == ReserveShare(totalDebt)
        debt      == totalDebt - valIncome
        paid      == c.paid + totalDebt
        remainder == IF isFinal THEN c.deposit - paid ELSE 0
    IN  [contract |-> [c EXCEPT
                         !.paid             = paid,
                         !.deposit          = @ - remainder,
                         !.settlementHeight = IF isFinal THEN height ELSE @],
         provider |-> debt,
         reserve  |-> IF debt # 0 THEN valIncome ELSE 0,
         client   |-> remainder]

\* Mutant: the tax is sent from the provider module.
Credit_TaxFromBonds(s, account) ==
      (IF account = s.contract.provider THEN s.provider ELSE 0)
    + (IF account = s.contract.client THEN s.client ELSE 0)
    + (IF account = ReserveName THEN s.reserve ELSE 0)
    - (IF account = ProviderName THEN s.reserve ELSE 0)
    - (IF account = ContractName THEN s.provider + s.client ELSE 0)

\* What one settlement adds to an account.
Credit(s, account) ==
      (IF account = s.contract.provider THEN s.provider ELSE 0)
    + (IF account = s.contract.client THEN s.client ELSE 0)
    + (IF account = ReserveName THEN s.reserve ELSE 0)
    - (IF account = ContractName THEN s.provider + s.reserve + s.client ELSE 0)

\* The coins a set of settlements sends.
PayOut(S, nonce, isFinal) ==
    LET s == [id \in S |-> SettleContract(contracts[id], nonce, isFinal)]
    IN  /\ bank' = [a \in Accounts |->
                      bank[a] + SumFunctionOnSet([id \in S |-> Credit(s[id], a)], S)]
        /\ ledger' = [id \in Ids |->
                        IF id \in S
                        THEN [ledger[id] EXCEPT !.provider = @ + s[id].provider,
                                                !.reserve  = @ + s[id].reserve,
                                                !.client   = @ + s[id].client]
                        ELSE ledger[id]]

\* Mutant: a final settlement leaves the contract on the spender's list.
Record_KeepsListed(S, nonce, isFinal) ==
    /\ contracts' = [id \in Ids |->
                       IF id \in S
                       THEN SettleContract(contracts[id], nonce, isFinal).contract
                       ELSE contracts[id]]
    /\ UNCHANGED userSet

\* The records a set of settlements stores; a final one also takes the
\* contract off its spender's list.
Record(S, nonce, isFinal) ==
    /\ contracts' = [id \in Ids |->
                       IF id \in S
                       THEN SettleContract(contracts[id], nonce, isFinal).contract
                       ELSE contracts[id]]
    /\ userSet' = IF isFinal THEN [u \in Users |-> userSet[u] \ S] ELSE userSet

\* RemoveFromUserContractSet fails when the contract is not listed.
Listed(id) == \E u \in Users : u = GetSpender(contracts[id]) /\ id \in userSet[u]

-----------------------------------------------------------------------------
(* Messages *)

\* MsgOpenContract.ValidateBasic.
ValidRequest(r) ==
    /\ r.duration > 0
    /\ r.queriesPerMinute > 0
    /\ r.rate > 0
    /\ r.settlementDuration >= 0
    /\ ~(r.type = PAY_AS_YOU_GO /\ r.authorization = OPEN)

\* The rate, deposit and settlement period agree with the provider's offer.
\* The bank refuses a negative deposit.
MatchesOffer(r, provider) ==
    /\ r.deposit >= 0
    /\ \/ /\ r.type = SUBSCRIPTION
          /\ r.rate = provider.subscriptionRate
          /\ r.deposit = Int64(Int64(r.rate * r.duration) * r.queriesPerMinute)
       \/ /\ r.type = PAY_AS_YOU_GO
          /\ r.rate = provider.payAsYouGoRate
          /\ r.settlementDuration = provider.settlementDuration

\* Mutant: a contract is taken as over in its last block.
HasActiveContract_LastBlock(spender, p) ==
    \E id \in userSet[spender] :
        contracts[id].provider = p /\ Expiration(contracts[id]) > height

\* GetActiveContractForUser finds an open contract on the spender's list.
HasActiveContract(spender, p) ==
    \E id \in userSet[spender] :
        contracts[id].provider = p /\ IsOpen(contracts[id], height)

OpenContractValidate(r, p, spender) ==
    LET provider == providers[p]
    IN  /\ ValidRequest(r)
        /\ provider.updated
        /\ provider.bond >= MinProviderBond
        /\ provider.status = "ONLINE"
        /\ r.duration \in provider.minContractDuration .. provider.maxContractDuration
        /\ MatchesOffer(r, provider)
        /\ HasActiveContract(spender, p) => r.type = PAY_AS_YOU_GO

\* An empty delegate is replaced by the client before the contract is stored.
NewContract(r, p, client, delegate) ==
    [provider |-> p, client |-> client,
     delegate |-> IF delegate = EmptyPubKey THEN client ELSE delegate,
     type |-> r.type, authorization |-> r.authorization,
     height |-> height, duration |-> r.duration, rate |-> r.rate,
     queriesPerMinute |-> r.queriesPerMinute, deposit |-> r.deposit,
     paid |-> 0, nonce |-> 0,
     settlementDuration |-> r.settlementDuration, settlementHeight |-> 0]

OpenContract(r, p, client, delegate) ==
    LET c == NewContract(r, p, client, delegate)
    IN  /\ nextId \in Ids
        /\ SettlementPeriodEnd(c) < MaxHeight
        /\ OpenContractValidate(r, p, GetSpender(c))
        /\ HasCoins(bank, client, OpenContractCost + r.deposit)
        /\ bank' = Send(Send(bank, client, ReserveName, OpenContractCost),
                        client, ContractName, r.deposit)
        /\ contracts' = [contracts EXCEPT ![nextId] = c]
        /\ expirationSet' = [expirationSet EXCEPT
                               ![SettlementPeriodEnd(c)] = @ \cup {nextId}]
        /\ userSet' = [userSet EXCEPT ![GetSpender(c)] = @ \cup {nextId}]
        /\ ledger' = [ledger EXCEPT ![nextId].deposited = r.deposit]
        /\ nextId' = nextId + 1
        /\ UNCHANGED <<height, providers, signed, closedAt>>

\* The spender signs the next call it makes to the provider.
SignCall(id) ==
    /\ ~IsEmpty(contracts[id])
    /\ signed[id] < MaxNonce
    /\ signed' = [signed EXCEPT ![id] = @ + 1]
    /\ UNCHANGED <<registryVars, contracts, nextId, expirationSet, userSet, ledger,
                   closedAt>>

\* Anyone may submit a claim; it carries the spender's signature unless the
\* contract is a subscription with open authorization.
ClaimContractIncome(id, nonce) ==
    LET c == contracts[id]
    IN  /\ c.nonce < nonce
        /\ ~IsSettled(c, height)
        /\ (IsSubscription(c) /\ IsOpenAuthorization(c)) \/ nonce <= signed[id]
        /\ PayOut({id}, nonce, FALSE)
        /\ Record({id}, nonce, FALSE)
        /\ UNCHANGED <<height, providers, nextId, expirationSet, signed, closedAt>>

\* Mutant: the contract is due at once, without its settlement period.
Rescheduled_AtOnce(id) ==
    [[expirationSet EXCEPT ![Expiration(contracts[id])] = {}]
        EXCEPT ![height] = @ \cup {id}]

\* The expiration sets after a close: the set at the contract's expiration height
\* is removed, and the contract is due one settlement period from now.
Rescheduled(id) ==
    [[expirationSet EXCEPT ![Expiration(contracts[id])] = {}]
        EXCEPT ![height + contracts[id].settlementDuration] = @ \cup {id}]

\* Closing a subscription settles it.  Closing a pay-as-you-go contract pays what
\* was claimed and reschedules its settlement; the record itself stays open.
CloseContract(id) ==
    LET c == contracts[id]
    IN  /\ ~IsExpired(c, height)
        /\ IsSubscription(c) => Listed(id)
        /\ expirationSet' = IF IsPayAsYouGo(c) THEN Rescheduled(id) ELSE expirationSet
        /\ PayOut({id}, 0, IsSubscription(c))
        /\ Record({id}, 0, IsSubscription(c))
        /\ closedAt' = [closedAt EXCEPT ![id] = @ \cup {height}]
        /\ UNCHANGED <<height, providers, nextId, signed>>

-----------------------------------------------------------------------------
(* Blocks *)

\* Mutant: a contract still open in its last block is passed over.
Due_Expired == {id \in expirationSet[height] : IsExpired(contracts[id], height)}

\* The contracts ContractEndBlock visits.
Due == {id \in expirationSet[height] : ~IsEmpty(contracts[id])}

\* A settlement that succeeds is followed by the removal of the expiration set at
\* the contract's expiration height.  The panics on a failed module invariant are
\* left out: ContractModuleBacked and BondModuleBacked show they cannot happen.
\* Then the next block begins.
EndBlock ==
    LET settled == {id \in Due : Listed(id)}
        removed == {Expiration(contracts[id]) : id \in settled}
    IN  /\ height < MaxHeight
        /\ PayOut(Due, 0, TRUE)
        /\ Record(settled, 0, TRUE)
        /\ expirationSet' = [h \in Heights |->
                               IF h \in removed THEN {} ELSE expirationSet[h]]
        /\ height' = height + 1
        /\ UNCHANGED <<providers, nextId, signed, closedAt>>

ContractsInit ==
    /\ contracts = [id \in Ids |-> EmptyContract]
    /\ nextId = 1
    /\ expirationSet = [h \in Heights |-> {}]
    /\ userSet = [u \in Users |-> {}]
    /\ signed = [id \in Ids |-> 0]
    /\ ledger = [id \in Ids |-> [deposited |-> 0, provider |-> 0, reserve |-> 0,
                                 client |-> 0]]
    /\ closedAt = [id \in Ids |-> {}]

Init == RegistryInit /\ ContractsInit

Next ==
    \/ RegistryNext /\ UNCHANGED contractVars
    \/ \E r \in Requests, p \in Providers, client \in Users,
          delegate \in Users \cup {EmptyPubKey} : OpenContract(r, p, client, delegate)
    \/ \E id \in Ids : SignCall(id)
    \/ \E id \in Ids, nonce \in 1 .. MaxNonce : ClaimContractIncome(id, nonce)
    \/ \E id \in Ids : CloseContract(id)
    \/ EndBlock

\* Blocks keep being produced.
Spec == Init /\ [][Next]_vars /\ WF_vars(EndBlock)
-----------------------------------------------------------------------------
(* Properties *)

Settled(id)  == contracts[id].settlementHeight # 0
Exists(id)   == ~IsEmpty(contracts[id])
Spender(id)  == GetSpender(contracts[id])

Contract ==
    [provider : Providers, client : Users, delegate : Users,
     type : {SUBSCRIPTION, PAY_AS_YOU_GO}, authorization : {STRICT, OPEN},
     height : Heights, duration : Nat \ {0}, rate : Nat \ {0},
     queriesPerMinute : Nat \ {0}, deposit : Nat, paid : Nat, nonce : 0 .. MaxNonce,
     settlementDuration : Nat, settlementHeight : 0 .. MaxHeight]

\* Every variable but the balances has its type, and the contracts below nextId are
\* the ones stored.
TypeOK ==
    /\ height \in Heights
    /\ providers \in [Providers -> ProviderRecord]
    /\ nextId \in 1 .. MaxContracts + 1
    /\ contracts \in [Ids -> Contract \cup {EmptyContract}]
    /\ \A id \in Ids : contracts[id] = EmptyContract <=> id >= nextId
    /\ expirationSet \in [Heights -> SUBSET Ids]
    /\ userSet \in [Users -> SUBSET Ids]
    /\ signed \in [Ids -> 0 .. MaxNonce]
    /\ ledger \in [Ids -> [deposited : Nat, provider : Nat, reserve : Nat, client : Nat]]
    /\ closedAt \in [Ids -> SUBSET Heights]

\* No account is ever overdrawn.  The bank refuses such a transfer, so none of the
\* unguarded transfers out of a module account, in BondProvider and SettleContract,
\* can fail half way.
NoOverdraft == bank \in [Accounts -> Nat]

\* Every coin of a deposit is accounted for: it was paid to the provider, taxed
\* to the reserve, refunded to the client, or is still held for the contract.
\* SettleContract, run any number of times by claims, closes and end blocks,
\* neither pays a coin twice nor drops one to rounding.
DepositAccounted ==
    \A id \in Ids :
        LET l == ledger[id]
            c == contracts[id]
        IN  /\ c.paid <= c.deposit
            /\ c.paid = l.provider + l.reserve
            /\ l.deposited = l.provider + l.reserve + l.client + (c.deposit - c.paid)
            /\ Settled(id) => c.paid = c.deposit

\* The contract module holds exactly what is left of the deposits, so the end
\* blocker's invariantContractModule, which panics otherwise, never fails.
ContractModuleBacked ==
    bank[ContractName] =
        SumFunctionOnSet([id \in Ids |-> contracts[id].deposit - contracts[id].paid], Ids)

\* The provider module holds exactly the bonds of the stored providers, so
\* invariantBondModule never fails and every unbonding can be paid.
BondModuleBacked ==
    bank[ProviderName] =
        SumFunctionOnSet([p \in Providers |-> providers[p].bond], Providers)

\* A pay-as-you-go provider is paid for calls the spender signed and no others,
\* up to the deposit; until it is settled the record agrees with the highest nonce
\* claimed.
PaygPaidForSignedCalls ==
    \A id \in Ids : Exists(id) /\ IsPayAsYouGo(contracts[id]) =>
        LET c == contracts[id]
        IN  /\ c.paid <= c.rate * signed[id]
            /\ ~Settled(id) => c.paid = Least(c.deposit, c.rate * c.nonce)

\* A settled subscription was paid for the blocks from its opening to its
\* settlement, whatever claims were made in between, up to the deposit.
SubscriptionPaidForTime ==
    \A id \in Ids : Exists(id) /\ IsSubscription(contracts[id]) =>
        LET c    == contracts[id]
            last == IF Settled(id) THEN c.settlementHeight ELSE height
            owed == Least(ledger[id].deposited,
                          c.rate * c.queriesPerMinute * (last - c.height))
        IN  IF Settled(id) THEN c.paid = owed ELSE c.paid <= owed

\* A spender's list holds exactly the contracts it may spend from that are not
\* settled.  A final settlement fails when the contract is not listed, so a
\* contract missing here could never be settled.
UserSetHoldsUnsettled ==
    \A id \in Ids, u \in Users :
        id \in userSet[u] <=> Exists(id) /\ ~Settled(id) /\ Spender(id) = u

\* A spender never has two running subscriptions with the same provider.
OneOpenSubscription ==
    \A i, j \in Ids :
        LET Running(id) == /\ Exists(id) /\ ~Settled(id)
                           /\ IsSubscription(contracts[id])
                           /\ Expiration(contracts[id]) >= height
        IN  Running(i) /\ Running(j) /\ Spender(i) = Spender(j)
              /\ contracts[i].provider = contracts[j].provider => i = j

\* The heights at which a contract may be settled: the end of its settlement period,
\* and one settlement period after each close (at once when it is a subscription).
SettlementDates(id) ==
    LET c == contracts[id]
    IN  {SettlementPeriodEnd(c)}
          \cup {h + (IF IsPayAsYouGo(c) THEN c.settlementDuration ELSE 0) : h \in closedAt[id]}

\* One of those heights is the expiration height of another pay-as-you-go contract
\* that was closed: CloseContract, and the settlement that follows it, remove the
\* whole expiration set at that height.
Unscheduled(id) ==
    \E j \in Ids \ {id} : /\ closedAt[j] # {}
                          /\ IsPayAsYouGo(contracts[j])
                          /\ Expiration(contracts[j]) \in SettlementDates(id)

\* A contract past its settlement period is settled, unless the close of another
\* contract removed an entry of it from the expiration sets.
SettledOnTime ==
    \A id \in Ids :
        Exists(id) /\ SettlementPeriodEnd(contracts[id]) < height
          => Settled(id) \/ Unscheduled(id)

\* A contract is settled at the end of its settlement period, or one settlement
\* period after a close by its client (at once when it is a subscription), and at
\* no other height: the provider keeps the whole period to claim what it served.
SettlementWindow ==
    \A id \in Ids : Settled(id) => contracts[id].settlementHeight \in SettlementDates(id)

\* Settlement is final: later claims, closes and end blocks, including a second
\* visit from a stale expiration set, move no coins and change nothing but the nonce.
SettledIsFinal ==
    [][\A id \in Ids : Settled(id) =>
         /\ ledger'[id] = ledger[id]
         /\ contracts'[id] = [contracts[id] EXCEPT !.nonce = contracts'[id].nonce]]_vars

\* The market implements the escrow: what was paid to the provider and the reserve
\* and what was refunded are read off the coins actually moved, what is held off
\* the contract record.
Phase(id) ==
    IF IsEmpty(contracts[id]) THEN "none" ELSE IF Settled(id) THEN "settled" ELSE "running"

E == INSTANCE Escrow WITH
       Contracts <- Ids,
       phase     <- [id \in Ids |-> Phase(id)],
       held      <- [id \in Ids |-> contracts[id].deposit - contracts[id].paid],
       paid      <- [id \in Ids |-> ledger[id].provider + ledger[id].reserve],
       refunded  <- [id \in Ids |-> ledger[id].client]

\* Every behaviour of the market, seen through the contract records and the coins
\* moved, is one of the escrow: no claim, close or end block pays out of a settled
\* contract, refunds before it settles one, or touches the coins of another.
EscrowSpec == E!Spec

\* Every contract is eventually settled, with the same exception as SettledOnTime.
EventuallySettled ==
    \A id \in Ids : Exists(id) ~> Settled(id) \/ Unscheduled(id)

\* A subscription is opened only with a deposit that covers its whole term: "mismatch
\* of rate*duration*queriesPerMinute and deposit" refuses every other one.
SubscriptionFullyFunded ==
    \A id \in Ids :
        LET c == contracts[id]
        IN  Exists(id) /\ IsSubscription(c) =>
              ledger[id].deposited = c.rate * c.duration * c.queriesPerMinute

\* "Contracts progress through the following states: Open -> Expired -> Settled.
\* For Subscription contracts, they expire and settle on the same block": once the
\* end blocker has passed the settlement height, the contract is settled.
ExpiredIsSettled ==
    \A id \in Ids :
        Exists(id) /\ SettlementPeriodEnd(contracts[id]) < height => Settled(id)
=============================================================================
