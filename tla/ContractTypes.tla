---------------------------- MODULE ContractTypes ----------------------------
(***************************************************************************)
(* The contract record and the predicates x/arkeo/types defines on it.     *)
(* They take the block height explicitly, as the code does.                *)
(***************************************************************************)
EXTENDS Integers

SUBSCRIPTION  == "SUBSCRIPTION"
PAY_AS_YOU_GO == "PAY_AS_YOU_GO"
STRICT == "STRICT"
OPEN   == "OPEN"
EmptyPubKey == ""

\* What GetContract returns for an identifier that is not stored.
EmptyContract ==
    [provider |-> EmptyPubKey, client |-> EmptyPubKey, delegate |-> EmptyPubKey,
     type |-> SUBSCRIPTION, authorization |-> STRICT,
     height |-> 0, duration |-> 0, rate |-> 0, queriesPerMinute |-> 0,
     deposit |-> 0, paid |-> 0, nonce |-> 0,
     settlementDuration |-> 0, settlementHeight |-> 0]

IsPayAsYouGo(c)        == c.type = PAY_AS_YOU_GO
IsSubscription(c)      == c.type = SUBSCRIPTION
IsOpenAuthorization(c) == c.authorization = OPEN
IsEmpty(c)             == c.height = 0

GetSpender(c) == IF c.delegate # EmptyPubKey THEN c.delegate ELSE c.client

Expiration(c) == c.height + c.duration

SettlementPeriodEnd(c) ==
    Expiration(c) + (IF IsPayAsYouGo(c) THEN c.settlementDuration ELSE 0)

IsOpen(c, h) ==
    /\ ~IsEmpty(c)
    /\ Expiration(c) >= h
    /\ c.settlementHeight = 0 \/ c.settlementHeight >= h

IsExpired(c, h) == ~IsOpen(c, h)

IsSettled(c, h) == ~IsOpen(c, h) /\ SettlementPeriodEnd(c) <= h
=============================================================================
