----------------------------- MODULE MCSentinel -----------------------------
(* Small instances of Sentinel for TLC. *)
EXTENDS Sentinel, TLC

Symmetry == Permutations(Threads)

Offer(settlementDuration) ==
    [status |-> "ONLINE", metadataNonce |-> 1, minContractDuration |-> 1,
     maxContractDuration |-> 2, subscriptionRate |-> 3, payAsYouGoRate |-> 3,
     settlementDuration |-> settlementDuration]

MCOffers == { Offer(1) }

Request(type, authorization, duration, deposit) ==
    [type |-> type, authorization |-> authorization, duration |-> duration,
     rate |-> 3, queriesPerMinute |-> 1, deposit |-> deposit, settlementDuration |-> 1]

\* Contracts that pay for two calls and for one, and a subscription whose calls need
\* no claim.
MCRequests ==
    { Request(PAY_AS_YOU_GO, STRICT, 1, 6), Request(PAY_AS_YOU_GO, STRICT, 1, 3),
      Request(SUBSCRIPTION, OPEN, 1, 3) }

\* A settlement period of more than one block.
MCLongOffers   == { Offer(3) }
MCLongRequests == { [Request(PAY_AS_YOU_GO, STRICT, 1, 6) EXCEPT !.settlementDuration = 3] }

MCSubscription == { Request(SUBSCRIPTION, STRICT, 2, 6) }
=============================================================================
