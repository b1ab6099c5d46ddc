------------------------------ MODULE MCMarket ------------------------------
(* Small instances of Market for TLC. *)
EXTENDS Market, TLC

Symmetry == Permutations(Users)

\* One offer that puts a provider on line with a settlement period of one block.
MCOffers ==
    { [status |-> "ONLINE", metadataNonce |-> 1, minContractDuration |-> 1,
       maxContractDuration |-> 2, subscriptionRate |-> 3, payAsYouGoRate |-> 3,
       settlementDuration |-> 1] }

Request(type, authorization, duration, deposit, settlementDuration) ==
    [type |-> type, authorization |-> authorization, duration |-> duration,
     rate |-> 3, queriesPerMinute |-> 1, deposit |-> deposit,
     settlementDuration |-> settlementDuration]

MCRequests ==
    { Request(SUBSCRIPTION, STRICT, 2, 6, 0),
      Request(SUBSCRIPTION, OPEN, 1, 3, 0),
      Request(PAY_AS_YOU_GO, STRICT, 1, 5, 1) }

\* One contract at a time, more terms: offers that differ in the settlement period
\* and one the validation refuses, longer contracts, deposits that cover only part
\* of the calls, requests that no offer matches.
MCManyBonds == {6, -6, -12}

MCManyOffers ==
    LET Offer(status, rate, settlement) ==
          [status |-> status, metadataNonce |-> settlement, minContractDuration |-> 1,
           maxContractDuration |-> 3, subscriptionRate |-> rate, payAsYouGoRate |-> 3,
           settlementDuration |-> settlement]
    IN  { Offer("ONLINE", 3, 2), Offer("ONLINE", 3, 0), Offer("OFFLINE", 3, 0),
          Offer("ONLINE", 0, 2) }

MCManyRequests ==
    { Request(SUBSCRIPTION, STRICT, 3, 9, 0),
      Request(SUBSCRIPTION, OPEN, 2, 6, 2),
      [Request(SUBSCRIPTION, OPEN, 2, 12, 0) EXCEPT !.queriesPerMinute = 2],
      Request(SUBSCRIPTION, OPEN, 2, 5, 0),
      Request(PAY_AS_YOU_GO, STRICT, 3, 10, 2),
      Request(PAY_AS_YOU_GO, STRICT, 2, 5, 0),
      Request(PAY_AS_YOU_GO, OPEN, 2, 5, 0),
      Request(PAY_AS_YOU_GO, STRICT, 4, 5, 0) }

\* Subscription requests around the wrap-around of a word of 16 values.
MCWrapRequests ==
    { [Request(SUBSCRIPTION, STRICT, 2, deposit, 0) EXCEPT !.queriesPerMinute = queries] :
        deposit \in 0 .. 7, queries \in 1 .. 3 }

\* One request of each type whose settlement heights can meet.
MCTwoRequests ==
    { Request(SUBSCRIPTION, OPEN, 1, 3, 0), Request(PAY_AS_YOU_GO, STRICT, 1, 3, 1) }
=============================================================================
