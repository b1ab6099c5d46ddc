-------------------------- MODULE MCProviderConfig ---------------------------
(***************************************************************************)
(* Two static services; a third id and one beyond 32 bits can be           *)
(* registered while the chain runs.                                        *)
(***************************************************************************)
EXTENDS ProviderConfig, TLC

CONSTANTS btc, eth, s1, s2, s3

MCServiceLookup == btc :> s1 @@ eth :> s2

Offer(rate) ==
    [status |-> "ONLINE", metadataNonce |-> 1, minContractDuration |-> 1,
     maxContractDuration |-> 2, subscriptionRate |-> rate,
     payAsYouGoRate |-> 1, settlementDuration |-> 1]

MCBonds == {1, -1}

MCOffers == {Offer(1), Offer(2)}
=============================================================================
