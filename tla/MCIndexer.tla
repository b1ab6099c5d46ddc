----------------------------- MODULE MCIndexer ------------------------------
(* Small instances of Indexer for TLC. *)
EXTENDS Indexer, TLC

Event0 == [type |-> "bond", provider |-> "p", id |-> 1, delegate |-> "d", nonce |-> 0,
           bond |-> 0, paid |-> 0, tx |-> TRUE]

Bond(bond)   == [Event0 EXCEPT !.bond = bond]
Mod(nonce)   == [Event0 EXCEPT !.type = "mod", !.nonce = nonce]
Open(id)     == [Event0 EXCEPT !.type = "open", !.id = id]
CloseOf(id)  == [Event0 EXCEPT !.type = "close", !.id = id]
Settle(id, nonce, paid, tx) ==
    [Event0 EXCEPT !.type = "settle", !.id = id, !.nonce = nonce, !.paid = paid, !.tx = tx]

\* A contract that is claimed twice and settled by the end blocker, with the provider
\* changing its metadata; one that is claimed, closed by its client and settled later;
\* two contracts opened in one block, and a provider that leaves and comes back.
MCChains ==
    { << <<Bond(5), Mod(1), Open(1)>>,
         <<Settle(1, 1, 3, TRUE), Mod(2)>>,
         <<Settle(1, 2, 3, TRUE), Settle(1, 2, 1, FALSE)>> >>,
      << <<Bond(5), Mod(1)>>,
         <<Open(1), Settle(1, 1, 3, TRUE)>>,
         <<Settle(1, 1, 0, TRUE), CloseOf(1)>>,
         <<Settle(1, 1, 0, FALSE), Open(2)>> >>,
      << <<Bond(5), Mod(2), Open(1), Open(2)>>,
         <<Bond(0)>>,
         <<Bond(7), Mod(1), Settle(2, 1, 3, TRUE)>> >> }
=============================================================================
