------------------------------ MODULE MCAirdrop ------------------------------
(***************************************************************************)
(* Two Arkeo addresses and one Ethereum address with claim records.  An    *)
(* amount of 3 is worth 2, 0 and 0 in the three instants of the decay: it  *)
(* is rounded down to nothing before the airdrop ends.                     *)
(***************************************************************************)
EXTENDS Airdrop, TLC

CONSTANTS a1, a2, e1

Record(claim, vote, delegate, transferable) ==
    [amount |-> ("claim" :> claim @@ "vote" :> vote @@ "delegate" :> delegate),
     denom |-> Actions, transferable |-> transferable]

MCGenesis == a1 :> Record(3, 2, 0, TRUE) @@ a2 :> Record(3, 0, 2, FALSE)

MCEthGenesis == [e \in EthAddresses |-> Record(2, 0, 3, FALSE)]

MCDurations      == [untilDecay |-> 1, ofDecay |-> 3]
MCFixedDurations == [untilDecay |-> 2, ofDecay |-> 4]
=============================================================================
