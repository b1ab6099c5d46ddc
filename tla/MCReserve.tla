------------------------------ MODULE MCReserve ------------------------------
(***************************************************************************)
(* Three validators with shares that do not divide each other, one of them *)
(* larger than the two others together.                                    *)
(***************************************************************************)
EXTENDS Reserve, TLC

CONSTANTS v1, v2, v3

MCValidators == <<v1, v2, v3>>
MCShares == v1 :> 7 @@ v2 :> 3 @@ v3 :> 2
=============================================================================
