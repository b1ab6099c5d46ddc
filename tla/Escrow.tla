------------------------------- MODULE Escrow -------------------------------
(***************************************************************************)
(* What the contract market promises about the coins of a contract: they   *)
(* are deposited once, leave only to pay for the service while the         *)
(* contract runs, and what is left is refunded in the one step that        *)
(* settles it.  One message concerns one contract; a block may settle any  *)
(* number of them at once.                                                 *)
(***************************************************************************)
EXTENDS Integers

CONSTANT Contracts

VARIABLES phase, held, paid, refunded

escrowVars == <<phase, held, paid, refunded>>

Init ==
    /\ phase    = [c \in Contracts |-> "none"]
    /\ held     = [c \in Contracts |-> 0]
    /\ paid     = [c \in Contracts |-> 0]
    /\ refunded = [c \in Contracts |-> 0]

Same(c) ==
    /\ phase'[c] = phase[c]
    /\ held'[c] = held[c]
    /\ paid'[c] = paid[c]
    /\ refunded'[c] = refunded[c]

Fund(c) ==
    /\ phase[c] = "none" /\ phase'[c] = "running"
    /\ held'[c] \in Nat
    /\ paid'[c] = 0 /\ refunded'[c] = 0

\* Coins may leave the escrow for the provider and the reserve only.
Pay(c) ==
    /\ phase[c] = "running" /\ phase'[c] = "running"
    /\ held'[c] \in 0 .. held[c]
    /\ paid'[c] = paid[c] + (held[c] - held'[c])
    /\ refunded'[c] = refunded[c]

\* A last payment, and a refund of everything that is left.
Settle(c) ==
    /\ phase[c] = "running" /\ phase'[c] = "settled"
    /\ held'[c] = 0
    /\ paid'[c] - paid[c] \in 0 .. held[c]
    /\ refunded'[c] = held[c] - (paid'[c] - paid[c])

Message ==
    \E c \in Contracts :
        /\ Fund(c) \/ Pay(c) \/ Settle(c)
        /\ \A d \in Contracts \ {c} : Same(d)

Block == \A c \in Contracts : Same(c) \/ Settle(c)

Spec == Init /\ [][Message \/ Block]_escrowVars
=============================================================================
