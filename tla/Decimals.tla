------------------------------ MODULE Decimals ------------------------------
(***************************************************************************)
(* The rounding of LegacyDec, of cosmossdk.io/math: an external library.   *)
(***************************************************************************)
EXTENDS Integers

\* LegacyDec.RoundInt of num/den: to the nearest integer, a half to the even one.
RoundInt(num, den) ==
    LET floor == num \div den
        twice == 2 * (num % den)
    IN  IF twice > den \/ (twice = den /\ floor % 2 = 1)
        THEN floor + 1 ELSE floor
=============================================================================
