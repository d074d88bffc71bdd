------------------------- MODULE MCPasswordLockout -------------------------
(***************************************************************************)
(* Model-checking instances of PasswordLockout.                            *)
(***************************************************************************)
EXTENDS PasswordLockout, TLC

CONSTANTS r1, r2, r3, e1

TwoPeriods == <<1, 2>>
OnePeriod == <<2>>

Symmetry == Permutations(Request)
=============================================================================
