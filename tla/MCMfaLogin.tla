----------------------------- MODULE MCMfaLogin -----------------------------
(***************************************************************************)
(* Model-checking instances of MfaLogin.                                   *)
(***************************************************************************)
EXTENDS MfaLogin, TLC

CONSTANTS u1, u2, r1, r2, c1, c2, k1, k2

TwoPeriods == <<1, 2>>

Symmetry == Permutations(Challenge) \cup Permutations(Request)
SymmetryOfSecrets == Symmetry \cup Permutations(Secret)
=============================================================================
