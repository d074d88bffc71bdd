------------------------ MODULE MCProfileInformation ------------------------
(***************************************************************************)
(* Model-checking instance of ProfileInformation.                          *)
(***************************************************************************)
EXTENDS ProfileInformation, TLC

CONSTANTS r1, r2, r3

Symmetry == Permutations(Request)
=============================================================================
