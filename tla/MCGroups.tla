------------------------------ MODULE MCGroups ------------------------------
(***************************************************************************)
(* Model-checking instance of Groups.                                      *)
(***************************************************************************)
EXTENDS Groups, TLC

CONSTANTS a, c, u1, u2, r1, r2, r3

Symmetry == Permutations(Researcher \ {Admin}) \cup Permutations(Request)
=============================================================================
