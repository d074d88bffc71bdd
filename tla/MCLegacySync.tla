---------------------------- MODULE MCLegacySync ----------------------------
(***************************************************************************)
(* Model-checking instance of LegacySync.                                  *)
(***************************************************************************)
EXTENDS LegacySync, TLC

CONSTANTS w1, w2, m1, m2

Symmetry == Permutations(Writer) \cup Permutations(Command)
=============================================================================
