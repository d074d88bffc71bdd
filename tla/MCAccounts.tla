------------------------------ MODULE MCAccounts ------------------------------
(***************************************************************************)
(* Model-checking instance of Accounts.                                    *)
(***************************************************************************)
EXTENDS Accounts

CONSTANTS a1, a2, i1, i2, c1, r1, r2, r3
=============================================================================
