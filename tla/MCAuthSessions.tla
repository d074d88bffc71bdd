--------------------------- MODULE MCAuthSessions ---------------------------
(***************************************************************************)
(* Model-checking instances of AuthSessions.                               *)
(***************************************************************************)
EXTENDS AuthSessions, TLC

CONSTANTS s1, t1, t2, t3, t4, r1, r2, r3, u1

\* One user: deactivation is per user, users do not interact otherwise.
OneOwner == [s \in Session |-> u1]

=============================================================================
