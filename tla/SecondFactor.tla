---------------------------- MODULE SecondFactor ----------------------------
(***************************************************************************)
(* What the second factor promises, without rows, transactions or          *)
(* handlers: whether a code is right, and what follows from it, is decided *)
(* in one step.  A challenge is granted at most once and opens at most one *)
(* session; a user has one secret and keeps it; the steps of accepted      *)
(* codes increase; nothing is decided during a lock, and every failure     *)
(* from the threshold on sets one.  MfaLogin implements this.              *)
(***************************************************************************)
EXTENDS Integers

CONSTANTS
  User, Challenge, Secret, NoSecret, NoStep, Unissued,
  Window, MaxTries, Threshold,
  Periods      \* how long a lock may last

VARIABLES
  ticket,      \* per challenge: owner, purpose, tries and phase, or Unissued
  secret,      \* per user: the secret their codes are made from
  last,        \* per user: the step of the last accepted code
  failures,    \* per user: wrong codes since then
  lockedUntil, \* per user
  now

factor == <<secret, last, failures, lockedUntil>>
vars == <<ticket, factor, now>>

Init ==
  /\ ticket = [c \in Challenge |-> Unissued]
  /\ secret \in [User -> Secret \cup {NoSecret}]
  /\ last = [u \in User |-> NoStep]
  /\ failures = [u \in User |-> 0]
  /\ lockedUntil = [u \in User |-> 0]
  /\ now = 0

Challenged(c, u, purpose) ==
  /\ ticket[c] = Unissued
  /\ ticket' = [ticket EXCEPT ![c] =
       [owner |-> u, purpose |-> purpose, tries |-> 0, phase |-> "open"]]
  /\ UNCHANGED <<factor, now>>

\* A code for this challenge may be decided on.
Open(c) ==
  /\ ticket[c] # Unissued
  /\ ticket[c].phase = "open"
  /\ lockedUntil[ticket[c].owner] <= now

Fail(c) ==
  LET u == ticket[c].owner
      tries == ticket[c].tries + 1
  IN
  /\ Open(c)
  /\ ticket' = [ticket EXCEPT ![c].tries = tries,
                              ![c].phase = IF tries < MaxTries THEN "open" ELSE "closed"]
  /\ failures' = [failures EXCEPT ![u] = @ + 1]
  /\ IF failures[u] + 1 < Threshold THEN UNCHANGED lockedUntil
     ELSE \E n \in Periods : lockedUntil' = [lockedUntil EXCEPT ![u] = now + n]
  /\ UNCHANGED <<secret, last, now>>

\* The code shows secret k at a step of the window.  A user who has no secret
\* takes k for theirs; a user who has one has to show it.
Grant(c, k, step) ==
  LET u == ticket[c].owner IN
  /\ Open(c)
  /\ step > last[u]
  /\ secret[u] = IF ticket[c].purpose = "login" THEN k ELSE NoSecret
  /\ ticket' = [ticket EXCEPT ![c].phase = "granted"]
  /\ secret' = [secret EXCEPT ![u] = k]
  /\ last' = [last EXCEPT ![u] = step]
  /\ failures' = [failures EXCEPT ![u] = 0]
  /\ lockedUntil' = [lockedUntil EXCEPT ![u] = 0]
  /\ UNCHANGED now

OpenSession(c) ==
  /\ ticket[c] # Unissued
  /\ ticket[c].phase = "granted"
  /\ ticket' = [ticket EXCEPT ![c].phase = "session"]
  /\ UNCHANGED <<factor, now>>

Tick == now' = now + 1 /\ UNCHANGED <<ticket, factor>>

Next ==
  \/ \E c \in Challenge, u \in User, purpose \in {"login", "enrollment"} :
       Challenged(c, u, purpose)
  \/ \E c \in Challenge : Fail(c) \/ OpenSession(c)
  \/ \E c \in Challenge, k \in Secret, step \in (now - Window)..(now + Window) :
       Grant(c, k, step)
  \/ Tick

Spec == Init /\ [][Next]_vars
=============================================================================
