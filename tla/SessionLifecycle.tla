-------------------------- MODULE SessionLifecycle --------------------------
(***************************************************************************)
(* What the refresh-token sessions promise, without queries or handlers: a *)
(* session is opened once, has one current token at a time, each of them   *)
(* new, and once it is closed it is closed for good.                       *)
(* AuthSessions implements this specification.                             *)
(***************************************************************************)
CONSTANTS Session, Token, NoToken

VARIABLES
  phase,    \* unopened, open or closed, per session
  current,  \* the token that can be exchanged, per session
  issued    \* tokens already used for some session

vars == <<phase, current, issued>>

Init ==
  /\ phase = [s \in Session |-> "unopened"]
  /\ current = [s \in Session |-> NoToken]
  /\ issued = {}

Issue(t) == t \in Token \ issued /\ issued' = issued \cup {t}

Open(s, t) ==
  /\ phase[s] = "unopened"
  /\ Issue(t)
  /\ phase' = [phase EXCEPT ![s] = "open"]
  /\ current' = [current EXCEPT ![s] = t]

Renew(s, t) ==
  /\ phase[s] = "open"
  /\ Issue(t)
  /\ current' = [current EXCEPT ![s] = t]
  /\ UNCHANGED phase

Close(s) ==
  /\ phase[s] = "open"
  /\ phase' = [phase EXCEPT ![s] = "closed"]
  /\ current' = [current EXCEPT ![s] = NoToken]
  /\ UNCHANGED issued

\* A token made for a session that was closed in the meantime: it is used up
\* and good for nothing.
Discard(t) == Issue(t) /\ UNCHANGED <<phase, current>>

Next ==
  \/ \E s \in Session, t \in Token : Open(s, t) \/ Renew(s, t)
  \/ \E s \in Session : Close(s)
  \/ \E t \in Token : Discard(t)

Spec == Init /\ [][Next]_vars
=============================================================================
