---------------------------- MODULE AuthSessions ----------------------------
(***************************************************************************)
(* Refresh-token sessions: src/identity/auth_sessions.py, the refresh      *)
(* serializer and the refresh and logout views.                            *)
(*                                                                         *)
(* The database runs in autocommit, so every query of a handler is a step  *)
(* of its own and the handlers of other gunicorn threads run between two   *)
(* of them.  A handler keeps in memory the row it read (copy) and writes   *)
(* some of its columns back later.  A worker may die at any point.         *)
(***************************************************************************)
EXTENDS Naturals

CONSTANTS
  Session,   \* rows of auth_sessions, opened or not yet
  Token,     \* refresh tokens (their jti), minted or not yet
  Request,   \* gunicorn threads handling a request
  User,
  Owner,     \* the user a session is opened for
  NoToken,
  NoSession

ASSUME OwnerAssumption == Owner \in [Session -> User]
ASSUME NullAssumption  == NoToken \notin Token /\ NoSession \notin Session

VARIABLES
  session,    \* the auth_sessions table
  blacklist,  \* token_blacklist rows
  expired,    \* tokens whose exp has passed
  inactive,   \* users with is_active = False
  origin,     \* the session a token was minted for
  held,       \* tokens some client received
  pc, tok, sess, copy,  \* a handler: where it is, the token it was sent (or
                        \* answers with), the session it found, the row it read
  \* history
  displaced,  \* tokens overwritten in their row by a refresh of another token
  exchanged,  \* tokens for which a refresh stored a successor
  loggedOut,  \* tokens whose logout was answered 204
  stranded    \* sessions whose refresh died between blacklist and save

vars == <<session, blacklist, expired, inactive, origin, held,
          pc, tok, sess, copy, displaced, exchanged, loggedOut, stranded>>
history == <<displaced, exchanged, loggedOut, stranded>>

Row == [jti : Token \cup {NoToken}, revoked : BOOLEAN, rotations : Nat]
NewRow == [jti |-> NoToken, revoked |-> FALSE, rotations |-> 0]

RefreshSteps == {"find", "verify", "blacklist", "rotate"}
LogoutSteps  == {"findLogout", "revoke", "verifyLogout", "blacklistLogout"}
Steps        == {"idle", "answer"} \cup RefreshSteps \cup LogoutSteps

(***************************************************************************)
(* What the queries compute.                                               *)
(***************************************************************************)

\* RefreshToken(raw) accepts the token: its exp and the blacklist are checked.
Verified(t) == t \notin expired /\ t \notin blacklist

\* Faulty variant: a filter without revoked_at__isnull.
RevokedToo(t) ==
  {s \in Session : /\ session[s].jti = t
                   /\ t \notin expired
                   /\ Owner[s] \notin inactive}

\* The filter of get_active_session_for_refresh.  The row's expires_at and
\* hash are those of the token its refresh_jti names.
ActiveSessionsFor(t) ==
  {s \in Session : /\ session[s].jti = t
                   /\ ~session[s].revoked
                   /\ t \notin expired
                   /\ Owner[s] \notin inactive}

\* The filter of revoke_session_for_refresh.
RevocableSessionsFor(t) ==
  {s \in Session : session[s].jti = t /\ ~session[s].revoked}

\* rotate_auth_session: row is the stored row, mine the one read earlier;
\* update_fields leaves revoked_at alone, rotation_count += 1 is in memory.
\* The first three are faulty variants: a counter that runs backwards, a save of
\* all columns, a save that forgets refresh_jti.
CountingDown(row, mine, n) ==
  [row EXCEPT !.jti = n, !.rotations = mine.rotations - 1]
FullSaveOfRotation(row, mine, n) ==
  [mine EXCEPT !.jti = n, !.rotations = mine.rotations + 1]
RotationWithoutJti(row, mine, n) ==
  [row EXCEPT !.rotations = mine.rotations + 1]
SaveRotation(row, mine, n) ==
  [row EXCEPT !.jti = n, !.rotations = mine.rotations + 1]

\* AuthSession.revoke saves revoked_at only.
\* Faulty variant: no save at all.
NoRevocation(row, mine) == row
SaveRevocation(row, mine) == [row EXCEPT !.revoked = TRUE]

Unminted == {t \in Token : origin[t] = NoSession}

Environment == <<expired, inactive>>

\* Moves of a handler; its locals are gone once it has answered or died.
Goto(r, step) ==
  pc' = [pc EXCEPT ![r] = step] /\ UNCHANGED <<tok, sess, copy>>
Take(r, t, step) ==
  /\ pc' = [pc EXCEPT ![r] = step]
  /\ tok' = [tok EXCEPT ![r] = t]
  /\ UNCHANGED <<sess, copy>>
Read(r, s, step) ==
  /\ pc' = [pc EXCEPT ![r] = step]
  /\ sess' = [sess EXCEPT ![r] = s]
  /\ copy' = [copy EXCEPT ![r] = session[s]]
  /\ UNCHANGED tok
Finish(r) ==
  /\ pc' = [pc EXCEPT ![r] = "idle"]
  /\ tok' = [tok EXCEPT ![r] = NoToken]
  /\ sess' = [sess EXCEPT ![r] = NoSession]
  /\ copy' = [copy EXCEPT ![r] = NewRow]

(***************************************************************************)
(* Login: create_auth_session inserts the row, the answer hands the token  *)
(* to the client.                                                          *)
(***************************************************************************)
OpenSession(r, s, t) ==
  /\ pc[r] = "idle"
  /\ session[s].jti = NoToken
  /\ t \in Unminted
  /\ session' = [session EXCEPT ![s].jti = t]
  /\ origin' = [origin EXCEPT ![t] = s]
  /\ Take(r, t, "answer")
  /\ UNCHANGED <<blacklist, Environment, held, history>>

Answer(r) ==
  /\ pc[r] = "answer"
  /\ held' = held \cup {tok[r]}
  /\ Finish(r)
  /\ UNCHANGED <<session, blacklist, Environment, origin, history>>

(***************************************************************************)
(* POST token/refresh.  A request refused by the first RefreshToken(raw)   *)
(* changes nothing and is not a step.                                      *)
(***************************************************************************)
BeginRefresh(r, t) ==
  /\ pc[r] = "idle"
  /\ t \in held
  /\ Verified(t)
  /\ Take(r, t, "find")
  /\ UNCHANGED <<session, blacklist, Environment, origin, held, history>>

FindSession(r) ==
  /\ pc[r] = "find"
  /\ \/ \E s \in ActiveSessionsFor(tok[r]) : Read(r, s, "verify")
     \/ /\ ActiveSessionsFor(tok[r]) = {}
        /\ Finish(r)
  /\ UNCHANGED <<session, blacklist, Environment, origin, held, history>>

\* TokenRefreshSerializer.validate checks the token again; a TokenError there
\* is answered 500.
Verify(r) ==
  /\ pc[r] = "verify"
  /\ IF Verified(tok[r]) THEN Goto(r, "blacklist") ELSE Finish(r)
  /\ UNCHANGED <<session, blacklist, Environment, origin, held, history>>

Blacklist(r) ==
  /\ pc[r] = "blacklist"
  /\ blacklist' = blacklist \cup {tok[r]}
  /\ Goto(r, "rotate")
  /\ UNCHANGED <<session, Environment, origin, held, history>>

Rotate(r, n) ==
  LET s == sess[r] IN
  /\ pc[r] = "rotate"
  /\ n \in Unminted
  /\ session' = [session EXCEPT ![s] = SaveRotation(@, copy[r], n)]
  /\ origin' = [origin EXCEPT ![n] = s]
  /\ displaced' = displaced \cup ({session[s].jti} \ {tok[r]})
  /\ exchanged' = exchanged \cup {tok[r]}
  /\ Take(r, n, "answer")
  /\ UNCHANGED <<blacklist, Environment, held, loggedOut, stranded>>

(***************************************************************************)
(* POST logout.                                                            *)
(***************************************************************************)
BeginLogout(r, t) ==
  /\ pc[r] = "idle"
  /\ t \in held
  /\ Verified(t)
  /\ Take(r, t, "findLogout")
  /\ UNCHANGED <<session, blacklist, Environment, origin, held, history>>

FindLogout(r) ==
  /\ pc[r] = "findLogout"
  /\ \/ \E s \in RevocableSessionsFor(tok[r]) : Read(r, s, "revoke")
     \/ /\ RevocableSessionsFor(tok[r]) = {}
        /\ Goto(r, "verifyLogout")
  /\ UNCHANGED <<session, blacklist, Environment, origin, held, history>>

Revoke(r) ==
  /\ pc[r] = "revoke"
  /\ session' = [session EXCEPT ![sess[r]] = SaveRevocation(@, copy[r])]
  /\ Goto(r, "verifyLogout")
  /\ UNCHANGED <<blacklist, Environment, origin, held, history>>

\* The second RefreshToken(raw) of the logout; a TokenError is answered 400.
\* Faulty variant: no second check.
SkipVerification(r) == pc[r] = "verifyLogout" /\ Goto(r, "blacklistLogout")
LogoutVerification(r) ==
  /\ pc[r] = "verifyLogout"
  /\ IF Verified(tok[r]) THEN Goto(r, "blacklistLogout") ELSE Finish(r)

VerifyLogout(r) ==
  /\ LogoutVerification(r)
  /\ UNCHANGED <<session, blacklist, Environment, origin, held, history>>

BlacklistLogout(r) ==
  /\ pc[r] = "blacklistLogout"
  /\ blacklist' = blacklist \cup {tok[r]}
  /\ loggedOut' = loggedOut \cup {tok[r]}
  /\ Finish(r)
  /\ UNCHANGED <<session, Environment, origin, held,
                 displaced, exchanged, stranded>>

(***************************************************************************)
(* The environment: a worker dies with its handlers, time passes, an       *)
(* operator changes is_active.                                             *)
(***************************************************************************)
Crash(r) ==
  /\ pc[r] # "idle"
  /\ stranded' = IF pc[r] = "rotate" THEN stranded \cup {sess[r]} ELSE stranded
  /\ Finish(r)
  /\ UNCHANGED <<session, blacklist, Environment, origin, held,
                 displaced, exchanged, loggedOut>>

Expire(t) ==
  /\ t \notin Unminted \cup expired
  /\ expired' = expired \cup {t}
  /\ UNCHANGED <<session, blacklist, inactive, origin, held, pc, tok, sess, copy, history>>

SetActive(u) ==
  /\ inactive' = IF u \in inactive THEN inactive \ {u} ELSE inactive \cup {u}
  /\ UNCHANGED <<session, blacklist, expired, origin, held, pc, tok, sess, copy, history>>

Init ==
  /\ session = [s \in Session |-> NewRow]
  /\ blacklist = {} /\ expired = {} /\ inactive = {} /\ held = {}
  /\ origin = [t \in Token |-> NoSession]
  /\ pc = [r \in Request |-> "idle"]
  /\ tok = [r \in Request |-> NoToken]
  /\ sess = [r \in Request |-> NoSession]
  /\ copy = [r \in Request |-> NewRow]
  /\ displaced = {} /\ exchanged = {} /\ loggedOut = {} /\ stranded = {}

\* What a handler does once its request was accepted.
Step(r) ==
  \/ Answer(r) \/ FindSession(r) \/ Verify(r) \/ Blacklist(r)
  \/ \E n \in Token : Rotate(r, n)
  \/ FindLogout(r) \/ Revoke(r) \/ VerifyLogout(r) \/ BlacklistLogout(r)

Next ==
  \/ \E r \in Request, s \in Session, t \in Token : OpenSession(r, s, t)
  \/ \E r \in Request, t \in Token : BeginRefresh(r, t) \/ BeginLogout(r, t)
  \/ \E r \in Request : Step(r) \/ Crash(r)
  \/ \E t \in Token : Expire(t)
  \/ \E u \in User : SetActive(u)

Spec == Init /\ [][Next]_vars

\* A handler goes on or dies with its worker: between two queries it waits for
\* nobody.
FairSpec == Spec /\ \A r \in Request : WF_vars(Step(r) \/ Crash(r))

(***************************************************************************)
(* Properties                                                              *)
(***************************************************************************)
TypeOK ==
  /\ session \in [Session -> Row]
  /\ blacklist \subseteq Token /\ expired \subseteq Token /\ held \subseteq Token
  /\ inactive \subseteq User
  /\ origin \in [Token -> Session \cup {NoSession}]
  /\ pc \in [Request -> Steps]
  /\ tok \in [Request -> Token \cup {NoToken}]
  /\ sess \in [Request -> Session \cup {NoSession}]
  /\ copy \in [Request -> Row]
  /\ displaced \subseteq Token /\ exchanged \subseteq Token /\ loggedOut \subseteq Token
  /\ stranded \subseteq Session

\* A logout answered 204 has revoked the session the token belongs to
\* (views.py LogoutView), whatever refreshes ran between its queries.  The
\* exception is a token that two concurrent refreshes of its predecessor
\* produced and whose row entry the second of them overwrote.
LogoutRevokes ==
  \A t \in loggedOut : session[origin[t]].revoked \/ t \in displaced

\* A token that was exchanged or logged out is blacklisted, and no session a
\* refresh would accept still names it: it can never be exchanged again by a
\* request that arrives later.
SpentTokensStayDead ==
  \A t \in exchanged \cup loggedOut :
    /\ t \in blacklist
    /\ \A s \in Session : session[s].jti = t => session[s].revoked

\* A live session names a blacklisted token, so that its user can neither
\* refresh nor log out, only while a refresh is between its blacklist and its
\* save or after a worker died right there.
StrandedOnlyByCrash ==
  \A s \in Session :
    ~session[s].revoked /\ session[s].jti \in blacklist =>
      \/ s \in stranded
      \/ \E r \in Request : pc[r] = "rotate" /\ sess[r] = s

\* Revocation is final: no handler, not even a refresh that read the row
\* before the logout and saves it afterwards, brings a session back.
RevocationIsFinal ==
  [][\A s \in Session : session[s].revoked => session'[s].revoked]_vars

\* The inductive invariant behind them.  The session a token was minted for
\* was revoked:
OriginRevoked(t) == session[origin[t]].revoked

\* What a handler knows of its token at each point.  The checks of the logout
\* are there: the session was revoked or the row had dropped the token, and
\* after the second check only a displaced token is left of the latter.
HandlersOK ==
  \A r \in Request :
    /\ pc[r] # "idle" => tok[r] \in Token \ Unminted
    /\ pc[r] \in {"verify", "blacklist", "rotate", "revoke"} =>
         sess[r] \in Session /\ origin[tok[r]] = sess[r]
    /\ pc[r] = "rotate" => tok[r] \in blacklist
    /\ pc[r] = "verifyLogout" => OriginRevoked(tok[r]) \/ tok[r] \in blacklist \cup displaced
    /\ pc[r] = "blacklistLogout" => OriginRevoked(tok[r]) \/ tok[r] \in displaced

\* Rows and tokens name each other; a token its row no longer names was
\* blacklisted or displaced.
RowsOK ==
  /\ \A s \in Session : IF session[s].jti = NoToken THEN ~session[s].revoked
                       ELSE origin[session[s].jti] = s
  /\ \A t \in Token \ Unminted :
       /\ session[origin[t]].jti # NoToken
       /\ session[origin[t]].jti = t \/ t \in blacklist \cup displaced

TokensOK ==
  /\ (held \cup blacklist \cup displaced) \cap Unminted = {}
  /\ exchanged \cup loggedOut \subseteq blacklist
  /\ \A t \in displaced \cup exchanged : session[origin[t]].jti # t

IInv == TypeOK /\ HandlersOK /\ RowsOK /\ TokensOK /\ LogoutRevokes /\ StrandedOnlyByCrash

\* The refinement: a revoked session is closed, and only the token of a row
\* that is not revoked is current.
Phase == [s \in Session |-> IF session[s].jti = NoToken THEN "unopened"
                            ELSE IF session[s].revoked THEN "closed" ELSE "open"]
Current == [s \in Session |-> IF session[s].revoked THEN NoToken ELSE session[s].jti]
Lifecycle == INSTANCE SessionLifecycle
  WITH phase <- Phase, current <- Current, issued <- Token \ Unminted

\* The handlers implement the life cycle of SessionLifecycle: whatever stale
\* rows they hold, a save never reopens a session, never takes a row back to a
\* token it had before and never moves a token to another session.
ImplementsLifecycle == Lifecycle!Spec

\* A refresh is at work on session s.
Refreshing(s) == \E r \in Request : pc[r] \in RefreshSteps \ {"find"} /\ sess[r] = s

\* Once a session is revoked, its refreshes in flight run out and none finds
\* it again: from some point on no refresh works on it.
RevocationDrains ==
  \A s \in Session : session[s].revoked ~> []~Refreshing(s)

\* identity/tests.py:191-193: a logout revokes the session.
LogoutRevokesSession == \A t \in loggedOut : session[origin[t]].revoked
=============================================================================
