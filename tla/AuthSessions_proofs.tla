------------------------ MODULE AuthSessions_proofs ------------------------
(***************************************************************************)
(* Proofs about AuthSessions, for any number of sessions, tokens, handlers *)
(* and users.                                                              *)
(***************************************************************************)
EXTENDS AuthSessions, TLAPS

\* The two row updates of the code yield rows, and tell what they change.
LEMMA SavedRotation ==
  ASSUME NEW row \in Row, NEW mine \in Row, NEW n \in Token
  PROVE  /\ SaveRotation(row, mine, n) \in Row
         /\ SaveRotation(row, mine, n).jti = n
         /\ SaveRotation(row, mine, n).revoked = row.revoked
<1> DEFINE renamed == [row EXCEPT !.jti = n]
<1>1. renamed \in Row /\ renamed.jti = n /\ renamed.revoked = row.revoked
  BY DEF Row
<1>2. SaveRotation(row, mine, n) = [renamed EXCEPT !.rotations = mine.rotations + 1]
  BY DEF SaveRotation
<1>3. mine.rotations + 1 \in Nat
  BY DEF Row
<1> HIDE DEF renamed
<1> QED BY <1>1, <1>2, <1>3 DEF Row

LEMMA SavedRevocation ==
  ASSUME NEW row \in Row, NEW mine \in Row
  PROVE  /\ SaveRevocation(row, mine) \in Row
         /\ SaveRevocation(row, mine).jti = row.jti
         /\ SaveRevocation(row, mine).revoked = TRUE
BY DEF SaveRevocation, Row

\* The initial state satisfies the inductive invariant.
LEMMA InitIInv == Init => IInv
<1> SUFFICES ASSUME Init PROVE IInv
  OBVIOUS
<1>1. TypeOK
  BY DEF Init, TypeOK, Row, NewRow, Steps
<1>2. HandlersOK
  BY DEF Init, HandlersOK
<1>3. RowsOK
  BY DEF Init, RowsOK, NewRow, Unminted
<1>4. TokensOK /\ LogoutRevokes
  BY DEF Init, TokensOK, LogoutRevokes
<1>5. StrandedOnlyByCrash
  BY DEF Init, StrandedOnlyByCrash
<1> QED BY <1>1, <1>2, <1>3, <1>4, <1>5 DEF IInv

\* Every handler step preserves the types.
LEMMA StepTypeOK ==
  ASSUME IInv, NEW r \in Request, Step(r)
  PROVE  TypeOK'
<1> USE DEF IInv, TypeOK, history, Environment
<1>0. NewRow \in Row
  BY DEF NewRow, Row
<1>1. CASE Answer(r)
  BY <1>0, <1>1 DEF Answer, Finish, Steps, HandlersOK
<1>2. CASE FindSession(r)
  BY <1>0, <1>2 DEF FindSession, ActiveSessionsFor, Read, Finish, Steps, RefreshSteps
<1>3. CASE Verify(r)
  BY <1>0, <1>3 DEF Verify, Goto, Finish, Steps, RefreshSteps
<1>4. CASE Blacklist(r)
  BY <1>4 DEF Blacklist, Goto, Steps, RefreshSteps, HandlersOK
<1>5. ASSUME NEW n \in Token, Rotate(r, n)
      PROVE  TypeOK'
  <2>1. sess[r] \in Session /\ tok[r] \in Token /\ session[sess[r]] \in Row /\ copy[r] \in Row
    BY <1>5 DEF Rotate, HandlersOK
  <2>2. SaveRotation(session[sess[r]], copy[r], n) \in Row
    BY <2>1, SavedRotation
  <2>3. displaced' \subseteq Token
    <3>1. session[sess[r]].jti \in Token \cup {NoToken}
      BY <2>1 DEF Row
    <3>2. session[sess[r]].jti # NoToken
      BY <1>5 DEF Rotate, HandlersOK, RowsOK
    <3> QED BY <1>5, <3>1, <3>2 DEF Rotate
  <2> QED BY <1>5, <2>1, <2>2, <2>3 DEF Rotate, Take, Steps
<1>6. CASE FindLogout(r)
  BY <1>6 DEF FindLogout, RevocableSessionsFor, Read, Goto, Steps, LogoutSteps
<1>7. CASE Revoke(r)
  <2>1. sess[r] \in Session /\ session[sess[r]] \in Row /\ copy[r] \in Row
    BY <1>7 DEF Revoke, HandlersOK
  <2> QED BY <1>7, <2>1, SavedRevocation DEF Revoke, Goto, Steps, LogoutSteps
<1>8. CASE VerifyLogout(r)
  BY <1>0, <1>8 DEF VerifyLogout, LogoutVerification, Goto, Finish, Steps, LogoutSteps
<1>9. CASE BlacklistLogout(r)
  BY <1>0, <1>9 DEF BlacklistLogout, Finish, Steps, HandlersOK
<1> QED BY <1>1, <1>2, <1>3, <1>4, <1>5, <1>6, <1>7, <1>8, <1>9 DEF Step

\* What the two saves do to the table: the named row gets its new token, or is
\* revoked, and no other row changes.
LEMMA RotateRow ==
  ASSUME IInv, NEW r \in Request, NEW n \in Token, Rotate(r, n)
  PROVE  /\ sess[r] \in Session
         /\ session'[sess[r]].jti = n
         /\ session'[sess[r]].revoked = session[sess[r]].revoked
         /\ \A s \in Session \ {sess[r]} : session'[s] = session[s]
<1>1. sess[r] \in Session /\ session[sess[r]] \in Row /\ copy[r] \in Row
  BY DEF Rotate, IInv, HandlersOK, TypeOK
<1>2. session' = [session EXCEPT ![sess[r]] = SaveRotation(session[sess[r]], copy[r], n)]
  BY DEF Rotate
<1> QED BY <1>1, <1>2, SavedRotation DEF IInv, TypeOK

LEMMA RevokeRow ==
  ASSUME IInv, NEW r \in Request, Revoke(r)
  PROVE  /\ sess[r] \in Session
         /\ session'[sess[r]].jti = session[sess[r]].jti
         /\ session'[sess[r]].revoked
         /\ \A s \in Session \ {sess[r]} : session'[s] = session[s]
<1>1. sess[r] \in Session /\ session[sess[r]] \in Row /\ copy[r] \in Row
  BY DEF Revoke, IInv, HandlersOK, TypeOK
<1>2. session' = [session EXCEPT ![sess[r]] = SaveRevocation(session[sess[r]], copy[r])]
  BY DEF Revoke
<1> QED BY <1>1, <1>2, SavedRevocation DEF IInv, TypeOK

LEMMA OpenRow ==
  ASSUME IInv, NEW r \in Request, NEW s \in Session, NEW t \in Token, OpenSession(r, s, t)
  PROVE  /\ session' \in [Session -> Row]
         /\ session'[s].jti = t
         /\ ~session'[s].revoked
         /\ \A x \in Session \ {s} : session'[x] = session[x]
<1>1. session[s] \in Row /\ ~session[s].revoked
  BY DEF OpenSession, IInv, RowsOK, TypeOK
<1>2. session' = [session EXCEPT ![s] = [session[s] EXCEPT !.jti = t]]
  BY DEF OpenSession
<1>3. [session[s] EXCEPT !.jti = t] \in Row /\ [session[s] EXCEPT !.jti = t].jti = t
        /\ [session[s] EXCEPT !.jti = t].revoked = session[s].revoked
  BY <1>1 DEF Row
<1> QED BY <1>1, <1>2, <1>3 DEF IInv, TypeOK

LEMMA NextTypeOK == IInv /\ [Next]_vars => TypeOK'
<1> SUFFICES ASSUME IInv, [Next]_vars PROVE TypeOK'
  OBVIOUS
<1> USE DEF IInv, TypeOK, history, Environment
<1>1. ASSUME NEW r \in Request, NEW s \in Session, NEW t \in Token, OpenSession(r, s, t)
      PROVE  TypeOK'
  <2>1. session' \in [Session -> Row]
    BY <1>1, OpenRow
  <2> QED BY <1>1, <2>1 DEF OpenSession, Take, Steps
<1>2. ASSUME NEW r \in Request, NEW t \in Token, BeginRefresh(r, t) \/ BeginLogout(r, t)
      PROVE  TypeOK'
  BY <1>2 DEF BeginRefresh, BeginLogout, Take, Steps, RefreshSteps, LogoutSteps
<1>3. ASSUME NEW r \in Request, Step(r) PROVE TypeOK'
  BY <1>3, StepTypeOK
<1>4. ASSUME NEW r \in Request, Crash(r) PROVE TypeOK'
  BY <1>4 DEF Crash, Finish, Steps, NewRow, Row, HandlersOK
<1>5. ASSUME NEW t \in Token, Expire(t) PROVE TypeOK'
  BY <1>5 DEF Expire
<1>6. ASSUME NEW u \in User, SetActive(u) PROVE TypeOK'
  BY <1>6 DEF SetActive
<1>7. CASE UNCHANGED vars
  BY <1>7 DEF vars
<1> QED BY <1>1, <1>2, <1>3, <1>4, <1>5, <1>6, <1>7 DEF Next

(***************************************************************************)
(* The inductive step, part by part.                                       *)
(***************************************************************************)

\* What the handlers know stays true.
LEMMA NextHandlersOK == IInv /\ [Next]_vars => HandlersOK'
<1> SUFFICES ASSUME IInv, [Next]_vars PROVE HandlersOK'
  OBVIOUS
<1> USE DEF IInv, TypeOK, HandlersOK, Unminted, OriginRevoked, history, Environment
<1>1. ASSUME NEW r \in Request, NEW s \in Session, NEW t \in Token, OpenSession(r, s, t)
      PROVE  HandlersOK'
  <2>1. session'[s].jti = t /\ \A x \in Session : session[x].revoked => session'[x].revoked
    BY <1>1, OpenRow DEF RowsOK, OpenSession
  <2> QED BY <1>1, <2>1, NullAssumption DEF OpenSession, Take
<1>2. ASSUME NEW r \in Request, NEW t \in Token, BeginRefresh(r, t) \/ BeginLogout(r, t)
      PROVE  HandlersOK'
  BY <1>2 DEF BeginRefresh, BeginLogout, Take, TokensOK
<1>3. ASSUME NEW r \in Request, Answer(r) \/ BlacklistLogout(r) PROVE HandlersOK'
  BY <1>3 DEF Answer, BlacklistLogout, Finish
<1>4. ASSUME NEW r \in Request, FindSession(r) PROVE HandlersOK'
  BY <1>4, NullAssumption DEF FindSession, ActiveSessionsFor, Read, Finish, RowsOK
<1>5. ASSUME NEW r \in Request, Verify(r) PROVE HandlersOK'
  BY <1>5 DEF Verify, Goto, Finish
<1>6. ASSUME NEW r \in Request, Blacklist(r) PROVE HandlersOK'
  BY <1>6 DEF Blacklist, Goto
<1>7. ASSUME NEW r \in Request, NEW n \in Token, Rotate(r, n) PROVE HandlersOK'
  <2>1. \A x \in Session : session[x].revoked => session'[x].revoked
    BY <1>7, RotateRow
  <2> QED BY <1>7, <2>1, NullAssumption, RotateRow DEF Rotate, Take
<1>8. ASSUME NEW r \in Request, FindLogout(r) PROVE HandlersOK'
  <2>1. \A s \in RevocableSessionsFor(tok[r]) : s \in Session /\ origin[tok[r]] = s
    BY <1>8, NullAssumption DEF FindLogout, RevocableSessionsFor, RowsOK
  <2>2. RevocableSessionsFor(tok[r]) = {} =>
          OriginRevoked(tok[r]) \/ tok[r] \in blacklist \cup displaced
    BY <1>8 DEF FindLogout, RevocableSessionsFor, RowsOK
  <2> QED BY <1>8, <2>1, <2>2 DEF FindLogout, Read, Goto
<1>9. ASSUME NEW r \in Request, Revoke(r) PROVE HandlersOK'
  <2>1. \A x \in Session : session[x].revoked => session'[x].revoked
    BY <1>9, RevokeRow
  <2>2. session'[sess[r]].revoked /\ origin[tok[r]] = sess[r]
    BY <1>9, RevokeRow DEF Revoke
  <2> QED BY <1>9, <2>1, <2>2 DEF Revoke, Goto
<1>10. ASSUME NEW r \in Request, VerifyLogout(r) PROVE HandlersOK'
  BY <1>10 DEF VerifyLogout, LogoutVerification, Verified, Goto, Finish
<1>11. ASSUME NEW r \in Request, Crash(r) PROVE HandlersOK'
  BY <1>11 DEF Crash, Finish
<1>12. ASSUME NEW t \in Token, Expire(t) PROVE HandlersOK'
  BY <1>12 DEF Expire
<1>13. ASSUME NEW u \in User, SetActive(u) PROVE HandlersOK'
  BY <1>13 DEF SetActive
<1>14. CASE UNCHANGED vars
  BY <1>14 DEF vars
<1> QED
  BY <1>1, <1>2, <1>3, <1>4, <1>5, <1>6, <1>7, <1>8, <1>9, <1>10, <1>11, <1>12,
     <1>13, <1>14 DEF Next, Step

\* Rows and tokens keep naming each other.
LEMMA NextRowsOK == IInv /\ [Next]_vars => RowsOK'
<1> SUFFICES ASSUME IInv, [Next]_vars PROVE RowsOK'
  OBVIOUS
<1> USE DEF IInv, TypeOK, RowsOK, Unminted, history, Environment
<1>1. ASSUME NEW r \in Request, NEW s \in Session, NEW t \in Token, OpenSession(r, s, t)
      PROVE  RowsOK'
  <2>1. origin' = [origin EXCEPT ![t] = s] /\ origin[t] = NoSession
    BY <1>1 DEF OpenSession
  <2>2. \A u \in Token \ Unminted : origin[u] # s
    BY <1>1 DEF OpenSession
  <2>3. blacklist' = blacklist /\ displaced' = displaced
    BY <1>1 DEF OpenSession
  <2>4. \A x \in Session : IF session'[x].jti = NoToken THEN ~session'[x].revoked
                          ELSE origin'[session'[x].jti] = x
    <3>1. \A x \in Session \ {s} : session[x].jti # t
      BY <2>1, NullAssumption
    <3>2. \A x \in Session : session[x] \in Row
      OBVIOUS
    <3> QED BY <1>1, <2>1, <3>1, <3>2, OpenRow, NullAssumption DEF Row
  <2>5. ASSUME NEW u \in Token, origin'[u] # NoSession
        PROVE  /\ session'[origin'[u]].jti # NoToken
               /\ session'[origin'[u]].jti = u \/ u \in blacklist \cup displaced
    <3>1. CASE u = t
      BY <1>1, <2>1, <3>1, OpenRow, NullAssumption
    <3>2. CASE u # t
      BY <1>1, <2>1, <2>2, <2>5, <3>2, OpenRow
    <3> QED BY <3>1, <3>2
  <2> QED BY <2>3, <2>4, <2>5
<1>2. ASSUME NEW r \in Request, NEW n \in Token, Rotate(r, n) PROVE RowsOK'
  <2> DEFINE s == sess[r]
  <2>1. /\ s \in Session /\ session'[s].jti = n /\ session'[s].revoked = session[s].revoked
        /\ \A x \in Session \ {s} : session'[x] = session[x]
    BY <1>2, RotateRow
  <2>2. /\ origin' = [origin EXCEPT ![n] = s] /\ origin[n] = NoSession
        /\ blacklist' = blacklist
        /\ displaced' = displaced \cup ({session[s].jti} \ {tok[r]})
    BY <1>2 DEF Rotate
  <2>3. tok[r] \in blacklist /\ tok[r] \in Token
    BY <1>2 DEF Rotate, HandlersOK
  <2> HIDE DEF s
  <2>4. \A x \in Session : IF session'[x].jti = NoToken THEN ~session'[x].revoked
                          ELSE origin'[session'[x].jti] = x
    <3>1. \A x \in Session \ {s} : session[x].jti # n
      BY <2>2, NullAssumption
    <3>2. \A x \in Session : session[x] \in Row
      OBVIOUS
    <3> QED BY <2>1, <2>2, <3>1, <3>2, NullAssumption DEF Row
  <2>5. ASSUME NEW u \in Token, origin'[u] # NoSession
        PROVE  /\ session'[origin'[u]].jti # NoToken
               /\ session'[origin'[u]].jti = u \/ u \in blacklist' \cup displaced'
    <3>1. CASE u = n
      BY <2>1, <2>2, <3>1, NullAssumption
    <3>2. CASE u # n /\ origin[u] = s
      BY <2>1, <2>2, <2>3, <3>2, NullAssumption
    <3>3. CASE u # n /\ origin[u] # s
      BY <2>1, <2>2, <2>5, <3>3
    <3> QED BY <3>1, <3>2, <3>3
  <2> QED BY <2>4, <2>5
<1>3. ASSUME NEW r \in Request, Revoke(r) PROVE RowsOK'
  <2>1. session[sess[r]].jti # NoToken
    BY <1>3 DEF Revoke, HandlersOK
  <2>2. UNCHANGED <<origin, blacklist, displaced>>
    BY <1>3 DEF Revoke
  <2>3. \A x \in Session : session'[x].jti = session[x].jti
    BY <1>3, RevokeRow
  <2>4. \A x \in Session \ {sess[r]} : session'[x].revoked = session[x].revoked
    BY <1>3, RevokeRow
  <2> QED BY <2>1, <2>2, <2>3, <2>4
<1>4. CASE UNCHANGED <<session, origin, displaced>> /\ blacklist \subseteq blacklist'
  BY <1>4
<1>5. ASSUME NEW r \in Request,
             \/ Answer(r) \/ FindSession(r) \/ Verify(r) \/ Blacklist(r) \/ FindLogout(r)
             \/ VerifyLogout(r) \/ BlacklistLogout(r) \/ Crash(r)
      PROVE  RowsOK'
  BY <1>4, <1>5 DEF Answer, FindSession, Verify, Blacklist, FindLogout, VerifyLogout,
     BlacklistLogout, Crash
<1>6. ASSUME NEW r \in Request, NEW t \in Token, BeginRefresh(r, t) \/ BeginLogout(r, t)
      PROVE  RowsOK'
  BY <1>4, <1>6 DEF BeginRefresh, BeginLogout
<1>7. ASSUME NEW t \in Token, Expire(t) PROVE RowsOK'
  BY <1>4, <1>7 DEF Expire
<1>8. ASSUME NEW u \in User, SetActive(u) PROVE RowsOK'
  BY <1>4, <1>8 DEF SetActive
<1>9. CASE UNCHANGED vars
  BY <1>4, <1>9 DEF vars
<1> QED BY <1>1, <1>2, <1>3, <1>5, <1>6, <1>7, <1>8, <1>9 DEF Next, Step

\* Tokens named in the blacklist or the history stay minted, and no row goes
\* back to one.
LEMMA NextTokensOK == IInv /\ [Next]_vars => TokensOK'
<1> SUFFICES ASSUME IInv, [Next]_vars PROVE TokensOK'
  OBVIOUS
<1> USE DEF IInv, TypeOK, TokensOK, Unminted, history, Environment
<1>1. ASSUME NEW r \in Request, NEW s \in Session, NEW t \in Token, OpenSession(r, s, t)
      PROVE  TokensOK'
  <2>1. \A u \in displaced \cup exchanged : u # t /\ u \in Token /\ origin[u] \in Session \ {s}
    BY <1>1 DEF OpenSession, RowsOK
  <2>2. /\ origin' = [origin EXCEPT ![t] = s] /\ t \in Unminted
        /\ UNCHANGED <<held, blacklist, displaced, exchanged, loggedOut>>
    BY <1>1 DEF OpenSession
  <2> QED BY <1>1, <2>1, <2>2, OpenRow, NullAssumption
<1>2. ASSUME NEW r \in Request, NEW n \in Token, Rotate(r, n) PROVE TokensOK'
  <2> DEFINE s == sess[r]
  <2>1. /\ s \in Session /\ session'[s].jti = n
        /\ \A x \in Session \ {s} : session'[x] = session[x]
    BY <1>2, RotateRow
  <2>2. /\ origin' = [origin EXCEPT ![n] = s] /\ origin[n] = NoSession
        /\ UNCHANGED <<held, blacklist, loggedOut>>
        /\ displaced' = displaced \cup ({session[s].jti} \ {tok[r]})
        /\ exchanged' = exchanged \cup {tok[r]}
    BY <1>2 DEF Rotate
  <2>3. tok[r] \in blacklist /\ tok[r] \in Token /\ origin[tok[r]] = s
    BY <1>2 DEF Rotate, HandlersOK
  <2>4. session[s].jti \in Token /\ origin[session[s].jti] = s
    <3>1. session[s].jti # NoToken
      BY <2>1, <2>3, NullAssumption DEF RowsOK
    <3>2. session[s] \in Row
      BY <2>1
    <3> QED BY <2>1, <3>1, <3>2 DEF RowsOK, Row
  <2> HIDE DEF s
  <2>5. \A u \in displaced' \cup exchanged' : u # n /\ u \in Token /\ origin[u] \in Session
    BY <2>1, <2>2, <2>3, <2>4, NullAssumption
  <2>6. \A u \in displaced' \cup exchanged' : session'[origin'[u]].jti # u
    BY <2>1, <2>2, <2>3, <2>4, <2>5
  <2> QED BY <2>1, <2>2, <2>3, <2>4, <2>6, NullAssumption
<1>3. ASSUME NEW r \in Request, Revoke(r) PROVE TokensOK'
  <2>1. \A x \in Session : session'[x].jti = session[x].jti
    BY <1>3, RevokeRow
  <2> QED BY <1>3, <2>1 DEF Revoke
<1>4. ASSUME NEW r \in Request, Answer(r) \/ Blacklist(r) \/ BlacklistLogout(r) PROVE TokensOK'
  <2>1. tok[r] \in Token \ Unminted
    BY <1>4 DEF Answer, Blacklist, BlacklistLogout, HandlersOK
  <2> QED BY <1>4, <2>1 DEF Answer, Blacklist, BlacklistLogout
<1>5. CASE UNCHANGED <<session, origin, held, blacklist, displaced, exchanged, loggedOut>>
  BY <1>5
<1>6. ASSUME NEW r \in Request,
             \/ FindSession(r) \/ Verify(r) \/ FindLogout(r) \/ VerifyLogout(r) \/ Crash(r)
      PROVE  TokensOK'
  BY <1>5, <1>6 DEF FindSession, Verify, FindLogout, VerifyLogout, Crash
<1>7. ASSUME NEW r \in Request, NEW t \in Token, BeginRefresh(r, t) \/ BeginLogout(r, t)
      PROVE  TokensOK'
  BY <1>5, <1>7 DEF BeginRefresh, BeginLogout
<1>8. ASSUME NEW t \in Token, Expire(t) PROVE TokensOK'
  BY <1>5, <1>8 DEF Expire
<1>9. ASSUME NEW u \in User, SetActive(u) PROVE TokensOK'
  BY <1>5, <1>9 DEF SetActive
<1>10. CASE UNCHANGED vars
  BY <1>5, <1>10 DEF vars
<1> QED BY <1>1, <1>2, <1>3, <1>4, <1>6, <1>7, <1>8, <1>9, <1>10 DEF Next, Step

\* A logout that was answered 204 keeps having revoked its session.
LEMMA NextLogoutRevokes == IInv /\ [Next]_vars => LogoutRevokes'
<1> SUFFICES ASSUME IInv, [Next]_vars PROVE LogoutRevokes'
  OBVIOUS
<1> USE DEF IInv, TypeOK, LogoutRevokes, history, Environment
<1>0. \A t \in loggedOut : t \in Token /\ origin[t] \in Session
  BY DEF TokensOK, Unminted
<1>1. ASSUME NEW r \in Request, NEW s \in Session, NEW t \in Token, OpenSession(r, s, t)
      PROVE  LogoutRevokes'
  <2>1. t \notin loggedOut
    BY <1>0, <1>1, NullAssumption DEF OpenSession, Unminted
  <2>2. \A x \in Session : session[x].revoked => session'[x].revoked
    BY <1>1, OpenRow DEF RowsOK, OpenSession
  <2> QED BY <1>0, <1>1, <2>1, <2>2 DEF OpenSession
<1>2. ASSUME NEW r \in Request, NEW n \in Token, Rotate(r, n) PROVE LogoutRevokes'
  <2>1. n \notin loggedOut
    BY <1>0, <1>2, NullAssumption DEF Rotate, Unminted
  <2>2. \A x \in Session : session[x].revoked => session'[x].revoked
    BY <1>2, RotateRow
  <2> QED BY <1>0, <1>2, <2>1, <2>2 DEF Rotate
<1>3. ASSUME NEW r \in Request, Revoke(r) PROVE LogoutRevokes'
  <2>1. \A x \in Session : session[x].revoked => session'[x].revoked
    BY <1>3, RevokeRow
  <2> QED BY <1>0, <1>3, <2>1 DEF Revoke
<1>4. ASSUME NEW r \in Request, BlacklistLogout(r) PROVE LogoutRevokes'
  BY <1>4 DEF BlacklistLogout, HandlersOK, OriginRevoked
<1>5. CASE UNCHANGED <<session, origin, displaced, loggedOut>>
  BY <1>5
<1>6. ASSUME NEW r \in Request,
             \/ Answer(r) \/ FindSession(r) \/ Verify(r) \/ Blacklist(r) \/ FindLogout(r)
             \/ VerifyLogout(r) \/ Crash(r)
      PROVE  LogoutRevokes'
  BY <1>5, <1>6 DEF Answer, FindSession, Verify, Blacklist, FindLogout, VerifyLogout, Crash
<1>7. ASSUME NEW r \in Request, NEW t \in Token, BeginRefresh(r, t) \/ BeginLogout(r, t)
      PROVE  LogoutRevokes'
  BY <1>5, <1>7 DEF BeginRefresh, BeginLogout
<1>8. ASSUME NEW t \in Token, Expire(t) PROVE LogoutRevokes'
  BY <1>5, <1>8 DEF Expire
<1>9. ASSUME NEW u \in User, SetActive(u) PROVE LogoutRevokes'
  BY <1>5, <1>9 DEF SetActive
<1>10. CASE UNCHANGED vars
  BY <1>5, <1>10 DEF vars
<1> QED BY <1>1, <1>2, <1>3, <1>4, <1>6, <1>7, <1>8, <1>9, <1>10 DEF Next, Step

\* A live session is stranded on a blacklisted token only where a refresh is
\* about to save or died.
LEMMA NextStranded == IInv /\ [Next]_vars => StrandedOnlyByCrash'
<1> SUFFICES ASSUME IInv, [Next]_vars,
                    NEW s \in Session, ~session'[s].revoked, session'[s].jti \in blacklist'
             PROVE  s \in stranded' \/ \E q \in Request : pc'[q] = "rotate" /\ sess'[q] = s
  BY DEF StrandedOnlyByCrash
<1> DEFINE Goal == s \in stranded' \/ \E q \in Request : pc'[q] = "rotate" /\ sess'[q] = s
<1> USE DEF IInv, TypeOK, history, Environment
\* The handlers that are about to save before the step, if s was on a
\* blacklisted token already.
<1>0. ~session[s].revoked /\ session[s].jti \in blacklist =>
        s \in stranded \/ \E q \in Request : pc[q] = "rotate" /\ sess[q] = s
  BY DEF StrandedOnlyByCrash
<1>1. ASSUME NEW r \in Request, NEW x \in Session, NEW t \in Token, OpenSession(r, x, t)
      PROVE  Goal
  <2>1. t \notin blacklist /\ blacklist' = blacklist
    BY <1>1 DEF OpenSession, TokensOK
  <2>2. s # x /\ session'[s] = session[s]
    BY <1>1, <2>1, OpenRow
  <2> QED BY <1>0, <1>1, <2>1, <2>2 DEF OpenSession, Take
<1>2. ASSUME NEW r \in Request, NEW n \in Token, Rotate(r, n) PROVE Goal
  <2>1. n \notin blacklist /\ blacklist' = blacklist
    BY <1>2 DEF Rotate, TokensOK
  <2>2. s # sess[r] /\ session'[s] = session[s]
    BY <1>2, <2>1, RotateRow
  <2> QED BY <1>0, <1>2, <2>1, <2>2 DEF Rotate, Take
<1>3. ASSUME NEW r \in Request, Revoke(r) PROVE Goal
  <2>1. s # sess[r] /\ session'[s] = session[s]
    BY <1>3, RevokeRow
  <2> QED BY <1>0, <1>3, <2>1 DEF Revoke, Goto
<1>4. ASSUME NEW r \in Request, Blacklist(r) PROVE Goal
  <2>1. session[s].jti = tok[r] => s = sess[r]
    BY <1>4, NullAssumption DEF Blacklist, HandlersOK, RowsOK
  <2> QED BY <1>0, <1>4, <2>1 DEF Blacklist, Goto
<1>5. ASSUME NEW r \in Request, BlacklistLogout(r) PROVE Goal
  <2>1. session[s].jti = tok[r] => session[s].revoked
    BY <1>5, NullAssumption DEF BlacklistLogout, HandlersOK, RowsOK, TokensOK, OriginRevoked
  <2> QED BY <1>0, <1>5, <2>1 DEF BlacklistLogout, Finish
<1>6. ASSUME NEW r \in Request, Crash(r) PROVE Goal
  BY <1>0, <1>6 DEF Crash, Finish
<1>7. ASSUME NEW r \in Request, Answer(r) \/ FindSession(r) \/ Verify(r) PROVE Goal
  BY <1>0, <1>7 DEF Answer, FindSession, Verify, Goto, Read, Finish
<1>8. ASSUME NEW r \in Request, FindLogout(r) \/ VerifyLogout(r) PROVE Goal
  BY <1>0, <1>8 DEF FindLogout, VerifyLogout, LogoutVerification, Goto, Read, Finish
<1>9. ASSUME NEW r \in Request, NEW t \in Token, BeginRefresh(r, t) \/ BeginLogout(r, t)
      PROVE  Goal
  BY <1>0, <1>9 DEF BeginRefresh, BeginLogout, Take
<1>10. ASSUME NEW t \in Token, Expire(t) PROVE Goal
  BY <1>0, <1>10 DEF Expire
<1>11. ASSUME NEW u \in User, SetActive(u) PROVE Goal
  BY <1>0, <1>11 DEF SetActive
<1>12. CASE UNCHANGED vars
  BY <1>0, <1>12 DEF vars
<1> QED
  BY <1>1, <1>2, <1>3, <1>4, <1>5, <1>6, <1>7, <1>8, <1>9, <1>10, <1>11, <1>12 DEF Next, Step

(***************************************************************************)
(* The theorems.                                                           *)
(***************************************************************************)

\* The invariant is inductive, hence always true.
THEOREM Invariance == Spec => []IInv
<1>1. IInv /\ [Next]_vars => IInv'
  BY NextTypeOK, NextHandlersOK, NextRowsOK, NextTokensOK, NextLogoutRevokes, NextStranded
     DEF IInv
<1> QED BY <1>1, InitIInv, PTL DEF Spec

\* Every variable of the session tables and of the handlers keeps its type.
THEOREM TypeCorrect == Spec => []TypeOK
<1>1. IInv => TypeOK
  BY DEF IInv
<1> QED BY <1>1, Invariance, PTL

\* A logout that answers 204 has revoked its session, displaced tokens apart,
\* for any number of concurrent refreshes, logouts and crashes.
THEOREM LogoutCorrect == Spec => []LogoutRevokes
<1>1. IInv => LogoutRevokes
  BY DEF IInv
<1> QED BY <1>1, Invariance, PTL

\* A token that was exchanged or logged out can not be exchanged by a later
\* request.
THEOREM SpentForGood == Spec => []SpentTokensStayDead
<1>1. IInv => SpentTokensStayDead
  <2> SUFFICES ASSUME IInv, NEW t \in exchanged \cup loggedOut
               PROVE  t \in blacklist /\ \A s \in Session : session[s].jti = t => session[s].revoked
    BY DEF SpentTokensStayDead
  <2>1. t \in blacklist /\ t \in Token
    BY DEF IInv, TokensOK, TypeOK
  <2>2. \A s \in Session : session[s].jti = t => origin[t] = s
    BY <2>1, NullAssumption DEF IInv, RowsOK
  <2>3. t \in exchanged \/ t \in displaced => \A s \in Session : session[s].jti # t
    BY <2>2 DEF IInv, TokensOK
  <2>4. t \in loggedOut => session[origin[t]].revoked \/ t \in displaced
    BY DEF IInv, LogoutRevokes
  <2> QED BY <2>1, <2>2, <2>3, <2>4
<1> QED BY <1>1, Invariance, PTL

\* Only a worker that dies between the blacklisting and the save of a refresh
\* leaves a live session on a token that can not be exchanged.
THEOREM Stranding == Spec => []StrandedOnlyByCrash
<1>1. IInv => StrandedOnlyByCrash
  BY DEF IInv
<1> QED BY <1>1, Invariance, PTL

(***************************************************************************)
(* Steps never undo a revocation, and implement SessionLifecycle.          *)
(***************************************************************************)

LEMMA RevokedStays ==
  ASSUME IInv, [Next]_vars, NEW s \in Session, session[s].revoked
  PROVE  session'[s].revoked
<1> USE DEF history, Environment
<1>1. ASSUME NEW r \in Request, NEW x \in Session, NEW t \in Token, OpenSession(r, x, t)
      PROVE  session'[s].revoked
  BY <1>1, OpenRow DEF IInv, RowsOK, OpenSession
<1>2. ASSUME NEW r \in Request, NEW n \in Token, Rotate(r, n) PROVE session'[s].revoked
  BY <1>2, RotateRow
<1>3. ASSUME NEW r \in Request, Revoke(r) PROVE session'[s].revoked
  BY <1>3, RevokeRow
<1>4. ASSUME NEW r \in Request,
             \/ Answer(r) \/ FindSession(r) \/ Verify(r) \/ Blacklist(r) \/ FindLogout(r)
             \/ VerifyLogout(r) \/ BlacklistLogout(r) \/ Crash(r)
      PROVE  session'[s].revoked
  BY <1>4 DEF Answer, FindSession, Verify, Blacklist, FindLogout, VerifyLogout,
     BlacklistLogout, Crash
<1>5. ASSUME NEW r \in Request, NEW t \in Token, BeginRefresh(r, t) \/ BeginLogout(r, t)
      PROVE  session'[s].revoked
  BY <1>5 DEF BeginRefresh, BeginLogout
<1>6. ASSUME NEW t \in Token, Expire(t) PROVE session'[s].revoked
  BY <1>6 DEF Expire
<1>7. ASSUME NEW u \in User, SetActive(u) PROVE session'[s].revoked
  BY <1>7 DEF SetActive
<1>8. CASE UNCHANGED vars
  BY <1>8 DEF vars
<1> QED BY <1>1, <1>2, <1>3, <1>4, <1>5, <1>6, <1>7, <1>8 DEF Next, Step

\* No handler brings a revoked session back, whatever row it read before.
THEOREM RevocationForGood == Spec => RevocationIsFinal
<1>1. IInv /\ [Next]_vars => [\A s \in Session : session[s].revoked => session'[s].revoked]_vars
  BY RevokedStays
<1> QED BY <1>1, Invariance, PTL DEF Spec, RevocationIsFinal

LEMMA InitLifecycle == Init => Lifecycle!Init
<1> SUFFICES ASSUME Init PROVE Lifecycle!Init
  OBVIOUS
<1>1. \A s \in Session : session[s].jti = NoToken /\ ~session[s].revoked
  BY DEF Init, NewRow
<1>2. Phase = [s \in Session |-> "unopened"]
  BY <1>1 DEF Phase
<1>3. Current = [s \in Session |-> NoToken]
  BY <1>1 DEF Current
<1>4. Token \ Unminted = {}
  BY DEF Init, Unminted
<1> QED BY <1>2, <1>3, <1>4 DEF Lifecycle!Init

\* Minting a token for a session issues it in the abstract specification.
LEMMA MintingIssues ==
  ASSUME TypeOK, NEW t \in Unminted, NEW s \in Session, origin' = [origin EXCEPT ![t] = s]
  PROVE  Lifecycle!Issue(t)
BY NullAssumption DEF TypeOK, Unminted, Lifecycle!Issue

LEMMA NextLifecycle == IInv /\ [Next]_vars => [Lifecycle!Next]_(Lifecycle!vars)
<1> SUFFICES ASSUME IInv, [Next]_vars PROVE [Lifecycle!Next]_(Lifecycle!vars)
  OBVIOUS
<1> USE DEF history, Environment
<1>0. NoToken \notin Token /\ session \in [Session -> Row]
  BY NullAssumption DEF IInv, TypeOK
<1>1. ASSUME NEW r \in Request, NEW s \in Session, NEW t \in Token, OpenSession(r, s, t)
      PROVE  Lifecycle!Open(s, t)
  <2>1. /\ session'[s].jti = t /\ ~session'[s].revoked /\ session[s].jti = NoToken
        /\ \A x \in Session \ {s} : session'[x] = session[x]
    BY <1>1, OpenRow DEF OpenSession
  <2>2. Lifecycle!Issue(t)
    BY <1>1, MintingIssues DEF OpenSession, IInv
  <2>3. Phase[s] = "unopened" /\ Phase' = [Phase EXCEPT ![s] = "open"]
    <3>1. session'[s].jti # NoToken
      BY <1>0, <2>1
    <3>2. Phase[s] = "unopened"
      BY <2>1 DEF Phase
    <3>3. \A x \in Session : Phase'[x] = IF x = s THEN "open" ELSE Phase[x]
      BY <2>1, <3>1 DEF Phase
    <3> QED BY <3>2, <3>3 DEF Phase
  <2>4. Current' = [Current EXCEPT ![s] = t]
    BY <2>1 DEF Current
  <2> QED BY <2>2, <2>3, <2>4 DEF Lifecycle!Open
<1>2. ASSUME NEW r \in Request, NEW n \in Token, Rotate(r, n)
      PROVE  Lifecycle!Renew(sess[r], n) \/ Lifecycle!Discard(n)
  <2> DEFINE s == sess[r]
  <2>1. /\ s \in Session /\ session'[s].jti = n /\ session'[s].revoked = session[s].revoked
        /\ \A x \in Session \ {s} : session'[x] = session[x]
    BY <1>2, RotateRow
  <2>2. session[s].jti # NoToken
    BY <1>2 DEF Rotate, IInv, HandlersOK, RowsOK
  <2>3. Lifecycle!Issue(n)
    BY <1>2, <2>1, MintingIssues DEF Rotate, IInv
  <2> HIDE DEF s
  <2>4. UNCHANGED Phase
    BY <1>0, <2>1, <2>2 DEF Phase
  <2>5. CASE session[s].revoked
    <3>1. UNCHANGED Current
      BY <2>1, <2>5 DEF Current
    <3> QED BY <2>3, <2>4, <3>1 DEF Lifecycle!Discard
  <2>6. CASE ~session[s].revoked
    <3>1. Phase[s] = "open"
      BY <2>1, <2>2, <2>6 DEF Phase
    <3>2. Current' = [Current EXCEPT ![s] = n]
      BY <2>1, <2>6 DEF Current
    <3> QED BY <2>3, <2>4, <3>1, <3>2 DEF Lifecycle!Renew, s
  <2> QED BY <2>5, <2>6
<1>3. ASSUME NEW r \in Request, Revoke(r)
      PROVE  Lifecycle!Close(sess[r]) \/ UNCHANGED <<Phase, Current, Token \ Unminted>>
  <2> DEFINE s == sess[r]
  <2>1. /\ s \in Session /\ session'[s].jti = session[s].jti /\ session'[s].revoked
        /\ \A x \in Session \ {s} : session'[x] = session[x]
    BY <1>3, RevokeRow
  <2>2. session[s].jti # NoToken /\ UNCHANGED origin
    BY <1>3 DEF Revoke, IInv, HandlersOK, RowsOK
  <2> HIDE DEF s
  <2>3. UNCHANGED (Token \ Unminted)
    BY <2>2 DEF Unminted
  <2>4. CASE session[s].revoked
    BY <2>1, <2>3, <2>4 DEF Phase, Current
  <2>5. CASE ~session[s].revoked
    <3>1. Phase[s] = "open" /\ Phase' = [Phase EXCEPT ![s] = "closed"]
      BY <2>1, <2>2, <2>5 DEF Phase
    <3>2. Current' = [Current EXCEPT ![s] = NoToken]
      BY <2>1, <2>5 DEF Current
    <3> QED BY <2>3, <3>1, <3>2 DEF Lifecycle!Close, s
  <2> QED BY <2>4, <2>5
<1>4. CASE UNCHANGED <<session, origin>>
  BY <1>4 DEF Phase, Current, Unminted, Lifecycle!vars
<1>5. ASSUME NEW r \in Request,
             \/ Answer(r) \/ FindSession(r) \/ Verify(r) \/ Blacklist(r) \/ FindLogout(r)
             \/ VerifyLogout(r) \/ BlacklistLogout(r) \/ Crash(r)
      PROVE  UNCHANGED Lifecycle!vars
  BY <1>4, <1>5 DEF Answer, FindSession, Verify, Blacklist, FindLogout, VerifyLogout,
     BlacklistLogout, Crash, Phase, Current, Unminted, Lifecycle!vars
<1>6. ASSUME NEW r \in Request, NEW t \in Token, BeginRefresh(r, t) \/ BeginLogout(r, t)
      PROVE  [Lifecycle!Next]_(Lifecycle!vars)
  BY <1>4, <1>6 DEF BeginRefresh, BeginLogout
<1>7. ASSUME NEW t \in Token, Expire(t) PROVE [Lifecycle!Next]_(Lifecycle!vars)
  BY <1>4, <1>7 DEF Expire
<1>8. ASSUME NEW u \in User, SetActive(u) PROVE [Lifecycle!Next]_(Lifecycle!vars)
  BY <1>4, <1>8 DEF SetActive
<1>9. CASE UNCHANGED vars
  BY <1>4, <1>9 DEF vars
<1>10. ASSUME NEW r \in Request, NEW n \in Token, Rotate(r, n)
       PROVE  [Lifecycle!Next]_(Lifecycle!vars)
  <2>1. sess[r] \in Session
    BY <1>10, RotateRow
  <2> QED BY <1>2, <1>10, <2>1 DEF Lifecycle!Next
<1>11. ASSUME NEW r \in Request, Revoke(r)
       PROVE  [Lifecycle!Next]_(Lifecycle!vars)
  <2>1. sess[r] \in Session
    BY <1>11, RevokeRow
  <2> QED BY <1>3, <1>11, <2>1 DEF Lifecycle!Next, Lifecycle!vars
<1>12. ASSUME NEW r \in Request, NEW s \in Session, NEW t \in Token, OpenSession(r, s, t)
       PROVE  [Lifecycle!Next]_(Lifecycle!vars)
  BY <1>1, <1>12 DEF Lifecycle!Next
<1> QED BY <1>5, <1>6, <1>7, <1>8, <1>9, <1>10, <1>11, <1>12 DEF Next, Step

\* The handlers implement the session life cycle.
THEOREM LifecycleImplemented == Spec => ImplementsLifecycle
BY InitLifecycle, NextLifecycle, Invariance, PTL DEF Spec, ImplementsLifecycle, Lifecycle!Spec
=============================================================================
