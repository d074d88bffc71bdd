\* Two concurrent handlers on one session, which is opened with one token and
\* rotated twice; no symmetry, for the liveness.
CONSTANTS
  s1 = s1  t1 = t1  t2 = t2  t3 = t3  t4 = t4
  r1 = r1  r2 = r2  r3 = r3  u1 = u1
  Session = {s1}
  Token = {t1, t2, t3}
  Request = {r1, r2}
  User = {u1}
  Owner <- OneOwner
  NoToken = NoToken
  NoSession = NoSession
SPECIFICATION FairSpec
INVARIANTS TypeOK LogoutRevokes SpentTokensStayDead StrandedOnlyByCrash
PROPERTIES RevocationIsFinal ImplementsLifecycle RevocationDrains
CHECK_DEADLOCK FALSE
