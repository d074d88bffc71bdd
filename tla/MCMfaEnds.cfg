\* Liveness, in both enforcement modes: a user who is enrolled or enrols, two
\* challenges, two secrets.  The clock stands: a challenge that expired ends a
\* request where one that was used does.
CONSTANTS
  u1 = u1  u2 = u2  r1 = r1  r2 = r2  c1 = c1  c2 = c2  k1 = k1  k2 = k2
  User = {u1}
  Request = {r1, r2}
  Challenge = {c1, c2}
  Secret = {k1, k2}
  NoSecret = NoSecret
  Enrolled = {u1}
  MaxTime = 0
  Lifetime = 1
  Window = 1
  MaxTries = 1
  Threshold = 2
  Schedule <- TwoPeriods
SPECIFICATION FairSpec
PROPERTIES EveryRequestEnds
CHECK_DEADLOCK FALSE
