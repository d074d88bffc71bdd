\* Two handlers, a user who may be enrolled or not, two challenges, two secrets
\* and three TOTP steps.
CONSTANTS
  u1 = u1  u2 = u2  r1 = r1  r2 = r2  c1 = c1  c2 = c2  k1 = k1  k2 = k2
  User = {u1}
  Request = {r1, r2}
  Challenge = {c1, c2}
  Secret = {k1, k2}
  NoSecret = NoSecret
  Enrolled = {u1}
  MaxTime = 1
  Lifetime = 1
  Window = 1
  MaxTries = 2
  Threshold = 2
  Schedule <- TwoPeriods
SPECIFICATION Spec
SYMMETRY SymmetryOfSecrets
INVARIANTS TypeOK OneSessionPerChallenge NoCodeTwice EnrolledOrNot
PROPERTIES LockHolds ThresholdLocks SecretStable ImplementsFactor
CHECK_DEADLOCK FALSE
