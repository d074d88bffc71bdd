\* Two logins and a profile edit at once; no symmetry, for the liveness.
CONSTANTS
  r1 = r1  r2 = r2  r3 = r3  e1 = e1
  Request = {r1, r2}
  Editor = {e1}
  MaxFailures = 2
  Threshold = 2
  Schedule <- OnePeriod
SPECIFICATION FairSpec
INVARIANTS NoLockWithoutCause
PROPERTIES LockEnds
CHECK_DEADLOCK FALSE
