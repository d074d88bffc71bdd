\* Three logins at once, counters to four: three lockouts.
CONSTANTS
  r1 = r1  r2 = r2  r3 = r3  e1 = e1
  Request = {r1, r2, r3}
  Editor = {}
  MaxFailures = 4
  Threshold = 2
  Schedule <- TwoPeriods
SPECIFICATION Spec
SYMMETRY Symmetry
INVARIANTS TypeOK FailuresCounted LockBoundsGuesses PasswordScheduleRight MfaScheduleRight LockoutsEscalate
CHECK_DEADLOCK FALSE
