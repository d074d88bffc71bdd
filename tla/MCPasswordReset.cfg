\* identity/tests.py:137-138 against failures recorded at the same time.
CONSTANTS
  r1 = r1  r2 = r2  r3 = r3  e1 = e1
  Request = {r1, r2}
  Editor = {}
  MaxFailures = 4
  Threshold = 2
  Schedule <- TwoPeriods
SPECIFICATION Spec
INVARIANTS NoLockWithoutFailures
CHECK_DEADLOCK FALSE
