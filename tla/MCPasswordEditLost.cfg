\* identity/tests.py:106-107 against a profile edit that runs at the same time.
CONSTANTS
  r1 = r1  r2 = r2  r3 = r3  e1 = e1
  Request = {r1, r2}
  Editor = {e1}
  MaxFailures = 4
  Threshold = 2
  Schedule <- TwoPeriods
SPECIFICATION Spec
INVARIANTS FailuresCounted
CHECK_DEADLOCK FALSE
