\* An administrator, two other researchers, a company, three requests at once.
CONSTANTS
  a = a  c = c  u1 = u1  u2 = u2  r1 = r1  r2 = r2  r3 = r3
  Account = {a, c, u1, u2}
  Researcher = {a, u1, u2}
  Admin = a
  Request = {r1, r2, r3}
  NoGroup = NoGroup
SPECIFICATION Spec
SYMMETRY Symmetry
INVARIANTS TypeOK GroupInStep DeletedStaysDeleted
CHECK_DEADLOCK FALSE
