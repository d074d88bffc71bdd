\* Three requests at once, three rows, two contents.
CONSTANTS
  r1 = r1  r2 = r2  r3 = r3
  Request = {r1, r2, r3}
  MaxRows = 3
  MaxEdits = 2
  Nothing = Nothing
  Deleted = Deleted
SPECIFICATION Spec
SYMMETRY Symmetry
INVARIANTS TypeOK ProfileInStep
CHECK_DEADLOCK FALSE
