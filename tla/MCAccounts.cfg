\* Two addresses, one of a company of the other service; two registrations, three
\* threads.
CONSTANTS
  a1 = a1  a2 = a2  i1 = i1  i2 = i2  c1 = c1  r1 = r1  r2 = r2  r3 = r3
  Address = {a1, a2}
  Id = {i1, i2}
  Legacy = {c1}
  Request = {r1, r2, r3}
  None = None
SPECIFICATION FairSpec
INVARIANTS TypeOK OneAccountPerAddress Backed NoOrphanProfile
PROPERTIES EveryRequestEnds
CHECK_DEADLOCK FALSE
