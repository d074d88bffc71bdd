\* Two edits and two retry commands at once, three contents, two of them to a command.
CONSTANTS
  w1 = w1  w2 = w2  m1 = m1  m2 = m2
  Writer = {w1, w2}
  Command = {m1, m2}
  MaxVersion = 3
  Limit = 2
SPECIFICATION Spec
SYMMETRY Symmetry
INVARIANTS TypeOK NothingLost RetriedByOne LegacyInStep
CHECK_DEADLOCK FALSE
