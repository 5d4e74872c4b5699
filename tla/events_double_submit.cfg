\* Two submissions of one incident.
SPECIFICATION Spec
CONSTANTS
  r1 = r1
  r2 = r2
  r3 = r3
  r4 = r4
  i1 = i1
  i2 = i2
  Ids = {i1}
  Requests = {r1, r2, r3}
INVARIANT SubmittedOnce
CHECK_DEADLOCK FALSE
SYMMETRY Symmetry
