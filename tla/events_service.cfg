\* Four requests on two incidents.
SPECIFICATION Spec
CONSTANTS
  r1 = r1
  r2 = r2
  r3 = r3
  r4 = r4
  i1 = i1
  i2 = i2
  Ids = {i1, i2}
  Requests = {r1, r2, r3, r4}
INVARIANTS
  Reflects
  MessagesInOrder
  TwiceOnlyByRace
PROPERTY LifecycleImplemented
CHECK_DEADLOCK FALSE
SYMMETRY Symmetry
