\* One process, two requests in flight, a TTL of two ticks.
SPECIFICATION Spec
CONSTANTS
  k1 = k1
  k2 = k2
  p1 = p1
  Instances = {p1}
  Calls = {k1, k2}
  TTL = 2
  MaxTime = 2
SYMMETRY Symmetry
INVARIANTS
  TypeOK
  FreshWithinTTL
  PutSeesWrite
  LaterSeesWrite
