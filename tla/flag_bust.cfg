\* One process, one request that was reading when the switch was changed.
SPECIFICATION Spec
CONSTANTS
  k1 = k1
  k2 = k2
  p1 = p1
  Instances = {p1}
  Calls = {k1, k2}
  TTL = 2
  MaxTime = 1
SYMMETRY Symmetry
INVARIANT AfterBust
