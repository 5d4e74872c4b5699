\* Event numbers that start again while a client remembers the old ones.
SPECIFICATION Spec
CONSTANTS
  MaxIncidents = 1
  MaxEvents = 4
  Routes = {"CREATED", "COMMENT_ADDED"}
  c1 = c1
  s1 = s1
  Clients = {c1}
  Slots = {s1}
  MaxQueue = 1
  MaxWire = 1
  MaxRestarts = 1
  MaxNotices = 0
INVARIANT DeltaCatchUp
