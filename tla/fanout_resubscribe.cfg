\* Two incidents between which the client switches.
SPECIFICATION Spec
CONSTANTS
  MaxIncidents = 2
  MaxEvents = 3
  Routes = {"CREATED", "STATUS_CHANGED"}
  c1 = c1
  s1 = s1
  Clients = {c1}
  Slots = {s1}
  MaxQueue = 1
  MaxWire = 1
  MaxRestarts = 0
  MaxNotices = 0
INVARIANTS
  NoGap
  SnapshotCoversLabel
