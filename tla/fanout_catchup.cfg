\* Snapshots do not show attachments.
SPECIFICATION Spec
CONSTANTS
  MaxIncidents = 1
  MaxEvents = 3
  Routes = {"CREATED", "ATTACHMENT_ADDED"}
  c1 = c1
  s1 = s1
  Clients = {c1}
  Slots = {s1}
  MaxQueue = 1
  MaxWire = 1
  MaxRestarts = 0
  MaxNotices = 0
INVARIANT CatchUp
