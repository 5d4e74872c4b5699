\* One client, three events, a queue of one, one crash of either service.
SPECIFICATION Spec
CONSTANTS
  MaxIncidents = 1
  MaxEvents = 3
  Routes = {"CREATED", "COMMENT_ADDED", "ATTACHMENT_ADDED"}
  c1 = c1
  s1 = s1
  Clients = {c1}
  Slots = {s1}
  MaxQueue = 1
  MaxWire = 1
  MaxRestarts = 1
  MaxNotices = 0
INVARIANTS
  TypeOK
  NoGap
  EventsInOrder
  SnapshotCoversLabel
  QueueDriven
