\* Liveness, with playbook notifications that help to overflow the queue.
SPECIFICATION FairSpec
CONSTANTS
  MaxIncidents = 1
  MaxEvents = 2
  Routes = {"CREATED", "STATUS_CHANGED"}
  c1 = c1
  s1 = s1
  Clients = {c1}
  Slots = {s1}
  MaxQueue = 1
  MaxWire = 1
  MaxRestarts = 0
  MaxNotices = 1
PROPERTY EventuallyHeard
