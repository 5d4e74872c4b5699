SPECIFICATION SqlSpec
CONSTANTS
  r1 = r1
  r2 = r2
  r3 = r3
  ann = ann
  Ann = Ann
  op = op
  imo = imo
  nobody = nobody
  Absent = Absent
  Nothing = Nothing
  Requests = {r1, r2}
  Workloads = {{"createShift"}}
  MaxDeaths = 0
  MaxStarts = 0
  Statuses = {"open", "done"}
  Limit = 1
  Grain = 2
  Users <- MCUsers
  Roles = {op, imo, nobody}
  Roster <- MCRoster
  Times <- MCTimes
  Horizon <- MCHorizon
  MaxHours = 2
  Inputs <- MCInputs
  Patches <- MCPatches
  People <- MCPeople
  OtherGroup = "OPS"
INVARIANT NoOverlap
CHECK_DEADLOCK FALSE
