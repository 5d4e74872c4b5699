------------------------------ MODULE Schedule ------------------------------
(***************************************************************************)
(* incident-svc, shifts of one operation: routes/schedule.routes.ts,       *)
(* services/schedule.service.ts, repo/schedule.repo.ts, lib/time.ts.       *)
(*                                                                         *)
(* Times are whole hours.  Notes are left out.  A patch leaves a field out *)
(* as Absent; updateShift spreads it over the row, whose columns are named *)
(* user_upn, starts_at, ends_at, so that only role falls back on the row:  *)
(* without a user the roster has no such member, without a time the times  *)
(* are invalid.  Nothing in src writes the roster.                         *)
(***************************************************************************)
EXTENDS DbClient

CONSTANTS
  Users, Roles,
  Roster,    \* the active rows of cp_roster
  Times,     \* the instants somebody asks for
  Horizon,   \* those within SCHEDULE_HORIZON_DAYS of now
  MaxHours,  \* SHIFT_MAX_HOURS, with ALLOW_OVERSIZE_SHIFTS off
  Absent,
  Inputs,    \* the shifts somebody asks for
  Patches    \* the patches

ASSUME ScheduleAssumption ==
  /\ Times \subseteq Nat /\ Horizon \subseteq Times /\ MaxHours \in Nat
  /\ Absent \notin Times \cup Roles \cup Users /\ Roster \subseteq Users \X Roles

NoShift == [user |-> Absent, role |-> Absent, from |-> 0, to |-> 0]
Shift == [user : Users, role : Roles, from : Times, to : Times]
Patch == [user : Users \cup {Absent}, role : Roles \cup {Absent},
          from : Times \cup {Absent}, to : Times \cup {Absent}]

ASSUME InputAssumption == Inputs \subseteq Shift /\ Patches \subseteq Patch

VARIABLES
  shifts,  \* cp_shifts
  writers  \* history: the requests that wrote each row

scheduleVars == <<shifts, writers>>

ScheduleInit ==
  /\ shifts = [r \in Requests |-> NoShift]
  /\ writers = [r \in Requests |-> {}]

Valid(s) ==
  /\ s.from # Absent /\ s.to # Absent /\ s.from < s.to
  /\ s.from \in Horizon /\ s.to \in Horizon
  /\ s.to - s.from <= MaxHours

\* What a handler carries: the row it is about, the row it checks, the fields it writes.
Work(id, next, patch) == [id |-> id, next |-> next, patch |-> patch]
ShiftNotice(type, id, shift) == [type |-> type, id |-> id, shift |-> shift]

CreateShift(r, s) ==
  /\ IF Valid(s) THEN Begin(r, "createShift", "roster", Work(r, s, s))
     ELSE Refuse(r, "createShift", Nothing, Code(400))
  /\ UNCHANGED scheduleVars

UpdateShift(r, id, p) ==
  /\ Begin(r, "updateShift", "getShift", Work(id, p, p))
  /\ UNCHANGED scheduleVars

\* Seeded fault: the row is checked instead of what it is to become.
GetShiftUnchecked(r) ==
  LET w == req[r].arg  row == shifts[w.id]
      next == [w.patch EXCEPT !.role = IF @ = Absent THEN row.role ELSE @] IN
  /\ Runs(r, "getShift")
  /\ IF row = NoShift THEN Finish(r, Code(404))
     ELSE IF ~Valid(row) THEN Finish(r, Code(400))
     ELSE Continue(r, "roster", [w EXCEPT !.next = next], Nothing)
  /\ UNCHANGED scheduleVars

GetShift(r) ==
  LET w == req[r].arg  row == shifts[w.id]
      next == [w.patch EXCEPT !.role = IF @ = Absent THEN row.role ELSE @] IN
  /\ Runs(r, "getShift")
  /\ IF row = NoShift THEN Finish(r, Code(404))
     ELSE IF ~Valid(next) THEN Finish(r, Code(400))
     ELSE Continue(r, "roster", [w EXCEPT !.next = next], Nothing)
  /\ UNCHANGED scheduleVars

RosterExists(r) ==
  LET next == req[r].arg.next IN
  /\ Runs(r, "roster")
  /\ IF <<next.user, next.role>> \in Roster THEN Continue(r, "overlap", req[r].arg, Nothing)
     ELSE Finish(r, Code(400))
  /\ UNCHANGED scheduleVars

\* Seeded fault: only shifts that begin inside the new one.
ConflictsInside(id, s) ==
  {k \in Requests \ {id} :
    /\ shifts[k] # NoShift
    /\ shifts[k].user = s.user /\ shifts[k].role = s.role
    /\ shifts[k].from < s.to /\ shifts[k].from >= s.from}

Conflicts(id, s) ==
  {k \in Requests \ {id} :
    /\ shifts[k] # NoShift
    /\ shifts[k].user = s.user /\ shifts[k].role = s.role
    /\ shifts[k].from < s.to /\ shifts[k].to > s.from}

FindConflict(r) ==
  LET w == req[r].arg IN
  /\ Runs(r, "overlap")
  /\ IF Conflicts(w.id, w.next) # {} THEN Finish(r, Code(409))
     ELSE Continue(r, "write", w, Nothing)
  /\ UNCHANGED scheduleVars

\* The row a write leaves: INSERT, or UPDATE of the fields that were given.
Written(r) ==
  LET w == req[r].arg IN
  IF req[r].kind = "createShift" THEN w.patch
  ELSE [w.patch EXCEPT !.role = IF @ = Absent THEN shifts[w.id].role ELSE @]

WriteRow(r) ==
  LET id == req[r].arg.id IN
  /\ Runs(r, "write")
  /\ req[r].kind = "createShift" \/ shifts[id] # NoShift
  /\ shifts' = [shifts EXCEPT ![id] = Written(r)]
  /\ writers' = [writers EXCEPT ![id] = @ \cup {r}]

\* Seeded fault: the notice shows the row as it was checked.
WriteShiftAsChecked(r) ==
  /\ WriteRow(r)
  /\ Continue(r, "notify", req[r].arg,
              ShiftNotice("SCHEDULE_SHIFT_WRITTEN", req[r].arg.id, req[r].arg.next))

WriteShift(r) ==
  LET id == req[r].arg.id IN
  /\ WriteRow(r)
  /\ Continue(r, "notify", req[r].arg, ShiftNotice("SCHEDULE_SHIFT_WRITTEN", id, Written(r)))

WriteNothing(r) ==
  /\ Runs(r, "write")
  /\ req[r].kind = "updateShift" /\ shifts[req[r].arg.id] = NoShift
  /\ Finish(r, Code(404))
  /\ UNCHANGED scheduleVars

DeleteShift(r, id) ==
  /\ Begin(r, "deleteShift", "delete", Work(id, NoShift, NoShift))
  /\ UNCHANGED scheduleVars

DeleteRow(r) ==
  /\ Runs(r, "delete")
  /\ shifts' = [shifts EXCEPT ![req[r].arg.id] = NoShift]
  /\ UNCHANGED writers

RemoveShift(r) ==
  /\ DeleteRow(r)
  /\ Continue(r, "notify", req[r].arg, ShiftNotice("SCHEDULE_SHIFT_DELETED", req[r].arg.id, NoShift))

\* The router turns the rejection of any query but NOTIFY into a 500.
QueryFails(r) ==
  /\ \E q \in {"getShift", "roster", "overlap", "write", "delete"} : Runs(r, q)
  /\ Finish(r, Code(500))
  /\ UNCHANGED scheduleVars

\* The ids somebody can name: of shifts there are or were, and (r) one nobody has.
Known(r) == {id \in Requests : writers[id] # {}} \cup {r}

ScheduleNext ==
  \E r \in Requests :
    \/ \E s \in Inputs : CreateShift(r, s)
    \/ \E id \in Known(r), p \in Patches : UpdateShift(r, id, p)
    \/ \E id \in Known(r) : DeleteShift(r, id)
    \/ GetShift(r) \/ RosterExists(r) \/ FindConflict(r)
    \/ WriteShift(r) \/ WriteNothing(r) \/ RemoveShift(r) \/ QueryFails(r)

ScheduleDie == \E r \in Requests : (WriteRow(r) \/ DeleteRow(r)) /\ Die({req[r].arg.id})

----------------------------------------------------------------------------
\* GET /now
ActiveAt(t) == {id \in Requests : shifts[id].from <= t /\ t < shifts[id].to}

SameDuty(i, j) == shifts[i].user = shifts[j].user /\ shifts[i].role = shifts[j].role

Overlap(i, j) == i # j /\ SameDuty(i, j) /\ \E t \in Times : {i, j} \subseteq ActiveAt(t)

\* "overlap detection returns 409 with conflictingShiftId" (test/schedule.test.js):
\* nobody is on duty twice in one role at one time.
NoOverlap == \A i, j \in Requests : ~Overlap(i, j)

\* If somebody is, two of the requests that wrote the two rows were in flight
\* together: one request at a time, the check is enough, for creates and for updates.
OverlapOnlyByRace ==
  \A i, j \in Requests : Overlap(i, j) =>
    \E p, q \in writers[i] \cup writers[j] : p # q /\ {p, q} \in met

\* Whatever patches, deletes and failures came together, a row is a shift of a
\* legal length within the horizon, of a user and a role on the roster.
ShiftsLegal ==
  \A id \in Requests : shifts[id] # NoShift =>
    /\ shifts[id] \in Shift /\ Valid(shifts[id])
    /\ (\A p, q \in writers[id] : {p, q} \in met => p = q)
         => <<shifts[id].user, shifts[id].role>> \in Roster

\* Who applies the notices in order sees the table, once every change was told.
ScheduleViewAgrees ==
  \A id \in Requests : writers[id] # {} /\ Told(id) =>
    NoticesOf(id) # {} /\ Believed(id).shift = shifts[id]
=============================================================================
