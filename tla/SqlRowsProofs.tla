--------------------------- MODULE SqlRowsProofs ---------------------------
(***************************************************************************)
(* Theorems of SqlRoutes about rows, for any requests, rosters, inputs and *)
(* deaths: what the checks of the schedule guarantee, that the notices     *)
(* show the rows, and that a poll and an activity request leave no row of  *)
(* an incident out.                                                        *)
(***************************************************************************)
EXTENDS SqlRoutesProofs, Integers, FiniteSetTheorems, WellFoundedInduction

Booking == {"getShift", "roster", "overlap", "write", "delete"}

NoticeTypes == {"INCIDENT_CHAT", "INCIDENT_TASK_CREATED", "INCIDENT_TASK_UPDATED",
                "SCHEDULE_SHIFT_WRITTEN", "SCHEDULE_SHIFT_DELETED"}
Notices == [type : NoticeTypes, id : Requests, status : Statuses \cup {"open", "none"}]
           \cup [type : NoticeTypes, id : Requests, shift : Shift \cup {NoShift}]

\* Somebody who was in flight together with r wrote the row.
Rival(r, id) == \E q \in writers[id] : q # r /\ {q, r} \in met

\* What a shift handler carries between its queries, and what its checks still say.
Job(r) ==
  LET w == req[r].arg IN
  /\ req[r].at \in {"getShift", "roster", "overlap", "write"} =>
       /\ req[r].kind \in {"createShift", "updateShift"}
       /\ w = Work(w.id, w.next, w.patch) /\ w.id \in Requests /\ w.patch \in Patch
       /\ req[r].kind = "createShift" => w.id = r /\ w.patch \in Shift /\ req[r].at # "getShift"
  /\ req[r].at \in {"roster", "overlap", "write"} =>
       /\ w.next \in Patch /\ Valid(w.next)
       /\ w.next.user = w.patch.user /\ w.next.from = w.patch.from /\ w.next.to = w.patch.to
       /\ w.patch.role # Absent => w.next.role = w.patch.role
       /\ w.patch.role = Absent => shifts[w.id] = NoShift \/ shifts[w.id].role = w.next.role \/ Rival(r, w.id)
  /\ req[r].at \in {"overlap", "write"} => <<w.next.user, w.next.role>> \in Roster
  /\ req[r].at = "write" => \A j \in Conflicts(w.id, w.next) : Rival(r, j)
  /\ req[r].at = "delete" =>
       /\ req[r].kind = "deleteShift" /\ w.id \in Requests
       /\ w.id = r \/ req[w.id].kind = "createShift"

\* The same of the other handlers that write.
Task(r) ==
  /\ req[r].at = "insertTask" => req[r].kind = "task"
  /\ req[r].at = "insertChat" => req[r].kind = "chat"
  /\ req[r].at = "updateTask" => req[r].arg.id \in Requests /\ req[r].arg.status \in Statuses
  /\ req[r].at = "notify" => req[r].ans \in Notices

Jobs == \A r \in Requests : Job(r) /\ Task(r)

Meeting == \A p, q \in InFlight : p # q => {p, q} \in met

\* A row belongs to one table.
Tables ==
  /\ DOMAIN tasks = Requests
  /\ shifts \in [Requests -> Shift \cup {NoShift}] /\ writers \in [Requests -> SUBSET Requests]
  /\ \A k \in Requests :
       /\ tasks[k] # NoTask => req[k].kind = "task"
       /\ writers[k] # {} => req[k].kind = "createShift"
       /\ shifts[k] # NoShift => writers[k] # {}

Queued ==
  /\ queue \in Seq(Requests)
  /\ \A m, n \in DOMAIN queue : queue[m] = queue[n] => m = n
  /\ \A n \in DOMAIN queue : req[queue[n]].at \notin {"none", "fetch", "done", "lost"}

Pending(id) == {r \in Requests : req[r].at = "notify" /\ req[r].ans.id = id}

LastPending(r, id) ==
  /\ r \in Pending(id)
  /\ \E n \in DOMAIN queue : queue[n] = r /\ \A m \in DOMAIN queue : queue[m] \in Pending(id) => m <= n

Says(notice, id) ==
  /\ tasks[id] # NoTask => notice.status = tasks[id].status
  /\ writers[id] # {} => notice.shift = shifts[id]

\* The last notice of a row, on its way or told, shows the row.
View(id) ==
  (tasks[id] # NoTask \/ writers[id] # {}) /\ id \notin missed =>
    /\ \A r \in Requests : LastPending(r, id) => Says(req[r].ans, id)
    /\ Pending(id) = {} =>
         \E n \in NoticesOf(id) : (\A m \in NoticesOf(id) : m <= n) /\ Says(notices[n], id)

Views == notices \in Seq(Notices) /\ \A id \in Requests : View(id)

\* The induction.  Neither property of the schedule is inductive: each needs to know what
\* a handler that passed its checks may still rely on (Job), and that whoever else got in
\* between was in flight with it (Meeting).
RowsInv == Jobs /\ Meeting /\ Tables /\ Queued /\ ShiftsLegal /\ OverlapOnlyByRace /\ Views

-----------------------------------------------------------------------------
\* How the shared client moves a request on.

Idle == {"none", "fetch", "done", "lost"}

Becomes(r, k, at, arg, ans) ==
  /\ \A q \in Requests : q # r => req'[q] = req[q]
  /\ req'[r].kind = k /\ req'[r].at = at /\ req'[r].arg = arg /\ req'[r].ans = ans

QueueMoves(r) ==
  \/ queue' = Append(queue, r) /\ req[r].at = "none" /\ req'[r].at \notin Idle
  \/ queue # <<>> /\ Head(queue) = r /\ queue' = Append(Tail(queue), r) /\ req'[r].at \notin Idle
  \/ queue # <<>> /\ Head(queue) = r /\ queue' = Tail(queue)
  \/ queue' = queue /\ req[r].at \in Idle

\* Nobody starts to be in flight without meeting those who are.
Meets(r) ==
  /\ met \subseteq met'
  /\ req'[r].at \notin {"none", "done", "lost"} =>
       req[r].at \notin {"none", "done", "lost"} \/ \A q \in InFlight : {r, q} \in met'

LEMMA WholeBecomes ==
  ASSUME Asked, NEW r \in Requests, NEW k, NEW at, NEW arg, NEW ans, Whole(r, k, at, arg, ans)
  PROVE  Becomes(r, k, at, arg, ans)
<1>1. /\ \A q \in Requests : q # r => req'[q] = req[q]
      /\ req'[r] = [kind |-> k, at |-> at, arg |-> arg, ans |-> ans]
  BY SetWhole DEF Whole
<1> QED BY <1>1 DEF Becomes

LEMMA Arrives ==
  ASSUME Asked, NEW r \in Requests, NEW k, NEW first, NEW arg, Begin(r, k, first, arg), first \notin Idle
  PROVE  /\ Becomes(r, k, first, arg, Nothing) /\ req[r].kind = "none" /\ req[r].at = "none"
         /\ QueueMoves(r) /\ Meets(r) /\ UNCHANGED <<notices, missed>>
<1>1. Whole(r, k, first, arg, Nothing) /\ req[r].kind = "none"
  BY DEF Begin, Whole
<1>2. Becomes(r, k, first, arg, Nothing)
  BY <1>1, WholeBecomes
<1>3. req[r].at = "none"
  BY <1>1 DEF Asked
<1>4. queue' = Append(queue, r) /\ met' = met \cup {{r, q} : q \in InFlight} /\ UNCHANGED <<notices, missed>>
  BY DEF Begin
<1> QED BY <1>1, <1>2, <1>3, <1>4 DEF Becomes, QueueMoves, Meets

LEMMA Refused ==
  ASSUME Asked, NEW r \in Requests, NEW k, NEW arg, NEW ans, Refuse(r, k, arg, ans)
  PROVE  /\ Becomes(r, k, "done", arg, ans) /\ req[r].kind = "none" /\ req[r].at = "none"
         /\ QueueMoves(r) /\ Meets(r) /\ UNCHANGED <<notices, missed>>
<1>1. Whole(r, k, "done", arg, ans) /\ req[r].kind = "none"
  BY DEF Refuse, Whole
<1>2. Becomes(r, k, "done", arg, ans)
  BY <1>1, WholeBecomes
<1>3. req[r].at = "none"
  BY <1>1 DEF Asked
<1> QED BY <1>1, <1>2, <1>3 DEF Refuse, Becomes, QueueMoves, Meets, Idle

LEMMA Continues ==
  ASSUME Asked, NEW r \in Requests, NEW q, Runs(r, q), q \notin Idle,
         NEW to, NEW arg, NEW ans, Continue(r, to, arg, ans), to \notin Idle
  PROVE  /\ Becomes(r, req[r].kind, to, arg, ans) /\ req[r].at = q
         /\ queue # <<>> /\ Head(queue) = r /\ queue' = Append(Tail(queue), r)
         /\ QueueMoves(r) /\ Meets(r) /\ UNCHANGED <<notices, missed, met>>
<1>1. Whole(r, req[r].kind, to, arg, ans)
  BY SetThree DEF Continue, Three
<1>2. Becomes(r, req[r].kind, to, arg, ans)
  BY <1>1, WholeBecomes
<1> QED BY <1>2 DEF Continue, Runs, Becomes, QueueMoves, Meets, Idle

LEMMA Ends ==
  ASSUME Asked, NEW r \in Requests, NEW q, Runs(r, q), q \notin Idle, NEW to \in {"fetch", "done"}, NEW ans,
         Leave(r, to, ans) \/ Finish(r, ans)
  PROVE  /\ \E at \in {"fetch", "done"} : \E arg : Becomes(r, req[r].kind, at, arg, ans)
         /\ req[r].at = q
         /\ QueueMoves(r) /\ Meets(r) /\ UNCHANGED <<notices, missed>>
<1>1. CASE Leave(r, to, ans)
  <2>1. Whole(r, req[r].kind, to, req[r].arg, ans)
    BY <1>1, SetTwo DEF Leave, Two
  <2>2. Becomes(r, req[r].kind, to, req[r].arg, ans)
    BY <2>1, WholeBecomes
  <2> QED BY <1>1, <2>2 DEF Leave, Runs, Becomes, QueueMoves, Meets, Idle
<1>2. CASE Finish(r, ans)
  <2>1. Whole(r, req[r].kind, "done", Nothing, ans)
    BY <1>2, SetThree DEF Finish, Three
  <2>2. Becomes(r, req[r].kind, "done", Nothing, ans)
    BY <2>1, WholeBecomes
  <2> QED BY <1>2, <2>2 DEF Finish, Runs, Becomes, QueueMoves, Meets, Idle
<1> QED BY <1>1, <1>2

-----------------------------------------------------------------------------
\* The queue: everybody but r keeps the order of their places.
Shifted(r, d) ==
  /\ \A n \in DOMAIN queue : queue[n] # r => n - d \in DOMAIN queue' /\ queue'[n - d] = queue[n]
  /\ \A n \in DOMAIN queue' : queue'[n] # r => n + d \in DOMAIN queue /\ queue[n + d] = queue'[n]

LEMMA TailShifts ==
  ASSUME NEW s \in Seq(Requests), s # <<>>
  PROVE  /\ Tail(s) \in Seq(Requests) /\ Len(Tail(s)) = Len(s) - 1 /\ Len(s) \in Nat \ {0}
         /\ \A n \in 1..(Len(s) - 1) : Tail(s)[n] = s[n + 1]
         /\ Head(s) = s[1]
OBVIOUS

LEMMA AppendKeeps ==
  ASSUME NEW s \in Seq(Requests), NEW e \in Requests
  PROVE  /\ Append(s, e) \in Seq(Requests) /\ Len(Append(s, e)) = Len(s) + 1 /\ Len(s) \in Nat
         /\ \A n \in 1..Len(s) : Append(s, e)[n] = s[n]
         /\ Append(s, e)[Len(s) + 1] = e
OBVIOUS

LEMMA Longer == ASSUME NEW len \in Nat PROVE 1..len \subseteq 1..(len + 1)
OBVIOUS

LEMMA NotLast ==
  ASSUME NEW len \in Nat, NEW n \in 1..len, n # len PROVE n \in 1..(len - 1) /\ n + 1 \in 1..len
OBVIOUS

LEMMA QueueKeeps ==
  ASSUME Queued, NEW r \in Requests, QueueMoves(r), \A q \in Requests : q # r => req'[q] = req[q]
  PROVE  Queued' /\ \E d \in {0, 1} : Shifted(r, d)
<1>1. /\ queue \in Seq(Requests) /\ DOMAIN queue = 1..Len(queue) /\ Len(queue) \in Nat
      /\ \A m, n \in DOMAIN queue : queue[m] = queue[n] => m = n
      /\ \A n \in DOMAIN queue : queue[n] \in Requests /\ req[queue[n]].at \notin Idle
  BY DEF Queued, Idle
<1>2. CASE queue' = Append(queue, r) /\ req[r].at = "none" /\ req'[r].at \notin Idle
  <2>1. \A n \in DOMAIN queue : queue[n] # r
    BY <1>1, <1>2 DEF Idle
  <2>2. /\ queue' \in Seq(Requests) /\ DOMAIN queue' = 1..(Len(queue) + 1)
        /\ \A n \in 1..Len(queue) : queue'[n] = queue[n]
        /\ queue'[Len(queue) + 1] = r
    BY <1>1, <1>2, AppendKeeps
  <2>3. Shifted(r, 0)
    BY <1>1, <2>1, <2>2 DEF Shifted
  <2>4. \A m, n \in DOMAIN queue' : queue'[m] = queue'[n] => m = n
    BY <1>1, <2>1, <2>2
  <2>5. \A n \in DOMAIN queue' : req'[queue'[n]].at \notin Idle
    BY <1>1, <1>2, <2>1, <2>2
  <2> QED BY <2>2, <2>3, <2>4, <2>5 DEF Queued, Idle
<1>3. ASSUME queue # <<>>, Head(queue) = r
      PROVE  /\ Tail(queue) \in Seq(Requests) /\ DOMAIN Tail(queue) = 1..(Len(queue) - 1)
             /\ \A n \in 1..(Len(queue) - 1) : Tail(queue)[n] = queue[n + 1] /\ queue[n + 1] # r
             /\ queue[1] = r /\ Len(queue) \in Nat \ {0}
  BY <1>1, <1>3, TailShifts
<1>4. CASE queue # <<>> /\ Head(queue) = r /\ queue' = Append(Tail(queue), r) /\ req'[r].at \notin Idle
  <2>1. /\ queue' \in Seq(Requests) /\ DOMAIN queue' = 1..Len(queue)
        /\ \A n \in 1..(Len(queue) - 1) : queue'[n] = queue[n + 1] /\ queue[n + 1] # r
        /\ queue'[Len(queue)] = r
    <3>1. PICK s \in Seq(Requests) : s = Tail(queue)
      BY <1>3, <1>4
    <3>2. PICK k \in Nat : k = Len(queue) /\ k # 0
      BY <1>3, <1>4
    <3>3. DOMAIN s = 1..Len(s) /\ DOMAIN s = 1..(k - 1) /\ Len(s) \in Nat
      BY <1>3, <1>4, <3>1, <3>2
    <3>4. Len(s) = k - 1
      BY <3>2, <3>3
    <3>5. /\ queue' \in Seq(Requests) /\ Len(queue') = Len(s) + 1
          /\ \A n \in 1..Len(s) : queue'[n] = s[n]
          /\ queue'[Len(s) + 1] = r
      BY <1>4, <3>1, AppendKeeps
    <3>6. Len(queue') = k /\ queue'[k] = r /\ \A n \in 1..(k - 1) : queue'[n] = s[n]
      BY <3>2, <3>4, <3>5
    <3>7. \A n \in 1..(k - 1) : s[n] = queue[n + 1] /\ queue[n + 1] # r
      BY <1>3, <1>4, <3>1, <3>2
    <3>8. DOMAIN queue' = 1..k
      BY <3>5, <3>6
    <3> QED BY <3>2, <3>5, <3>6, <3>7, <3>8
  <2>5. \A n \in 1..Len(queue) : n # Len(queue) => n \in 1..(Len(queue) - 1) /\ n + 1 \in DOMAIN queue
    BY <1>1, NotLast
  <2>2. Shifted(r, 1)
    BY <1>1, <1>3, <1>4, <2>1 DEF Shifted
  <2>3. \A m, n \in DOMAIN queue' : queue'[m] = queue'[n] => m = n
    <3> SUFFICES ASSUME NEW m \in 1..Len(queue), NEW n \in 1..Len(queue), queue'[m] = queue'[n] PROVE m = n
      BY <2>1
    <3>1. CASE m = Len(queue) \/ n = Len(queue)
      BY <2>1, <2>5, <3>1
    <3>2. CASE m # Len(queue) /\ n # Len(queue)
      <4>1. queue[m + 1] = queue[n + 1] /\ m + 1 \in DOMAIN queue /\ n + 1 \in DOMAIN queue
        BY <2>1, <2>5, <3>2
      <4>2. m + 1 = n + 1
        BY <1>1, <4>1
      <4> QED BY <4>2
    <3> QED BY <3>1, <3>2
  <2>4. \A n \in DOMAIN queue' : req'[queue'[n]].at \notin Idle
    <3> SUFFICES ASSUME NEW n \in 1..Len(queue) PROVE req'[queue'[n]].at \notin Idle
      BY <2>1
    <3>1. CASE n = Len(queue)
      BY <1>4, <2>1, <3>1
    <3>2. CASE n # Len(queue)
      <4>1. queue'[n] = queue[n + 1] /\ queue[n + 1] # r /\ n + 1 \in DOMAIN queue
        BY <2>1, <2>5, <3>2
      <4> QED BY <1>1, <4>1
    <3> QED BY <3>1, <3>2
  <2> QED BY <2>1, <2>2, <2>3, <2>4 DEF Queued, Idle
<1>5. CASE queue # <<>> /\ Head(queue) = r /\ queue' = Tail(queue)
  <2>1. Shifted(r, 1)
    BY <1>1, <1>3, <1>5 DEF Shifted
  <2>2. \A m, n \in DOMAIN queue' : queue'[m] = queue'[n] => m = n
    BY <1>1, <1>3, <1>5
  <2>3. \A n \in DOMAIN queue' : req'[queue'[n]].at \notin Idle
    BY <1>1, <1>3, <1>5
  <2> QED BY <1>3, <1>5, <2>1, <2>2, <2>3 DEF Queued, Idle
<1>6. CASE queue' = queue /\ req[r].at \in Idle
  <2>1. \A n \in DOMAIN queue : queue[n] # r
    BY <1>1, <1>6
  <2>2. Shifted(r, 0)
    BY <1>1, <1>6 DEF Shifted
  <2> QED BY <1>1, <1>6, <2>1, <2>2 DEF Queued, Idle
<1> QED BY <1>2, <1>4, <1>5, <1>6 DEF QueueMoves

\* Who comes last among the pending of a row still does after r went by.
LEMMA LastStays ==
  ASSUME Queued, Queued', NEW r \in Requests, NEW id \in Requests, NEW d \in {0, 1}, Shifted(r, d),
         \A q \in Requests : q # r => req'[q] = req[q],
         r \notin Pending(id)', r \in Pending(id) => queue # <<>> /\ Head(queue) = r,
         NEW q \in Requests, LastPending(q, id)'
  PROVE  q # r /\ LastPending(q, id) /\ req'[q] = req[q]
<1>1. queue \in Seq(Requests) /\ DOMAIN queue = 1..Len(queue) /\ Len(queue) \in Nat
  BY DEF Queued
<1>2. q # r /\ q \in Pending(id) /\ req'[q] = req[q]
  BY DEF LastPending, Pending
<1>3. PICK n \in DOMAIN queue' : queue'[n] = q /\ \A m \in DOMAIN queue' : queue'[m] \in Pending(id)' => m <= n
  BY DEF LastPending
<1>4. n + d \in DOMAIN queue /\ queue[n + d] = q
  BY <1>2, <1>3 DEF Shifted
<1>5. ASSUME NEW m \in DOMAIN queue, queue[m] \in Pending(id) PROVE m <= n + d
  <2>1. CASE queue[m] = r
    <3>1. queue[1] = r
      BY <1>1, <1>5, <2>1, TailShifts
    <3>2. m = 1
      BY <1>1, <1>5, <2>1, <3>1 DEF Queued
    <3> QED BY <1>1, <1>4, <3>2
  <2>2. CASE queue[m] # r
    <3>1. m - d \in DOMAIN queue' /\ queue'[m - d] = queue[m]
      BY <1>5, <2>2 DEF Shifted
    <3>2. queue[m] \in Pending(id)'
      BY <1>5, <2>2 DEF Pending
    <3>3. m - d <= n
      BY <1>3, <3>1, <3>2
    <3>4. n \in Int /\ m \in Int
      BY <1>1, <1>5 DEF Queued
    <3> QED BY <3>3, <3>4
  <2> QED BY <2>1, <2>2
<1> QED BY <1>2, <1>4, <1>5 DEF LastPending

-----------------------------------------------------------------------------
\* One part of RowsInv at a time, over a step of one request.

OthersSame(r) == \A q \in Requests : q # r => req'[q] = req[q]

KindsKept == \A q \in Requests : req[q].kind \notin {"none", "poll"} => req'[q].kind = req[q].kind

\* What a handler relies on survives what others do, or they meet it.
LEMMA JobsKept ==
  ASSUME Jobs, NEW r \in Requests, OthersSame(r), KindsKept, met \subseteq met',
         \A j \in Requests : writers[j] \subseteq writers'[j],
         \A j \in Requests : \/ shifts'[j] = shifts[j] \/ shifts'[j] = NoShift
                             \/ r \in writers'[j] /\ \A q \in InFlight : q # r => {r, q} \in met',
         Job(r)', Task(r)'
  PROVE  Jobs'
<1> SUFFICES ASSUME NEW q \in Requests, q # r PROVE Job(q)' /\ Task(q)'
  BY DEF Jobs
<1>1. req'[q] = req[q] /\ Job(q) /\ Task(q)
  BY DEF OthersSame, Jobs
<1>2. Task(q)'
  BY <1>1 DEF Task, Notices
<1> DEFINE w == req[q].arg
<1>3. \A j \in Requests : Rival(q, j) => Rival(q, j)'
  BY DEF Rival
<1>4. \A j \in Requests : q \in InFlight =>
        shifts'[j] = shifts[j] \/ shifts'[j] = NoShift \/ Rival(q, j)'
  BY DEF Rival
<1>5. req[q].at \in {"getShift", "roster", "overlap", "write"} =>
        /\ req[q].kind \in {"createShift", "updateShift"}
        /\ w = Work(w.id, w.next, w.patch) /\ w.id \in Requests /\ w.patch \in Patch /\ q \in InFlight
        /\ req[q].kind = "createShift" => w.id = q /\ w.patch \in Shift /\ req[q].at # "getShift"
  BY <1>1 DEF Job, InFlight
<1>6. req[q].at \in {"roster", "overlap", "write"} =>
        /\ w.next \in Patch /\ Valid(w.next)
        /\ w.next.user = w.patch.user /\ w.next.from = w.patch.from /\ w.next.to = w.patch.to
        /\ w.patch.role # Absent => w.next.role = w.patch.role
        /\ w.patch.role = Absent => shifts[w.id] = NoShift \/ shifts[w.id].role = w.next.role \/ Rival(q, w.id)
  BY <1>1 DEF Job
<1>7. req[q].at \in {"overlap", "write"} => <<w.next.user, w.next.role>> \in Roster
  BY <1>1 DEF Job
<1>8. req[q].at = "write" => \A j \in Conflicts(w.id, w.next)' : Rival(q, j)'
  <2> SUFFICES ASSUME req[q].at = "write", NEW j \in Conflicts(w.id, w.next)' PROVE Rival(q, j)'
    OBVIOUS
  <2>1. j \in Requests /\ shifts'[j] # NoShift /\ (shifts'[j] = shifts[j] => j \in Conflicts(w.id, w.next))
    BY <1>1 DEF Conflicts
  <2>2. j \in Conflicts(w.id, w.next) => Rival(q, j)
    BY <1>1 DEF Job
  <2> QED BY <1>3, <1>4, <1>5, <2>1, <2>2
<1>9. req[q].at = "delete" =>
        /\ req[q].kind = "deleteShift" /\ w.id \in Requests
        /\ w.id = q \/ req'[w.id].kind = "createShift"
  BY <1>1 DEF Job, KindsKept
<1>10. ASSUME NEW j \in Requests, j = w.id, req[q].at \in {"roster", "overlap", "write"}, w.patch.role = Absent
       PROVE  shifts'[j] = NoShift \/ shifts'[j].role = w.next.role \/ Rival(q, j)'
  <2>1. q \in InFlight
    BY <1>5, <1>10
  <2>2. shifts[j] = NoShift \/ shifts[j].role = w.next.role \/ Rival(q, j)
    BY <1>6, <1>10
  <2>3. shifts'[j] = shifts[j] \/ shifts'[j] = NoShift \/ Rival(q, j)'
    BY <1>4, <2>1
  <2>4. Rival(q, j) => Rival(q, j)'
    BY <1>3
  <2> HIDE DEF w
  <2> QED BY <2>2, <2>3, <2>4
<1>11. Job(q)'
  BY <1>1, <1>5, <1>6, <1>7, <1>8, <1>9, <1>10 DEF Job, Valid, Rival
<1> QED BY <1>2, <1>11

LEMMA MeetingKept ==
  ASSUME Meeting, NEW r \in Requests, OthersSame(r), Meets(r) PROVE Meeting'
<1> SUFFICES ASSUME NEW p \in InFlight', NEW q \in InFlight', p # q PROVE {p, q} \in met'
  BY DEF Meeting
<1>1. \A x \in InFlight' : x \in Requests /\ (x # r => x \in InFlight)
  BY DEF InFlight, OthersSame
<1>2. CASE r \in InFlight \/ r \notin InFlight'
  <2>1. p \in InFlight /\ q \in InFlight
    BY <1>1, <1>2
  <2> QED BY <2>1 DEF Meeting, Meets
<1>3. CASE r \in InFlight' /\ r \notin InFlight
  <2>1. \A x \in InFlight : {r, x} \in met' /\ {x, r} = {r, x}
    BY <1>3 DEF Meets, InFlight
  <2>2. CASE p = r
    BY <1>1, <2>1, <2>2
  <2>3. CASE q = r
    BY <1>1, <2>1, <2>3
  <2>4. CASE p # r /\ q # r
    BY <1>1, <2>4 DEF Meeting, Meets
  <2> QED BY <2>2, <2>3, <2>4
<1> QED BY <1>2, <1>3

LEMMA TablesKept ==
  ASSUME Tables, UNCHANGED <<tasks, scheduleVars>>, KindsKept PROVE Tables'
BY DEF Tables, scheduleVars, KindsKept

LEMMA RulesKept ==
  ASSUME ShiftsLegal, OverlapOnlyByRace, UNCHANGED scheduleVars, met \subseteq met'
  PROVE  ShiftsLegal' /\ OverlapOnlyByRace'
<1>1. shifts' = shifts /\ writers' = writers
  BY DEF scheduleVars
<1>2. ShiftsLegal'
  BY <1>1 DEF ShiftsLegal, Valid
<1>3. \A i, j \in Requests : Overlap(i, j)' <=> Overlap(i, j)
  BY <1>1 DEF Overlap, SameDuty, ActiveAt
<1>4. OverlapOnlyByRace'
  BY <1>1, <1>3 DEF OverlapOnlyByRace
<1> QED BY <1>2, <1>4

\* A step that neither changes the row nor has to do with its notices.
LEMMA ViewSame ==
  ASSUME Queued, Queued', NEW r \in Requests, OthersSame(r), NEW d \in {0, 1}, Shifted(r, d),
         NEW id \in Requests, View(id), notices \in Seq(Notices),
         tasks'[id] = tasks[id], shifts'[id] = shifts[id], writers'[id] = writers[id],
         tasks[id] # NoTask \/ writers[id] # {} => r \notin Pending(id) /\ r \notin Pending(id)',
         missed \subseteq missed',
         UNCHANGED notices \/ \E x \in Notices : notices' = Append(notices, x) /\ x.id # id
  PROVE  View(id)'
<1> SUFFICES ASSUME tasks[id] # NoTask \/ writers[id] # {}, id \notin missed
             PROVE  /\ \A q \in Requests : LastPending(q, id)' => Says(req[q].ans, id)'
                    /\ Pending(id)' = {} => \E n \in NoticesOf(id)' :
                         (\A m \in NoticesOf(id)' : m <= n) /\ Says(notices[n], id)'
  BY DEF View
<1>1. /\ \A q \in Requests : LastPending(q, id) => Says(req[q].ans, id)
      /\ Pending(id) = {} =>
           \E n \in NoticesOf(id) : (\A m \in NoticesOf(id) : m <= n) /\ Says(notices[n], id)
  BY DEF View
<1>2. \A q \in Requests : LastPending(q, id)' => LastPending(q, id) /\ req'[q] = req[q]
  BY LastStays DEF OthersSame
<1>3. \A q \in Requests : LastPending(q, id)' => Says(req[q].ans, id)'
  BY <1>1, <1>2 DEF Says
<1>4. Pending(id)' = Pending(id)
  BY DEF Pending, OthersSame
<1>5. NoticesOf(id)' = NoticesOf(id) /\ \A n \in NoticesOf(id) : notices'[n] = notices[n]
  <2>1. CASE UNCHANGED notices
    BY <2>1 DEF NoticesOf
  <2>2. ASSUME NEW x \in Notices, notices' = Append(notices, x), x.id # id
        PROVE  NoticesOf(id)' = NoticesOf(id) /\ \A n \in NoticesOf(id) : notices'[n] = notices[n]
    <3>1. /\ DOMAIN notices = 1..Len(notices) /\ Len(notices) \in Nat
          /\ DOMAIN notices' = 1..(Len(notices) + 1)
          /\ \A n \in 1..Len(notices) : notices'[n] = notices[n]
          /\ notices'[Len(notices) + 1] = x
      BY <2>2
    <3>2. \A n \in DOMAIN notices' : n \in DOMAIN notices \/ n = Len(notices) + 1
      BY <3>1
    <3>3. DOMAIN notices \subseteq DOMAIN notices'
      <4>1. PICK k \in Nat : k = Len(notices)
        BY <3>1
      <4> QED BY ONLY <3>1, <4>1, Longer
    <3>4. \A n : n \in NoticesOf(id)' <=> n \in NoticesOf(id)
      BY <2>2, <3>1, <3>2, <3>3 DEF NoticesOf
    <3> QED BY <3>1, <3>4 DEF NoticesOf
  <2> QED BY <2>1, <2>2
<1>6. Pending(id)' = {} => \E n \in NoticesOf(id)' :
        (\A m \in NoticesOf(id)' : m <= n) /\ Says(notices[n], id)'
  <2> SUFFICES ASSUME Pending(id)' = {}
               PROVE  \E n \in NoticesOf(id)' : (\A m \in NoticesOf(id)' : m <= n) /\ Says(notices[n], id)'
    OBVIOUS
  <2>1. PICK n \in NoticesOf(id) : (\A m \in NoticesOf(id) : m <= n) /\ Says(notices[n], id)
    BY <1>1, <1>4
  <2> QED BY <2>1, <1>5 DEF Says
<1> QED BY <1>3, <1>6

\* The row changes and its notice goes to the end of the queue.
LEMMA ViewTold ==
  ASSUME Queued, Queued', NEW r \in Requests, queue # <<>>, queue' = Append(Tail(queue), r),
         NEW id \in Requests, NEW ans, req'[r].at = "notify", req'[r].ans = ans, ans.id = id,
         Says(ans, id)'
  PROVE  View(id)'
<1>1. r \in Pending(id)'
  BY DEF Pending
<1>2. DOMAIN queue' = 1..Len(queue) /\ Len(queue) \in Nat \ {0} /\ queue'[Len(queue)] = r
  <2>1. queue \in Seq(Requests)
    BY DEF Queued
  <2> DEFINE t == Tail(queue)
  <2>2. t \in Seq(Requests) /\ Len(t) = Len(queue) - 1 /\ Len(queue) \in Nat \ {0}
    BY <2>1, TailShifts
  <2>3. queue' = Append(t, r)
    OBVIOUS
  <2> HIDE DEF t
  <2> QED BY <2>2, <2>3, AppendKeeps
<1>3. \A q \in Requests : LastPending(q, id)' => q = r
  <2> SUFFICES ASSUME NEW q \in Requests, LastPending(q, id)' PROVE q = r
    OBVIOUS
  <2>1. PICK n \in DOMAIN queue' : queue'[n] = q /\ \A m \in DOMAIN queue' : queue'[m] \in Pending(id)' => m <= n
    BY DEF LastPending
  <2>2. n = Len(queue)
    BY <1>1, <1>2, <2>1
  <2> QED BY <1>2, <2>1, <2>2
<1>4. \A q \in Requests : LastPending(q, id)' => Says(req[q].ans, id)'
  BY <1>3 DEF Says
<1> QED BY <1>1, <1>4 DEF View

\* A notice is accepted, or lost.
LEMMA ViewNotified ==
  ASSUME Queued, Queued', NEW r \in Requests, NEW arg, NEW ans, Becomes(r, req[r].kind, "done", arg, ans),
         NEW d \in {0, 1}, Shifted(r, d), Notify(r), req[r].ans \in Notices,
         NEW id \in Requests, View(id), notices \in Seq(Notices), UNCHANGED <<tasks, scheduleVars>>
  PROVE  View(id)'
<1> DEFINE x == req[r].ans
<1>1. /\ queue # <<>> /\ Head(queue) = r /\ req[r].at = "notify"
      /\ \/ notices' = Append(notices, x) /\ UNCHANGED missed
         \/ missed' = missed \cup {x.id} /\ UNCHANGED notices
  BY DEF Notify, Runs
<1>2. r \notin Pending(id)' /\ OthersSame(r)
  BY DEF Pending, Becomes, OthersSame
<1>3. shifts' = shifts /\ writers' = writers /\ tasks' = tasks
  BY DEF scheduleVars
<1>4. CASE x.id # id
  <2>1. r \notin Pending(id)
    BY <1>4 DEF Pending
  <2>2. missed \subseteq missed'
    BY <1>1
  <2>3. UNCHANGED notices \/ \E y \in Notices : notices' = Append(notices, y) /\ y.id # id
    BY <1>1, <1>4
  <2> QED BY <1>2, <1>3, <2>1, <2>2, <2>3, ViewSame
<1>5. CASE x.id = id /\ missed' = missed \cup {x.id}
  BY <1>5 DEF View
<1>6. CASE x.id = id /\ notices' = Append(notices, x) /\ UNCHANGED missed
  <2> SUFFICES ASSUME tasks[id] # NoTask \/ writers[id] # {}, id \notin missed
               PROVE  /\ \A q \in Requests : LastPending(q, id)' => Says(req[q].ans, id)'
                      /\ Pending(id)' = {} => \E n \in NoticesOf(id)' :
                           (\A m \in NoticesOf(id)' : m <= n) /\ Says(notices[n], id)'
    BY <1>3, <1>6 DEF View
  <2>1. \A q \in Requests : LastPending(q, id) => Says(req[q].ans, id)
    BY DEF View
  <2>2. \A q \in Requests : LastPending(q, id)' => LastPending(q, id) /\ req'[q] = req[q]
    BY <1>1, <1>2, LastStays DEF OthersSame
  <2>3. \A q \in Requests : LastPending(q, id)' => Says(req[q].ans, id)'
    BY <1>3, <2>1, <2>2 DEF Says
  <2>4. ASSUME Pending(id)' = {} PROVE LastPending(r, id)
    <3>1. queue \in Seq(Requests) /\ DOMAIN queue = 1..Len(queue) /\ Len(queue) \in Nat \ {0} /\ queue[1] = r
      BY <1>1, TailShifts DEF Queued
    <3>2. \A m \in DOMAIN queue : queue[m] \in Pending(id) => m = 1
      <4> SUFFICES ASSUME NEW m \in DOMAIN queue, queue[m] \in Pending(id) PROVE m = 1
        OBVIOUS
      <4>1. queue[m] = r
        BY <1>2, <2>4 DEF Pending, OthersSame
      <4> QED BY <3>1, <4>1 DEF Queued
    <3>3. r \in Pending(id)
      BY <1>1, <1>6 DEF Pending
    <3> QED BY <3>1, <3>2, <3>3 DEF LastPending
  <2>5. /\ DOMAIN notices' = 1..(Len(notices) + 1) /\ Len(notices) \in Nat
        /\ notices'[Len(notices) + 1] = x
    BY <1>6
  <2>6. Pending(id)' = {} => \E n \in NoticesOf(id)' :
          (\A m \in NoticesOf(id)' : m <= n) /\ Says(notices[n], id)'
    <3> SUFFICES ASSUME Pending(id)' = {}
                 PROVE  LET n == Len(notices) + 1 IN
                        /\ n \in NoticesOf(id)' /\ \A m \in NoticesOf(id)' : m <= n
                        /\ notices'[n] = x /\ Says(x, id)
      BY <1>3 DEF Says
    <3>1. Says(x, id)
      BY <2>1, <2>4
    <3> QED BY <1>6, <2>5, <3>1 DEF NoticesOf
  <2> QED BY <2>3, <2>6
<1> QED BY <1>1, <1>4, <1>5, <1>6

-----------------------------------------------------------------------------
\* A step of one request that writes no row and has to do with no notice.
LEMMA MoveKeepsRows ==
  ASSUME RowsInv, NEW r \in Requests, NEW k, NEW at, NEW arg, NEW ans, Becomes(r, k, at, arg, ans),
         req[r].kind \in {"none", "poll"} \/ k = req[r].kind,
         at # "notify", req[r].at # "notify", QueueMoves(r), Meets(r),
         UNCHANGED <<notices, missed, tasks, scheduleVars>>, Job(r)', Task(r)'
  PROVE  RowsInv'
<1>1. OthersSame(r) /\ KindsKept
  BY DEF Becomes, OthersSame, KindsKept
<1>2. shifts' = shifts /\ writers' = writers /\ tasks' = tasks /\ notices' = notices /\ missed' = missed
  BY DEF scheduleVars
<1>3. met \subseteq met'
  BY DEF Meets
<1>4. Jobs'
  BY <1>1, <1>2, <1>3, JobsKept DEF RowsInv
<1>5. Meeting'
  BY <1>1, MeetingKept DEF RowsInv
<1>6. Tables'
  BY <1>1, TablesKept DEF RowsInv
<1>7. Queued' /\ \E d \in {0, 1} : Shifted(r, d)
  BY <1>1, QueueKeeps DEF RowsInv, OthersSame
<1>8. ShiftsLegal' /\ OverlapOnlyByRace'
  BY <1>3, RulesKept DEF RowsInv
<1>9. ASSUME NEW id \in Requests PROVE View(id)'
  <2>1. PICK d \in {0, 1} : Shifted(r, d)
    BY <1>7
  <2>2. r \notin Pending(id) /\ r \notin Pending(id)'
    BY DEF Pending, Becomes
  <2>3. Queued /\ View(id) /\ notices \in Seq(Notices)
    BY DEF RowsInv, Views
  <2> QED BY <1>1, <1>2, <1>7, <2>1, <2>2, <2>3, ViewSame
<1>10. Views'
  BY <1>2, <1>9 DEF RowsInv, Views
<1> QED BY <1>4, <1>5, <1>6, <1>7, <1>8, <1>10 DEF RowsInv

\* r changes the row id and is about to tell it.
LEMMA TellKeepsRows ==
  ASSUME RowsInv, NEW r \in Requests, NEW id \in Requests, NEW arg, NEW ans,
         Becomes(r, req[r].kind, "notify", arg, ans), ans \in Notices, ans.id = id,
         req[r].at \notin Idle, req[r].at # "notify",
         queue # <<>>, Head(queue) = r, queue' = Append(Tail(queue), r),
         UNCHANGED <<notices, missed, met>>,
         \A j \in Requests : j # id => tasks'[j] = tasks[j] /\ shifts'[j] = shifts[j] /\ writers'[j] = writers[j],
         writers[id] \subseteq writers'[id],
         shifts'[id] = shifts[id] \/ shifts'[id] = NoShift \/ r \in writers'[id],
         Tables', ShiftsLegal', OverlapOnlyByRace', Says(ans, id)'
  PROVE  RowsInv'
<1>1. OthersSame(r) /\ KindsKept
  BY DEF Becomes, OthersSame, KindsKept
<1>2. req'[r].at = "notify" /\ req'[r].ans = ans
  BY DEF Becomes
<1>3. QueueMoves(r) /\ Meets(r)
  BY <1>2 DEF QueueMoves, Meets, Idle
<1>4. Job(r)' /\ Task(r)'
  <2>1. Job(r)'
    BY <1>2 DEF Job
  <2>2. Task(r)'
    BY <1>2 DEF Task
  <2> QED BY <2>1, <2>2
<1>5. \A q \in InFlight : q # r => {r, q} \in met'
  <2>1. r \in InFlight
    BY DEF InFlight, Idle
  <2> QED BY <2>1 DEF RowsInv, Meeting
<1>6. Jobs'
  <2>1. /\ \A j \in Requests : writers[j] \subseteq writers'[j]
        /\ \A j \in Requests : \/ shifts'[j] = shifts[j] \/ shifts'[j] = NoShift
                               \/ r \in writers'[j] /\ \A q \in InFlight : q # r => {r, q} \in met'
    BY <1>5
  <2>2. met \subseteq met'
    OBVIOUS
  <2> QED BY <1>1, <1>4, <2>1, <2>2, JobsKept DEF RowsInv
<1>7. Meeting'
  BY <1>1, <1>3, MeetingKept DEF RowsInv
<1>8. Queued' /\ \E d \in {0, 1} : Shifted(r, d)
  BY <1>1, <1>3, QueueKeeps DEF RowsInv, OthersSame
<1>9. View(id)'
  BY <1>2, <1>8, ViewTold DEF RowsInv
<1>10. ASSUME NEW j \in Requests, j # id PROVE View(j)'
  <2>1. PICK d \in {0, 1} : Shifted(r, d)
    BY <1>8
  <2>2. r \notin Pending(j) /\ r \notin Pending(j)'
    BY <1>2, <1>10 DEF Pending
  <2>3. Queued /\ View(j) /\ notices \in Seq(Notices)
    BY DEF RowsInv, Views
  <2>4. missed \subseteq missed'
    OBVIOUS
  <2> QED BY <1>1, <1>8, <1>10, <2>1, <2>2, <2>3, <2>4, ViewSame
<1>11. Views'
  BY <1>9, <1>10 DEF RowsInv, Views
<1> QED BY <1>6, <1>7, <1>8, <1>11 DEF RowsInv

\* The process ends; nothing is on its way any more.
LEMMA DieKeepsRows ==
  ASSUME RowsInv, NEW ids, Die(ids),
         \A j \in Requests : j \notin ids => /\ tasks'[j] = tasks[j] /\ shifts'[j] = shifts[j]
                                             /\ writers'[j] = writers[j],
         Tables', ShiftsLegal', OverlapOnlyByRace'
  PROVE  RowsInv'
<1>1. \A q \in Requests : req'[q].at \in {"none", "done", "lost"}
  <2> SUFFICES ASSUME NEW q \in Requests PROVE req'[q].at \in {"none", "done", "lost"}
    OBVIOUS
  <2>1. CASE q \in InFlight
    <3>1. req'[q] = [req[q] EXCEPT !.at = "lost", !.ans = Nothing]
      BY <2>1 DEF Die
    <3> QED BY <3>1
  <2>2. CASE q \notin InFlight
    <3>1. req'[q] = req[q]
      BY <2>2 DEF Die
    <3> QED BY <2>2, <3>1 DEF InFlight
  <2> QED BY <2>1, <2>2
<1>2. Jobs'
  BY <1>1 DEF Jobs, Job, Task
<1>3. InFlight' = {}
  BY <1>1 DEF InFlight
<1>4. Meeting'
  BY <1>3 DEF Meeting
<1>5. Queued'
  <2>1. queue' = <<>>
    BY DEF Die
  <2> QED BY <2>1 DEF Queued
<1>6. /\ notices' = notices
      /\ missed' = missed \cup ids \cup {req[q].ans.id : q \in {p \in InFlight : req[p].at = "notify"}}
  BY DEF Die
<1>7. ASSUME NEW id \in Requests PROVE View(id)'
  <2>1. CASE id \in missed'
    BY <2>1 DEF View
  <2>2. CASE id \notin missed'
    <3>1. id \notin ids /\ id \notin missed /\ Pending(id) = {}
      BY <1>6, <2>2 DEF Pending, InFlight
    <3>2. \A q \in Requests : ~LastPending(q, id)'
      BY <1>1 DEF LastPending, Pending
    <3>3. tasks'[id] = tasks[id] /\ shifts'[id] = shifts[id] /\ writers'[id] = writers[id]
      BY <3>1
    <3>4. NoticesOf(id)' = NoticesOf(id)
      BY <1>6 DEF NoticesOf
    <3>5. View(id)
      BY DEF RowsInv, Views
    <3> QED BY <1>6, <3>1, <3>2, <3>3, <3>4, <3>5 DEF View, Says
  <2> QED BY <2>1, <2>2
<1>8. Views'
  BY <1>6, <1>7 DEF RowsInv, Views
<1> QED BY <1>2, <1>4, <1>5, <1>8 DEF RowsInv

-----------------------------------------------------------------------------
\* What a write leaves: the row that was checked, or one of a rival's.
LEMMA WrittenIs ==
  ASSUME Jobs, Tables, NEW r \in Requests, WriteRow(r)
  PROVE  LET w == req[r].arg IN
         /\ req[r].kind \in {"createShift", "updateShift"} /\ w.id \in Requests
         /\ req[w.id].kind = "createShift"
         /\ Written(r) \in Shift /\ Valid(Written(r)) /\ Written(r).user = w.next.user
         /\ <<w.next.user, w.next.role>> \in Roster
         /\ Written(r) = w.next \/ Rival(r, w.id)
<1> DEFINE w == req[r].arg
           new == Written(r)
<1>1. req[r].at = "write" /\ (req[r].kind = "createShift" \/ shifts[w.id] # NoShift)
  BY DEF WriteRow, Runs
<1>2. Job(r)
  BY DEF Jobs
<1>3. /\ req[r].kind \in {"createShift", "updateShift"} /\ w.id \in Requests /\ w.patch \in Patch
      /\ req[r].kind = "createShift" => w.id = r /\ w.patch \in Shift
  BY <1>1, <1>2 DEF Job
<1>4. /\ w.next \in Patch /\ Valid(w.next)
      /\ w.next.user = w.patch.user /\ w.next.from = w.patch.from /\ w.next.to = w.patch.to
      /\ w.patch.role # Absent => w.next.role = w.patch.role
      /\ w.patch.role = Absent => shifts[w.id] = NoShift \/ shifts[w.id].role = w.next.role \/ Rival(r, w.id)
  BY <1>1, <1>2 DEF Job
<1>5. <<w.next.user, w.next.role>> \in Roster
  BY <1>1, <1>2 DEF Job
<1>6. req[w.id].kind = "createShift"
  <2>1. shifts[w.id] # NoShift => writers[w.id] # {}
    BY <1>3 DEF Tables
  <2>2. writers[w.id] # {} => req[w.id].kind = "createShift"
    BY <1>3 DEF Tables
  <2> QED BY <1>1, <1>3, <2>1, <2>2
<1>7. shifts[w.id] \in Shift \cup {NoShift}
  BY <1>3 DEF Tables
<1>8. new = IF req[r].kind = "createShift" THEN w.patch
            ELSE [w.patch EXCEPT !.role = IF @ = Absent THEN shifts[w.id].role ELSE @]
  BY DEF Written
<1>9. w.next.user \in Users /\ w.next.role \in Roles
  BY <1>5, ScheduleAssumption
<1>10. w.next.from \in Times /\ w.next.to \in Times
  BY <1>4, ScheduleAssumption DEF Valid
<1> HIDE DEF w, new
<1>11. CASE req[r].kind = "createShift"
  <2>1. new = w.patch /\ w.patch \in Shift
    BY <1>3, <1>8, <1>11
  <2>2. w.patch.role # Absent
    BY <2>1, ScheduleAssumption DEF Shift
  <2>3. w.next = w.patch
    BY <1>4, <2>1, <2>2 DEF Shift, Patch
  <2> QED BY <1>3, <1>4, <1>5, <1>6, <2>1, <2>3 DEF w, new
<1>12. CASE req[r].kind = "updateShift"
  <2> DEFINE role == IF w.patch.role = Absent THEN shifts[w.id].role ELSE w.patch.role
  <2>1. shifts[w.id] # NoShift /\ shifts[w.id] \in Shift
    BY <1>1, <1>7, <1>12 DEF w
  <2>2. role = w.next.role \/ Rival(r, w.id)
    BY <1>4, <2>1
  <2>3. role \in Roles
    BY <1>4, <1>9, <2>1 DEF Shift
  <2>4. new = [w.patch EXCEPT !.role = role]
    BY <1>3, <1>8, <1>12 DEF Patch
  <2> HIDE DEF role
  <2>5. new = [user |-> w.next.user, role |-> role, from |-> w.next.from, to |-> w.next.to]
    BY <1>3, <1>4, <2>4 DEF Patch
  <2>6. new \in Shift /\ new.user = w.next.user
    BY <1>9, <1>10, <2>3, <2>5 DEF Shift
  <2>7. Valid(new)
    BY <1>4, <2>5 DEF Valid
  <2>8. role = w.next.role => new = w.next
    BY <1>4, <2>5 DEF Patch
  <2> QED BY <1>3, <1>5, <1>6, <2>2, <2>6, <2>7, <2>8 DEF w, new
<1> QED BY <1>3, <1>11, <1>12 DEF w

\* After a step: rows that overlap are shifts, of one duty, each before the other's end.
LEMMA OverlapIs ==
  ASSUME Tables', NEW i \in Requests, NEW j \in Requests, Overlap(i, j)'
  PROVE  /\ i # j /\ shifts'[i] \in Shift /\ shifts'[j] \in Shift /\ SameDuty(i, j)'
         /\ shifts'[i].from < shifts'[j].to /\ shifts'[j].from < shifts'[i].to
<1>1. PICK t \in Times : i \in ActiveAt(t)' /\ j \in ActiveAt(t)'
  BY DEF Overlap
<1>2. /\ shifts'[i].from <= t /\ t < shifts'[i].to /\ shifts'[j].from <= t /\ t < shifts'[j].to
  BY <1>1 DEF ActiveAt
<1>3. shifts'[i] \in Shift \cup {NoShift} /\ shifts'[j] \in Shift \cup {NoShift} /\ t \in Nat
  BY ScheduleAssumption DEF Tables
<1>4. NoShift.from = 0 /\ NoShift.to = 0
  BY DEF NoShift
<1>5. shifts'[i] \in Shift /\ shifts'[j] \in Shift
  BY <1>2, <1>3, <1>4
<1>6. /\ shifts'[i].from \in Nat /\ shifts'[i].to \in Nat
      /\ shifts'[j].from \in Nat /\ shifts'[j].to \in Nat
  BY <1>5, ScheduleAssumption DEF Shift
<1>7. i # j /\ SameDuty(i, j)'
  BY DEF Overlap
<1> QED BY <1>2, <1>3, <1>5, <1>6, <1>7

LEMMA SymmetricOverlap == ASSUME NEW i, NEW j, Overlap(i, j)' PROVE Overlap(j, i)'
<1>1. {i, j} = {j, i}
  OBVIOUS
<1> QED BY <1>1 DEF Overlap, SameDuty

\* The rules of the schedule over a write.
LEMMA WriteRowRules ==
  ASSUME Jobs, Tables, ShiftsLegal, OverlapOnlyByRace, NEW r \in Requests, WriteRow(r),
         UNCHANGED <<met, tasks>>, \A q \in Requests : req'[q].kind = req[q].kind
  PROVE  Tables' /\ ShiftsLegal' /\ OverlapOnlyByRace'
<1>a. PICK id \in Requests : id = req[r].arg.id
  BY WrittenIs
<1>b. PICK next, new : next = req[r].arg.next /\ new = Written(r)
  OBVIOUS
<1>0. id = req[r].arg.id /\ next = req[r].arg.next /\ new = Written(r)
  BY <1>a, <1>b
<1>1. /\ req[id].kind = "createShift" /\ new \in Shift /\ Valid(new)
      /\ <<next.user, next.role>> \in Roster
      /\ new = next \/ Rival(r, id)
  BY <1>0, WrittenIs
<1>2. \A j \in Conflicts(id, next) : Rival(r, j)
  <2>1. req[r].at = "write"
    BY DEF WriteRow, Runs
  <2> QED BY <1>0, <2>1 DEF Jobs, Job
<1>3. /\ shifts' = [shifts EXCEPT ![id] = new]
      /\ writers' = [writers EXCEPT ![id] = @ \cup {r}]
  BY <1>0 DEF WriteRow
<1>4. /\ DOMAIN tasks = Requests
      /\ shifts \in [Requests -> Shift \cup {NoShift}] /\ writers \in [Requests -> SUBSET Requests]
  BY DEF Tables
<1>5. /\ shifts'[id] = new /\ writers'[id] = writers[id] \cup {r}
      /\ \A j \in Requests : j # id => shifts'[j] = shifts[j] /\ writers'[j] = writers[j]
      /\ shifts' \in [Requests -> Shift \cup {NoShift}] /\ writers' \in [Requests -> SUBSET Requests]
  BY <1>1, <1>3, <1>4
<1>6. Tables'
  BY <1>1, <1>4, <1>5 DEF Tables
<1>7. ShiftsLegal'
  <2> SUFFICES ASSUME NEW k \in Requests, shifts'[k] # NoShift
               PROVE  /\ shifts'[k] \in Shift /\ Valid(shifts'[k])
                      /\ (\A p, q \in writers'[k] : {p, q} \in met => p = q)
                           => <<shifts'[k].user, shifts'[k].role>> \in Roster
    BY DEF ShiftsLegal, Valid
  <2>1. CASE k # id
    BY <1>5, <2>1 DEF ShiftsLegal
  <2>2. CASE k = id
    <3>1. Rival(r, id) => \E p, q \in writers'[id] : {p, q} \in met /\ p # q
      BY <1>5 DEF Rival
    <3>2. ~Rival(r, id) => new = next
      BY <1>1
    <3> QED BY <1>1, <1>5, <2>2, <3>1, <3>2
  <2> QED BY <2>1, <2>2
<1>8. ASSUME NEW j \in Requests, Overlap(id, j)'
      PROVE  \E p, q \in writers'[id] \cup writers'[j] : p # q /\ {p, q} \in met'
  <2>1. /\ id # j /\ shifts'[j] \in Shift /\ SameDuty(id, j)'
        /\ shifts'[id].from < shifts'[j].to /\ shifts'[j].from < shifts'[id].to
    BY <1>1, <1>6, <1>8, OverlapIs
  <2>2. shifts'[j] = shifts[j] /\ writers'[j] = writers[j]
    BY <1>5, <2>1
  <2>3. CASE Rival(r, id) \/ Rival(r, j)
    BY <1>5, <2>2, <2>3 DEF Rival
  <2>4. CASE ~Rival(r, id)
    <3>1. new = next
      BY <1>1, <2>4
    <3>2. shifts[j] # NoShift
      BY <2>1, <2>2, ScheduleAssumption DEF Shift, NoShift
    <3>3. j \in Conflicts(id, next)
      BY <1>5, <2>1, <2>2, <3>1, <3>2, ScheduleAssumption DEF Conflicts, SameDuty, Shift
    <3>4. Rival(r, j)
      BY <1>2, <3>3
    <3> QED BY <2>3, <3>4
  <2> QED BY <2>3, <2>4
<1>9. OverlapOnlyByRace'
  <2> SUFFICES ASSUME NEW i \in Requests, NEW j \in Requests, Overlap(i, j)'
               PROVE  \E p, q \in writers'[i] \cup writers'[j] : p # q /\ {p, q} \in met'
    BY DEF OverlapOnlyByRace
  <2>1. CASE i = id
    BY <1>8, <2>1
  <2>2. CASE j = id
    <3>1. Overlap(j, i)'
      BY SymmetricOverlap
    <3> QED BY <1>8, <2>2, <3>1
  <2>3. CASE i # id /\ j # id
    <3>1. shifts'[i] = shifts[i] /\ shifts'[j] = shifts[j]
      BY <1>5, <2>3
    <3>2. Overlap(i, j)
      BY <3>1 DEF Overlap, SameDuty, ActiveAt
    <3> QED BY <1>5, <2>3, <3>2 DEF OverlapOnlyByRace
  <2> QED BY <2>1, <2>2, <2>3
<1> QED BY <1>6, <1>7, <1>9

\* The rules over a delete: fewer rows, fewer overlaps.
LEMMA DeleteRowRules ==
  ASSUME Jobs, Tables, ShiftsLegal, OverlapOnlyByRace, NEW r \in Requests, DeleteRow(r),
         UNCHANGED <<met, tasks>>, \A q \in Requests : req'[q].kind = req[q].kind
  PROVE  Tables' /\ ShiftsLegal' /\ OverlapOnlyByRace'
<1>0. PICK id \in Requests : id = req[r].arg.id
  BY DEF DeleteRow, Runs, Jobs, Job
<1>1. /\ shifts \in [Requests -> Shift \cup {NoShift}] /\ writers' = writers
      /\ shifts' = [shifts EXCEPT ![id] = NoShift]
  BY <1>0 DEF DeleteRow, Tables
<1>2. /\ shifts'[id] = NoShift /\ \A j \in Requests : j # id => shifts'[j] = shifts[j]
      /\ shifts' \in [Requests -> Shift \cup {NoShift}]
  BY <1>1
<1>3. Tables'
  BY <1>1, <1>2 DEF Tables
<1>4. ShiftsLegal'
  BY <1>1, <1>2 DEF ShiftsLegal, Valid
<1>5. ASSUME NEW i \in Requests, NEW j \in Requests, Overlap(i, j)' PROVE Overlap(i, j)
  <2>1. shifts'[i] \in Shift /\ shifts'[j] \in Shift /\ NoShift \notin Shift
    BY <1>3, <1>5, OverlapIs, ScheduleAssumption DEF Shift, NoShift
  <2>2. shifts'[i] = shifts[i] /\ shifts'[j] = shifts[j]
    BY <1>2, <2>1
  <2> QED BY <1>5, <2>2 DEF Overlap, SameDuty, ActiveAt
<1>6. OverlapOnlyByRace'
  BY <1>1, <1>5 DEF OverlapOnlyByRace
<1> QED BY <1>3, <1>4, <1>6

\* A task is inserted or patched.
LEMMA TaskTables ==
  ASSUME Tables, NEW id \in Requests, req[id].kind = "task", NEW row, tasks' = [tasks EXCEPT ![id] = row],
         UNCHANGED scheduleVars, \A q \in Requests : req'[q].kind = req[q].kind
  PROVE  Tables' /\ tasks'[id] = row /\ writers'[id] = {}
BY DEF Tables, scheduleVars

-----------------------------------------------------------------------------
\* The steps of a handler.

\* Queries of handlers that neither write a row of these tables nor are about to tell one.
Apart == {"selectChat", "activityChat", "activityWarlog", "activityTasks", "insertDraft", "updateMessage",
          "operation", "myAssign", "myRoles"}

LEMMA NothingClaimed ==
  ASSUME NEW r \in Requests, NEW k, NEW at \in Apart \cup Idle, NEW arg, NEW ans, Becomes(r, k, at, arg, ans)
  PROVE  Job(r)' /\ Task(r)'
<1>1. req'[r].at \in Apart \cup Idle
  BY DEF Becomes
<1>2. Job(r)'
  BY <1>1 DEF Job, Apart, Idle
<1>3. Task(r)'
  BY <1>1 DEF Task, Apart, Idle
<1> QED BY <1>2, <1>3

LEMMA ArrivalKeepsRows ==
  ASSUME Asked, RowsInv, NEW r \in Requests, NEW k, NEW first, NEW arg, Begin(r, k, first, arg),
         first \notin Idle, first # "notify", UNCHANGED <<tasks, scheduleVars>>,
         first \in Apart \/ (Job(r)' /\ Task(r)')
  PROVE  RowsInv'
<1>1. /\ Becomes(r, k, first, arg, Nothing) /\ req[r].kind = "none" /\ req[r].at = "none"
      /\ QueueMoves(r) /\ Meets(r) /\ UNCHANGED <<notices, missed>>
  BY Arrives
<1>2. Job(r)' /\ Task(r)'
  BY <1>1, NothingClaimed
<1> QED BY <1>1, <1>2, MoveKeepsRows

LEMMA RefusalKeepsRows ==
  ASSUME Asked, RowsInv, NEW r \in Requests, NEW k, NEW arg, NEW ans, Refuse(r, k, arg, ans),
         UNCHANGED <<tasks, scheduleVars>>
  PROVE  RowsInv'
<1>1. /\ Becomes(r, k, "done", arg, ans) /\ req[r].kind = "none" /\ req[r].at = "none"
      /\ QueueMoves(r) /\ Meets(r) /\ UNCHANGED <<notices, missed>>
  BY Refused
<1>2. Job(r)' /\ Task(r)'
  BY <1>1, NothingClaimed DEF Idle
<1> QED BY <1>1, <1>2, MoveKeepsRows

LEMMA ContinuingKeepsRows ==
  ASSUME Asked, RowsInv, NEW r \in Requests, NEW q, Runs(r, q), q \notin Idle, q # "notify",
         NEW to, NEW arg, NEW ans, Continue(r, to, arg, ans), to \notin Idle, to # "notify",
         UNCHANGED <<tasks, scheduleVars>>, to \in Apart \/ (Job(r)' /\ Task(r)')
  PROVE  RowsInv'
<1>1. /\ Becomes(r, req[r].kind, to, arg, ans) /\ req[r].at = q
      /\ QueueMoves(r) /\ Meets(r) /\ UNCHANGED <<notices, missed>>
  BY Continues
<1>2. Job(r)' /\ Task(r)'
  BY <1>1, NothingClaimed
<1> QED BY <1>1, <1>2, MoveKeepsRows

LEMMA EndingKeepsRows ==
  ASSUME Asked, RowsInv, NEW r \in Requests, NEW q, Runs(r, q), q \notin Idle, q # "notify",
         NEW to \in {"fetch", "done"}, NEW ans, Leave(r, to, ans) \/ Finish(r, ans),
         UNCHANGED <<tasks, scheduleVars>>
  PROVE  RowsInv'
<1>1. /\ \E at \in {"fetch", "done"} : \E arg : Becomes(r, req[r].kind, at, arg, ans)
      /\ req[r].at = q /\ QueueMoves(r) /\ Meets(r) /\ UNCHANGED <<notices, missed>>
  BY Ends
<1>2. PICK at \in {"fetch", "done"} : \E arg : Becomes(r, req[r].kind, at, arg, ans)
  BY <1>1
<1>3. PICK arg : Becomes(r, req[r].kind, at, arg, ans)
  BY <1>2
<1>4. Job(r)' /\ Task(r)'
  BY <1>3, NothingClaimed DEF Idle
<1> QED BY <1>1, <1>3, <1>4, MoveKeepsRows

LEMMA ReleaseKeepsRows ==
  ASSUME Asked, RowsInv, NEW r \in Requests, Runs(r, "selectChat"), Release(r), UNCHANGED <<tasks, scheduleVars>>
  PROVE  RowsInv'
<1>1. req[r].kind = "poll" /\ req[r].at = "selectChat"
  BY DEF Runs, Asked
<1>2. Whole(r, "none", "none", Nothing, Nothing)
  BY DEF Release, Blank, Whole
<1>3. Becomes(r, "none", "none", Nothing, Nothing)
  BY <1>2, WholeBecomes
<1>4. QueueMoves(r) /\ Meets(r) /\ UNCHANGED <<notices, missed>>
  BY <1>3 DEF Release, Runs, Becomes, QueueMoves, Meets
<1>5. Job(r)' /\ Task(r)'
  BY <1>3, NothingClaimed DEF Idle
<1> QED BY <1>1, <1>3, <1>4, <1>5, MoveKeepsRows

\* The row id is written, and r continues at its NOTIFY.
LEMMA TellingKeepsRows ==
  ASSUME Asked, RowsInv, NEW r \in Requests, NEW q, Runs(r, q), q \notin Idle, q # "notify",
         NEW arg, NEW ans, Continue(r, "notify", arg, ans), NEW id \in Requests, ans \in Notices, ans.id = id,
         \A j \in Requests : j # id => tasks'[j] = tasks[j] /\ shifts'[j] = shifts[j] /\ writers'[j] = writers[j],
         writers[id] \subseteq writers'[id],
         shifts'[id] = shifts[id] \/ shifts'[id] = NoShift \/ r \in writers'[id],
         Tables', ShiftsLegal', OverlapOnlyByRace', Says(ans, id)'
  PROVE  RowsInv'
<1>1. "notify" \notin Idle
  BY DEF Idle
<1>2. /\ Becomes(r, req[r].kind, "notify", arg, ans) /\ req[r].at = q
      /\ queue # <<>> /\ Head(queue) = r /\ queue' = Append(Tail(queue), r)
      /\ UNCHANGED <<notices, missed, met>>
  BY <1>1, Continues
<1> QED BY <1>2, TellKeepsRows

LEMMA ContinueKinds ==
  ASSUME Asked, NEW r \in Requests, NEW q, Runs(r, q), q \notin Idle,
         NEW arg, NEW ans, Continue(r, "notify", arg, ans)
  PROVE  UNCHANGED met /\ \A p \in Requests : req'[p].kind = req[p].kind
<1>1. "notify" \notin Idle
  BY DEF Idle
<1>2. Becomes(r, req[r].kind, "notify", arg, ans) /\ UNCHANGED met
  BY <1>1, Continues
<1> QED BY <1>2 DEF Becomes

LEMMA DeathKinds ==
  ASSUME NEW ids, Die(ids) PROVE UNCHANGED met /\ \A p \in Requests : req'[p].kind = req[p].kind
<1>1. ASSUME NEW p \in Requests PROVE req'[p].kind = req[p].kind
  <2>1. req'[p] = IF p \in InFlight THEN [req[p] EXCEPT !.at = "lost", !.ans = Nothing] ELSE req[p]
    BY DEF Die
  <2> QED BY <2>1
<1> QED BY <1>1 DEF Die

-----------------------------------------------------------------------------
\* The routes of one incident.
LEMMA NoticeIn ==
  ASSUME NEW type \in NoticeTypes, NEW id \in Requests, NEW status \in Statuses \cup {"open", "none"}
  PROVE  Notice(type, id, status) \in Notices /\ Notice(type, id, status).id = id
         /\ Notice(type, id, status).status = status
BY DEF Notice, Notices

LEMMA ShiftNoticeIn ==
  ASSUME NEW type \in NoticeTypes, NEW id \in Requests, NEW shift \in Shift \cup {NoShift}
  PROVE  ShiftNotice(type, id, shift) \in Notices /\ ShiftNotice(type, id, shift).id = id
         /\ ShiftNotice(type, id, shift).shift = shift
BY DEF ShiftNotice, Notices

\* A chat message is no row of these tables.
LEMMA ChatKeepsRows ==
  ASSUME Asked, RowsInv, NEW r \in Requests, InsertChat(r), UNCHANGED scheduleVars PROVE RowsInv'
<1> DEFINE ans == Notice("INCIDENT_CHAT", r, "none")
<1>1. Runs(r, "insertChat") /\ Continue(r, "notify", Nothing, ans) /\ UNCHANGED <<tasks, shifts, writers>>
  BY DEF InsertChat, ChatRow, scheduleVars
<1>2. req[r].kind = "chat"
  BY <1>1 DEF Runs, RowsInv, Jobs, Task
<1>3. tasks[r] = NoTask /\ writers[r] = {}
  BY <1>2 DEF RowsInv, Tables
<1>4. ans \in Notices /\ ans.id = r
  BY NoticeIn DEF NoticeTypes
<1>5. "insertChat" \notin Idle
  BY DEF Idle
<1> HIDE DEF ans
<1>6. UNCHANGED met /\ \A q \in Requests : req'[q].kind = req[q].kind
  BY <1>1, <1>5, ContinueKinds
<1>7. Tables'
  BY <1>1, <1>6 DEF RowsInv, Tables
<1>8. ShiftsLegal' /\ OverlapOnlyByRace'
  BY <1>6, RulesKept DEF RowsInv
<1>9. Says(ans, r)'
  BY <1>1, <1>3 DEF Says
<1> QED BY <1>1, <1>4, <1>5, <1>7, <1>8, <1>9, TellingKeepsRows

\* A task is written, and told with the status it was given.
LEMMA TaskKeepsRows ==
  ASSUME Asked, RowsInv, NEW r \in Requests, NEW q \in {"insertTask", "updateTask"}, Runs(r, q),
         NEW id \in Requests, req[id].kind = "task", NEW status \in Statuses \cup {"open"}, NEW at,
         tasks' = [tasks EXCEPT ![id] = [status |-> status, updated |-> at]], UNCHANGED scheduleVars,
         NEW type \in {"INCIDENT_TASK_CREATED", "INCIDENT_TASK_UPDATED"},
         NEW arg, Continue(r, "notify", arg, Notice(type, id, status))
  PROVE  RowsInv'
<1>1. PICK ans : ans = Notice(type, id, status)
  OBVIOUS
<1>2. ans \in Notices /\ ans.id = id /\ ans.status = status
  BY <1>1, NoticeIn DEF NoticeTypes
<1>3. q \notin Idle /\ q # "notify" /\ Continue(r, "notify", arg, ans)
  BY <1>1 DEF Idle
<1>4. UNCHANGED met /\ \A p \in Requests : req'[p].kind = req[p].kind
  BY <1>3, ContinueKinds
<1>5. PICK row : row = [status |-> status, updated |-> at]
  OBVIOUS
<1>6. tasks' = [tasks EXCEPT ![id] = row] /\ row.status = status
  BY <1>5
<1>7. Tables' /\ tasks'[id] = row /\ writers'[id] = {}
  BY <1>4, <1>6, TaskTables DEF RowsInv
<1>8. ShiftsLegal' /\ OverlapOnlyByRace'
  BY <1>4, RulesKept DEF RowsInv
<1>9. Says(ans, id)'
  BY <1>2, <1>6, <1>7 DEF Says
<1>10. /\ shifts' = shifts /\ writers' = writers
       /\ \A j \in Requests : j # id => tasks'[j] = tasks[j]
  BY <1>6 DEF scheduleVars, RowsInv, Tables
<1> QED BY <1>2, <1>3, <1>7, <1>8, <1>9, <1>10, TellingKeepsRows

LEMMA PatchKeepsRows ==
  ASSUME Asked, RowsInv, NEW r \in Requests, UpdateTask(r), UNCHANGED scheduleVars PROVE RowsInv'
<1>1. Runs(r, "updateTask")
  BY DEF UpdateTask, PatchRow
<1>2. PICK id \in Requests, status \in Statuses : id = req[r].arg.id /\ status = req[r].arg.status
  BY <1>1 DEF Runs, RowsInv, Jobs, Task
<1>3. CASE tasks[id] = NoTask
  <2>1. Finish(r, Code(404)) /\ UNCHANGED <<tasks, scheduleVars>>
    BY <1>2, <1>3 DEF UpdateTask, PatchRow
  <2>2. "updateTask" \notin Idle /\ "updateTask" # "notify" /\ "done" \in {"fetch", "done"}
    BY DEF Idle
  <2> QED BY <1>1, <2>1, <2>2, EndingKeepsRows
<1>4. CASE tasks[id] # NoTask
  <2>1. /\ tasks' = [tasks EXCEPT ![id] = [status |-> status, updated |-> req[r].arg.at]]
        /\ Continue(r, "notify", req[r].arg, Notice("INCIDENT_TASK_UPDATED", id, status))
    BY <1>2, <1>4 DEF UpdateTask, PatchRow
  <2>2. req[id].kind = "task"
    BY <1>4 DEF RowsInv, Tables
  <2> QED BY <1>1, <2>1, <2>2, TaskKeepsRows
<1> QED BY <1>3, <1>4

LEMMA RoutesKeepRows ==
  ASSUME Asked, RowsInv, RoutesNext, UNCHANGED scheduleVars PROVE RowsInv'
<1>1. PICK r \in Requests :
       \/ PostChat(r) \/ InsertChat(r) \/ PollChat(r) \/ SelectChat(r)
       \/ PostTask(r) \/ InsertTask(r) \/ PatchEmpty(r) \/ UpdateTask(r)
       \/ GetActivity(r) \/ ReadChat(r) \/ ReadWarlog(r) \/ ReadTasks(r)
       \/ \E id \in TaskRows \cup {r}, s \in Statuses : PatchTask(r, id, s)
  BY DEF RoutesNext
<1>0. \A q \in {"insertChat", "insertTask", "updateTask"} \cup Apart : q \notin Idle /\ q # "notify"
  BY DEF Apart, Idle
<1>2. CASE PostChat(r)
  <2>1. Begin(r, "chat", "insertChat", Nothing) /\ UNCHANGED tasks
    BY <1>2 DEF PostChat, routeVars
  <2>2. Becomes(r, "chat", "insertChat", Nothing, Nothing)
    BY <1>0, <2>1, Arrives
  <2>3. Job(r)' /\ Task(r)'
    BY <2>2 DEF Becomes, Job, Task
  <2> QED BY <1>0, <2>1, <2>3, ArrivalKeepsRows
<1>3. CASE InsertChat(r)
  BY <1>3, ChatKeepsRows
<1>4. CASE PollChat(r)
  <2>1. PICK arg : Begin(r, "poll", "selectChat", arg)
    BY <1>4 DEF PollChat
  <2>2. "selectChat" \in Apart /\ UNCHANGED tasks
    BY <1>4 DEF PollChat, routeVars, Apart
  <2>3. UNCHANGED <<tasks, scheduleVars>>
    BY <2>2
  <2> QED BY <1>0, <2>1, <2>2, <2>3, ArrivalKeepsRows
<1>5. CASE SelectChat(r)
  BY <1>5, ReleaseKeepsRows DEF SelectChat
<1>6. CASE PostTask(r)
  <2>1. Begin(r, "task", "insertTask", [at |-> now]) /\ UNCHANGED tasks
    BY <1>6 DEF PostTask
  <2>2. Becomes(r, "task", "insertTask", [at |-> now], Nothing)
    BY <1>0, <2>1, Arrives
  <2>3. Job(r)' /\ Task(r)'
    BY <2>2 DEF Becomes, Job, Task
  <2> QED BY <1>0, <2>1, <2>3, ArrivalKeepsRows
<1>7. CASE InsertTask(r)
  <2>1. /\ Runs(r, "insertTask")
        /\ tasks' = [tasks EXCEPT ![r] = [status |-> "open", updated |-> req[r].arg.at]]
        /\ Continue(r, "notify", req[r].arg, Notice("INCIDENT_TASK_CREATED", r, "open"))
    BY <1>7 DEF InsertTask, TaskRow
  <2>2. req[r].kind = "task"
    BY <2>1 DEF Runs, RowsInv, Jobs, Task
  <2> QED BY <2>1, <2>2, TaskKeepsRows
<1>8. CASE PatchEmpty(r)
  BY <1>8, RefusalKeepsRows DEF PatchEmpty, routeVars
<1>9. CASE UpdateTask(r)
  BY <1>9, PatchKeepsRows
<1>10. CASE GetActivity(r)
  <2>1. PICK arg : Begin(r, "activity", "activityChat", arg)
    BY <1>10 DEF GetActivity
  <2>2. "activityChat" \in Apart /\ UNCHANGED tasks
    BY <1>10 DEF GetActivity, routeVars, Apart
  <2>3. UNCHANGED <<tasks, scheduleVars>>
    BY <2>2
  <2> QED BY <1>0, <2>1, <2>2, <2>3, ArrivalKeepsRows
<1>11. CASE ReadChat(r)
  <2>1. PICK arg : Runs(r, "activityChat") /\ Continue(r, "activityWarlog", arg, Nothing)
    BY <1>11 DEF ReadChat
  <2>2. {"activityChat", "activityWarlog"} \subseteq Apart /\ UNCHANGED tasks
    BY <1>11 DEF ReadChat, routeVars, Apart
  <2>3. UNCHANGED <<tasks, scheduleVars>>
    BY <2>2
  <2> QED BY <1>0, <2>1, <2>2, <2>3, ContinuingKeepsRows
<1>12. CASE ReadWarlog(r)
  <2>1. Runs(r, "activityWarlog") /\ Continue(r, "activityTasks", req[r].arg, Nothing)
    BY <1>12 DEF ReadWarlog
  <2>2. {"activityWarlog", "activityTasks"} \subseteq Apart /\ UNCHANGED tasks
    BY <1>12 DEF ReadWarlog, routeVars, Apart
  <2>3. UNCHANGED <<tasks, scheduleVars>>
    BY <2>2
  <2> QED BY <1>0, <2>1, <2>2, <2>3, ContinuingKeepsRows
<1>13. CASE ReadTasks(r)
  <2>1. PICK ans : Runs(r, "activityTasks") /\ Finish(r, ans)
    BY <1>13 DEF ReadTasks
  <2>2. "activityTasks" \in Apart /\ "done" \in {"fetch", "done"} /\ UNCHANGED tasks
    BY <1>13 DEF ReadTasks, routeVars, Apart
  <2>3. UNCHANGED <<tasks, scheduleVars>>
    BY <2>2
  <2> QED BY <1>0, <2>1, <2>2, <2>3, EndingKeepsRows
<1>14. ASSUME NEW id \in TaskRows \cup {r}, NEW s \in Statuses, PatchTask(r, id, s) PROVE RowsInv'
  <2> DEFINE arg == [id |-> id, status |-> s, at |-> now]
  <2>1. Begin(r, "patch", "updateTask", arg) /\ UNCHANGED tasks
    BY <1>14 DEF PatchTask
  <2>2. Becomes(r, "patch", "updateTask", arg, Nothing)
    BY <1>0, <2>1, Arrives
  <2>3. arg.id \in Requests /\ arg.status \in Statuses
    BY DEF TaskRows
  <2> HIDE DEF arg
  <2>4. Job(r)' /\ Task(r)'
    BY <2>2, <2>3 DEF Becomes, Job, Task
  <2> QED BY <1>0, <2>1, <2>4, ArrivalKeepsRows
<1> QED BY <1>1, <1>2, <1>3, <1>4, <1>5, <1>6, <1>7, <1>8, <1>9, <1>10, <1>11, <1>12, <1>13, <1>14

-----------------------------------------------------------------------------
\* The routes of the schedule.
LEMMA CreateKeepsRows ==
  ASSUME Asked, RowsInv, NEW r \in Requests, NEW s \in Inputs, CreateShift(r, s), UNCHANGED tasks PROVE RowsInv'
<1>1. CASE Valid(s)
  <2> DEFINE arg == Work(r, s, s)
  <2>1. Begin(r, "createShift", "roster", arg) /\ UNCHANGED scheduleVars
    BY <1>1 DEF CreateShift
  <2>2. "roster" \notin Idle
    BY DEF Idle
  <2>3. Becomes(r, "createShift", "roster", arg, Nothing)
    BY <2>1, <2>2, Arrives
  <2>4. s \in Shift /\ s \in Patch /\ s.role # Absent
    BY InputAssumption, ScheduleAssumption DEF Shift, Patch
  <2>5. arg.id = r /\ arg.next = s /\ arg.patch = s /\ arg = Work(arg.id, arg.next, arg.patch)
    BY DEF Work
  <2> HIDE DEF arg
  <2>6. Job(r)'
    BY <1>1, <2>3, <2>4, <2>5 DEF Becomes, Job, Valid
  <2>7. Task(r)'
    BY <2>3 DEF Becomes, Task
  <2> QED BY <2>1, <2>2, <2>6, <2>7, ArrivalKeepsRows
<1>2. CASE ~Valid(s)
  <2>1. Refuse(r, "createShift", Nothing, Code(400)) /\ UNCHANGED scheduleVars
    BY <1>2 DEF CreateShift
  <2> QED BY <2>1, RefusalKeepsRows
<1> QED BY <1>1, <1>2

\* Shifts that somebody can name were created.
LEMMA KnownIs ==
  ASSUME Tables, NEW r \in Requests, NEW id \in Known(r)
  PROVE  id \in Requests /\ (id = r \/ req[id].kind = "createShift")
BY DEF Known, Tables

LEMMA ArriveAtShift ==
  ASSUME Asked, RowsInv, NEW r \in Requests, NEW id \in Known(r), UNCHANGED tasks,
         \/ \E p \in Patches : UpdateShift(r, id, p)
         \/ DeleteShift(r, id)
  PROVE  RowsInv'
<1>1. id \in Requests /\ (id = r \/ req[id].kind = "createShift")
  BY KnownIs DEF RowsInv
<1>2. ASSUME NEW p \in Patches, UpdateShift(r, id, p) PROVE RowsInv'
  <2> DEFINE arg == Work(id, p, p)
  <2>1. Begin(r, "updateShift", "getShift", arg) /\ UNCHANGED scheduleVars
    BY <1>2 DEF UpdateShift
  <2>2. "getShift" \notin Idle
    BY DEF Idle
  <2>3. Becomes(r, "updateShift", "getShift", arg, Nothing)
    BY <2>1, <2>2, Arrives
  <2>4. arg.id = id /\ arg.patch = p /\ p \in Patch /\ arg = Work(arg.id, arg.next, arg.patch)
    BY InputAssumption DEF Work
  <2> HIDE DEF arg
  <2>5. Job(r)' /\ Task(r)'
    BY <1>1, <2>3, <2>4 DEF Becomes, Job, Task
  <2> QED BY <2>1, <2>2, <2>5, ArrivalKeepsRows
<1>3. CASE DeleteShift(r, id)
  <2> DEFINE arg == Work(id, NoShift, NoShift)
  <2>1. Begin(r, "deleteShift", "delete", arg) /\ UNCHANGED scheduleVars
    BY <1>3 DEF DeleteShift
  <2>2. "delete" \notin Idle
    BY DEF Idle
  <2>3. Becomes(r, "deleteShift", "delete", arg, Nothing) /\ req[r].kind = "none"
    BY <2>1, <2>2, Arrives
  <2>4. arg.id = id
    BY DEF Work
  <2> HIDE DEF arg
  <2>5. id = r \/ req'[id].kind = "createShift"
    BY <1>1, <2>3 DEF Becomes
  <2>6. Job(r)' /\ Task(r)'
    BY <1>1, <2>3, <2>4, <2>5 DEF Becomes, Job, Task
  <2> QED BY <2>1, <2>2, <2>6, ArrivalKeepsRows
<1> QED BY <1>2, <1>3

LEMMA SetNext ==
  ASSUME NEW id, NEW old, NEW patch, NEW next, NEW w, w = Work(id, old, patch)
  PROVE  [w EXCEPT !.next = next] = Work(id, next, patch)
BY DEF Work

\* The three checks.  What is established holds of the row as it is now; JobsKept says
\* what is left of it later.
LEMMA GetKeepsRows ==
  ASSUME Asked, RowsInv, NEW r \in Requests, GetShift(r), UNCHANGED tasks PROVE RowsInv'
<1>0. "getShift" \notin Idle /\ "roster" \notin Idle /\ "done" \in {"fetch", "done"}
  BY DEF Idle
<1> DEFINE w == req[r].arg
           next == [w.patch EXCEPT !.role = IF @ = Absent THEN shifts[w.id].role ELSE @]
           arg == [w EXCEPT !.next = next]
<1>1. Runs(r, "getShift") /\ UNCHANGED scheduleVars
  BY DEF GetShift
<1>2. CASE \E ans : Finish(r, ans)
  BY <1>0, <1>1, <1>2, EndingKeepsRows
<1>3. CASE shifts[w.id] # NoShift /\ Valid(next) /\ Continue(r, "roster", arg, Nothing)
  <2>1. Becomes(r, req[r].kind, "roster", arg, Nothing)
    BY <1>0, <1>1, <1>3, Continues
  <2>2. Job(r) /\ req[r].at = "getShift"
    BY <1>1 DEF RowsInv, Jobs, Runs
  <2>3. /\ req[r].kind \in {"createShift", "updateShift"} /\ req[r].kind # "createShift"
        /\ w = Work(w.id, w.next, w.patch) /\ w.id \in Requests /\ w.patch \in Patch
    BY <2>2 DEF Job
  <2>4. shifts[w.id] \in Shift
    BY <1>3, <2>3 DEF RowsInv, Tables
  <2>5. /\ next \in Patch /\ next.user = w.patch.user /\ next.from = w.patch.from /\ next.to = w.patch.to
        /\ w.patch.role # Absent => next.role = w.patch.role
        /\ w.patch.role = Absent => next.role = shifts[w.id].role
    BY <2>3, <2>4 DEF Patch, Shift
  <2>6. PICK id \in Requests, patch \in Patch, n \in Patch :
          /\ id = w.id /\ patch = w.patch /\ n = next
          /\ arg = Work(id, n, patch)
    <3>1. PICK old, n : old = w.next /\ n = next
      OBVIOUS
    <3>2. w = Work(w.id, old, w.patch) /\ arg = [w EXCEPT !.next = n]
      BY <2>3, <3>1
    <3> HIDE DEF w, next, arg
    <3>3. arg = Work(w.id, n, w.patch)
      BY <3>2, SetNext
    <3> QED BY <2>3, <2>5, <3>1, <3>3
  <2>7. PICK a : a = arg /\ a.id = id /\ a.next = n /\ a.patch = patch /\ a = Work(a.id, a.next, a.patch)
    BY <2>6 DEF Work
  <2> HIDE DEF w, next, arg
  <2>8. /\ req'[r].kind = "updateShift" /\ req'[r].at = "roster" /\ req'[r].arg = a
    BY <2>1, <2>3, <2>7 DEF Becomes
  <2>9. shifts' = shifts
    BY <1>1 DEF scheduleVars
  <2>10. Job(r)'
    BY <1>3, <2>5, <2>6, <2>7, <2>8, <2>9 DEF Job, Valid
  <2>11. Task(r)'
    BY <2>8 DEF Task
  <2> QED BY <1>0, <1>1, <1>3, <2>10, <2>11, ContinuingKeepsRows
<1> QED BY <1>2, <1>3 DEF GetShift

LEMMA RosterKeepsRows ==
  ASSUME Asked, RowsInv, NEW r \in Requests, RosterExists(r), UNCHANGED tasks PROVE RowsInv'
<1>0. "roster" \notin Idle /\ "overlap" \notin Idle /\ "done" \in {"fetch", "done"}
  BY DEF Idle
<1>1. Runs(r, "roster") /\ UNCHANGED scheduleVars
  BY DEF RosterExists
<1>2. CASE \E ans : Finish(r, ans)
  BY <1>0, <1>1, <1>2, EndingKeepsRows
<1>3. CASE /\ <<req[r].arg.next.user, req[r].arg.next.role>> \in Roster
           /\ Continue(r, "overlap", req[r].arg, Nothing)
  <2>1. Becomes(r, req[r].kind, "overlap", req[r].arg, Nothing) /\ UNCHANGED met
    BY <1>0, <1>1, <1>3, Continues
  <2>2. Job(r) /\ req[r].at = "roster"
    BY <1>1 DEF RowsInv, Jobs, Runs
  <2>3. req'[r].kind = req[r].kind /\ req'[r].at = "overlap" /\ req'[r].arg = req[r].arg
    BY <2>1 DEF Becomes
  <2>4. shifts' = shifts /\ writers' = writers
    BY <1>1 DEF scheduleVars
  <2>5. Job(r)'
    BY <1>3, <2>1, <2>2, <2>3, <2>4 DEF Job, Valid, Rival
  <2>6. Task(r)'
    BY <2>3 DEF Task
  <2> QED BY <1>0, <1>1, <1>3, <2>5, <2>6, ContinuingKeepsRows
<1> QED BY <1>2, <1>3 DEF RosterExists

LEMMA FindKeepsRows ==
  ASSUME Asked, RowsInv, NEW r \in Requests, FindConflict(r), UNCHANGED tasks PROVE RowsInv'
<1>0. "overlap" \notin Idle /\ "write" \notin Idle /\ "done" \in {"fetch", "done"}
  BY DEF Idle
<1>1. Runs(r, "overlap") /\ UNCHANGED scheduleVars
  BY DEF FindConflict
<1>2. CASE \E ans : Finish(r, ans)
  BY <1>0, <1>1, <1>2, EndingKeepsRows
<1>3. CASE Conflicts(req[r].arg.id, req[r].arg.next) = {} /\ Continue(r, "write", req[r].arg, Nothing)
  <2>1. Becomes(r, req[r].kind, "write", req[r].arg, Nothing) /\ UNCHANGED met
    BY <1>0, <1>1, <1>3, Continues
  <2>2. Job(r) /\ req[r].at = "overlap"
    BY <1>1 DEF RowsInv, Jobs, Runs
  <2>3. req'[r].kind = req[r].kind /\ req'[r].at = "write" /\ req'[r].arg = req[r].arg
    BY <2>1 DEF Becomes
  <2>4. shifts' = shifts /\ writers' = writers
    BY <1>1 DEF scheduleVars
  <2>5. Conflicts(req[r].arg.id, req[r].arg.next)' = {}
    BY <1>3, <2>3, <2>4 DEF Conflicts
  <2>6. Job(r)'
    BY <2>1, <2>2, <2>3, <2>4, <2>5 DEF Job, Valid, Rival
  <2>7. Task(r)'
    BY <2>3 DEF Task
  <2> QED BY <1>0, <1>1, <1>3, <2>6, <2>7, ContinuingKeepsRows
<1> QED BY <1>2, <1>3 DEF FindConflict

\* The write and the delete, and what is told of them.
LEMMA WriteKeepsRows ==
  ASSUME Asked, RowsInv, NEW r \in Requests, WriteShift(r), UNCHANGED tasks PROVE RowsInv'
<1>1. PICK id \in Requests, new \in Shift : id = req[r].arg.id /\ new = Written(r) /\ req[id].kind = "createShift"
  BY WrittenIs DEF WriteShift, RowsInv
<1>2. PICK ans : /\ ans = ShiftNotice("SCHEDULE_SHIFT_WRITTEN", id, new)
                 /\ ans \in Notices /\ ans.id = id /\ ans.shift = new
  BY ShiftNoticeIn DEF NoticeTypes
<1>3. WriteRow(r) /\ Runs(r, "write") /\ Continue(r, "notify", req[r].arg, ans)
  BY <1>1, <1>2 DEF WriteShift, WriteRow
<1>4. "write" \notin Idle
  BY DEF Idle
<1>5. UNCHANGED met /\ \A q \in Requests : req'[q].kind = req[q].kind
  BY <1>3, <1>4, ContinueKinds
<1>6. Tables' /\ ShiftsLegal' /\ OverlapOnlyByRace'
  BY <1>3, <1>5, WriteRowRules DEF RowsInv
<1>7. /\ shifts'[id] = new /\ writers'[id] = writers[id] \cup {r}
      /\ \A j \in Requests : j # id => shifts'[j] = shifts[j] /\ writers'[j] = writers[j]
  BY <1>1, <1>3 DEF WriteRow, RowsInv, Tables
<1>8. tasks[id] = NoTask
  BY <1>1 DEF RowsInv, Tables
<1>9. Says(ans, id)'
  BY <1>2, <1>7, <1>8 DEF Says
<1>10. /\ \A j \in Requests : j # id => tasks'[j] = tasks[j] /\ shifts'[j] = shifts[j] /\ writers'[j] = writers[j]
       /\ writers[id] \subseteq writers'[id] /\ r \in writers'[id]
  BY <1>7
<1>11. PICK arg : arg = req[r].arg
  OBVIOUS
<1>12. /\ Runs(r, "write") /\ "write" \notin Idle /\ "write" # "notify" /\ Continue(r, "notify", arg, ans)
       /\ ans \in Notices /\ ans.id = id
  BY <1>2, <1>3, <1>4, <1>11
<1> QED BY ONLY Asked, RowsInv, <1>6, <1>9, <1>10, <1>12, TellingKeepsRows

LEMMA DeleteKeepsRows ==
  ASSUME Asked, RowsInv, NEW r \in Requests, RemoveShift(r), UNCHANGED tasks PROVE RowsInv'
<1>0. DeleteRow(r) /\ Runs(r, "delete") /\ req[r].at = "delete"
  BY DEF RemoveShift, DeleteRow, Runs
<1>1. PICK id \in Requests : id = req[r].arg.id /\ (id = r \/ req[id].kind = "createShift") /\ req[r].kind = "deleteShift"
  <2>1. Job(r)
    BY DEF RowsInv, Jobs
  <2>2. /\ req[r].kind = "deleteShift" /\ req[r].arg.id \in Requests
        /\ req[r].arg.id = r \/ req[req[r].arg.id].kind = "createShift"
    BY <1>0, <2>1 DEF Job
  <2> QED BY <2>2
<1>2. PICK ans : /\ ans = ShiftNotice("SCHEDULE_SHIFT_DELETED", id, NoShift)
                 /\ ans \in Notices /\ ans.id = id /\ ans.shift = NoShift
  BY ShiftNoticeIn DEF NoticeTypes
<1>3. Continue(r, "notify", req[r].arg, ans)
  BY <1>1, <1>2 DEF RemoveShift
<1>4. "delete" \notin Idle
  BY DEF Idle
<1>5. UNCHANGED met /\ \A q \in Requests : req'[q].kind = req[q].kind
  BY <1>0, <1>3, <1>4, ContinueKinds
<1>6. Tables' /\ ShiftsLegal' /\ OverlapOnlyByRace'
  BY <1>0, <1>5, DeleteRowRules DEF RowsInv
<1>7. /\ shifts'[id] = NoShift /\ writers' = writers
      /\ \A j \in Requests : j # id => shifts'[j] = shifts[j]
  BY <1>0, <1>1 DEF DeleteRow, RowsInv, Tables
<1>8. tasks[id] = NoTask
  BY <1>1 DEF RowsInv, Tables
<1>9. Says(ans, id)'
  BY <1>2, <1>7, <1>8 DEF Says
<1>10. /\ \A j \in Requests : j # id => tasks'[j] = tasks[j] /\ shifts'[j] = shifts[j] /\ writers'[j] = writers[j]
       /\ writers[id] \subseteq writers'[id]
  BY <1>7
<1>11. PICK arg : arg = req[r].arg
  OBVIOUS
<1>12. /\ Runs(r, "delete") /\ "delete" \notin Idle /\ "delete" # "notify" /\ Continue(r, "notify", arg, ans)
       /\ ans \in Notices /\ ans.id = id
  BY <1>0, <1>2, <1>3, <1>4, <1>11
<1> QED BY ONLY Asked, RowsInv, <1>6, <1>7, <1>9, <1>10, <1>12, TellingKeepsRows

LEMMA SchedulesKeepRows ==
  ASSUME Asked, RowsInv, ScheduleNext, UNCHANGED tasks PROVE RowsInv'
<1>1. PICK r \in Requests :
    \/ \E s \in Inputs : CreateShift(r, s)
    \/ \E id \in Known(r), p \in Patches : UpdateShift(r, id, p)
    \/ \E id \in Known(r) : DeleteShift(r, id)
    \/ GetShift(r) \/ RosterExists(r) \/ FindConflict(r)
    \/ WriteShift(r) \/ WriteNothing(r) \/ RemoveShift(r) \/ QueryFails(r)
  BY DEF ScheduleNext
<1>2. ASSUME NEW q \in Booking, NEW ans, Runs(r, q), Finish(r, ans), UNCHANGED scheduleVars PROVE RowsInv'
  <2>1. q \notin Idle /\ q # "notify" /\ "done" \in {"fetch", "done"}
    BY <1>2 DEF Booking, Idle
  <2> QED BY <1>2, <2>1, EndingKeepsRows
<1>3. CASE WriteNothing(r)
  BY <1>2, <1>3 DEF WriteNothing, Booking
<1>4. CASE QueryFails(r)
  BY <1>2, <1>4 DEF QueryFails, Booking
<1> QED BY <1>1, <1>3, <1>4, CreateKeepsRows, ArriveAtShift, GetKeepsRows, RosterKeepsRows, FindKeepsRows,
           WriteKeepsRows, DeleteKeepsRows

-----------------------------------------------------------------------------
\* The other routes, the notices, and the end of the process.
LEMMA StillKeepsRows ==
  ASSUME RowsInv, UNCHANGED clientVars, UNCHANGED <<tasks, scheduleVars>> PROVE RowsInv'
<1>1. UNCHANGED <<queue, req, notices, missed, met, tasks, shifts, writers>>
  BY DEF clientVars, scheduleVars
<1>2. Jobs'
  <2> SUFFICES ASSUME NEW r \in Requests PROVE Job(r)' /\ Task(r)'
    BY DEF Jobs
  <2>1. Job(r) /\ Task(r)
    BY DEF RowsInv, Jobs
  <2>2. Job(r)'
    BY <1>1, <2>1 DEF Job, Valid, Conflicts, Rival
  <2>3. Task(r)'
    BY <1>1, <2>1 DEF Task
  <2> QED BY <2>2, <2>3
<1>3. Meeting' /\ Tables' /\ Queued'
  BY <1>1 DEF RowsInv, Meeting, InFlight, Tables, Queued
<1>4. ShiftsLegal' /\ OverlapOnlyByRace'
  BY <1>1, RulesKept DEF RowsInv, scheduleVars
<1>5. Views'
  BY <1>1 DEF RowsInv, Views, View, LastPending, Pending, Says, NoticesOf
<1> QED BY <1>2, <1>3, <1>4, <1>5 DEF RowsInv

LEMMA SettleKeepsRows ==
  ASSUME Asked, RowsInv, NEW r \in Requests, FetchSettles(r), UNCHANGED <<tasks, scheduleVars>> PROVE RowsInv'
<1>1. /\ req[r].at = "fetch" /\ One(r, "done") /\ UNCHANGED <<queue, notices, missed, met>>
  BY DEF FetchSettles, One
<1>2. Whole(r, req[r].kind, "done", req[r].arg, req[r].ans)
  BY <1>1, SetAt
<1>3. Becomes(r, req[r].kind, "done", req[r].arg, req[r].ans)
  BY <1>2, WholeBecomes
<1>4. QueueMoves(r) /\ Meets(r)
  BY <1>1, <1>3 DEF Becomes, QueueMoves, Meets, Idle
<1>5. Job(r)' /\ Task(r)'
  BY <1>3, NothingClaimed DEF Idle
<1> QED BY <1>1, <1>3, <1>4, <1>5, MoveKeepsRows

LEMMA SubmissionsKeepRows ==
  ASSUME Asked, RowsInv, SubmitNext, UNCHANGED <<tasks, scheduleVars>> PROVE RowsInv'
<1> SUFFICES ASSUME ~(ServiceStarts \/ TableReady \/ OpenSearchAnswers \/ ServiceEnds) PROVE RowsInv'
  BY StillKeepsRows DEF ServiceStarts, TableReady, OpenSearchAnswers, ServiceEnds
<1>1. PICK r \in Requests :
        \/ Draft(r) \/ SaveDraft(r) \/ SubmitMessage(r) \/ FetchSettles(r)
        \/ Unreached(r) \/ StoreEntry(r) \/ IndexEntry(r)
        \/ \E m \in {k \in Requests : messages[k] # "none"} \cup {r} : Submit(r, m)
  BY DEF SubmitNext
<1>0. {"insertDraft", "updateMessage"} \subseteq Apart /\ \A q \in Apart : q \notin Idle /\ q # "notify"
  BY DEF Apart, Idle
<1>2. ASSUME NEW q \in Apart, Runs(r, q), NEW to \in {"fetch", "done"}, NEW ans, Leave(r, to, ans) \/ Finish(r, ans)
      PROVE  RowsInv'
  BY <1>0, <1>2, EndingKeepsRows
<1>3. CASE Draft(r)
  <2>1. Begin(r, "draft", "insertDraft", Nothing) /\ "insertDraft" \in Apart
    BY <1>0, <1>3 DEF Draft
  <2> QED BY <1>0, <2>1, ArrivalKeepsRows
<1>4. CASE SaveDraft(r)
  <2>1. Runs(r, "insertDraft") /\ Finish(r, Code(201)) /\ "insertDraft" \in Apart /\ "done" \in {"fetch", "done"}
    BY <1>0, <1>4 DEF SaveDraft, DraftRow
  <2> QED BY <1>2, <2>1
<1>5. CASE SubmitMessage(r)
  <2>1. /\ Runs(r, "updateMessage") /\ "updateMessage" \in Apart
        /\ \E to \in {"fetch", "done"} : \E ans : Leave(r, to, ans) \/ Finish(r, ans)
    BY <1>0, <1>5 DEF SubmitMessage, MessageRow
  <2> QED BY <1>2, <2>1
<1>6. ASSUME NEW m, Submit(r, m) PROVE RowsInv'
  <2>1. Begin(r, "submit", "updateMessage", [msg |-> m]) /\ "updateMessage" \in Apart
    BY <1>0, <1>6 DEF Submit
  <2> QED BY <1>0, <2>1, ArrivalKeepsRows
<1>7. CASE Unreached(r) \/ StoreEntry(r) \/ IndexEntry(r)
  <2>1. UNCHANGED clientVars
    BY <1>7 DEF Unreached, StoreEntry, IndexEntry
  <2> QED BY <2>1, StillKeepsRows
<1> QED BY <1>1, <1>3, <1>4, <1>5, <1>6, <1>7, SettleKeepsRows

LEMMA PermissionsKeepRows ==
  ASSUME Asked, RowsInv, PermissionNext, UNCHANGED <<tasks, scheduleVars>> PROVE RowsInv'
<1>0. {"operation", "myAssign", "myRoles"} \subseteq Apart /\ \A q \in Apart : q \notin Idle /\ q # "notify"
  BY DEF Apart, Idle
<1>1. ASSUME NEW r \in Requests, NEW q \in Apart, Runs(r, q), NEW ans, Leave(r, "done", ans) \/ Finish(r, ans)
      PROVE  RowsInv'
  <2>1. "done" \in {"fetch", "done"}
    OBVIOUS
  <2> QED BY <1>0, <1>1, <2>1, EndingKeepsRows
<1>2. ASSUME NEW r \in Requests, NEW q \in Apart, Runs(r, q), NEW to \in Apart, NEW arg, Continue(r, to, arg, Nothing)
      PROVE  RowsInv'
  BY <1>0, <1>2, ContinuingKeepsRows
<1>3. ASSUME NEW r \in Requests, NEW k, NEW p \in People, Ask(r, k, p) PROVE RowsInv'
  <2>1. PICK arg : Begin(r, k, "operation", arg) /\ "operation" \in Apart
    BY <1>0, <1>3 DEF Ask
  <2> QED BY <1>0, <2>1, ArrivalKeepsRows
<1>4. ASSUME NEW r \in Requests, NEW p \in People,
             \/ GetEffectivePermissions(r, p) \/ GetPermissions(r, p)
             \/ PostAssignment(r, p) \/ DeleteAssignment(r, p) \/ PostRole(r, p)
      PROVE  RowsInv'
  BY <1>3, <1>4 DEF GetEffectivePermissions, GetPermissions, PostAssignment, DeleteAssignment, PostRole
<1>5. ASSUME NEW r \in Requests, FindOperation(r) PROVE RowsInv'
  <2>1. /\ Runs(r, "operation") /\ "operation" \in Apart /\ "myAssign" \in Apart
        /\ Continue(r, "myAssign", req[r].arg, Nothing) \/ \E ans : Finish(r, ans)
    BY <1>0, <1>5 DEF FindOperation
  <2> QED BY <1>1, <1>2, <2>1
<1>6. ASSUME NEW r \in Requests, MyAssignments(r) PROVE RowsInv'
  <2>1. /\ Runs(r, "myAssign") /\ "myAssign" \in Apart /\ "myRoles" \in Apart
        /\ \E arg : Continue(r, "myRoles", arg, Nothing)
    BY <1>0, <1>6 DEF MyAssignments
  <2> QED BY <1>2, <2>1
<1>7. ASSUME NEW r \in Requests, Decide(r) PROVE RowsInv'
  <2>1. /\ Runs(r, "myRoles") /\ "myRoles" \in Apart
        /\ \E ans : Leave(r, "done", ans) \/ Finish(r, ans)
    BY <1>0, <1>7 DEF Decide
  <2> QED BY <1>1, <2>1
<1>8. ASSUME \/ \E p \in People, role \in Ladder : AssignRole(p, role)
             \/ ClearAssignments
      PROVE  RowsInv'
  <2>1. UNCHANGED clientVars
    BY <1>8 DEF AssignRole, ClearAssignments
  <2> QED BY <2>1, StillKeepsRows
<1> QED BY <1>4, <1>5, <1>6, <1>7, <1>8 DEF PermissionNext

LEMMA NotifyKeepsRows ==
  ASSUME Asked, RowsInv, NEW r \in Requests, Notify(r), UNCHANGED <<tasks, scheduleVars>> PROVE RowsInv'
<1>1. /\ Three(r, "done", Nothing, Code(200)) /\ req[r].at = "notify"
      /\ queue # <<>> /\ Head(queue) = r /\ queue' = Tail(queue) /\ UNCHANGED met
      /\ \/ notices' = Append(notices, req[r].ans)
         \/ UNCHANGED notices
  BY DEF Notify, Runs, Three
<1>2. Whole(r, req[r].kind, "done", Nothing, Code(200))
  BY <1>1, SetThree
<1>3. Becomes(r, req[r].kind, "done", Nothing, Code(200))
  BY <1>2, WholeBecomes
<1>4. OthersSame(r) /\ KindsKept /\ QueueMoves(r) /\ Meets(r)
  BY <1>1, <1>3 DEF Becomes, OthersSame, KindsKept, QueueMoves, Meets
<1>5. Job(r)' /\ Task(r)'
  BY <1>3, NothingClaimed DEF Idle
<1>6. shifts' = shifts /\ writers' = writers /\ met \subseteq met'
  BY <1>1 DEF scheduleVars
<1>7. Jobs' /\ Meeting' /\ Tables'
  BY <1>4, <1>5, <1>6, JobsKept, MeetingKept, TablesKept DEF RowsInv
<1>8. Queued' /\ \E d \in {0, 1} : Shifted(r, d)
  BY <1>4, QueueKeeps DEF RowsInv, OthersSame
<1>9. ShiftsLegal' /\ OverlapOnlyByRace'
  BY <1>6, RulesKept DEF RowsInv
<1>10. req[r].ans \in Notices /\ notices \in Seq(Notices)
  BY <1>1 DEF RowsInv, Jobs, Task, Views
<1>11. ASSUME NEW id \in Requests PROVE View(id)'
  <2>1. PICK d \in {0, 1} : Shifted(r, d)
    BY <1>8
  <2>2. Queued /\ View(id)
    BY DEF RowsInv, Views
  <2> QED BY <1>3, <1>8, <1>10, <2>1, <2>2, ViewNotified
<1>12. notices' \in Seq(Notices)
  BY <1>1, <1>10
<1> QED BY <1>7, <1>8, <1>9, <1>11, <1>12 DEF RowsInv, Views

LEMMA RoutesDeathKeepsRows ==
  ASSUME Asked, RowsInv, RoutesDie, UNCHANGED scheduleVars PROVE RowsInv'
<1>1. PICK r \in Requests :
    \/ ChatRow(r) /\ Die({r}) /\ UNCHANGED <<tasks, cursor, seen, cut>>
    \/ TaskRow(r) /\ Die({r}) /\ UNCHANGED <<now, chat, cursor, seen, cut>>
    \/ PatchRow(r) /\ Die({req[r].arg.id}) /\ UNCHANGED <<now, chat, cursor, seen, cut>>
  BY DEF RoutesDie
<1>2. shifts' = shifts /\ writers' = writers /\ DOMAIN tasks = Requests
  BY DEF scheduleVars, RowsInv, Tables
<1>3. ASSUME NEW id \in Requests, Die({id}),
             UNCHANGED tasks \/ (req[id].kind = "task" /\ \E row : tasks' = [tasks EXCEPT ![id] = row])
      PROVE  RowsInv'
  <2>1. UNCHANGED met /\ \A q \in Requests : req'[q].kind = req[q].kind
    BY <1>3, DeathKinds
  <2>2. Tables' /\ \A j \in Requests : j # id => tasks'[j] = tasks[j]
    <3>1. CASE UNCHANGED tasks
      BY <2>1, <3>1 DEF RowsInv, Tables, scheduleVars
    <3>2. ASSUME req[id].kind = "task", NEW row, tasks' = [tasks EXCEPT ![id] = row]
          PROVE  Tables' /\ \A j \in Requests : j # id => tasks'[j] = tasks[j]
      BY <1>2, <2>1, <3>2, TaskTables DEF RowsInv
    <3> QED BY <1>3, <3>1, <3>2
  <2>3. ShiftsLegal' /\ OverlapOnlyByRace'
    BY <2>1, RulesKept DEF RowsInv
  <2> QED BY <1>2, <1>3, <2>2, <2>3, DieKeepsRows
<1>4. CASE ChatRow(r) /\ Die({r}) /\ UNCHANGED tasks
  BY <1>3, <1>4
<1>5. CASE TaskRow(r) /\ Die({r})
  <2>1. req[r].kind = "task"
    BY <1>5 DEF TaskRow, Runs, RowsInv, Jobs, Task
  <2> QED BY <1>3, <1>5, <2>1 DEF TaskRow
<1>6. CASE PatchRow(r) /\ Die({req[r].arg.id})
  <2>1. PICK id \in Requests : id = req[r].arg.id
    BY <1>6 DEF PatchRow, Runs, RowsInv, Jobs, Task
  <2>2. tasks[id] # NoTask => req[id].kind = "task"
    BY DEF RowsInv, Tables
  <2>3. UNCHANGED tasks \/ (req[id].kind = "task" /\ \E row : tasks' = [tasks EXCEPT ![id] = row])
    BY <1>6, <2>1, <2>2 DEF PatchRow
  <2> QED BY <1>3, <1>6, <2>1, <2>3
<1> QED BY <1>1, <1>4, <1>5, <1>6

LEMMA ScheduleDeathKeepsRows ==
  ASSUME Asked, RowsInv, ScheduleDie, UNCHANGED tasks PROVE RowsInv'
<1>1. PICK r \in Requests : (WriteRow(r) \/ DeleteRow(r)) /\ Die({req[r].arg.id})
  BY DEF ScheduleDie
<1>2. UNCHANGED met /\ \A q \in Requests : req'[q].kind = req[q].kind
  BY <1>1, DeathKinds
<1>3. Tables' /\ ShiftsLegal' /\ OverlapOnlyByRace'
  BY <1>1, <1>2, WriteRowRules, DeleteRowRules DEF RowsInv
<1>4. PICK id \in Requests : id = req[r].arg.id
  <2>1. CASE WriteRow(r)
    BY <2>1, WrittenIs DEF RowsInv
  <2>2. CASE DeleteRow(r)
    BY <2>2 DEF DeleteRow, Runs, RowsInv, Jobs, Job
  <2> QED BY <1>1, <2>1, <2>2
<1>5. \A j \in Requests : j # id => shifts'[j] = shifts[j] /\ writers'[j] = writers[j]
  BY <1>1, <1>4 DEF WriteRow, DeleteRow, RowsInv, Tables
<1> QED BY <1>1, <1>3, <1>4, <1>5, DieKeepsRows

-----------------------------------------------------------------------------
LEMMA RowsAtStart == SqlInit => RowsInv
<1> SUFFICES ASSUME SqlInit PROVE RowsInv
  OBVIOUS
<1>1. /\ \A r \in Requests : req[r].at = "none"
      /\ queue = <<>> /\ notices = <<>> /\ met = {}
      /\ tasks = [r \in Requests |-> NoTask]
      /\ shifts = [r \in Requests |-> NoShift] /\ writers = [r \in Requests |-> {}]
  BY DEF SqlInit, ClientInit, RoutesInit, ScheduleInit, Blank
<1>2. Jobs
  BY <1>1 DEF Jobs, Job, Task
<1>3. Meeting
  BY <1>1 DEF Meeting, InFlight
<1>4. Tables /\ Queued /\ ShiftsLegal
  BY <1>1 DEF Tables, Queued, ShiftsLegal
<1>5. OverlapOnlyByRace
  <2>1. NoShift.from = 0 /\ NoShift.to = 0
    BY DEF NoShift
  <2>2. \A i, j \in Requests : ~Overlap(i, j)
    BY <1>1, <2>1, ScheduleAssumption DEF Overlap, ActiveAt
  <2> QED BY <2>2 DEF OverlapOnlyByRace
<1>6. Views
  BY <1>1 DEF Views, View
<1> QED BY <1>2, <1>3, <1>4, <1>5, <1>6 DEF RowsInv

LEMMA RowsInductive == SqlSpec => []RowsInv
<1>1. ASSUME WarlogInv, RowsInv, [SqlNext]_<<clientVars, routeVars, submitVars, scheduleVars, permissionVars>>
      PROVE  RowsInv'
  <2>0. Asked /\ (UNCHANGED routeVars => UNCHANGED tasks)
    BY <1>1 DEF WarlogInv, routeVars
  <2>1. CASE RoutesNext /\ UNCHANGED <<submitVars, scheduleVars, permissionVars>>
    BY <1>1, <2>0, <2>1, RoutesKeepRows
  <2>2. CASE SubmitNext /\ UNCHANGED <<routeVars, scheduleVars, permissionVars>>
    BY <1>1, <2>0, <2>2, SubmissionsKeepRows
  <2>3. CASE ScheduleNext /\ UNCHANGED <<routeVars, submitVars, permissionVars>>
    BY <1>1, <2>0, <2>3, SchedulesKeepRows
  <2>4. CASE PermissionNext /\ UNCHANGED <<routeVars, submitVars, scheduleVars>>
    BY <1>1, <2>0, <2>4, PermissionsKeepRows
  <2>5. CASE (\E r \in Requests : Notify(r)) /\ UNCHANGED <<routeVars, submitVars, scheduleVars, permissionVars>>
    BY <1>1, <2>0, <2>5, NotifyKeepsRows
  <2>6. ASSUME Die({}), UNCHANGED tasks, UNCHANGED scheduleVars PROVE RowsInv'
    <3>1. UNCHANGED met /\ \A q \in Requests : req'[q].kind = req[q].kind
      BY <2>6, DeathKinds
    <3>2. Tables'
      BY <1>1, <2>6, <3>1 DEF RowsInv, Tables, scheduleVars
    <3>3. ShiftsLegal' /\ OverlapOnlyByRace'
      BY <1>1, <2>6, <3>1, RulesKept DEF RowsInv
    <3>4. tasks' = tasks /\ shifts' = shifts /\ writers' = writers
      BY <2>6 DEF scheduleVars
    <3> QED BY <1>1, <2>6, <3>2, <3>3, <3>4, DieKeepsRows
  <2>7. CASE RoutesDie /\ UNCHANGED <<submitVars, scheduleVars, permissionVars>>
    BY <1>1, <2>0, <2>7, RoutesDeathKeepsRows
  <2>8. CASE SubmitDie /\ UNCHANGED <<routeVars, scheduleVars, permissionVars>>
    BY <2>0, <2>6, <2>8 DEF SubmitDie
  <2>9. CASE ScheduleDie /\ UNCHANGED <<routeVars, submitVars, permissionVars>>
    BY <1>1, <2>0, <2>9, ScheduleDeathKeepsRows
  <2>10. CASE UNCHANGED <<clientVars, routeVars, submitVars, scheduleVars, permissionVars>>
    BY <1>1, <2>0, <2>10, StillKeepsRows
  <2> QED BY <1>1, <2>0, <2>1, <2>2, <2>3, <2>4, <2>5, <2>6, <2>7, <2>8, <2>9, <2>10 DEF SqlNext
<1> QED BY <1>1, RowsAtStart, WarlogInductive, PTL DEF SqlSpec

\* "overlap detection returns 409" (services/schedule.service.ts) is enough as long as
\* no two requests are in flight together: whenever one person holds one role twice at
\* one time, two writers of the two rows met.  For any roster, horizon and requests.
THEOREM OverlapCorrect == SqlSpec => []OverlapOnlyByRace
<1>1. RowsInv => OverlapOnlyByRace
  BY DEF RowsInv
<1> QED BY <1>1, RowsInductive, PTL

\* The rules of one shift (lib/time.ts, the roster) hold of every row in every
\* interleaving; that of the roster unless two writers of the row met.
THEOREM LegalCorrect == SqlSpec => []ShiftsLegal
<1>1. RowsInv => ShiftsLegal
  BY DEF RowsInv
<1> QED BY <1>1, RowsInductive, PTL

\* Of a row of which everything was told, the last notice shows the row.
LEMMA ToldIsShown ==
  ASSUME RowsInv, NEW id \in Requests, tasks[id] # NoTask \/ writers[id] # {}, Told(id)
  PROVE  NoticesOf(id) # {} /\ Says(Believed(id), id)
<1>1. id \notin missed /\ Pending(id) = {}
  BY DEF Told, Pending, InFlight
<1>2. View(id) /\ notices \in Seq(Notices)
  BY DEF RowsInv, Views
<1>3. PICK n \in NoticesOf(id) : (\A m \in NoticesOf(id) : m <= n) /\ Says(notices[n], id)
  BY <1>1, <1>2 DEF View
<1>4. \A m \in NoticesOf(id) : m \in Nat
  BY <1>2 DEF NoticesOf
<1>5. ASSUME NEW k \in NoticesOf(id), \A m \in NoticesOf(id) : m <= k PROVE k = n
  <2>1. k <= n /\ n <= k
    BY <1>3, <1>5
  <2> QED BY <1>4, <2>1
<1>6. (CHOOSE k \in NoticesOf(id) : \A m \in NoticesOf(id) : m <= k) = n
  BY <1>3, <1>5
<1> QED BY <1>3, <1>6 DEF Believed

\* Who follows the schedule's notices (routes/schedule.routes.ts) sees the table, however
\* the writes of its rows and their NOTIFYs interleave.
THEOREM ScheduleViewCorrect == SqlSpec => []ScheduleViewAgrees
<1>1. RowsInv => ScheduleViewAgrees
  BY ToldIsShown DEF ScheduleViewAgrees, Says
<1> QED BY <1>1, RowsInductive, PTL

\* The same of the tasks of an incident and their notices (routes/incidents/tasks.ts).
THEOREM TaskViewCorrect == SqlSpec => []TaskViewAgrees
<1>1. RowsInv => TaskViewAgrees
  <2> SUFFICES ASSUME RowsInv, NEW k \in TaskRows, Told(k)
               PROVE  NoticesOf(k) # {} /\ Believed(k).status = tasks[k].status
    BY DEF TaskViewAgrees
  <2>1. k \in Requests /\ tasks[k] # NoTask
    BY DEF TaskRows
  <2> QED BY <2>1, ToldIsShown DEF Says
<1> QED BY <1>1, RowsInductive, PTL
-----------------------------------------------------------------------------
(***************************************************************************)
(* Polls and activity.  The clock gives every row a stamp of its own time; *)
(* stamps only grow; and what a reader carries between its queries is old. *)
(***************************************************************************)

\* The queries that a stamp waits to be written with, and those of an activity request.
Dated == {"insertTask", "updateTask"}
Reading == {"activityChat", "activityWarlog", "activityTasks"}
Carrying == {"selectChat"} \cup Dated \cup Reading

Clock ==
  /\ now \in Nat \ {0}
  /\ chat \in [Requests -> 0..(now - 1)]
  /\ cursor \in 0..(now - 1)
  /\ \A k \in TaskRows : tasks[k].updated \in 1..(now - 1) /\ tasks[k].status \in Statuses \cup {"open"}

\* What was asked for is in the rows still, with the same stamps or later ones.
Covered(a) ==
  /\ a = [asked |-> a.asked, chat |-> a.chat]
  /\ DOMAIN a.asked \subseteq {"chat", "task"} \X Requests
  /\ a.chat \in [Requests -> Nat]
  /\ \A m \in Requests :
       /\ a.chat[m] <= chat[m]
       /\ <<"chat", m>> \in DOMAIN a.asked => a.asked[<<"chat", m>>] \in 1..a.chat[m]
       /\ <<"task", m>> \in DOMAIN a.asked =>
            tasks[m] # NoTask /\ a.asked[<<"task", m>>] \in 1..tasks[m].updated

Answered(ans) ==
  \A x \in DOMAIN ans.asked :
    \/ x \in DOMAIN ans.items
    \/ Cardinality(DOMAIN ans.items) >= Limit /\ \A y \in DOMAIN ans.items : ans.items[y] >= Millis(ans.asked[x])

Carries(r) ==
  /\ req[r].at \in Queries \cup Idle
  /\ req[r].at = "selectChat" => req[r].arg.since \in 0..cursor
  /\ req[r].at \in Dated =>
       req[r].arg.at \in 1..(now - 1) /\ \A k \in TaskRows : tasks[k].updated < req[r].arg.at
  /\ req[r].at \in Reading => req[r].kind = "activity" /\ Covered(req[r].arg)
  /\ req[r].kind = "activity" => req[r].at \in Reading \cup {"done", "lost"}
  /\ req[r].kind = "activity" /\ req[r].at = "done" => Answered(req[r].ans)

Waiting == \A r \in Requests : req[r].at \notin Idle => \E n \in DOMAIN queue : queue[n] = r

\* Stamps wait in the order they were taken.
InTurn ==
  \A m, n \in DOMAIN queue :
    m < n /\ req[queue[m]].at \in Dated /\ req[queue[n]].at \in Dated
      => req[queue[m]].arg.at < req[queue[n]].arg.at

\* The induction.  A poll is complete because its request carries a cursor the client had
\* when everything up to it was seen; an answer to an activity request, because a stamp
\* that is about to be written is later than all that are, so that no stamp goes back.
FeedInv == Clock /\ (\A r \in Requests : Carries(r)) /\ Waiting /\ InTurn /\ PollComplete

\* A request that goes to the queue goes to its end, and a stamp is taken on arrival.
Appended(r) ==
  /\ req'[r].at \notin Idle => queue' = Append(queue, r) \/ (queue # <<>> /\ queue' = Append(Tail(queue), r))
  /\ req'[r].at \in Dated => queue' = Append(queue, r) /\ req'[r].arg.at = now

\* Stamps grow ...
Grows ==
  /\ now <= now' /\ cursor <= cursor'
  /\ \A m \in Requests :
       /\ chat[m] <= chat'[m]
       /\ tasks[m] # NoTask => tasks'[m] # NoTask /\ tasks[m].updated <= tasks'[m].updated

\* ... but not beyond one that waits.
Undisturbed(q) == req[q].at \in Dated => \A k \in TaskRows' : tasks'[k].updated < req[q].arg.at

LEMMA CarriesOn ==
  ASSUME Clock, Clock', NEW q \in Requests, Carries(q), req'[q] = req[q], Grows, Undisturbed(q)
  PROVE  Carries(q)'
<1>1. req[q].at = "selectChat" => req[q].arg.since \in 0..cursor'
  BY DEF Carries, Clock, Grows
<1>2. req[q].at \in Dated =>
        req[q].arg.at \in 1..(now' - 1) /\ \A k \in TaskRows' : tasks'[k].updated < req[q].arg.at
  BY DEF Carries, Clock, Grows, Undisturbed
<1>3. ASSUME NEW a, Covered(a) PROVE Covered(a)'
  <2> SUFFICES ASSUME NEW m \in Requests
               PROVE  /\ a.chat[m] <= chat'[m]
                      /\ <<"task", m>> \in DOMAIN a.asked =>
                           tasks'[m] # NoTask /\ a.asked[<<"task", m>>] \in 1..tasks'[m].updated
    BY <1>3 DEF Covered
  <2>1. a.chat[m] <= chat'[m]
    <3>1. a.chat[m] \in Nat /\ a.chat[m] <= chat[m]
      BY <1>3 DEF Covered
    <3>2. chat[m] <= chat'[m] /\ chat[m] \in Int /\ chat'[m] \in Int
      BY DEF Grows, Clock
    <3> QED BY <3>1, <3>2
  <2>2. ASSUME <<"task", m>> \in DOMAIN a.asked
        PROVE  tasks'[m] # NoTask /\ a.asked[<<"task", m>>] \in 1..tasks'[m].updated
    <3>1. tasks[m] # NoTask /\ a.asked[<<"task", m>>] \in 1..tasks[m].updated
      BY <1>3, <2>2 DEF Covered
    <3>2. tasks'[m] # NoTask /\ tasks[m].updated <= tasks'[m].updated
      BY <3>1 DEF Grows
    <3>3. tasks[m].updated \in Int /\ tasks'[m].updated \in Int
      BY <3>1, <3>2 DEF Clock, TaskRows
    <3> QED BY <3>1, <3>2, <3>3
  <2> QED BY <2>1, <2>2
<1>4. req[q].at \in Reading => req[q].kind = "activity" /\ Covered(req[q].arg)'
  <2>1. PICK a : a = req[q].arg
    OBVIOUS
  <2>2. req[q].at \in Reading => req[q].kind = "activity" /\ Covered(a)
    BY <2>1 DEF Carries
  <2>3. req[q].at \in Reading => Covered(a)'
    BY <1>3, <2>2
  <2> QED BY <2>1, <2>2, <2>3 DEF Covered
<1> QED BY <1>1, <1>2, <1>4 DEF Carries, Answered, Covered

\* The queue: who waits stays in it, in turn.
LEMMA QueueFeed ==
  ASSUME Queued, Queued', Waiting, InTurn, Clock, \A q \in Requests : Carries(q),
         NEW r \in Requests, OthersSame(r), Appended(r), NEW d \in {0, 1}, Shifted(r, d)
  PROVE  Waiting' /\ InTurn'
<1>1. /\ queue \in Seq(Requests) /\ DOMAIN queue = 1..Len(queue) /\ Len(queue) \in Nat
      /\ queue' \in Seq(Requests) /\ DOMAIN queue' = 1..Len(queue') /\ Len(queue') \in Nat
      /\ \A m, n \in DOMAIN queue' : queue'[m] = queue'[n] => m = n
  <2>1. queue \in Seq(Requests) /\ queue' \in Seq(Requests)
    BY DEF Queued
  <2>2. \A m, n \in DOMAIN queue' : queue'[m] = queue'[n] => m = n
    BY DEF Queued
  <2> QED BY ONLY <2>1, <2>2
<1>2. req'[r].at \notin Idle => Len(queue') \in DOMAIN queue' /\ queue'[Len(queue')] = r
  <2>1. ASSUME NEW s \in Seq(Requests), queue' = Append(s, r)
        PROVE  Len(queue') \in DOMAIN queue' /\ queue'[Len(queue')] = r
    BY <1>1, <2>1, AppendKeeps
  <2>2. queue # <<>> => Tail(queue) \in Seq(Requests)
    BY <1>1, TailShifts
  <2> QED BY <1>1, <2>1, <2>2 DEF Appended
<1>3. Waiting'
  <2> SUFFICES ASSUME NEW q \in Requests, q # r, req'[q].at \notin Idle
               PROVE  \E n \in DOMAIN queue' : queue'[n] = q
    BY <1>2 DEF Waiting
  <2>1. PICK n \in DOMAIN queue : queue[n] = q
    BY DEF Waiting, OthersSame
  <2> QED BY <2>1 DEF Shifted
<1>4. InTurn'
  <2> SUFFICES ASSUME NEW m \in DOMAIN queue', NEW n \in DOMAIN queue', m < n,
                      req'[queue'[m]].at \in Dated, req'[queue'[n]].at \in Dated
               PROVE  req'[queue'[m]].arg.at < req'[queue'[n]].arg.at
    BY DEF InTurn
  <2>1. queue'[m] # r
    <3> SUFFICES ASSUME queue'[m] = r PROVE FALSE
      OBVIOUS
    <3>1. m = Len(queue')
      BY <1>1, <1>2 DEF Dated, Idle
    <3> QED BY <1>1, <3>1
  <2>2. m + d \in DOMAIN queue /\ queue[m + d] = queue'[m] /\ req'[queue'[m]] = req[queue'[m]]
    BY <1>1, <2>1 DEF Shifted, OthersSame
  <2>3. CASE queue'[n] = r
    <3>1. req'[r].arg.at = now
      BY <2>3 DEF Appended
    <3>2. queue'[m] \in Requests
      BY <1>1
    <3>3. req[queue'[m]].arg.at \in 1..(now - 1)
      BY <2>2, <3>2 DEF Carries
    <3> QED BY <2>2, <2>3, <3>1, <3>3 DEF Clock
  <2>4. CASE queue'[n] # r
    <3>1. n + d \in DOMAIN queue /\ queue[n + d] = queue'[n] /\ req'[queue'[n]] = req[queue'[n]]
      BY <1>1, <2>4 DEF Shifted, OthersSame
    <3>2. m + d < n + d
      BY <1>1
    <3> QED BY <2>2, <3>1, <3>2 DEF InTurn
  <2> QED BY <2>3, <2>4
<1> QED BY <1>3, <1>4

\* One request steps.
LEMMA StepKeepsFeed ==
  ASSUME RowsInv, FeedInv, NEW r \in Requests, OthersSame(r), QueueMoves(r), Appended(r),
         Grows, \A q \in Requests : q # r => Undisturbed(q), Clock', Carries(r)', PollComplete'
  PROVE  FeedInv'
<1>1. \A q \in Requests : q # r => req'[q] = req[q]
  BY DEF OthersSame
<1>2. Queued /\ Queued' /\ \E d \in {0, 1} : Shifted(r, d)
  BY <1>1, QueueKeeps DEF RowsInv
<1>3. Waiting' /\ InTurn'
  <2>1. PICK d \in {0, 1} : Shifted(r, d)
    BY <1>2
  <2> QED BY <1>2, <2>1, QueueFeed DEF FeedInv
<1>4. ASSUME NEW q \in Requests, q # r PROVE Carries(q)'
  BY <1>1, <1>4, CarriesOn DEF FeedInv
<1> QED BY <1>3, <1>4 DEF FeedInv

\* The rows stay as they are.
LEMMA RowsStill ==
  ASSUME FeedInv, UNCHANGED routeVars
  PROVE  Grows /\ (\A q \in Requests : Undisturbed(q)) /\ Clock' /\ PollComplete'
<1>1. now' = now /\ chat' = chat /\ tasks' = tasks /\ cursor' = cursor /\ seen' = seen /\ cut' = cut
  BY DEF routeVars
<1>2. Clock /\ Clock'
  BY <1>1 DEF FeedInv, Clock, TaskRows
<1>3. \A m \in Requests : tasks[m] # NoTask => tasks[m].updated \in Int
  BY <1>2 DEF Clock, TaskRows
<1>4. Grows
  BY <1>1, <1>2, <1>3 DEF Grows, Clock
<1>5. ASSUME NEW q \in Requests PROVE Undisturbed(q)
  BY <1>1 DEF FeedInv, Carries, Undisturbed, TaskRows
<1>6. PollComplete'
  BY <1>1 DEF FeedInv, PollComplete, ChatRows
<1> QED BY <1>2, <1>4, <1>5, <1>6

\* A step of a request that neither carries nor comes to carry anything of the rows.
Elsewhere(r) ==
  /\ OthersSame(r) /\ QueueMoves(r) /\ Appended(r)
  /\ req'[r].at \in (Queries \cup Idle) \ Carrying
  /\ req'[r].kind # "activity"

LEMMA ElsewhereKeepsFeed ==
  ASSUME RowsInv, FeedInv, NEW r \in Requests, Elsewhere(r), UNCHANGED routeVars PROVE FeedInv'
<1>1. Carries(r)'
  BY DEF Elsewhere, Carries, Carrying
<1> QED BY <1>1, RowsStill, StepKeepsFeed DEF Elsewhere

\* Such steps: a request arrives, ...
LEMMA ArrivesElsewhere ==
  ASSUME Asked, NEW r \in Requests, NEW k, NEW first \in Queries \ Carrying, NEW arg, Begin(r, k, first, arg),
         k # "activity"
  PROVE  Elsewhere(r)
<1>1. first \notin Idle
  BY DEF Queries, Idle
<1>2. Becomes(r, k, first, arg, Nothing) /\ QueueMoves(r)
  BY <1>1, Arrives
<1>3. queue' = Append(queue, r)
  BY DEF Begin
<1> QED BY <1>2, <1>3 DEF Becomes, OthersSame, Appended, Elsewhere, Carrying

\* ... is refused, ...
LEMMA RefusedElsewhere ==
  ASSUME Asked, NEW r \in Requests, NEW k, NEW arg, NEW ans, Refuse(r, k, arg, ans), k # "activity"
  PROVE  Elsewhere(r)
<1>1. Becomes(r, k, "done", arg, ans) /\ QueueMoves(r)
  BY Refused
<1>2. "done" \in Idle /\ "done" \notin Carrying
  BY DEF Idle, Carrying, Dated, Reading
<1> QED BY <1>1, <1>2 DEF Becomes, OthersSame, Appended, Elsewhere, Carrying

\* ... goes on from a query that is not of an activity request ...
LEMMA KindElsewhere ==
  ASSUME FeedInv, NEW r \in Requests, NEW q \in Queries \ Reading, Runs(r, q) PROVE req[r].kind # "activity"
<1>1. req[r].at = q /\ (req[r].kind = "activity" => req[r].at \in Reading \cup {"done", "lost"})
  BY DEF Runs, FeedInv, Carries
<1>2. q \notin {"done", "lost"}
  BY DEF Queries
<1> QED BY <1>1, <1>2

LEMMA ContinuesElsewhere ==
  ASSUME Asked, FeedInv, NEW r \in Requests, NEW q \in Queries \ Reading, Runs(r, q),
         NEW to \in Queries \ Carrying, NEW arg, NEW ans, Continue(r, to, arg, ans)
  PROVE  Elsewhere(r)
<1>1. q \notin Idle /\ to \notin Idle
  BY DEF Queries, Idle
<1>2. Becomes(r, req[r].kind, to, arg, ans) /\ QueueMoves(r) /\ queue # <<>> /\ queue' = Append(Tail(queue), r)
  BY <1>1, Continues
<1>3. req[r].kind # "activity"
  BY KindElsewhere
<1> QED BY <1>2, <1>3 DEF Becomes, OthersSame, Appended, Elsewhere, Carrying

\* ... or ends.
LEMMA EndsElsewhere ==
  ASSUME Asked, FeedInv, NEW r \in Requests, NEW q \in Queries \ Reading, Runs(r, q),
         NEW to \in {"fetch", "done"}, NEW ans, Leave(r, to, ans) \/ Finish(r, ans)
  PROVE  Elsewhere(r)
<1>1. q \notin Idle
  BY DEF Queries, Idle
<1>2. (\E at \in {"fetch", "done"} : \E arg : Becomes(r, req[r].kind, at, arg, ans)) /\ QueueMoves(r)
  BY <1>1, Ends
<1>3. PICK at \in {"fetch", "done"} : \E arg : Becomes(r, req[r].kind, at, arg, ans)
  BY <1>2
<1>4. at \in Idle /\ at \notin Carrying
  BY DEF Idle, Carrying, Dated, Reading
<1>5. req[r].kind # "activity"
  BY KindElsewhere
<1> QED BY <1>2, <1>3, <1>4, <1>5 DEF Becomes, OthersSame, Appended, Elsewhere, Carrying

-----------------------------------------------------------------------------
\* What the other routes do.
LEMMA StillKeepsFeed ==
  ASSUME FeedInv, UNCHANGED <<clientVars, routeVars>> PROVE FeedInv'
<1>1. queue' = queue /\ req' = req
  BY DEF clientVars
<1>2. Grows /\ (\A q \in Requests : Undisturbed(q)) /\ Clock' /\ PollComplete'
  BY RowsStill
<1>3. ASSUME NEW q \in Requests PROVE Carries(q)'
  BY <1>1, <1>2, CarriesOn DEF FeedInv
<1>4. Waiting' /\ InTurn'
  BY <1>1 DEF FeedInv, Waiting, InTurn
<1> QED BY <1>2, <1>3, <1>4 DEF FeedInv

LEMMA SubmissionsElsewhere ==
  ASSUME Asked, FeedInv, SubmitNext PROVE UNCHANGED clientVars \/ \E r \in Requests : Elsewhere(r)
<1> SUFFICES ASSUME ~(ServiceStarts \/ TableReady \/ OpenSearchAnswers \/ ServiceEnds)
             PROVE  UNCHANGED clientVars \/ \E r \in Requests : Elsewhere(r)
  BY DEF ServiceStarts, TableReady, OpenSearchAnswers, ServiceEnds
<1>1. PICK r \in Requests :
        \/ Draft(r) \/ SaveDraft(r) \/ SubmitMessage(r) \/ FetchSettles(r)
        \/ Unreached(r) \/ StoreEntry(r) \/ IndexEntry(r)
        \/ \E m \in {k \in Requests : messages[k] # "none"} \cup {r} : Submit(r, m)
  BY DEF SubmitNext
<1>2. /\ {"insertDraft", "updateMessage"} \subseteq Queries \ Carrying
      /\ {"insertDraft", "updateMessage"} \subseteq Queries \ Reading
  BY DEF Queries, Carrying, Dated, Reading
<1>3. CASE Draft(r)
  <2>1. Begin(r, "draft", "insertDraft", Nothing)
    BY <1>3 DEF Draft
  <2> QED BY <1>2, <2>1, ArrivesElsewhere
<1>4. CASE SaveDraft(r)
  <2>1. Runs(r, "insertDraft") /\ Finish(r, Code(201)) /\ "done" \in {"fetch", "done"}
    BY <1>4 DEF SaveDraft, DraftRow
  <2> QED BY <1>2, <2>1, EndsElsewhere
<1>5. CASE SubmitMessage(r)
  <2>1. /\ Runs(r, "updateMessage")
        /\ \E to \in {"fetch", "done"} : \E ans : Leave(r, to, ans) \/ Finish(r, ans)
    BY <1>5 DEF SubmitMessage, MessageRow
  <2> QED BY <1>2, <2>1, EndsElsewhere
<1>6. ASSUME NEW m, Submit(r, m) PROVE Elsewhere(r)
  <2>1. Begin(r, "submit", "updateMessage", [msg |-> m])
    BY <1>6 DEF Submit
  <2> QED BY <1>2, <2>1, ArrivesElsewhere
<1>7. CASE FetchSettles(r)
  <2>1. req[r].at = "fetch" /\ One(r, "done") /\ UNCHANGED queue
    BY <1>7 DEF FetchSettles, One
  <2>2. Whole(r, req[r].kind, "done", req[r].arg, req[r].ans)
    BY <2>1, SetAt
  <2>3. Becomes(r, req[r].kind, "done", req[r].arg, req[r].ans)
    BY <2>2, WholeBecomes
  <2>4. req[r].kind # "activity"
    BY <2>1 DEF FeedInv, Carries, Reading
  <2>5. "fetch" \in Idle /\ "done" \in Idle /\ "done" \notin Carrying
    BY DEF Idle, Carrying, Dated, Reading
  <2> QED BY <2>1, <2>3, <2>4, <2>5 DEF Becomes, OthersSame, QueueMoves, Appended, Elsewhere, Carrying
<1>8. CASE Unreached(r) \/ StoreEntry(r) \/ IndexEntry(r)
  BY <1>8 DEF Unreached, StoreEntry, IndexEntry
<1> QED BY <1>1, <1>3, <1>4, <1>5, <1>6, <1>7, <1>8

LEMMA ScheduleElsewhere ==
  ASSUME Asked, FeedInv, ScheduleNext PROVE \E r \in Requests : Elsewhere(r)
<1>1. PICK r \in Requests :
        \/ \E s \in Inputs : CreateShift(r, s)
        \/ \E id \in Known(r), p \in Patches : UpdateShift(r, id, p)
        \/ \E id \in Known(r) : DeleteShift(r, id)
        \/ GetShift(r) \/ RosterExists(r) \/ FindConflict(r)
        \/ WriteShift(r) \/ WriteNothing(r) \/ RemoveShift(r) \/ QueryFails(r)
  BY DEF ScheduleNext
<1>2. Booking \cup {"notify"} \subseteq Queries \ Carrying /\ Booking \subseteq Queries \ Reading
  BY DEF Booking, Queries, Carrying, Dated, Reading
<1>3. ASSUME NEW q \in Booking, Runs(r, q), NEW ans, Finish(r, ans) PROVE Elsewhere(r)
  <2>1. q \in Queries \ Reading /\ "done" \in {"fetch", "done"}
    BY <1>2
  <2> QED BY <1>3, <2>1, EndsElsewhere
<1>4. ASSUME NEW q \in Booking, Runs(r, q), NEW to \in Booking \cup {"notify"}, NEW arg, NEW ans,
             Continue(r, to, arg, ans)
      PROVE  Elsewhere(r)
  <2>1. q \in Queries \ Reading /\ to \in Queries \ Carrying
    BY <1>2
  <2> QED BY <1>4, <2>1, ContinuesElsewhere
<1>5. ASSUME NEW k, k # "activity", NEW first \in Booking, NEW arg, Begin(r, k, first, arg) PROVE Elsewhere(r)
  <2>1. first \in Queries \ Carrying
    BY <1>2
  <2> QED BY <1>5, <2>1, ArrivesElsewhere
<1>6. ASSUME NEW s, CreateShift(r, s) PROVE Elsewhere(r)
  <2>1. CASE Begin(r, "createShift", "roster", Work(r, s, s))
    BY <1>5, <2>1 DEF Booking
  <2>2. CASE Refuse(r, "createShift", Nothing, Code(400))
    BY <2>2, RefusedElsewhere
  <2> QED BY <1>6, <2>1, <2>2 DEF CreateShift
<1>7. ASSUME NEW id, NEW p, UpdateShift(r, id, p) PROVE Elsewhere(r)
  BY <1>5, <1>7 DEF UpdateShift, Booking
<1>8. ASSUME NEW id, DeleteShift(r, id) PROVE Elsewhere(r)
  BY <1>5, <1>8 DEF DeleteShift, Booking
<1>9. CASE GetShift(r)
  <2>1. /\ Runs(r, "getShift") /\ "getShift" \in Booking /\ "roster" \in Booking
        /\ (\E ans : Finish(r, ans)) \/ \E arg : Continue(r, "roster", arg, Nothing)
    BY <1>9 DEF GetShift, Booking
  <2> QED BY <1>3, <1>4, <2>1
<1>10. CASE RosterExists(r)
  <2>1. /\ Runs(r, "roster") /\ "roster" \in Booking /\ "overlap" \in Booking
        /\ (\E ans : Finish(r, ans)) \/ \E arg : Continue(r, "overlap", arg, Nothing)
    BY <1>10 DEF RosterExists, Booking
  <2> QED BY <1>3, <1>4, <2>1
<1>11. CASE FindConflict(r)
  <2>1. /\ Runs(r, "overlap") /\ "overlap" \in Booking /\ "write" \in Booking
        /\ (\E ans : Finish(r, ans)) \/ \E arg : Continue(r, "write", arg, Nothing)
    BY <1>11 DEF FindConflict, Booking
  <2> QED BY <1>3, <1>4, <2>1
<1>12. CASE WriteShift(r)
  <2>1. Runs(r, "write") /\ "write" \in Booking /\ \E arg, ans : Continue(r, "notify", arg, ans)
    BY <1>12 DEF WriteShift, WriteRow, Booking
  <2> QED BY <1>4, <2>1
<1>13. CASE WriteNothing(r)
  <2>1. Runs(r, "write") /\ "write" \in Booking /\ Finish(r, Code(404))
    BY <1>13 DEF WriteNothing, Booking
  <2> QED BY <1>3, <2>1
<1>14. CASE RemoveShift(r)
  <2>1. Runs(r, "delete") /\ "delete" \in Booking /\ \E arg, ans : Continue(r, "notify", arg, ans)
    BY <1>14 DEF RemoveShift, DeleteRow, Booking
  <2> QED BY <1>4, <2>1
<1>15. CASE QueryFails(r)
  <2>1. (\E q \in Booking : Runs(r, q)) /\ Finish(r, Code(500))
    BY <1>15 DEF QueryFails, Booking
  <2> QED BY <1>3, <2>1
<1> QED BY <1>1, <1>6, <1>7, <1>8, <1>9, <1>10, <1>11, <1>12, <1>13, <1>14, <1>15

LEMMA PermissionsElsewhere ==
  ASSUME Asked, FeedInv, PermissionNext PROVE UNCHANGED clientVars \/ \E r \in Requests : Elsewhere(r)
<1> DEFINE Mine == {"operation", "myAssign", "myRoles"}
<1>1. Mine \subseteq Queries \ Carrying /\ Mine \subseteq Queries \ Reading
  BY DEF Queries, Carrying, Dated, Reading
<1>2. ASSUME NEW r \in Requests, NEW q \in Mine, Runs(r, q), NEW ans, Leave(r, "done", ans) \/ Finish(r, ans)
      PROVE  Elsewhere(r)
  <2>1. q \in Queries \ Reading /\ "done" \in {"fetch", "done"}
    BY <1>1
  <2> QED BY <1>2, <2>1, EndsElsewhere
<1>3. ASSUME NEW r \in Requests, NEW q \in Mine, Runs(r, q), NEW to \in Mine, NEW arg, Continue(r, to, arg, Nothing)
      PROVE  Elsewhere(r)
  <2>1. q \in Queries \ Reading /\ to \in Queries \ Carrying
    BY <1>1
  <2> QED BY <1>3, <2>1, ContinuesElsewhere
<1>4. ASSUME NEW r \in Requests, NEW k, k # "activity", NEW p, Ask(r, k, p) PROVE Elsewhere(r)
  <2>1. PICK arg : Begin(r, k, "operation", arg)
    BY <1>4 DEF Ask
  <2>2. "operation" \in Queries \ Carrying
    BY <1>1
  <2> QED BY <1>4, <2>1, <2>2, ArrivesElsewhere
<1>5. ASSUME NEW r \in Requests, NEW p \in People,
             \/ GetEffectivePermissions(r, p) \/ GetPermissions(r, p)
             \/ PostAssignment(r, p) \/ DeleteAssignment(r, p) \/ PostRole(r, p)
      PROVE  Elsewhere(r)
  BY <1>4, <1>5 DEF GetEffectivePermissions, GetPermissions, PostAssignment, DeleteAssignment, PostRole
<1>6. ASSUME NEW r \in Requests, FindOperation(r) PROVE Elsewhere(r)
  <2>1. /\ Runs(r, "operation")
        /\ Continue(r, "myAssign", req[r].arg, Nothing) \/ \E ans : Finish(r, ans)
    BY <1>6 DEF FindOperation
  <2> QED BY <1>2, <1>3, <2>1
<1>7. ASSUME NEW r \in Requests, MyAssignments(r) PROVE Elsewhere(r)
  <2>1. Runs(r, "myAssign") /\ \E arg : Continue(r, "myRoles", arg, Nothing)
    BY <1>7 DEF MyAssignments
  <2> QED BY <1>3, <2>1
<1>8. ASSUME NEW r \in Requests, Decide(r) PROVE Elsewhere(r)
  <2>1. Runs(r, "myRoles") /\ \E ans : Leave(r, "done", ans) \/ Finish(r, ans)
    BY <1>8 DEF Decide
  <2> QED BY <1>2, <2>1
<1>9. ASSUME \/ \E p \in People, role \in Ladder : AssignRole(p, role)
             \/ ClearAssignments
      PROVE  UNCHANGED clientVars
  BY <1>9 DEF AssignRole, ClearAssignments
<1> QED BY <1>5, <1>6, <1>7, <1>8, <1>9 DEF PermissionNext

LEMMA NotifyElsewhere ==
  ASSUME Asked, FeedInv, NEW r \in Requests, Notify(r) PROVE Elsewhere(r)
<1>1. Three(r, "done", Nothing, Code(200)) /\ Runs(r, "notify") /\ queue' = Tail(queue)
  BY DEF Notify, Three
<1>2. Whole(r, req[r].kind, "done", Nothing, Code(200))
  BY <1>1, SetThree
<1>3. Becomes(r, req[r].kind, "done", Nothing, Code(200))
  BY <1>2, WholeBecomes
<1>4. "notify" \in Queries \ Reading /\ "done" \in Idle /\ "done" \notin Carrying
  BY DEF Queries, Idle, Carrying, Dated, Reading
<1>5. req[r].kind # "activity"
  BY <1>1, <1>4, KindElsewhere
<1>6. QueueMoves(r)
  BY <1>1 DEF Runs, QueueMoves
<1> QED BY <1>3, <1>4, <1>5, <1>6 DEF Becomes, OthersSame, Appended, Elsewhere, Carrying

\* Everybody in flight is lost; what was answered stays answered.
LEMMA DieKeepsFeed ==
  ASSUME Asked, FeedInv, NEW ids, Die(ids), Clock', PollComplete' PROVE FeedInv'
<1>1. queue' = <<>>
  BY DEF Die
<1>2. ASSUME NEW q \in Requests
      PROVE  \/ req'[q].at = "lost" /\ q \in InFlight
             \/ req'[q] = req[q] /\ req[q].at \in {"none", "done", "lost"}
  <2>1. CASE q \in InFlight
    <3>1. req'[q] = [req[q] EXCEPT !.at = "lost", !.ans = Nothing]
      BY <2>1 DEF Die
    <3> QED BY <2>1, <3>1
  <2>2. CASE q \notin InFlight
    <3>1. req'[q] = req[q]
      BY <2>2 DEF Die
    <3> QED BY <2>2, <3>1 DEF InFlight
  <2> QED BY <2>1, <2>2
<1>3. {"none", "done", "lost"} \subseteq Idle \ Carrying
  BY DEF Idle, Carrying, Dated, Reading
<1>4. ASSUME NEW q \in Requests PROVE Carries(q)'
  <2>1. Carries(q)
    BY DEF FeedInv
  <2>2. CASE req'[q].at = "lost"
    BY <1>3, <2>2 DEF Carries, Carrying
  <2>3. CASE req'[q] = req[q] /\ req[q].at \in {"none", "done", "lost"}
    BY <1>3, <2>1, <2>3 DEF Carries, Carrying, Answered
  <2> QED BY <1>2, <2>2, <2>3
<1>5. Waiting' /\ InTurn'
  BY <1>1, <1>2 DEF Waiting, InTurn, Idle
<1> QED BY <1>4, <1>5 DEF FeedInv

-----------------------------------------------------------------------------
\* Least and greatest numbers, and the newest rows.
LEMMA LeastIs == ASSUME NEW S \in SUBSET Nat, S # {} PROVE \E x \in S : \A y \in S : x <= y
<1>1. PICK x \in S : \A y \in S : <<y, x>> \notin OpToRel(<, Nat)
  BY NatLessThanWellFounded, WFMin
<1>2. \A y \in S : ~(y < x)
  BY <1>1 DEF OpToRel
<1> QED BY <1>2

LEMMA MostIs == ASSUME NEW bound \in Nat, NEW S \in SUBSET (0..bound), S # {} PROVE \E x \in S : \A y \in S : y <= x
<1> DEFINE T == {bound - x : x \in S}
<1>1. T \in SUBSET Nat /\ T # {}
  <2>1. \A x \in S : bound - x \in Nat
    OBVIOUS
  <2> QED BY <2>1
<1>2. PICK t \in T : \A u \in T : t <= u
  <2> HIDE DEF T
  <2> QED BY <1>1, LeastIs
<1>3. PICK x \in S : t = bound - x
  BY <1>2
<1>4. ASSUME NEW y \in S PROVE y <= x
  <2>1. bound - x <= bound - y
    BY <1>2, <1>3
  <2> QED BY <2>1
<1> QED BY <1>4

\* What the cut leaves out is no later than all it leaves in, of which there are Limit.
LEMMA CutIs ==
  ASSUME NEW all, \A x \in DOMAIN all : all[x] \in Nat, NEW S \in Cut(all),
         NEW x \in DOMAIN all, x \notin S
  PROVE  Cardinality(S) >= Limit /\ \A y \in S : all[y] >= all[x]
<1>1. S \in Pages(DOMAIN all) /\ \A y \in S : ~SortsBefore(all, x, y)
  BY DEF Cut
<1>2. S # DOMAIN all /\ S \subseteq DOMAIN all /\ Cardinality(S) = Limit
  BY <1>1 DEF Pages
<1>3. Cardinality(S) >= Limit
  BY <1>2, RoutesAssumption
<1>4. ASSUME NEW y \in S PROVE all[y] >= all[x]
  <2>1. ~(all[x] > all[y]) /\ all[x] \in Nat /\ all[y] \in Nat
    BY <1>1, <1>2 DEF SortsBefore
  <2> QED BY <2>1
<1> QED BY <1>3, <1>4

\* A Date is at most a millisecond behind.
LEMMA MillisIs == ASSUME NEW t \in Nat PROVE Millis(t) \in 0..t
BY RoutesAssumption DEF Millis

\* Rounding keeps the order.
LEMMA MillisRise == ASSUME NEW t \in Nat, NEW u \in Nat, t <= u PROVE Millis(t) <= Millis(u)
<1> DEFINE a == t \div Grain
           b == u \div Grain
<1>1. Grain \in Nat \ {0}
  BY RoutesAssumption
<1>2. a \in Nat /\ b \in Nat /\ Grain * a <= t /\ u < Grain * (b + 1)
  BY <1>1
<1> HIDE DEF a, b
<1>3. ASSUME b < a PROVE FALSE
  <2>1. b + 1 <= a
    BY <1>2, <1>3
  <2>2. Grain * (b + 1) <= Grain * a
    BY <1>1, <1>2, <2>1
  <2> QED BY <1>1, <1>2, <2>2
<1>4. a <= b
  BY <1>2, <1>3
<1>5. a * Grain <= b * Grain
  BY <1>1, <1>2, <1>4
<1> QED BY <1>5 DEF Millis, a, b

-----------------------------------------------------------------------------
\* The routes of one incident: chat.
LEMMA WriteKeepsFeed ==
  ASSUME RowsInv, FeedInv, NEW r \in Requests, Elsewhere(r),
         Grows, \A q \in Requests : q # r => Undisturbed(q), Clock', PollComplete'
  PROVE  FeedInv'
<1>1. Carries(r)'
  BY DEF Elsewhere, Carries, Carrying
<1> QED BY <1>1, StepKeepsFeed DEF Elsewhere

\* A new message is later than every cursor.
LEMMA ChatRowFeeds ==
  ASSUME FeedInv, NEW r \in Requests, ChatRow(r), UNCHANGED <<tasks, cursor, seen, cut>>
  PROVE  Grows /\ (\A q \in Requests : Undisturbed(q)) /\ Clock' /\ PollComplete'
<1>1. /\ chat' = [chat EXCEPT ![r] = now] /\ now' = now + 1
      /\ tasks' = tasks /\ cursor' = cursor /\ seen' = seen /\ cut' = cut
  BY DEF ChatRow
<1>2. /\ now \in Nat \ {0} /\ cursor \in 0..(now - 1) /\ chat \in [Requests -> 0..(now - 1)]
      /\ \A k \in TaskRows : tasks[k].updated \in 1..(now - 1) /\ tasks[k].status \in Statuses \cup {"open"}
  BY DEF FeedInv, Clock
<1>3. /\ chat'[r] = now /\ \A m \in Requests : m # r => chat'[m] = chat[m]
      /\ chat' \in [Requests -> 0..now]
  BY <1>1, <1>2
<1>4. Clock'
  <2>1. TaskRows' = TaskRows
    BY <1>1 DEF TaskRows
  <2> QED BY <1>1, <1>2, <1>3, <2>1 DEF Clock
<1>5. Grows
  <2>1. \A m \in Requests : chat[m] <= chat'[m]
    BY <1>2, <1>3
  <2>2. \A m \in Requests : tasks[m] # NoTask => tasks[m].updated <= tasks[m].updated
    BY <1>2 DEF TaskRows
  <2> QED BY <1>1, <1>2, <2>1, <2>2 DEF Grows
<1>6. ASSUME NEW q \in Requests PROVE Undisturbed(q)
  BY <1>1 DEF FeedInv, Carries, Undisturbed, TaskRows
<1>7. PollComplete'
  <2> SUFFICES ASSUME NEW m \in Requests, chat'[m] # 0, chat'[m] <= cursor, ~cut PROVE m \in seen
    BY <1>1 DEF PollComplete, ChatRows
  <2>1. m # r
    BY <1>2, <1>3
  <2> QED BY <1>3, <2>1 DEF FeedInv, PollComplete, ChatRows
<1> QED BY <1>4, <1>5, <1>6, <1>7

LEMMA ChatKeepsFeed ==
  ASSUME Asked, RowsInv, FeedInv, NEW r \in Requests, InsertChat(r) PROVE FeedInv'
<1>1. /\ ChatRow(r) /\ Runs(r, "insertChat") /\ UNCHANGED <<tasks, cursor, seen, cut>>
      /\ \E ans : Continue(r, "notify", Nothing, ans)
  BY DEF InsertChat, ChatRow
<1>2. "insertChat" \in Queries \ Reading /\ "notify" \in Queries \ Carrying
  BY DEF Queries, Carrying, Dated, Reading
<1>3. Elsewhere(r)
  BY <1>1, <1>2, ContinuesElsewhere
<1> QED BY <1>1, <1>3, ChatRowFeeds, WriteKeepsFeed

\* A poll carries a cursor the client had.
LEMMA PollKeepsFeed ==
  ASSUME Asked, RowsInv, FeedInv, NEW r \in Requests, PollChat(r) PROVE FeedInv'
<1>1. PICK arg : arg = [since |-> cursor]
  OBVIOUS
<1>2. Begin(r, "poll", "selectChat", arg) /\ UNCHANGED routeVars /\ arg.since = cursor
  BY <1>1 DEF PollChat
<1>3. "selectChat" \notin Idle /\ "selectChat" \notin Dated /\ "selectChat" \notin Reading /\ "selectChat" \in Queries
  BY DEF Idle, Dated, Reading, Queries
<1>4. Becomes(r, "poll", "selectChat", arg, Nothing) /\ QueueMoves(r) /\ queue' = Append(queue, r)
  BY <1>2, <1>3, Arrives DEF Begin
<1>5. OthersSame(r) /\ Appended(r)
  BY <1>3, <1>4 DEF Becomes, OthersSame, Appended
<1>6. cursor' = cursor /\ cursor \in 0..cursor
  BY <1>2 DEF FeedInv, Clock, routeVars
<1>7. Carries(r)'
  BY <1>2, <1>3, <1>4, <1>6 DEF Becomes, Carries
<1> QED BY <1>2, <1>4, <1>5, <1>7, RowsStill, StepKeepsFeed

\* What a poll leaves behind its new cursor it gave, now or before.
LEMMA SelectKeepsFeed ==
  ASSUME Asked, RowsInv, FeedInv, NEW r \in Requests, SelectChat(r) PROVE FeedInv'
<1>1. PICK since : since = req[r].arg.since
  OBVIOUS
<1>2. PICK page : page = Newest(NewChat(since), chat)
  OBVIOUS
<1>3. /\ Runs(r, "selectChat") /\ Release(r) /\ seen' = seen \cup page
      /\ cut' = (cut \/ page # NewChat(since))
      /\ cursor' = CHOOSE t \in {cursor} \cup {Millis(chat[m]) : m \in page} :
                     \A m \in page : Millis(chat[m]) <= t /\ cursor <= t
      /\ now' = now /\ chat' = chat /\ tasks' = tasks
  BY <1>1, <1>2 DEF SelectChat
<1>4. /\ now \in Nat \ {0} /\ cursor \in 0..(now - 1) /\ chat \in [Requests -> 0..(now - 1)]
      /\ \A k \in TaskRows : tasks[k].updated \in 1..(now - 1) /\ tasks[k].status \in Statuses \cup {"open"}
  BY DEF FeedInv, Clock
<1>5. since \in 0..cursor
  BY <1>1, <1>3 DEF Runs, FeedInv, Carries
<1>6. page \subseteq NewChat(since) /\ NewChat(since) \subseteq Requests
  BY <1>2 DEF Newest, NewChat, ChatRows
<1>7. cursor' \in 0..(now - 1) /\ cursor <= cursor'
  <2> DEFINE T == {cursor} \cup {Millis(chat[m]) : m \in page}
             top(t) == \A m \in page : Millis(chat[m]) <= t /\ cursor <= t
  <2>1. \A m \in page : Millis(chat[m]) \in 0..(now - 1)
    <3> SUFFICES ASSUME NEW m \in page PROVE Millis(chat[m]) \in 0..(now - 1)
      OBVIOUS
    <3>1. chat[m] \in 0..(now - 1) /\ chat[m] \in Nat
      BY <1>4, <1>6
    <3>2. Millis(chat[m]) \in 0..chat[m]
      BY <3>1, MillisIs
    <3> QED BY <1>4, <3>1, <3>2
  <2>2. T \in SUBSET (0..(now - 1)) /\ cursor \in T /\ \A m \in page : Millis(chat[m]) \in T
    BY <1>4, <2>1
  <2>3. cursor' = CHOOSE t \in T : top(t)
    BY <1>3
  <2> HIDE DEF T
  <2>4. PICK t \in T : \A u \in T : u <= t
    <3>1. now - 1 \in Nat /\ T # {}
      BY <1>4, <2>2
    <3> QED BY ONLY <2>2, <3>1, MostIs
  <2>5. \E u \in T : top(u)
    BY <2>2, <2>4
  <2>6. cursor' \in T /\ top(cursor')
    <3> HIDE DEF top
    <3> QED BY <2>3, <2>5
  <2>7. CASE page = {}
    <3>1. cursor' \in T /\ T = {cursor}
      BY <2>6, <2>7 DEF T
    <3> QED BY <1>4, <3>1
  <2>8. CASE page # {}
    BY <2>2, <2>6, <2>8
  <2> QED BY <2>7, <2>8
<1>8. Grows
  <2>1. \A m \in Requests : chat[m] <= chat[m]
    BY <1>4
  <2>2. \A m \in Requests : tasks[m] # NoTask => tasks[m].updated <= tasks[m].updated
    BY <1>4 DEF TaskRows
  <2> QED BY <1>3, <1>4, <1>7, <2>1, <2>2 DEF Grows
<1>9. ASSUME NEW q \in Requests PROVE Undisturbed(q)
  BY <1>3 DEF FeedInv, Carries, Undisturbed, TaskRows
<1>10. Clock'
  <2>1. TaskRows' = TaskRows
    BY <1>3 DEF TaskRows
  <2> QED BY <1>3, <1>4, <1>7, <2>1 DEF Clock
<1>11. PollComplete'
  <2> SUFFICES ASSUME NEW m \in Requests, chat[m] # 0, ~cut' PROVE m \in seen'
    BY <1>3 DEF PollComplete, ChatRows
  <2>1. ~cut /\ page = NewChat(since)
    BY <1>3
  <2>2. CASE chat[m] > since
    BY <1>3, <2>1, <2>2 DEF NewChat, ChatRows
  <2>3. CASE ~(chat[m] > since)
    <3>1. chat[m] \in Int /\ chat[m] <= cursor
      BY <1>4, <1>5, <2>3
    <3> QED BY <1>3, <2>1, <3>1 DEF FeedInv, PollComplete, ChatRows
  <2> QED BY <2>2, <2>3
<1>12. Whole(r, "none", "none", Nothing, Nothing)
  BY <1>3 DEF Release, Blank, Whole
<1>13. Becomes(r, "none", "none", Nothing, Nothing)
  BY <1>12, WholeBecomes
<1>14. "none" \in Idle /\ "none" \notin Carrying
  BY DEF Idle, Carrying, Dated, Reading
<1>15. QueueMoves(r)
  BY <1>3 DEF Release, Runs, QueueMoves
<1>16. Elsewhere(r)
  BY <1>13, <1>14, <1>15 DEF Becomes, OthersSame, Appended, Elsewhere, Carrying
<1> QED BY <1>8, <1>9, <1>10, <1>11, <1>16, WriteKeepsFeed

-----------------------------------------------------------------------------
\* Tasks.  A stamp is taken on arrival: it is later than all that are written or wait.
LEMMA StampTaken ==
  ASSUME Asked, RowsInv, FeedInv, NEW r \in Requests, NEW k, k # "activity", NEW q \in Dated, NEW arg, arg.at = now,
         Begin(r, k, q, arg), now' = now + 1, UNCHANGED <<chat, tasks, cursor, seen, cut>>
  PROVE  FeedInv'
<1>1. q \notin Idle /\ q \in Queries /\ q \notin Reading /\ q # "selectChat"
  BY DEF Dated, Idle, Reading, Queries
<1>2. Becomes(r, k, q, arg, Nothing) /\ QueueMoves(r) /\ queue' = Append(queue, r)
  BY <1>1, Arrives DEF Begin
<1>3. OthersSame(r) /\ Appended(r)
  BY <1>2 DEF Becomes, OthersSame, Appended
<1>4. /\ now \in Nat \ {0} /\ cursor \in 0..(now - 1) /\ chat \in [Requests -> 0..(now - 1)]
      /\ \A m \in TaskRows : tasks[m].updated \in 1..(now - 1) /\ tasks[m].status \in Statuses \cup {"open"}
  BY DEF FeedInv, Clock
<1>5. TaskRows' = TaskRows
  BY DEF TaskRows
<1>6. Clock'
  <2>1. 0..(now - 1) \subseteq 0..(now' - 1)
    BY <1>4
  <2>2. chat \in [Requests -> 0..(now' - 1)]
    BY <1>4, <2>1
  <2>3. \A m \in TaskRows : tasks[m].updated \in 1..(now' - 1)
    BY <1>4
  <2> QED BY <1>4, <1>5, <2>1, <2>2, <2>3 DEF Clock
<1>7. Grows
  <2>1. \A m \in Requests : chat[m] <= chat[m]
    BY <1>4
  <2>2. \A m \in Requests : tasks[m] # NoTask => tasks[m].updated <= tasks[m].updated
    BY <1>4 DEF TaskRows
  <2> QED BY <1>4, <2>1, <2>2 DEF Grows
<1>8. ASSUME NEW p \in Requests PROVE Undisturbed(p)
  BY <1>5 DEF FeedInv, Carries, Undisturbed
<1>9. PollComplete'
  BY DEF FeedInv, PollComplete, ChatRows
<1>10. Carries(r)'
  <2>1. req'[r].kind = k /\ req'[r].at = q /\ req'[r].arg.at = now
    BY <1>2 DEF Becomes
  <2>2. now \in 1..(now' - 1) /\ \A m \in TaskRows' : tasks'[m].updated < now
    BY <1>4, <1>5
  <2> QED BY <1>1, <2>1, <2>2 DEF Carries
<1> QED BY <1>2, <1>3, <1>6, <1>7, <1>8, <1>9, <1>10, StepKeepsFeed

\* The stamp that is written is the first of those that wait.
LEMMA StampWritten ==
  ASSUME RowsInv, FeedInv, NEW r \in Requests, NEW q \in Dated, Runs(r, q), NEW id \in Requests,
         NEW status \in Statuses \cup {"open"},
         tasks' = [tasks EXCEPT ![id] = [status |-> status, updated |-> req[r].arg.at]],
         UNCHANGED <<now, chat, cursor, seen, cut>>
  PROVE  Grows /\ (\A p \in Requests : p # r => Undisturbed(p)) /\ Clock' /\ PollComplete'
<1>1. PICK at : at = req[r].arg.at
  OBVIOUS
<1>2. PICK row : row = [status |-> status, updated |-> at]
  OBVIOUS
<1>3. /\ now \in Nat \ {0} /\ cursor \in 0..(now - 1) /\ chat \in [Requests -> 0..(now - 1)]
      /\ \A m \in TaskRows : tasks[m].updated \in 1..(now - 1) /\ tasks[m].status \in Statuses \cup {"open"}
  BY DEF FeedInv, Clock
<1>4. req[r].at = q /\ Head(queue) = r /\ queue # <<>>
  BY DEF Runs
<1>5. at \in 1..(now - 1) /\ \A k \in TaskRows : tasks[k].updated < at
  BY <1>1, <1>4 DEF FeedInv, Carries
<1>6. row.status = status /\ row.updated = at /\ row # NoTask
  <2>1. row.status = status /\ row.updated = at
    BY <1>2
  <2>2. NoTask.updated = 0
    BY DEF NoTask
  <2> QED BY <1>3, <1>5, <2>1, <2>2
<1>7. tasks'[id] = row /\ \A m \in Requests : m # id => tasks'[m] = tasks[m]
  BY <1>1, <1>2 DEF RowsInv, Tables
<1>8. \A m \in TaskRows' : m \in Requests /\ (m # id => m \in TaskRows /\ tasks'[m] = tasks[m])
  BY <1>7 DEF TaskRows
<1>9. Clock'
  <2>1. ASSUME NEW m \in TaskRows'
        PROVE  tasks'[m].updated \in 1..(now - 1) /\ tasks'[m].status \in Statuses \cup {"open"}
    BY <1>3, <1>5, <1>6, <1>7, <1>8
  <2>2. now' = now /\ chat' = chat /\ cursor' = cursor
    OBVIOUS
  <2> QED BY <1>3, <2>1, <2>2 DEF Clock
<1>10. Grows
  <2>1. \A m \in Requests : chat[m] <= chat[m]
    BY <1>3
  <2>2. ASSUME NEW m \in Requests, tasks[m] # NoTask
        PROVE  tasks'[m] # NoTask /\ tasks[m].updated <= tasks'[m].updated
    <3>1. m \in TaskRows /\ tasks[m].updated < at /\ tasks[m].updated \in Int /\ at \in Int
      BY <1>3, <1>5, <2>2 DEF TaskRows
    <3> QED BY <1>6, <1>7, <2>2, <3>1
  <2> QED BY <1>3, <2>1, <2>2 DEF Grows
<1>11. ASSUME NEW p \in Requests, p # r, req[p].at \in Dated PROVE Undisturbed(p)
  <2>1. at < req[p].arg.at
    <3>1. queue \in Seq(Requests) /\ queue[1] = r /\ DOMAIN queue = 1..Len(queue) /\ Len(queue) \in Nat \ {0}
      BY <1>4, TailShifts DEF RowsInv, Queued
    <3>2. PICK n \in DOMAIN queue : queue[n] = p
      BY <1>11 DEF FeedInv, Waiting, Dated, Idle
    <3>3. 1 \in DOMAIN queue /\ 1 < n
      BY <1>11, <3>1, <3>2
    <3> QED BY <1>1, <1>4, <1>11, <3>1, <3>2, <3>3 DEF FeedInv, InTurn
  <2>2. \A k \in TaskRows : tasks[k].updated < req[p].arg.at
    BY <1>11 DEF FeedInv, Carries
  <2> QED BY <1>6, <1>7, <1>8, <2>1, <2>2 DEF Undisturbed
<1>12. PollComplete'
  BY DEF FeedInv, PollComplete, ChatRows
<1> QED BY <1>9, <1>10, <1>11, <1>12 DEF Undisturbed

LEMMA DatedElsewhere ==
  ASSUME Asked, FeedInv, NEW r \in Requests, NEW q \in Dated, Runs(r, q),
         \/ \E arg, ans : Continue(r, "notify", arg, ans)
         \/ \E ans : Finish(r, ans)
  PROVE  Elsewhere(r)
<1>1. q \in Queries \ Reading /\ "notify" \in Queries \ Carrying /\ "done" \in {"fetch", "done"}
  BY DEF Queries, Carrying, Dated, Reading
<1> QED BY <1>1, ContinuesElsewhere, EndsElsewhere

LEMMA TaskKeepsFeed ==
  ASSUME Asked, RowsInv, FeedInv, NEW r \in Requests, InsertTask(r) PROVE FeedInv'
<1>1. /\ Runs(r, "insertTask") /\ UNCHANGED <<now, chat, cursor, seen, cut>>
      /\ tasks' = [tasks EXCEPT ![r] = [status |-> "open", updated |-> req[r].arg.at]]
      /\ \E arg, ans : Continue(r, "notify", arg, ans)
  BY DEF InsertTask, TaskRow
<1>2. "insertTask" \in Dated /\ "open" \in Statuses \cup {"open"}
  BY DEF Dated
<1>3. Elsewhere(r)
  BY <1>1, <1>2, DatedElsewhere
<1> QED BY <1>1, <1>2, <1>3, StampWritten, WriteKeepsFeed

\* What a PATCH writes.
LEMMA PatchFeeds ==
  ASSUME RowsInv, FeedInv, NEW r \in Requests, PatchRow(r), UNCHANGED <<now, chat, cursor, seen, cut>>
  PROVE  Grows /\ (\A p \in Requests : p # r => Undisturbed(p)) /\ Clock' /\ PollComplete'
<1>1. Runs(r, "updateTask") /\ "updateTask" \in Dated
  BY DEF PatchRow, Dated
<1>2. PICK id \in Requests, status \in Statuses : id = req[r].arg.id /\ status = req[r].arg.status
  BY <1>1 DEF Runs, RowsInv, Jobs, Task
<1>3. CASE UNCHANGED tasks
  <2>1. UNCHANGED routeVars
    BY <1>3 DEF routeVars
  <2> QED BY <2>1, RowsStill
<1>4. CASE tasks' = [tasks EXCEPT ![id] = [status |-> status, updated |-> req[r].arg.at]]
  <2>1. status \in Statuses \cup {"open"}
    OBVIOUS
  <2> QED BY <1>1, <1>4, <2>1, StampWritten
<1> QED BY <1>2, <1>3, <1>4 DEF PatchRow

LEMMA PatchKeepsFeed ==
  ASSUME Asked, RowsInv, FeedInv, NEW r \in Requests, UpdateTask(r) PROVE FeedInv'
<1>1. /\ PatchRow(r) /\ Runs(r, "updateTask") /\ UNCHANGED <<now, chat, cursor, seen, cut>>
      /\ (\E arg, ans : Continue(r, "notify", arg, ans)) \/ \E ans : Finish(r, ans)
  BY DEF UpdateTask, PatchRow
<1>2. "updateTask" \in Dated
  BY DEF Dated
<1>3. Elsewhere(r)
  BY <1>1, <1>2, DatedElsewhere
<1> QED BY <1>1, <1>3, PatchFeeds, WriteKeepsFeed

-----------------------------------------------------------------------------
\* Activity.
LEMMA StampsAre ==
  ASSUME NEW c, NEW t
  PROVE  /\ DOMAIN Stamps(c, t) \subseteq {"chat", "task"} \X Requests
         /\ \A m \in Requests :
              /\ <<"chat", m>> \in DOMAIN Stamps(c, t) <=> c[m] # 0
              /\ <<"task", m>> \in DOMAIN Stamps(c, t) <=> t[m] # NoTask
              /\ c[m] # 0 => Stamps(c, t)[<<"chat", m>>] = c[m]
              /\ t[m] # NoTask => Stamps(c, t)[<<"task", m>>] = t[m].updated
<1> DEFINE D == ({"chat"} \X {m \in Requests : c[m] # 0}) \cup ({"task"} \X {k \in Requests : t[k] # NoTask})
<1>1. Stamps(c, t) = [x \in D |-> IF x[1] = "chat" THEN c[x[2]] ELSE t[x[2]].updated]
  BY DEF Stamps
<1>2. D \subseteq {"chat", "task"} \X Requests
  OBVIOUS
<1>3. ASSUME NEW m \in Requests
      PROVE  (<<"chat", m>> \in D <=> c[m] # 0) /\ (<<"task", m>> \in D <=> t[m] # NoTask)
  OBVIOUS
<1>4. \A m : <<"chat", m>>[1] = "chat" /\ <<"chat", m>>[2] = m /\ <<"task", m>>[1] # "chat" /\ <<"task", m>>[2] = m
  OBVIOUS
<1> HIDE DEF D
<1> QED BY <1>1, <1>2, <1>3, <1>4

\* A reader of the three queries steps.
LEMMA ReaderKeepsFeed ==
  ASSUME RowsInv, FeedInv, NEW r \in Requests, OthersSame(r), QueueMoves(r), Appended(r), UNCHANGED routeVars,
         req'[r].kind = "activity",
         \/ req'[r].at \in Reading /\ Covered(req'[r].arg)
         \/ req'[r].at = "done" /\ Answered(req'[r].ans)
  PROVE  FeedInv'
<1>1. /\ req'[r].at \in Queries \cup Idle /\ req'[r].at # "selectChat" /\ req'[r].at \notin Dated
      /\ req'[r].at \in Reading \cup {"done", "lost"}
      /\ "done" \notin Reading
  BY DEF Queries, Idle, Reading, Dated
<1>2. \A a : Covered(a)' <=> Covered(a)
  BY DEF Covered, routeVars
<1>3. req'[r].at \in Reading => Covered(req[r].arg)'
  <2>1. PICK a : a = req'[r].arg
    OBVIOUS
  <2>2. req'[r].at \in Reading => Covered(a)
    BY <1>1, <2>1
  <2>3. req'[r].at \in Reading => Covered(a)'
    BY <1>2, <2>2
  <2> QED BY <2>1, <2>3 DEF Covered
<1>4. req'[r].at = "done" => Answered(req[r].ans)'
  BY <1>1 DEF Answered
<1>5. Carries(r)'
  BY <1>1, <1>3, <1>4 DEF Carries
<1> QED BY <1>5, RowsStill, StepKeepsFeed

LEMMA AskKeepsFeed ==
  ASSUME Asked, RowsInv, FeedInv, NEW r \in Requests, GetActivity(r) PROVE FeedInv'
<1>1. PICK arg : arg = [asked |-> Stamps(chat, tasks), chat |-> chat]
  OBVIOUS
<1>2. Begin(r, "activity", "activityChat", arg) /\ UNCHANGED routeVars
  BY <1>1 DEF GetActivity
<1>3. "activityChat" \notin Idle /\ "activityChat" \in Reading /\ "activityChat" \notin Dated
  BY DEF Idle, Reading, Dated
<1>4. Becomes(r, "activity", "activityChat", arg, Nothing) /\ QueueMoves(r) /\ queue' = Append(queue, r)
  BY <1>2, <1>3, Arrives DEF Begin
<1>5. Covered(arg)
  <2>1. /\ now \in Nat \ {0} /\ chat \in [Requests -> 0..(now - 1)]
        /\ \A k \in Requests : tasks[k] # NoTask => tasks[k].updated \in 1..(now - 1)
    BY DEF FeedInv, Clock, TaskRows
  <2>2. /\ arg.asked = Stamps(chat, tasks) /\ arg.chat = chat
        /\ arg = [asked |-> arg.asked, chat |-> arg.chat]
    BY <1>1
  <2>3. DOMAIN Stamps(chat, tasks) \subseteq {"chat", "task"} \X Requests
    BY StampsAre
  <2>4. ASSUME NEW m \in Requests
        PROVE  /\ chat[m] <= chat[m]
               /\ <<"chat", m>> \in DOMAIN Stamps(chat, tasks) => Stamps(chat, tasks)[<<"chat", m>>] \in 1..chat[m]
               /\ <<"task", m>> \in DOMAIN Stamps(chat, tasks) =>
                    tasks[m] # NoTask /\ Stamps(chat, tasks)[<<"task", m>>] \in 1..tasks[m].updated
    <3>1. /\ <<"chat", m>> \in DOMAIN Stamps(chat, tasks) => chat[m] # 0 /\ Stamps(chat, tasks)[<<"chat", m>>] = chat[m]
          /\ <<"task", m>> \in DOMAIN Stamps(chat, tasks) =>
               tasks[m] # NoTask /\ Stamps(chat, tasks)[<<"task", m>>] = tasks[m].updated
      BY StampsAre
    <3>2. chat[m] \in Nat /\ (tasks[m] # NoTask => tasks[m].updated \in Nat \ {0})
      BY <2>1
    <3> QED BY <3>1, <3>2
  <2>5. chat \in [Requests -> Nat]
    BY <2>1
  <2> QED BY <2>2, <2>3, <2>4, <2>5 DEF Covered
<1> QED BY <1>2, <1>3, <1>4, <1>5, ReaderKeepsFeed DEF Becomes, OthersSame, Appended

LEMMA ChatReset ==
  ASSUME NEW a, NEW old, NEW new
  PROVE  [[asked |-> a, chat |-> old] EXCEPT !.chat = new] = [asked |-> a, chat |-> new]
OBVIOUS

LEMMA ReadsKeepFeed ==
  ASSUME Asked, RowsInv, FeedInv, NEW r \in Requests, ReadChat(r) \/ ReadWarlog(r) PROVE FeedInv'
<1>1. PICK q \in Reading, to \in Reading :
        \E arg : /\ Runs(r, q) /\ Continue(r, to, arg, Nothing)
                /\ (arg = req[r].arg \/ arg = [req[r].arg EXCEPT !.chat = chat])
  BY Zenon DEF ReadChat, ReadWarlog, Reading
<1>0. PICK arg : /\ Runs(r, q) /\ Continue(r, to, arg, Nothing)
                 /\ (arg = req[r].arg \/ arg = [req[r].arg EXCEPT !.chat = chat])
  BY <1>1
<1>2. UNCHANGED routeVars
  BY DEF ReadChat, ReadWarlog
<1>3. q \notin Idle /\ to \notin Idle /\ to \notin Dated
  BY DEF Reading, Idle, Dated
<1>4. /\ Becomes(r, req[r].kind, to, arg, Nothing) /\ QueueMoves(r) /\ req[r].at = q
      /\ queue # <<>> /\ queue' = Append(Tail(queue), r)
  BY <1>0, <1>3, Continues
<1>5. PICK old : old = req[r].arg
  OBVIOUS
<1>6. req[r].kind = "activity" /\ Covered(old)
  BY <1>4, <1>5 DEF FeedInv, Carries
<1>7. Covered(arg)
  <2>1. CASE arg = old
    BY <1>6, <2>1
  <2>2. CASE arg = [old EXCEPT !.chat = chat]
    <3>1. arg.asked = old.asked /\ arg.chat = chat /\ arg = [asked |-> arg.asked, chat |-> arg.chat]
      <4>1. PICK asked, was : old = [asked |-> asked, chat |-> was]
        BY <1>6 DEF Covered
      <4>2. arg = [asked |-> asked, chat |-> chat]
        BY ONLY <2>2, <4>1, ChatReset
      <4> QED BY <4>1, <4>2
    <3>2. /\ now \in Nat \ {0} /\ chat \in [Requests -> 0..(now - 1)]
      BY DEF FeedInv, Clock
    <3>3. ASSUME NEW m \in Requests
          PROVE  chat[m] \in Nat /\ (<<"chat", m>> \in DOMAIN old.asked => old.asked[<<"chat", m>>] \in 1..chat[m])
      <4>1. chat[m] \in Nat
        BY <3>2
      <4>2. /\ old.chat \in [Requests -> Nat] /\ old.chat[m] <= chat[m]
            /\ <<"chat", m>> \in DOMAIN old.asked => old.asked[<<"chat", m>>] \in 1..old.chat[m]
        BY <1>6 DEF Covered
      <4>3. old.chat[m] \in Nat
        BY <4>2
      <4> QED BY <4>1, <4>2, <4>3
    <3>4. chat \in [Requests -> Nat] /\ \A m \in Requests : chat[m] <= chat[m]
      BY <3>2
    <3> QED BY <1>6, <3>1, <3>3, <3>4 DEF Covered
  <2> QED BY <1>0, <1>5, <2>1, <2>2
<1> QED BY <1>2, <1>3, <1>4, <1>6, <1>7, ReaderKeepsFeed DEF Becomes, OthersSame, Appended

\* The answer: what was asked for is among the stamps that are merged.
LEMMA MergeAnswers ==
  ASSUME Clock, NEW a, Covered(a), NEW new \in Cut(Items(a.chat, tasks)), NEW ans,
         ans.asked = a.asked, ans.items = [x \in new |-> Items(a.chat, tasks)[x]]
  PROVE  Answered(ans)
<1> DEFINE all == Stamps(a.chat, tasks)
           S == DOMAIN all
<1>1. S \subseteq {"chat", "task"} \X Requests
  BY StampsAre
<1>3. \A x \in {"chat", "task"} \X Requests : \E m \in Requests : x = <<"chat", m>> \/ x = <<"task", m>>
  OBVIOUS
<1>4. ASSUME NEW m \in Requests
      PROVE  /\ <<"chat", m>> \in S => all[<<"chat", m>>] \in 0..now
             /\ <<"task", m>> \in S => all[<<"task", m>>] \in 0..now
             /\ <<"chat", m>> \in DOMAIN a.asked => <<"chat", m>> \in S /\ a.asked[<<"chat", m>>] \in Nat
                                                   /\ all[<<"chat", m>>] >= a.asked[<<"chat", m>>]
             /\ <<"task", m>> \in DOMAIN a.asked => <<"task", m>> \in S /\ a.asked[<<"task", m>>] \in Nat
                                                   /\ all[<<"task", m>>] >= a.asked[<<"task", m>>]
  <2>1. /\ <<"chat", m>> \in S <=> a.chat[m] # 0
        /\ <<"task", m>> \in S <=> tasks[m] # NoTask
        /\ a.chat[m] # 0 => all[<<"chat", m>>] = a.chat[m]
        /\ tasks[m] # NoTask => all[<<"task", m>>] = tasks[m].updated
    BY StampsAre
  <2>2. /\ a.chat \in [Requests -> Nat] /\ a.chat[m] <= chat[m]
        /\ <<"chat", m>> \in DOMAIN a.asked => a.asked[<<"chat", m>>] \in 1..a.chat[m]
        /\ <<"task", m>> \in DOMAIN a.asked => tasks[m] # NoTask /\ a.asked[<<"task", m>>] \in 1..tasks[m].updated
    BY DEF Covered
  <2>3. /\ now \in Nat \ {0} /\ chat[m] \in 0..(now - 1)
        /\ tasks[m] # NoTask => tasks[m].updated \in 1..(now - 1)
    BY DEF Clock, TaskRows
  <2>4. a.chat[m] \in 0..now
    BY <2>2, <2>3
  <2>5. tasks[m] # NoTask => tasks[m].updated \in 0..now
    BY <2>3
  <2> HIDE DEF all, S
  <2>6. ASSUME <<"chat", m>> \in DOMAIN a.asked
        PROVE  /\ <<"chat", m>> \in S /\ a.asked[<<"chat", m>>] \in Nat
               /\ all[<<"chat", m>>] >= a.asked[<<"chat", m>>]
    <3>1. a.asked[<<"chat", m>>] \in 1..a.chat[m] /\ a.chat[m] # 0
      BY <2>2, <2>4, <2>6
    <3> QED BY <2>1, <2>4, <3>1
  <2>7. ASSUME <<"task", m>> \in DOMAIN a.asked
        PROVE  /\ <<"task", m>> \in S /\ a.asked[<<"task", m>>] \in Nat
               /\ all[<<"task", m>>] >= a.asked[<<"task", m>>]
    BY <2>1, <2>2, <2>5, <2>7
  <2> QED BY <2>1, <2>4, <2>5, <2>6, <2>7
<1>5. \A x \in S : all[x] \in 0..now
  <2> HIDE DEF all, S
  <2> QED BY <1>1, <1>3, <1>4
<1>6. \A x \in DOMAIN a.asked : x \in S /\ all[x] \in Nat /\ a.asked[x] \in Nat /\ all[x] >= a.asked[x]
  <2>1. DOMAIN a.asked \subseteq {"chat", "task"} \X Requests
    BY DEF Covered
  <2>2. \A x \in S : all[x] \in Nat
    <3> HIDE DEF all, S
    <3> QED BY <1>5
  <2> HIDE DEF all, S
  <2>3. \A x \in DOMAIN a.asked : x \in S /\ a.asked[x] \in Nat /\ all[x] >= a.asked[x]
    BY <1>3, <1>4, <2>1
  <2> QED BY <2>2, <2>3
<1>7. PICK items : items = Items(a.chat, tasks)
  OBVIOUS
<1>8. /\ DOMAIN items = S /\ \A x \in S : items[x] = Millis(all[x]) /\ items[x] \in Nat
  <2>1. items = [x \in S |-> Millis(all[x])]
    BY <1>7 DEF Items
  <2> HIDE DEF all, S
  <2>2. \A x \in S : Millis(all[x]) \in Nat
    BY <1>5, MillisIs DEF Clock
  <2> QED BY <2>1, <2>2
<1> HIDE DEF all, S
<1>9. new \in Cut(items) /\ ans.items = [x \in new |-> items[x]]
  BY <1>7
<1>10. ASSUME NEW x \in DOMAIN a.asked, x \notin new
       PROVE  Cardinality(new) >= Limit /\ \A y \in new : items[y] >= Millis(a.asked[x])
  <2>1. x \in S /\ all[x] \in Nat /\ a.asked[x] \in Nat /\ all[x] >= a.asked[x]
    BY <1>6
  <2>2. Cardinality(new) >= Limit /\ \A y \in new : items[y] >= items[x]
    BY <1>8, <1>9, <1>10, <2>1, CutIs
  <2>3. items[x] >= Millis(a.asked[x]) /\ items[x] \in Nat /\ Millis(a.asked[x]) \in Nat
    BY <1>8, <2>1, MillisIs, MillisRise
  <2>4. \A y \in new : items[y] \in Nat
    BY <1>8, <1>9 DEF Cut, Pages
  <2> QED BY <2>2, <2>3, <2>4
<1>11. DOMAIN ans.items = new /\ \A y \in new : ans.items[y] = items[y]
  BY <1>9
<1> QED BY <1>10, <1>11 DEF Answered

LEMMA AnswerKeepsFeed ==
  ASSUME Asked, RowsInv, FeedInv, NEW r \in Requests, ReadTasks(r) PROVE FeedInv'
<1>1. PICK a : a = req[r].arg
  OBVIOUS
<1>a. PICK left \in Cut(Items(a.chat, tasks)) :
        Finish(r, [asked |-> a.asked, items |-> [x \in left |-> Items(a.chat, tasks)[x]]])
  BY <1>1 DEF ReadTasks
<1>2. PICK ans : ans = [asked |-> a.asked, items |-> [x \in left |-> Items(a.chat, tasks)[x]]]
  OBVIOUS
<1>3. Runs(r, "activityTasks") /\ Finish(r, ans) /\ UNCHANGED routeVars
  BY <1>a, <1>2 DEF ReadTasks
<1>4. req[r].at = "activityTasks" /\ "activityTasks" \in Reading /\ "done" \in Idle /\ "done" \notin Dated
  BY <1>3 DEF Runs, Reading, Idle, Dated
<1>5. req[r].kind = "activity" /\ Covered(a)
  BY <1>1, <1>4 DEF FeedInv, Carries
<1>6. ans.asked = a.asked /\ ans.items = [x \in left |-> Items(a.chat, tasks)[x]]
  BY <1>2
<1>7. Answered(ans)
  BY <1>5, <1>6, <1>a, MergeAnswers DEF FeedInv
<1>8. Whole(r, req[r].kind, "done", Nothing, ans)
  BY <1>3, SetThree DEF Finish, Three
<1>9. Becomes(r, req[r].kind, "done", Nothing, ans)
  BY <1>8, WholeBecomes
<1>10. QueueMoves(r)
  BY <1>3 DEF Finish, Runs, QueueMoves
<1>11. OthersSame(r) /\ Appended(r)
  BY <1>4, <1>9 DEF Becomes, OthersSame, Appended
<1>12. req'[r].kind = "activity" /\ req'[r].at = "done" /\ req'[r].ans = ans
  BY <1>5, <1>9 DEF Becomes
<1> QED BY <1>3, <1>7, <1>10, <1>11, <1>12, ReaderKeepsFeed

-----------------------------------------------------------------------------
LEMMA RoutesKeepFeed ==
  ASSUME Asked, RowsInv, FeedInv, RoutesNext PROVE FeedInv'
<1>1. PICK r \in Requests :
       \/ PostChat(r) \/ InsertChat(r) \/ PollChat(r) \/ SelectChat(r)
       \/ PostTask(r) \/ InsertTask(r) \/ PatchEmpty(r) \/ UpdateTask(r)
       \/ GetActivity(r) \/ ReadChat(r) \/ ReadWarlog(r) \/ ReadTasks(r)
       \/ \E id \in TaskRows \cup {r}, s \in Statuses : PatchTask(r, id, s)
  BY DEF RoutesNext
<1>2. "insertChat" \in Queries \ Carrying /\ "insertTask" \in Dated /\ "updateTask" \in Dated
  BY DEF Queries, Carrying, Dated, Reading
<1>3. CASE PostChat(r)
  <2>1. Begin(r, "chat", "insertChat", Nothing) /\ UNCHANGED routeVars
    BY <1>3 DEF PostChat
  <2> QED BY <1>2, <2>1, ArrivesElsewhere, ElsewhereKeepsFeed
<1>4. CASE PatchEmpty(r)
  <2>1. Refuse(r, "patch", Nothing, Code(200)) /\ UNCHANGED routeVars
    BY <1>4 DEF PatchEmpty
  <2> QED BY <2>1, RefusedElsewhere, ElsewhereKeepsFeed
<1>5. CASE PostTask(r)
  <2>1. PICK arg : arg = [at |-> now]
    OBVIOUS
  <2>2. /\ Begin(r, "task", "insertTask", arg) /\ arg.at = now
        /\ now' = now + 1 /\ UNCHANGED <<chat, tasks, cursor, seen, cut>>
    BY <1>5, <2>1 DEF PostTask
  <2> QED BY <1>2, <2>2, StampTaken
<1>6. ASSUME NEW id, NEW s, PatchTask(r, id, s) PROVE FeedInv'
  <2>1. PICK arg : arg = [id |-> id, status |-> s, at |-> now]
    OBVIOUS
  <2>2. /\ Begin(r, "patch", "updateTask", arg) /\ arg.at = now
        /\ now' = now + 1 /\ UNCHANGED <<chat, tasks, cursor, seen, cut>>
    BY <1>6, <2>1 DEF PatchTask
  <2> QED BY <1>2, <2>2, StampTaken
<1> QED BY <1>1, <1>3, <1>4, <1>5, <1>6, ChatKeepsFeed, PollKeepsFeed, SelectKeepsFeed, TaskKeepsFeed,
           PatchKeepsFeed, AskKeepsFeed, ReadsKeepFeed, AnswerKeepsFeed

LEMMA RoutesDeathKeepsFeed ==
  ASSUME Asked, RowsInv, FeedInv, RoutesDie PROVE FeedInv'
<1>1. PICK r \in Requests :
    \/ ChatRow(r) /\ Die({r}) /\ UNCHANGED <<tasks, cursor, seen, cut>>
    \/ TaskRow(r) /\ Die({r}) /\ UNCHANGED <<now, chat, cursor, seen, cut>>
    \/ PatchRow(r) /\ Die({req[r].arg.id}) /\ UNCHANGED <<now, chat, cursor, seen, cut>>
  BY DEF RoutesDie
<1>2. ASSUME TaskRow(r), UNCHANGED <<now, chat, cursor, seen, cut>> PROVE Clock' /\ PollComplete'
  <2>1. /\ Runs(r, "insertTask") /\ "insertTask" \in Dated /\ "open" \in Statuses \cup {"open"}
        /\ tasks' = [tasks EXCEPT ![r] = [status |-> "open", updated |-> req[r].arg.at]]
    BY <1>2 DEF TaskRow, Dated
  <2> QED BY <1>2, <2>1, StampWritten
<1>3. Clock' /\ PollComplete'
  BY <1>1, <1>2, ChatRowFeeds, PatchFeeds
<1> QED BY <1>1, <1>3, DieKeepsFeed

LEMMA FeedAtStart == SqlInit => FeedInv
<1> SUFFICES ASSUME SqlInit PROVE FeedInv
  OBVIOUS
<1>1. /\ \A r \in Requests : req[r].at = "none" /\ req[r].kind = "none"
      /\ queue = <<>> /\ now = 1 /\ cursor = 0
      /\ chat = [r \in Requests |-> 0] /\ tasks = [r \in Requests |-> NoTask]
  BY DEF SqlInit, ClientInit, RoutesInit, Blank
<1>2. Clock
  BY <1>1 DEF Clock, TaskRows
<1>3. \A r \in Requests : Carries(r)
  BY <1>1 DEF Carries, Idle, Dated, Reading
<1>4. Waiting /\ InTurn
  BY <1>1 DEF Waiting, InTurn, Idle
<1>5. PollComplete
  BY <1>1 DEF PollComplete, ChatRows
<1> QED BY <1>2, <1>3, <1>4, <1>5 DEF FeedInv

LEMMA FeedInductive == SqlSpec => []FeedInv
<1>1. ASSUME WarlogInv, RowsInv, FeedInv,
             [SqlNext]_<<clientVars, routeVars, submitVars, scheduleVars, permissionVars>>
      PROVE  FeedInv'
  <2>0. Asked
    BY <1>1 DEF WarlogInv
  <2>1. CASE RoutesNext
    BY <1>1, <2>0, <2>1, RoutesKeepFeed
  <2>2. CASE SubmitNext /\ UNCHANGED routeVars
    BY <1>1, <2>0, <2>2, SubmissionsElsewhere, StillKeepsFeed, ElsewhereKeepsFeed
  <2>3. CASE ScheduleNext /\ UNCHANGED routeVars
    BY <1>1, <2>0, <2>3, ScheduleElsewhere, ElsewhereKeepsFeed
  <2>4. CASE PermissionNext /\ UNCHANGED routeVars
    BY <1>1, <2>0, <2>4, PermissionsElsewhere, StillKeepsFeed, ElsewhereKeepsFeed
  <2>5. CASE (\E r \in Requests : Notify(r)) /\ UNCHANGED routeVars
    BY <1>1, <2>0, <2>5, NotifyElsewhere, ElsewhereKeepsFeed
  <2>6. ASSUME NEW ids, Die(ids), UNCHANGED routeVars PROVE FeedInv'
    BY <1>1, <2>0, <2>6, RowsStill, DieKeepsFeed
  <2>7. CASE RoutesDie
    BY <1>1, <2>0, <2>7, RoutesDeathKeepsFeed
  <2>8. CASE SubmitDie /\ UNCHANGED routeVars
    BY <2>6, <2>8 DEF SubmitDie
  <2>9. CASE ScheduleDie /\ UNCHANGED routeVars
    BY <2>6, <2>9 DEF ScheduleDie
  <2>10. CASE UNCHANGED <<clientVars, routeVars, submitVars, scheduleVars, permissionVars>>
    BY <1>1, <2>10, StillKeepsFeed
  <2> QED BY <1>1, <2>1, <2>2, <2>3, <2>4, <2>5, <2>6, <2>7, <2>8, <2>9, <2>10 DEF SqlNext
<1> QED BY <1>1, FeedAtStart, WarlogInductive, RowsInductive, PTL DEF SqlSpec

\* A client that polls with the createdAt of its newest message (routes/incidents/chat.ts)
\* misses none, whatever arrives between its polls and however coarse a Date is, unless a
\* page came back full.
THEOREM PollCorrect == SqlSpec => []PollComplete
<1>1. FeedInv => PollComplete
  BY DEF FeedInv
<1> QED BY <1>1, FeedInductive, PTL

\* GET activity (routes/incidents/activity.ts) reads three tables one after the other and
\* cuts what it merged: still nothing that was there when it was asked is left out, unless
\* the answer is full of items whose millisecond is no earlier.  For any limit, rows,
\* requests and grain of a Date.
THEOREM ActivityCorrect == SqlSpec => []ActivityComplete
<1>1. FeedInv => ActivityComplete
  BY DEF FeedInv, Carries, Answered, ActivityComplete
<1> QED BY <1>1, FeedInductive, PTL

\* One place in the queue for each request that waits, and none for others.
LEMMA PlaceInQueue ==
  ASSUME Queued, Waiting, NEW r \in Requests, req[r].at \in Queries \cup Idle
  PROVE  Cardinality({n \in DOMAIN queue : queue[n] = r}) = IF req[r].at \in Queries THEN 1 ELSE 0
<1>1. Queries \cap Idle = {}
  BY DEF Queries, Idle
<1>2. CASE req[r].at \in Queries
  <2>1. PICK n \in DOMAIN queue : queue[n] = r
    BY <1>1, <1>2 DEF Waiting
  <2>2. {m \in DOMAIN queue : queue[m] = r} = {n}
    BY <2>1 DEF Queued
  <2> QED BY <1>2, <2>2, FS_Singleton
<1>3. CASE req[r].at \notin Queries
  <2>1. {m \in DOMAIN queue : queue[m] = r} = {}
    BY <1>3 DEF Queued, Idle
  <2> QED BY <1>3, <2>1, FS_EmptySet
<1> QED BY <1>2, <1>3

\* Types; and every request that awaits a query of the one shared client (dbClient,
\* index.ts) is in its queue exactly once, through deaths and failures: none is lost
\* while it waits, none runs twice.
THEOREM SqlTypeCorrect == SqlSpec => []SqlTypeOK
<1>1. ASSUME WarlogInv, RowsInv, RolesInv, FeedInv PROVE SqlTypeOK
  <2>1. \A r \in Requests : req[r].at \in Queries \cup {"none", "fetch", "done", "lost"}
    BY <1>1 DEF FeedInv, Carries, Idle
  <2>2. chat \in [Requests -> 0..now] /\ cursor \in 0..now
    <3>1. now \in Nat \ {0} /\ chat \in [Requests -> 0..(now - 1)] /\ cursor \in 0..(now - 1)
      BY <1>1 DEF FeedInv, Clock
    <3>2. 0..(now - 1) \subseteq 0..now
      BY <3>1
    <3> QED BY <3>1, <3>2
  <2>3. \A k \in Requests : tasks[k] = NoTask \/ tasks[k].status \in Statuses \cup {"open"}
    BY <1>1 DEF FeedInv, Clock, TaskRows
  <2>4. messages \in [Requests -> {"none", "draft", "submitted"}]
    BY <1>1 DEF WarlogInv, Rows
  <2>5. shifts \in [Requests -> Shift \cup {NoShift}]
    BY <1>1 DEF RowsInv, Tables
  <2>6. stored \in [{Lower(p) : p \in People} -> Ladder \cup {"none"}]
    BY <1>1 DEF RolesInv, Granted
  <2>7. ASSUME NEW r \in Requests
        PROVE  Cardinality({n \in DOMAIN queue : queue[n] = r}) = IF req[r].at \in Queries THEN 1 ELSE 0
    BY <1>1, PlaceInQueue DEF RowsInv, FeedInv, Carries
  <2> QED BY <2>1, <2>2, <2>3, <2>4, <2>5, <2>6, <2>7 DEF SqlTypeOK
<1> QED BY <1>1, WarlogInductive, RowsInductive, RolesInductive, FeedInductive, PTL

=============================================================================
