--------------------------- MODULE IncidentRoutes ---------------------------
(***************************************************************************)
(* incident-svc, routes/incidents: chat, tasks and activity of one         *)
(* incident, whose tables are assumed to be as the queries name them.      *)
(* Texts, authors, titles and assignees are left out: nothing decides on   *)
(* them.  A patch that changes only those is a patch to the same status.   *)
(***************************************************************************)
EXTENDS DbClient

CONSTANTS
  Statuses,  \* the task statuses a PATCH asks for
  Limit,     \* the limit of a poll and of an activity request
  Grain      \* how many instants of PostgreSQL's clock share a millisecond

ASSUME RoutesAssumption == Limit \in Nat \ {0} /\ Grain \in Nat \ {0}

VARIABLES
  now,    \* the clock; it has moved on at every step
  chat,   \* incident_chat_messages: created_at of each row, 0 where there is none
  tasks,  \* incident_tasks
  cursor, \* the client's newest createdAt, as JSON shows it
  seen,   \* the chat messages it was given
  cut     \* history: a poll came back full

routeVars == <<now, chat, tasks, cursor, seen, cut>>

NoTask == [status |-> "none", updated |-> 0]

RoutesInit ==
  /\ now = 1
  /\ chat = [r \in Requests |-> 0]
  /\ tasks = [r \in Requests |-> NoTask]
  /\ cursor = 0
  /\ seen = {}
  /\ cut = FALSE

Notice(type, id, status) == [type |-> type, id |-> id, status |-> status]
ChatRows == {m \in Requests : chat[m] # 0}
TaskRows == {k \in Requests : tasks[k] # NoTask}

----------------------------------------------------------------------------
\* Chat.  created_at is the database's clock, in microseconds.

PostChat(r) == Begin(r, "chat", "insertChat", Nothing) /\ UNCHANGED routeVars

ChatRow(r) == Runs(r, "insertChat") /\ chat' = [chat EXCEPT ![r] = now] /\ now' = now + 1

InsertChat(r) ==
  /\ ChatRow(r)
  /\ Continue(r, "notify", Nothing, Notice("INCIDENT_CHAT", r, "none"))
  /\ UNCHANGED <<tasks, cursor, seen, cut>>

\* Seeded fault: milliseconds rounded up.
MillisUp(t) == ((t + Grain - 1) \div Grain) * Grain

\* A Date keeps milliseconds, rounded down.
Millis(t) == (t \div Grain) * Grain

\* GET chat?since=..., by a client that asks for what follows the newest message it has.
PollChat(r) == Begin(r, "poll", "selectChat", [since |-> cursor]) /\ UNCHANGED routeVars

\* ORDER BY created_at DESC LIMIT: the newest of a set of rows, which no two of
\* them share a microsecond.
Newest(ids, at) == {i \in ids : Cardinality({j \in ids : at[j] > at[i]}) < Limit}

NewChat(since) == {m \in ChatRows : chat[m] > since}

SelectChat(r) ==
  LET page == Newest(NewChat(req[r].arg.since), chat) IN
  /\ Runs(r, "selectChat")
  /\ Release(r)
  /\ seen' = seen \cup page
  /\ cut' = (cut \/ page # NewChat(req[r].arg.since))
  /\ cursor' = CHOOSE t \in {cursor} \cup {Millis(chat[m]) : m \in page} :
                 \A m \in page : Millis(chat[m]) <= t /\ cursor <= t
  /\ UNCHANGED <<now, chat, tasks>>

----------------------------------------------------------------------------
\* Tasks.  created_at and updated_at are the process's clock when the handler ran,
\* a Date: nothing compares them but activity, which rounds them with the others.

PostTask(r) == Begin(r, "task", "insertTask", [at |-> now]) /\ now' = now + 1
               /\ UNCHANGED <<chat, tasks, cursor, seen, cut>>

TaskRow(r) == /\ Runs(r, "insertTask")
              /\ tasks' = [tasks EXCEPT ![r] = [status |-> "open", updated |-> req[r].arg.at]]

InsertTask(r) ==
  /\ TaskRow(r)
  /\ Continue(r, "notify", req[r].arg, Notice("INCIDENT_TASK_CREATED", r, "open"))
  /\ UNCHANGED <<now, chat, cursor, seen, cut>>

PatchTask(r, id, status) ==
  /\ Begin(r, "patch", "updateTask", [id |-> id, status |-> status, at |-> now])
  /\ now' = now + 1
  /\ UNCHANGED <<chat, tasks, cursor, seen, cut>>

PatchEmpty(r) == Refuse(r, "patch", Nothing, Code(200)) /\ UNCHANGED routeVars

PatchRow(r) == 
  LET p == req[r].arg IN
  /\ Runs(r, "updateTask")
  /\ tasks' = IF tasks[p.id] = NoTask THEN tasks
              ELSE [tasks EXCEPT ![p.id] = [status |-> p.status, updated |-> p.at]]

\* Seeded fault: the notice shows the row as it was.
UpdateTaskOld(r) ==
  LET p == req[r].arg IN
  /\ PatchRow(r)
  /\ IF tasks[p.id] = NoTask THEN Finish(r, Code(404))
     ELSE Continue(r, "notify", p, Notice("INCIDENT_TASK_UPDATED", p.id, tasks[p.id].status))
  /\ UNCHANGED <<now, chat, cursor, seen, cut>>

UpdateTask(r) ==
  LET p == req[r].arg IN
  /\ PatchRow(r)
  /\ IF tasks[p.id] = NoTask THEN Finish(r, Code(404))
     ELSE Continue(r, "notify", p, Notice("INCIDENT_TASK_UPDATED", p.id, p.status))
  /\ UNCHANGED <<now, chat, cursor, seen, cut>>

----------------------------------------------------------------------------
\* Activity: three SELECTs, merged, newest first, cut at the limit.  Nothing in
\* src writes the second table, incident_messages.  arg: what there was when the
\* request came (history) and what has been read.

Stamps(c, t) == [x \in ({"chat"} \X {m \in Requests : c[m] # 0})
                       \cup ({"task"} \X {k \in Requests : t[k] # NoTask}) |->
                   IF x[1] = "chat" THEN c[x[2]] ELSE t[x[2]].updated]

NoTasks == [r \in Requests |-> NoTask]

GetActivity(r) ==
  /\ Begin(r, "activity", "activityChat", [asked |-> Stamps(chat, tasks), chat |-> chat])
  /\ UNCHANGED routeVars

ReadChat(r) == /\ Runs(r, "activityChat")
               /\ Continue(r, "activityWarlog", [req[r].arg EXCEPT !.chat = chat], Nothing)
               /\ UNCHANGED routeVars

ReadWarlog(r) == /\ Runs(r, "activityWarlog")
                 /\ Continue(r, "activityTasks", req[r].arg, Nothing)
                 /\ UNCHANGED routeVars

\* What is sorted: the rows read, each with its getTime().
Items(c, t) == LET all == Stamps(c, t) IN [x \in DOMAIN all |-> Millis(all[x])]

\* Where x comes before y in any case.  The sort is stable and chat is listed
\* first, but rows of one table come in no order of their own.
SortsBefore(all, x, y) ==
  \/ all[x] > all[y]
  \/ all[x] = all[y] /\ x[1] = "chat" /\ y[1] = "task"

\* slice(0, limit): how much of the items is left.
Pages(S) == IF Cardinality(S) <= Limit THEN {S} ELSE {s \in SUBSET S : Cardinality(s) = Limit}

\* Seeded fault: sorted the other way before the cut.
CutOldest(all) ==
  {s \in Pages(DOMAIN all) : \A x \in s, y \in DOMAIN all \ s : ~SortsBefore(all, x, y)}

\* items.sort(...).slice(0, limit): what may be left.
Cut(all) ==
  {s \in Pages(DOMAIN all) : \A x \in s, y \in DOMAIN all \ s : ~SortsBefore(all, y, x)}

ReadTasks(r) ==
  LET all == Items(req[r].arg.chat, tasks) IN
  /\ Runs(r, "activityTasks")
  /\ \E left \in Cut(all) :
       Finish(r, [asked |-> req[r].arg.asked, items |-> [x \in left |-> all[x]]])
  /\ UNCHANGED routeVars

----------------------------------------------------------------------------
RoutesNext ==
  \/ \E r \in Requests :
       \/ PostChat(r) \/ InsertChat(r) \/ PollChat(r) \/ SelectChat(r)
       \/ PostTask(r) \/ InsertTask(r) \/ PatchEmpty(r) \/ UpdateTask(r)
       \/ GetActivity(r) \/ ReadChat(r) \/ ReadWarlog(r) \/ ReadTasks(r)
       \/ \E id \in TaskRows \cup {r}, s \in Statuses : PatchTask(r, id, s) \* r: no such task

\* The process ends with its last query run.
RoutesDie ==
  \E r \in Requests :
    \/ ChatRow(r) /\ Die({r}) /\ UNCHANGED <<tasks, cursor, seen, cut>>
    \/ TaskRow(r) /\ Die({r}) /\ UNCHANGED <<now, chat, cursor, seen, cut>>
    \/ PatchRow(r) /\ Die({req[r].arg.id}) /\ UNCHANGED <<now, chat, cursor, seen, cut>>

----------------------------------------------------------------------------
\* The status the notices gave for a task is the status of the row, once every
\* change was told: updates of one task are told in the order they were made.
TaskViewAgrees ==
  \A k \in TaskRows : Told(k) => NoticesOf(k) # {} /\ Believed(k).status = tasks[k].status

\* A client that polls with its newest message's time has every message up to
\* that time, unless more came at once than a page holds.
PollComplete == \A m \in ChatRows : chat[m] <= cursor /\ ~cut => m \in seen

\* What existed when activity was asked for is in the answer, or the answer is full
\* of items whose millisecond is no earlier: of the rows of one millisecond the cut
\* may leave out a newer one.
ActivityComplete ==
  \A r \in Requests : req[r].kind = "activity" /\ req[r].at = "done" =>
    LET asked == req[r].ans.asked  items == req[r].ans.items IN
    \A x \in DOMAIN asked :
      \/ x \in DOMAIN items
      \/ Cardinality(DOMAIN items) >= Limit /\ \A y \in DOMAIN items : items[y] >= Millis(asked[x])
=============================================================================
