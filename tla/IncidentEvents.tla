--------------------------- MODULE IncidentEvents ---------------------------
(***************************************************************************)
(* The event-sourced incident service (services/incident): each request    *)
(* loads the incident's rows from incidents_events, rebuilds the incident, *)
(* decides, and appends one row.  Requests interleave at every await, and  *)
(* no query is guarded by a transaction, a version or a unique constraint. *)
(*                                                                         *)
(* A request is a model value used once; a message is named by the request *)
(* that posts it.  Assumption: the millisecond clock stamped on rows has   *)
(* moved on by the time a client acts on an answer, and never goes back;   *)
(* rows of concurrent requests may carry the same stamp.                   *)
(* Incident.update and the status Closed are reached from no route.        *)
(***************************************************************************)
EXTENDS Integers, SequencesExt

CONSTANTS
  Ids,      \* the ids randomUUID may return
  Requests  \* bound: the HTTP requests of a behaviour

ASSUME EventsAssumption == IsFiniteSet(Requests)

VARIABLES
  rows,  \* table incidents_events
  clock, \* Date.now()
  req    \* req[r]: the handler of request r

vars == <<rows, clock, req>>

None == "none"
NoRow == [type |-> None, inc |-> None, req |-> None, ts |-> 0]

\* due is a history field: the requests about the same incident that had been
\* acknowledged when this one was sent.
Unsent == [phase |-> "unsent", op |-> None, inc |-> None, due |-> {}, seen |-> << >>, row |-> NoRow]

\* Incident.from: apply folded over the events.  The last creation or submission
\* decides the status; a message is named by its request, and the messages stand in
\* the order of their places in the history.
From(events) ==
  LET After(k, type) == \E l \in DOMAIN events : l > k /\ events[l].type = type
      added == {k \in DOMAIN events : events[k].type = "MessageAdded"}
  IN [status   |-> IF \E k \in DOMAIN events :
                        events[k].type = "IncidentSubmitted" /\ ~After(k, "IncidentCreated")
                   THEN "Submitted" ELSE "Draft",
      messages |-> [k \in added |-> events[k].req]]

\* Seeded fault for Refused: the last event alone is asked.
RefusedByLast(r) ==
  LET events == req[r].seen
  IN req[r].op = "submit" /\ events # << >> /\ events[Len(events)].type = "IncidentSubmitted"

\* Incident.submit throws unless the incident is a draft.
Refused(r) == req[r].op = "submit" /\ From(req[r].seen).status # "Draft"

\* What the answer shows: the loaded incident, with the handler's own event.
Body(r) == From(IF req[r].row = NoRow THEN req[r].seen ELSE Append(req[r].seen, req[r].row))

EventType(op) == CASE op = "create" -> "IncidentCreated" [] op = "message" -> "MessageAdded"
                   [] op = "submit" -> "IncidentSubmitted"
NewRow(r, op, i) == [type |-> EventType(op), inc |-> i, req |-> r, ts |-> clock]

RowsOf(i) == {e \in rows : e.inc = i}
Acknowledged(i) == {q \in Requests : req[q].inc = i /\ req[q].phase = "answered" /\ req[q].row # NoRow}
Known(i) == \E q \in Acknowledged(i) : req[q].op = "create"
Used(i) == \E q \in Requests : req[q].inc = i

Init ==
  /\ rows = {}
  /\ clock = 1
  /\ req = [r \in Requests |-> Unsent]

\* POST /incidents: a fresh id, nothing to load; store.append starts.
Create(r, i) ==
  /\ req[r].phase = "unsent"
  /\ ~Used(i)
  /\ req' = [req EXCEPT ![r] = [Unsent EXCEPT !.phase = "appending", !.op = "create",
                                              !.inc = i, !.row = NewRow(r, "create", i)]]
  /\ UNCHANGED <<rows, clock>>

\* GET /incidents/:id, POST /incidents/:id/messages, POST /incidents/:id/submit.
\* A client has the id from the answer to its creation, or it made one up.
Send(r, op, i) ==
  /\ req[r].phase = "unsent"
  /\ Known(i) \/ ~Used(i)
  /\ req' = [req EXCEPT ![r] = [Unsent EXCEPT !.phase = "loading", !.op = op,
                                              !.inc = i, !.due = Acknowledged(i)]]
  /\ UNCHANGED <<rows, clock>>

\* Seeded fault for LoadResults: no ORDER BY.
UnorderedResults(i) == SetToSeqs(RowsOf(i))

\* PgEventStore.load: ORDER BY timestamp ASC; equal stamps come in any order.
LoadResults(i) ==
  {s \in SetToSeqs(RowsOf(i)) : \A a, b \in DOMAIN s : a < b => s[a].ts <= s[b].ts}

\* The database runs the SELECT.
Load(r) ==
  /\ req[r].phase = "loading"
  /\ \E s \in LoadResults(req[r].inc) : req' = [req EXCEPT ![r].phase = "loaded", ![r].seen = s]
  /\ UNCHANGED <<rows, clock>>

\* No events: 404.
NotFound(r) ==
  /\ req[r].phase = "loaded"
  /\ req[r].seen = << >>
  /\ req' = [req EXCEPT ![r].phase = "notFound"]
  /\ UNCHANGED <<rows, clock>>

\* submit throws: next(err).
Refuse(r) ==
  /\ req[r].phase = "loaded"
  /\ req[r].seen # << >>
  /\ Refused(r)
  /\ req' = [req EXCEPT ![r].phase = "error"]
  /\ UNCHANGED <<rows, clock>>

\* GET: 200 with the incident.
Show(r) ==
  /\ req[r].phase = "loaded"
  /\ req[r].seen # << >>
  /\ req[r].op = "get"
  /\ req' = [req EXCEPT ![r].phase = "answered"]
  /\ UNCHANGED <<rows, clock>>

\* Seeded faults for Decide: the test for an empty history is missing; the
\* answer does not wait for store.append.
DecideUnfound(r) ==
  /\ req[r].phase = "loaded"
  /\ req[r].op # "get"
  /\ ~Refused(r)
  /\ req' = [req EXCEPT ![r].phase = "appending", ![r].row = NewRow(r, req[r].op, req[r].inc)]
  /\ UNCHANGED <<rows, clock>>

DecideUnawaited(r) ==
  /\ req[r].phase = "loaded"
  /\ req[r].seen # << >>
  /\ req[r].op # "get"
  /\ ~Refused(r)
  /\ req' = [req EXCEPT ![r].phase = "answered", ![r].row = NewRow(r, req[r].op, req[r].inc)]
  /\ clock' = clock + 1
  /\ UNCHANGED rows

\* A message, or the submission of a draft: store.append starts.
Decide(r) ==
  /\ req[r].phase = "loaded"
  /\ req[r].seen # << >>
  /\ req[r].op # "get"
  /\ ~Refused(r)
  /\ req' = [req EXCEPT ![r].phase = "appending", ![r].row = NewRow(r, req[r].op, req[r].inc)]
  /\ UNCHANGED <<rows, clock>>

\* The database runs the INSERT, possibly after the service gave it up.
Insert(r) ==
  /\ req[r].row # NoRow
  /\ req[r].row \notin rows
  /\ rows' = rows \cup {req[r].row}
  /\ req' = [req EXCEPT ![r].phase = IF @ = "appending" THEN "appended" ELSE @]
  /\ UNCHANGED clock

\* store.append resolves: 201 or 200 with the incident.
Acknowledge(r) ==
  /\ req[r].phase = "appended"
  /\ req' = [req EXCEPT ![r].phase = "answered"]
  /\ clock' = clock + 1
  /\ UNCHANGED rows

\* A query fails, on its way there or back: next(err).
Fail(r) ==
  /\ req[r].phase \in {"loading", "loaded", "appending", "appended"}
  /\ req' = [req EXCEPT ![r].phase = "error"]
  /\ UNCHANGED <<rows, clock>>

Next == \E r \in Requests :
  \/ \E i \in Ids : Create(r, i) \/ \E op \in {"get", "message", "submit"} : Send(r, op, i)
  \/ Load(r) \/ NotFound(r) \/ Refuse(r) \/ Show(r) \/ Decide(r)
  \/ Insert(r) \/ Acknowledge(r) \/ Fail(r)

Spec == Init /\ [][Next]_vars

-----------------------------------------------------------------------------
Answered(r) == req[r].phase = "answered"

(***************************************************************************)
(* Read your writes: an answer shows every message and the submission that *)
(* had been acknowledged when its request was sent, and an incident whose  *)
(* creation was acknowledged is found.  (await store.append before the     *)
(* answer, load and from in every handler)                                 *)
(***************************************************************************)
Reflects ==
  \A r \in Requests :
    /\ req[r].phase = "notFound" => req[r].due = {}
    /\ Answered(r) => \A q \in req[r].due :
         /\ req[q].op = "message" => q \in Range(Body(r).messages)
         /\ req[q].op = "submit" => Body(r).status = "Submitted"

(***************************************************************************)
(* An answer lists messages in an order clients can have seen: none stands *)
(* before one that was acknowledged before it was sent.  (ORDER BY         *)
(* timestamp, the stamp taken in append, the own message pushed last)      *)
(***************************************************************************)
MessagesInOrder ==
  \A r \in Requests : Answered(r) =>
    LET shown == Body(r).messages
    IN \A a, b \in DOMAIN shown : a < b => shown[b] \notin req[shown[a]].due

\* The status an incident's rows amount to: a submission decides it unless a
\* creation may be read after it.
Stored(i) ==
  LET Overwritten(e) == \E f \in RowsOf(i) : f.type = "IncidentCreated" /\ e.ts <= f.ts
  IN IF RowsOf(i) = {} THEN "none"
     ELSE IF \E e \in RowsOf(i) : e.type = "IncidentSubmitted" /\ ~Overwritten(e)
          THEN "Submitted" ELSE "Draft"

Lifecycle == INSTANCE IncidentLifecycle WITH
  Messages <- Requests,
  status <- [i \in Ids |-> Stored(i)],
  posted <- [i \in Ids |-> {e.req : e \in {e \in RowsOf(i) : e.type = "MessageAdded"}}]

(***************************************************************************)
(* The rows implement IncidentLifecycle: created once, messages only added *)
(* and only to an existing incident, submitted from draft and for good.    *)
(***************************************************************************)
LifecycleImplemented == Lifecycle!LifecycleSpec

(***************************************************************************)
(* Only draft incidents can be submitted: of all submissions of an         *)
(* incident at most one is answered with success.  (Incident.submit)       *)
(***************************************************************************)
SubmittedOnce ==
  \A i \in Ids : \A r, q \in Requests :
    {r, q} \subseteq Acknowledged(i) /\ req[r].op = "submit" /\ req[q].op = "submit" => r = q

(***************************************************************************)
(* So much of it is true: a submission that gets past the check was sent   *)
(* before any other submission of the incident had been acknowledged, also *)
(* if it hung or failed later on.  (submit on the history that was loaded) *)
(***************************************************************************)
TwiceOnlyByRace ==
  \A r \in Requests : req[r].op = "submit" /\ req[r].row # NoRow =>
    \A q \in req[r].due : req[q].op # "submit"
=============================================================================
