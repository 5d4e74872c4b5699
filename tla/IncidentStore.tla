---------------------------- MODULE IncidentStore ----------------------------
(***************************************************************************)
(* incident-svc (services/incident-svc/src/index.ts): the in-memory        *)
(* incidents and events of the write routes, and the NOTIFY that           *)
(* commitEvent queues for each event on the one PostgreSQL client.         *)
(*                                                                         *)
(* An event is named by its stamp, its position in log, which is never     *)
(* reset.  The code knows only its id: the arrays and the id counters live *)
(* in memory, so ids start again at 1 after a restart.                     *)
(*                                                                         *)
(* Abstractions.  Each route allocates the id, changes the incident,       *)
(* pushes the event and queues the NOTIFY without an await in between, so  *)
(* one request is one step; the HTTP answer it sends afterwards changes no *)
(* state.  An incident's content is the set of stamps whose effect its     *)
(* object shows.  Attachment rows and bytes are not part of the incident   *)
(* object and nothing modelled reads them, so they are left out.           *)
(***************************************************************************)
EXTENDS Integers, Sequences, FiniteSets, Functions

CONSTANTS
  MaxIncidents,   \* bound: incident ids are 1..MaxIncidents
  MaxEvents,      \* bound: events committed over the whole behaviour
  Routes          \* bound: the kinds of event whose routes are called

\* The state of GET /incidents/:id: comments, status and the creation fields.
\* ATTACHMENT_ADDED leaves no trace in the incident object.
SnapshotKinds == {"CREATED", "COMMENT_ADDED", "STATUS_CHANGED"}
Kinds == SnapshotKinds \cup {"ATTACHMENT_ADDED"}

ASSUME StoreAssumption ==
  MaxIncidents \in Nat \ {0} /\ MaxEvents \in Nat /\ Routes \subseteq Kinds

VARIABLES
  nextIncidentId, \* ids below it are in the incidents array
  content,        \* content[i]: stamps whose effect GET /incidents/i returns
  log,            \* every event ever committed, over all restarts
  base,           \* Len(log) at the last restart: what precedes the events array
  dbClient,       \* "connecting", "up" or "null"
  outbox,         \* NOTIFY queries queued on dbClient, oldest first
  chan,           \* notifications PostgreSQL holds for realtime-svc's session
  missed          \* history: stamps whose NOTIFY reached no listening session

storeVars == <<nextIncidentId, content, log, base, dbClient, outbox, chan, missed>>

Incidents == 1..MaxIncidents

Stamps == 1..Len(log)
\* Stamps of the events array of the running process.
Current == (base + 1)..Len(log)

\* nextEventId, the id the next event gets: events.length + 1.
nextEventId == Len(log) + 1 - base

Exists(i) == i \in 1..(nextIncidentId - 1)

\* What GET /incidents/:id answers: the incident, or 404 with an empty object.
GetIncident(i) == IF Exists(i) THEN content[i] ELSE {}

StoreInit ==
  /\ nextIncidentId = 1
  /\ content = [i \in Incidents |-> {}]
  /\ log = << >>
  /\ base = 0
  /\ dbClient = "connecting"
  /\ outbox = << >>
  /\ chan = << >>
  /\ missed = {}

\* commitEvent: push the event; if there is a client, queue its NOTIFY.
CommitEvent(i, kind) ==
  /\ Len(log) < MaxEvents /\ kind \in Routes
  /\ log' = Append(log, [inc |-> i, kind |-> kind, id |-> nextEventId])
  /\ \/ /\ dbClient # "null"
        /\ outbox' = Append(outbox, Len(log) + 1)
        /\ UNCHANGED missed
     \/ /\ dbClient = "null"
        /\ missed' = missed \cup {Len(log) + 1}
        /\ UNCHANGED outbox
  /\ UNCHANGED <<base, dbClient, chan>>

\* POST /incidents
CreateIncident ==
  /\ nextIncidentId \in Incidents
  /\ nextIncidentId' = nextIncidentId + 1
  /\ content' = [content EXCEPT ![nextIncidentId] = {Len(log) + 1}]
  /\ CommitEvent(nextIncidentId, "CREATED")

\* Seeded fault for AddComment: the event goes out, incident.comments does not change.
AddCommentUnapplied(i) ==
  /\ Exists(i)
  /\ CommitEvent(i, "COMMENT_ADDED")
  /\ UNCHANGED <<nextIncidentId, content>>

\* POST /incidents/:id/comment
AddComment(i) ==
  /\ Exists(i)
  /\ content' = [content EXCEPT ![i] = @ \cup {Len(log) + 1}]
  /\ CommitEvent(i, "COMMENT_ADDED")
  /\ UNCHANGED nextIncidentId

\* POST /incidents/:id/status, once requireRole has let the request through
ChangeStatus(i) ==
  /\ Exists(i)
  /\ content' = [content EXCEPT ![i] = @ \cup {Len(log) + 1}]
  /\ CommitEvent(i, "STATUS_CHANGED")
  /\ UNCHANGED nextIncidentId

\* POST /incidents/:id/attachments.  The await on the upload falls between
\* the existence check and the commit; incidents are never removed, so the
\* check still holds afterwards.
AddAttachment(i) ==
  /\ Exists(i)
  /\ CommitEvent(i, "ATTACHMENT_ADDED")
  /\ UNCHANGED <<nextIncidentId, content>>

\* createServer's connect() succeeds, or fails and sets dbClient to null; the
\* queries queued until then are rejected and commitEvent swallows that.
DbConnected ==
  /\ dbClient = "connecting"
  /\ dbClient' = "up"
  /\ UNCHANGED <<nextIncidentId, content, log, base, outbox, chan, missed>>

DbConnectFails ==
  /\ dbClient = "connecting"
  /\ dbClient' = "null"
  /\ outbox' = << >>
  /\ missed' = missed \cup Range(outbox)
  /\ UNCHANGED <<nextIncidentId, content, log, base, chan>>

\* The oldest queued NOTIFY runs: it reaches realtime-svc's session if that
\* session is listening, and nobody otherwise.
Notify(listening) ==
  /\ dbClient = "up"
  /\ outbox # << >>
  /\ outbox' = Tail(outbox)
  /\ \/ /\ listening
        /\ chan' = Append(chan, Head(outbox))
        /\ UNCHANGED missed
     \/ /\ ~listening
        /\ missed' = missed \cup {Head(outbox)}
        /\ UNCHANGED chan
  /\ UNCHANGED <<nextIncidentId, content, log, base, dbClient>>

\* The NOTIFY query fails and commitEvent ignores the failure.
NotifyFails ==
  /\ dbClient = "up"
  /\ outbox # << >>
  /\ outbox' = Tail(outbox)
  /\ missed' = missed \cup {Head(outbox)}
  /\ UNCHANGED <<nextIncidentId, content, log, base, dbClient, chan>>

\* The process dies and a new one starts: nothing was persisted.
StoreRestart ==
  /\ nextIncidentId' = 1
  /\ content' = [i \in Incidents |-> {}]
  /\ base' = Len(log)
  /\ dbClient' = "connecting"
  /\ outbox' = << >>
  /\ missed' = missed \cup Range(outbox)
  /\ UNCHANGED <<log, chan>>

StoreTypeOK ==
  /\ nextIncidentId \in 1..(MaxIncidents + 1)
  /\ log \in Seq([inc : Incidents, kind : Kinds, id : Nat])
  /\ content \in [Incidents -> SUBSET Stamps]
  /\ base \in 0..Len(log)
  /\ dbClient \in {"connecting", "up", "null"}
  /\ outbox \in Seq(Stamps)
  /\ chan \in Seq(0..Len(log))
  /\ missed \in SUBSET Stamps
=============================================================================
