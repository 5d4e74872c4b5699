------------------------------ MODULE Realtime ------------------------------
(***************************************************************************)
(* realtime-svc (services/realtime-svc/index.js): the state kept per       *)
(* WebSocket connection and the functions enqueue and flush on it.         *)
(*                                                                         *)
(* A notification is the stamp of an incident event, or Notice for a       *)
(* PLAYBOOK_NOTIFY, which every connection receives.  A frame carries the  *)
(* set of stamps a client learns from it; where the code sends a seq it    *)
(* carries the event's id, which is all a client gets to see of a stamp.   *)
(* ws.send hands frames to one FIFO per socket (wire); the send callback   *)
(* may run before or after the client has read the frame.                  *)
(***************************************************************************)
EXTENDS IncidentStore

CONSTANTS
  Clients,    \* WebSocket clients
  Slots,      \* bound: snapshot requests in flight for one connection
  MaxQueue,   \* MAX_QUEUE
  MaxWire     \* bound: frames in one socket's buffers

ASSUME RealtimeAssumption == MaxQueue \in Nat \ {0} /\ MaxWire \in Nat \ {0}

VARIABLES
  listening,  \* LISTEN tactix_events is in force
  conn,       \* conn[c]: the socket and its entry in the clients map
  heard,      \* heard[c]: stamps client c has learnt, from any frame
  last,       \* last[c]: greatest stamp client c received as an event frame
  excused     \* history: stamps the service no longer owes to client c

rtVars == <<listening, conn, heard, last, excused>>

Notice == 0
NoIncident == 0
NoLabel == 0

\* The seq of event n, as its envelope has it; a PLAYBOOK_NOTIFY has none, nor
\* has a client that has read no event yet.
SeqOf(n) == IF n \in Stamps THEN log[n].id ELSE NoLabel

\* A GET /incidents/:id that enqueue or subscribe has started.  label is the seq
\* kept for the answer.  History fields: n, the stamp of the event label was the
\* seq of; cause; and owes, the stamps whose delivery this snapshot stands for.
\* (m is the number of events committed so far.)
Fetch(m) == [phase : {"idle", "asked", "answered"}, inc : Incidents \cup {NoIncident},
             label : Nat, n : 0..m, cause : {"none", "overflow", "subscribe"},
             owes : SUBSET (1..m), body : SUBSET (1..m)]
Idle == [phase |-> "idle", inc |-> NoIncident, label |-> NoLabel, n |-> Notice,
         cause |-> "none", owes |-> {}, body |-> {}]

\* n is the stamp of an event frame's event, and history in a snapshot frame.
Frame(m) == [type : {"event", "snapshot"}, n : 0..m, label : Nat,
             inc : Incidents \cup {NoIncident}, body : SUBSET (1..m)]
EventFrame(n) == [type |-> "event", n |-> n, label |-> NoLabel, inc |-> NoIncident,
                  body |-> {n} \ {Notice}]
SnapshotFrame(f) == [type |-> "snapshot", n |-> f.n, label |-> f.label, inc |-> f.inc,
                     body |-> f.body]

Connection(m) ==
  [status : {"off", "open", "closing"}, sub : Incidents \cup {NoIncident},
   queue : Seq(0..m), sending : BOOLEAN, wire : Seq(Frame(m)), fetch : [Slots -> Fetch(m)]]

Answered(f, incident) == [f EXCEPT !.phase = "answered", !.body = incident]

\* No entry in the clients map.
Off == [status |-> "off", sub |-> NoIncident, queue |-> << >>, sending |-> FALSE,
        wire |-> << >>, fetch |-> [s \in Slots |-> Idle]]

FreeSlots(k) == {s \in Slots : k.fetch[s].phase = "idle"}

\* A request just begun, to be labelled with the seq of event n.
Asked(k, n, owes, cause) ==
  [phase |-> "asked", inc |-> k.sub, label |-> SeqOf(n), n |-> n, cause |-> cause,
   owes |-> owes, body |-> {}]

\* fetch(`${INCIDENT_SVC_URL}/incidents/${state.incidentId}`): the id is read now.
AskSnapshot(k, n, owes, cause) ==
  [k EXCEPT !.fetch[CHOOSE s \in FreeSlots(k) : TRUE] = Asked(k, n, owes, cause)]

\* Seeded fault for Flush: queue[0] is sent but not shifted off.
FlushPeek(k) ==
  IF k.sending \/ k.status # "open" \/ k.queue = << >> THEN k
  ELSE [k EXCEPT !.sending = TRUE, !.wire = Append(@, EventFrame(Head(k.queue)))]

\* flush: one event frame at a time; the next one when the callback has run.
Flush(k) ==
  IF k.sending \/ k.status # "open" \/ k.queue = << >> THEN k
  ELSE [k EXCEPT !.queue = Tail(@), !.sending = TRUE,
                 !.wire = Append(@, EventFrame(Head(k.queue)))]

\* Seeded fault for Overflows: > for >=.
OverflowsLate(k) == Len(k.queue) > MaxQueue

Overflows(k) == Len(k.queue) >= MaxQueue

\* Seeded fault for Enqueue: the full queue is dropped and no snapshot asked for.
EnqueueDropping(k, n) ==
  IF Overflows(k) THEN [k EXCEPT !.queue = << >>]
  ELSE Flush([k EXCEPT !.queue = Append(@, n)])

\* enqueue: a full queue is thrown away, with the event, for a snapshot.
Enqueue(k, n) ==
  IF Overflows(k)
  THEN [AskSnapshot(k, n, (Range(k.queue) \cup {n}) \ {Notice}, "overflow")
          EXCEPT !.queue = << >>]
  ELSE Flush([k EXCEPT !.queue = Append(@, n)])

\* The clients that broadcast selects for a notification.
Wants(k, n) ==
  /\ k.status # "off"
  /\ n = Notice \/ k.sub = log[n].inc

\* Of the stamps ns, those that no snapshot shows.
Unsnapshotted(ns) == {n \in ns : log[n].kind \notin SnapshotKinds}

RtInit ==
  /\ listening = FALSE
  /\ conn = [c \in Clients |-> Off]
  /\ heard = [c \in Clients |-> {}]
  /\ last = [c \in Clients |-> 0]
  /\ excused = [c \in Clients |-> {}]

\* connect().then(LISTEN).  If either fails nothing tries again: the failure is
\* the behaviour in which this step is never taken.
Listen ==
  /\ ~listening
  /\ listening' = TRUE
  /\ UNCHANGED <<conn, heard, last, excused>>

\* The notification handler: broadcast(event), enqueue for each selected client.
\* Bound: an overflowing connection has a free slot.
Broadcast(n) ==
  LET wanting  == {c \in Clients : Wants(conn[c], n)}
      overflow == {c \in wanting : Overflows(conn[c])}
  IN /\ \A c \in overflow : FreeSlots(conn[c]) # {}
     /\ conn' = [c \in Clients |-> IF c \in wanting THEN Enqueue(conn[c], n) ELSE conn[c]]
     /\ excused' = [c \in Clients |->
          IF c \in overflow
          THEN excused[c] \cup Unsnapshotted((Range(conn[c].queue) \cup {n}) \ {Notice})
          ELSE excused[c]]
     /\ UNCHANGED <<listening, heard, last>>

\* wss.on('connection')
Connect(c) ==
  /\ conn[c].status = "off"
  /\ conn' = [conn EXCEPT ![c] = [Off EXCEPT !.status = "open"]]
  /\ UNCHANGED <<listening, heard, last, excused>>

\* A subscribe message with no seq: later events only.
SubscribeFromNow(c, i) ==
  /\ conn[c].status = "open"
  /\ conn' = [conn EXCEPT ![c].sub = i]
  /\ excused' = [excused EXCEPT ![c] = Stamps]
  /\ UNCHANGED <<listening, heard, last>>

\* Seeded fault for SubscribeFromSeq: the fetch starts before incidentId is set.
SubscribeAfterFetch(c, i) ==
  /\ conn[c].status = "open"
  /\ FreeSlots(conn[c]) # {}
  /\ conn' = [conn EXCEPT ![c] =
       [AskSnapshot(@, last[c], Stamps, "subscribe") EXCEPT !.sub = i]]
  /\ excused' = [excused EXCEPT ![c] = Unsnapshotted(Stamps)]
  /\ UNCHANGED <<listening, heard, last>>

\* A subscribe message with the seq of the last event the client has read: a
\* snapshot with that label as well, which stands for every event so far.
SubscribeFromSeq(c, i) ==
  /\ conn[c].status = "open"
  /\ FreeSlots(conn[c]) # {}
  /\ conn' = [conn EXCEPT ![c] =
       AskSnapshot([@ EXCEPT !.sub = i], last[c], Stamps, "subscribe")]
  /\ excused' = [excused EXCEPT ![c] = Unsnapshotted(Stamps)]
  /\ UNCHANGED <<listening, heard, last>>

\* Seeded fault for SendDone: the callback clears sending and does not flush.
SendDoneIdle(c) ==
  /\ conn[c].sending
  /\ Len(conn[c].wire) < MaxWire
  /\ conn' = [conn EXCEPT ![c].sending = FALSE]
  /\ UNCHANGED <<listening, heard, last, excused>>

\* The send callback without an error; waits until the socket has room.
SendDone(c) ==
  /\ conn[c].sending
  /\ Len(conn[c].wire) < MaxWire
  /\ conn' = [conn EXCEPT ![c] = Flush([@ EXCEPT !.sending = FALSE])]
  /\ UNCHANGED <<listening, heard, last, excused>>

\* Seeded fault for SendError: the socket is not closed after a failed send.
SendErrorIgnored(c) ==
  /\ conn[c].sending
  /\ conn[c].status = "open"
  /\ conn' = [conn EXCEPT ![c].sending = FALSE]
  /\ UNCHANGED <<listening, heard, last, excused>>

\* The send callback with an error: ws.close().
SendError(c) ==
  /\ conn[c].sending
  /\ conn[c].status = "open"
  /\ conn' = [conn EXCEPT ![c].sending = FALSE, ![c].status = "closing"]
  /\ UNCHANGED <<listening, heard, last, excused>>

\* Seeded fault for Answer: the incident id is taken when the request is served.
AnswerLateId(c, s) ==
  /\ conn[c].fetch[s].phase = "asked"
  /\ conn' = [conn EXCEPT ![c].fetch[s] = Answered(@, GetIncident(conn[c].sub))]
  /\ UNCHANGED <<listening, heard, last, excused>>

\* incident-svc serves the request of slot s: the incident as it is now.
Answer(c, s) ==
  /\ conn[c].fetch[s].phase = "asked"
  /\ conn' = [conn EXCEPT ![c].fetch[s] = Answered(@, GetIncident(@.inc))]
  /\ UNCHANGED <<listening, heard, last, excused>>

\* The answer arrives: ws.send of the snapshot, past the queue; on a socket that
\* is closing the send does nothing.
SnapshotArrives(c, s) ==
  /\ conn[c].fetch[s].phase = "answered"
  /\ Len(conn[c].wire) < MaxWire
  /\ conn' = [conn EXCEPT ![c].fetch[s] = Idle,
       ![c].wire = IF conn[c].status = "open"
                   THEN Append(@, SnapshotFrame(conn[c].fetch[s])) ELSE @]
  /\ UNCHANGED <<listening, heard, last, excused>>

\* .catch(() => {}): the request or its answer is lost and nobody retries.
SnapshotFails(c, s) ==
  /\ conn[c].fetch[s].phase # "idle"
  /\ conn' = [conn EXCEPT ![c].fetch[s] = Idle]
  /\ excused' = [excused EXCEPT ![c] = @ \cup conn[c].fetch[s].owes]
  /\ UNCHANGED <<listening, heard, last>>

\* The client reads the next frame.
Receive(c) ==
  /\ conn[c].wire # << >>
  /\ conn' = [conn EXCEPT ![c].wire = Tail(@)]
  /\ heard' = [heard EXCEPT ![c] = @ \cup Head(conn[c].wire).body]
  /\ last' = [last EXCEPT ![c] =
       IF Head(conn[c].wire).type = "event" /\ Head(conn[c].wire).n # Notice
       THEN Head(conn[c].wire).n ELSE @]
  /\ UNCHANGED <<listening, excused>>

\* ws.on('close'): the entry goes; the client may connect again.  Answers still
\* to come find a closed socket.
Close(c) ==
  /\ conn[c].status # "off"
  /\ conn' = [conn EXCEPT ![c] = Off]
  /\ UNCHANGED <<listening, heard, last, excused>>

RtRestart ==
  /\ listening' = FALSE
  /\ conn' = [c \in Clients |-> Off]
  /\ UNCHANGED <<heard, last, excused>>

RtTypeOK ==
  /\ listening \in BOOLEAN
  /\ conn \in [Clients -> Connection(Len(log))]
  /\ \A c \in Clients : Len(conn[c].queue) <= MaxQueue
  /\ heard \in [Clients -> SUBSET Stamps]
  /\ last \in [Clients -> 0..Len(log)]
  /\ excused \in [Clients -> SUBSET Stamps]

-----------------------------------------------------------------------------
\* What a connection still holds for its client: the stamps on its socket, in
\* its queue, and those that a snapshot under way for its incident stands for.
Carried(k) == UNION {f.body : f \in Range(k.wire)}
Owing(k) == {s \in Slots : k.fetch[s].phase # "idle" /\ k.fetch[s].inc = k.sub}
Owed(k) == UNION {k.fetch[s].owes : s \in Owing(k)}
Held(k) == Carried(k) \cup Range(k.queue) \cup Owed(k)

\* The event numbers on the wire; a snapshot counts as no number.
Numbers(wire) == [j \in DOMAIN wire |-> IF wire[j].type = "event" THEN wire[j].n ELSE Notice]
=============================================================================
