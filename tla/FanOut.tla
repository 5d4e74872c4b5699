------------------------------- MODULE FanOut -------------------------------
(***************************************************************************)
(* The event pipeline: incident-svc commits and notifies, PostgreSQL       *)
(* carries the notifications, realtime-svc queues and sends them, clients  *)
(* read frames; an overflowing or resuming connection gets a snapshot from *)
(* incident-svc instead.                                                   *)
(***************************************************************************)
EXTENDS Realtime

CONSTANTS
  MaxRestarts,  \* bound: crashes of either service
  MaxNotices    \* bound: PLAYBOOK_NOTIFY notifications waiting in chan

ASSUME FanOutAssumption == MaxRestarts \in Nat /\ MaxNotices \in Nat

VARIABLE restarts

vars == <<storeVars, rtVars, restarts>>

Init == StoreInit /\ RtInit /\ restarts = 0

StoreStep ==
  \/ CreateIncident
  \/ \E i \in Incidents : AddComment(i) \/ ChangeStatus(i) \/ AddAttachment(i)
  \/ DbConnected
  \/ DbConnectFails
  \/ Notify(listening)
  \/ NotifyFails

ConnectionStep(c) ==
  \/ Connect(c)
  \/ \E i \in Incidents : SubscribeFromNow(c, i) \/ SubscribeFromSeq(c, i)
  \/ SendDone(c)
  \/ SendError(c)
  \/ \E s \in Slots : Answer(c, s) \/ SnapshotArrives(c, s) \/ SnapshotFails(c, s)
  \/ Receive(c)
  \/ Close(c)

\* realtime-svc takes the next notification off its session.
Deliver ==
  /\ chan # << >>
  /\ Broadcast(Head(chan))
  /\ chan' = Tail(chan)
  /\ UNCHANGED <<nextIncidentId, content, log, base, dbClient, outbox, missed, restarts>>

\* playbook-svc notifies on a session of its own, between any two others.
PlaybookNotify ==
  /\ listening
  /\ Cardinality({j \in DOMAIN chan : chan[j] = Notice}) < MaxNotices
  /\ chan' = Append(chan, Notice)
  /\ UNCHANGED <<nextIncidentId, content, log, base, dbClient, outbox, missed, rtVars, restarts>>

StoreCrash ==
  /\ restarts < MaxRestarts
  /\ restarts' = restarts + 1
  /\ StoreRestart
  /\ UNCHANGED rtVars

\* Notifications on the old session die with it.
RtCrash ==
  /\ restarts < MaxRestarts
  /\ restarts' = restarts + 1
  /\ RtRestart
  /\ chan' = << >>
  /\ missed' = missed \cup (Range(chan) \ {Notice})
  /\ UNCHANGED <<nextIncidentId, content, log, base, dbClient, outbox>>

Next ==
  \/ StoreStep /\ UNCHANGED <<rtVars, restarts>>
  \/ Listen /\ UNCHANGED <<storeVars, restarts>>
  \/ Deliver
  \/ PlaybookNotify
  \/ \E c \in Clients : ConnectionStep(c) /\ UNCHANGED <<storeVars, restarts>>
  \/ StoreCrash
  \/ RtCrash

Spec == Init /\ [][Next]_vars

-----------------------------------------------------------------------------
TypeOK == StoreTypeOK /\ RtTypeOK /\ restarts \in 0..MaxRestarts

\* The events of the running incident-svc that belong to client c's incident.
Subscribed(c) == {n \in Current : log[n].inc = conn[c].sub}

(***************************************************************************)
(* No event of the incident a client watches goes missing without a cause: *)
(* it is known to the client, on its socket, in its queue, made up for by  *)
(* a snapshot still under way, or still on its way to realtime-svc, unless *)
(* its NOTIFY was lost, the snapshot standing for it failed, no snapshot   *)
(* shows it (attachments), or the client asked only for later events.      *)
(* (enqueue's overflow path and the subscribe handler against commitEvent) *)
(***************************************************************************)
NoGap ==
  \A c \in Clients : conn[c].status = "open" =>
    Subscribed(c) \subseteq heard[c] \cup Held(conn[c]) \cup Range(chan) \cup Range(outbox)
                              \cup missed \cup excused[c]

\* The stages an event number passes on its way to client c, nearest first.
Pipeline(c) == << <<last[c]>>, Numbers(conn[c].wire), conn[c].queue, chan, outbox >>

(***************************************************************************)
(* A client receives event frames in commit order and none twice, also     *)
(* across reconnections and restarts of either service: what is nearer to  *)
(* the client is older, and newest of all it has read was the last frame.  *)
(* (one dbClient, one LISTEN session, queue.push/shift, one send at a time)*)
(***************************************************************************)
EventsInOrder ==
  \A c \in Clients : \A a, b \in 1..5 :
    \A i \in DOMAIN Pipeline(c)[a], j \in DOMAIN Pipeline(c)[b] :
      LET x == Pipeline(c)[a][i]
          y == Pipeline(c)[b][j]
      IN (a < b \/ (a = b /\ i < j)) /\ x # Notice /\ y # Notice => x < y

\* The events of the running process that GET /incidents/i must show.
Visible(i) == {n \in Current : log[n].inc = i /\ log[n].kind \in SnapshotKinds}

\* Those that a client going by the label takes snapshot f to show.
Claimed(f) == {n \in Visible(f.inc) : log[n].id <= f.label}

(***************************************************************************)
(* A snapshot holds all its label claims, for a label that is the number   *)
(* of an event of the incident-svc now running: whoever drops that         *)
(* process's events numbered up to the label after applying the snapshot   *)
(* loses nothing a snapshot can show.  A label from before a restart       *)
(* claims events it knows nothing of: see DeltaCatchUp.                    *)
(* (the label of enqueue is the dropped event's seq, of subscribe the      *)
(* client's own; the content is read later, by another service)            *)
(***************************************************************************)
SnapshotCoversLabel ==
  \A c \in Clients :
    /\ \A f \in Range(conn[c].wire) :
         f.type = "snapshot" /\ f.n \in Current => Claimed(f) \subseteq f.body
    /\ \A s \in Slots : LET f == conn[c].fetch[s] IN
         f.phase = "answered" /\ f.n \in Current => Claimed(f) \subseteq f.body

(***************************************************************************)
(* Snapshot and delta catch-up: with an incident of the running            *)
(* incident-svc in a snapshot, the events numbered above the label are all *)
(* a client still needs.  (the same, wherever the label comes from)        *)
(***************************************************************************)
DeltaCatchUp ==
  \A c \in Clients : \A f \in Range(conn[c].wire) :
    f.type = "snapshot" /\ f.body \cap Current # {} => Claimed(f) \subseteq f.body

(***************************************************************************)
(* Snapshot and delta catch-up: the snapshot taken in place of the events  *)
(* a full queue dropped shows what they did.  (the overflow branch of      *)
(* enqueue)                                                                *)
(***************************************************************************)
CatchUp ==
  \A c \in Clients, s \in Slots : LET f == conn[c].fetch[s] IN
    f.phase = "answered" /\ f.cause = "overflow" =>
      {n \in f.owes \cap Current : log[n].inc = f.inc} \subseteq f.body

(***************************************************************************)
(* A queue never waits for a callback that will not come: on an open       *)
(* socket a non-empty queue has a send outstanding, whose event frame was  *)
(* the last one written.  (the sending flag of enqueue and flush)          *)
(***************************************************************************)
QueueDriven ==
  \A c \in Clients : conn[c].status = "open" /\ conn[c].queue # << >> => conn[c].sending

-----------------------------------------------------------------------------
(***************************************************************************)
(* What makes the above inductive: the stored incidents show exactly their *)
(* events, which are numbered from 1; an answered request shows what it    *)
(* owes, and what no snapshot shows is excused as soon as a snapshot       *)
(* stands for it; a label is the seq of the event it was taken from, and   *)
(* the snapshot shows what was committed up to that event.                 *)
(***************************************************************************)
ContentExact ==
  /\ \A i \in Incidents : content[i] = Visible(i)
  /\ \A n \in Current : log[n].inc < nextIncidentId /\ log[n].id = n - base

OwedShown ==
  \A c \in Clients, s \in Slots : LET f == conn[c].fetch[s] IN
    /\ f.phase # "idle" => Unsnapshotted(f.owes) \subseteq excused[c]
    /\ f.phase = "answered" => Visible(f.inc) \cap f.owes \subseteq f.body

FrameLabelled(f) ==
  f.type = "snapshot" => f.label = SeqOf(f.n) /\ Visible(f.inc) \cap (1..f.n) \subseteq f.body

Labelled ==
  \A c \in Clients :
    /\ \A f \in Range(conn[c].wire) : FrameLabelled(f)
    /\ \A s \in Slots : LET f == conn[c].fetch[s] IN
         /\ f.phase # "idle" => f.label = SeqOf(f.n)
         /\ f.phase = "answered" => Visible(f.inc) \cap (1..f.n) \subseteq f.body

IInv == TypeOK /\ QueueDriven /\ ContentExact /\ OwedShown /\ Labelled /\ NoGap

-----------------------------------------------------------------------------
(***************************************************************************)
(* Fairness.  PostgreSQL answers queries, realtime-svc's event loop serves *)
(* its session, a socket either drains or errors, an HTTP request is       *)
(* answered or fails, a connected client reads.  Users, crashes, playbook  *)
(* runs and Listen are free.  Deliver is strongly fair because the bound   *)
(* on Slots, which the code has not, disables it now and then.             *)
(***************************************************************************)
Fairness ==
  /\ WF_vars((DbConnected \/ DbConnectFails) /\ UNCHANGED <<rtVars, restarts>>)
  /\ WF_vars((Notify(listening) \/ NotifyFails) /\ UNCHANGED <<rtVars, restarts>>)
  /\ SF_vars(Deliver)
  /\ \A c \in Clients :
       /\ WF_vars((SendDone(c) \/ SendError(c)) /\ UNCHANGED <<storeVars, restarts>>)
       /\ WF_vars(Receive(c) /\ UNCHANGED <<storeVars, restarts>>)
       /\ \A s \in Slots :
            WF_vars((Answer(c, s) \/ SnapshotArrives(c, s) \/ SnapshotFails(c, s))
                      /\ UNCHANGED <<storeVars, restarts>>)

FairSpec == Spec /\ Fairness

\* Client c no longer waits for n, or never will be told.
Settled(c, n) ==
  \/ n \in heard[c] \cup missed \cup excused[c]
  \/ conn[c].status # "open"
  \/ n \notin Subscribed(c)

(***************************************************************************)
(* Every event of the watched incident reaches the client in the end, as   *)
(* an event or inside a snapshot, unless it was lost for one of the causes *)
(* NoGap names or the client left.                                         *)
(***************************************************************************)
EventuallyHeard ==
  \A c \in Clients : \A n \in 1..MaxEvents : (n \in Subscribed(c)) ~> Settled(c, n)
=============================================================================
