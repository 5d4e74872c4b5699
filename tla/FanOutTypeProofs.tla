-------------------------- MODULE FanOutTypeProofs --------------------------
(***************************************************************************)
(* Type correctness of FanOut for every value of its constants.            *)
(***************************************************************************)
EXTENDS FanOut, SequenceTheorems, TLAPS

(***************************************************************************)
(* The functions of realtime-svc on one connection keep its type.          *)
(***************************************************************************)
LEMMA RangeType ==
  ASSUME NEW S, NEW q \in Seq(S)
  PROVE  Range(q) \subseteq S
BY LenProperties, ElementOfSeq DEF Range

LEMMA IdleType == \A m \in Nat : Idle \in Fetch(m)
BY DEF Idle, Fetch, NoIncident, NoLabel, Notice

LEMMA OffType == \A m \in Nat : Off \in Connection(m)
BY IdleType DEF Off, Connection, NoIncident

LEMMA OffQueue == Len(Off.queue) <= MaxQueue
<1>1. Off.queue = << >>
  BY DEF Off
<1>2. Len(<< >>) = 0
  OBVIOUS
<1>3. QED BY <1>1, <1>2, RealtimeAssumption

LEMMA AnsweredType ==
  ASSUME NEW m \in Nat, NEW f \in Fetch(m), NEW incident \in SUBSET (1..m)
  PROVE  Answered(f, incident) \in Fetch(m)
BY DEF Answered, Fetch

LEMMA EventFrameType == \A m \in Nat : \A n \in 0..m : EventFrame(n) \in Frame(m)
BY DEF EventFrame, Frame, NoIncident, Notice, NoLabel

LEMMA SnapshotFrameType == \A m \in Nat : \A f \in Fetch(m) : SnapshotFrame(f) \in Frame(m)
BY DEF SnapshotFrame, Frame, Fetch

LEMMA ConnectionParts ==
  ASSUME NEW m \in Nat, NEW k \in Connection(m)
  PROVE  /\ k.status \in {"off", "open", "closing"}
         /\ k.sub \in Incidents \cup {NoIncident}
         /\ k.queue \in Seq(0..m)
         /\ k.sending \in BOOLEAN
         /\ k.wire \in Seq(Frame(m))
         /\ k.fetch \in [Slots -> Fetch(m)]
BY DEF Connection

LEMMA QueueType ==
  ASSUME NEW m \in Nat, NEW k \in Connection(m), NEW q \in Seq(0..m)
  PROVE  /\ [k EXCEPT !.queue = q] \in Connection(m)
         /\ [k EXCEPT !.queue = q].queue = q
BY DEF Connection

LEMMA FlushType ==
  ASSUME NEW m \in Nat, NEW k \in Connection(m)
  PROVE  /\ Flush(k) \in Connection(m)
         /\ Len(Flush(k).queue) <= Len(k.queue)
<1>1. CASE k.sending \/ k.status # "open" \/ k.queue = << >>
  BY <1>1 DEF Flush, Connection
<1>2. CASE ~(k.sending \/ k.status # "open" \/ k.queue = << >>)
  <2>0. k.queue \in Seq(0..m) /\ k.queue # << >>
    BY <1>2, ConnectionParts
  <2>1. /\ Head(k.queue) \in 0..m
        /\ Tail(k.queue) \in Seq(0..m)
        /\ Len(Tail(k.queue)) <= Len(k.queue)
    <3> DEFINE S == 0..m
    <3> HIDE DEF S
    <3>1. k.queue \in Seq(S)
      BY <2>0 DEF S
    <3>2. /\ Head(k.queue) \in S
          /\ Tail(k.queue) \in Seq(S)
          /\ Len(Tail(k.queue)) <= Len(k.queue)
      BY <2>0, <3>1, HeadTailProperties, LenProperties
    <3>3. QED BY <3>2 DEF S
  <2>2. Append(k.wire, EventFrame(Head(k.queue))) \in Seq(Frame(m))
    BY <2>1, EventFrameType, ConnectionParts
  <2>3. QED
    BY <1>2, <2>1, <2>2, ConnectionParts DEF Flush, Connection
<1>3. QED BY <1>1, <1>2

\* What is sent as a seq is a number.
SeqNat == \A n : SeqOf(n) \in Nat

LEMMA SeqOfType == TypeOK => SeqNat
<1> SUFFICES ASSUME TypeOK, NEW n PROVE SeqOf(n) \in Nat
  BY DEF SeqNat
<1>1. ASSUME n \in Stamps PROVE log[n].id \in Nat
  <2>1. log \in Seq([inc : Incidents, kind : Kinds, id : Nat]) /\ n \in 1..Len(log)
    BY <1>1 DEF Stamps, TypeOK, StoreTypeOK
  <2>2. log[n] \in [inc : Incidents, kind : Kinds, id : Nat]
    BY <2>1, ElementOfSeq
  <2>3. QED BY <2>2
<1>2. QED BY <1>1 DEF SeqOf, NoLabel

LEMMA AskType ==
  ASSUME NEW m \in Nat, NEW k \in Connection(m), FreeSlots(k) # {},
         NEW n \in 0..m, NEW owes \in SUBSET (1..m),
         NEW cause \in {"overflow", "subscribe"}, SeqNat
  PROVE  AskSnapshot(k, n, owes, cause) \in Connection(m)
<1> DEFINE s == CHOOSE s \in FreeSlots(k) : TRUE
<1>1. s \in Slots
  BY DEF FreeSlots
<1>2. Asked(k, n, owes, cause) \in Fetch(m)
  BY ConnectionParts DEF Asked, Fetch, SeqNat
<1>3. QED
  BY <1>1, <1>2, ConnectionParts DEF AskSnapshot, Connection

LEMMA EnqueueType ==
  ASSUME NEW m \in Nat, NEW k \in Connection(m), NEW n \in 0..m,
         Overflows(k) => FreeSlots(k) # {}, Len(k.queue) <= MaxQueue, SeqNat
  PROVE  /\ Enqueue(k, n) \in Connection(m)
         /\ Len(Enqueue(k, n).queue) <= MaxQueue
<1> USE RealtimeAssumption
<1>1. CASE Overflows(k)
  <2> DEFINE owes == (Range(k.queue) \cup {n}) \ {Notice}
             asked == AskSnapshot(k, n, owes, "overflow")
  <2>1. owes \in SUBSET (1..m)
    BY ConnectionParts DEF Range, Notice
  <2>2. asked \in Connection(m)
    BY <1>1, <2>1, AskType
  <2>3. /\ [asked EXCEPT !.queue = << >>] \in Connection(m)
        /\ [asked EXCEPT !.queue = << >>].queue = << >>
    <3> HIDE DEF asked
    <3>1. << >> \in Seq(0..m)
      OBVIOUS
    <3>2. QED BY <2>2, <3>1, QueueType
  <2>4. QED
    BY <1>1, <2>3 DEF Enqueue
<1>2. CASE ~Overflows(k)
  <2> DEFINE pushed == [k EXCEPT !.queue = Append(@, n)]
  <2>1. /\ Append(k.queue, n) \in Seq(0..m)
        /\ Len(Append(k.queue, n)) <= MaxQueue
    BY <1>2, ConnectionParts DEF Overflows
  <2>2. pushed \in Connection(m) /\ Len(pushed.queue) <= MaxQueue
    BY <2>1, ConnectionParts DEF Connection
  <2>3. /\ Flush(pushed) \in Connection(m)
        /\ Len(Flush(pushed).queue) <= MaxQueue
    <3> HIDE DEF pushed
    <3>1. pushed.queue \in Seq(0..m) /\ Flush(pushed).queue \in Seq(0..m)
      BY <2>2, FlushType, ConnectionParts
    <3>2. QED BY <2>2, <3>1, FlushType
  <2>4. QED
    BY <1>2, <2>3 DEF Enqueue
<1>3. QED BY <1>1, <1>2

(***************************************************************************)
(* Committing an event makes every set of stamps larger.                   *)
(***************************************************************************)
LEMMA SeqGrows ==
  ASSUME NEW m \in Nat, NEW q \in Seq(0..m)
  PROVE  q \in Seq(0..(m + 1))
<1>1. 0..m \subseteq 0..(m + 1)
  OBVIOUS
<1>2. QED BY <1>1, SeqMonotonic

LEMMA ConnectionGrows ==
  ASSUME NEW m \in Nat, NEW k \in Connection(m)
  PROVE  k \in Connection(m + 1)
<1>1. Fetch(m) \subseteq Fetch(m + 1)
  BY DEF Fetch
<1>2. Frame(m) \subseteq Frame(m + 1)
  BY DEF Frame
<1>3. k.wire \in Seq(Frame(m + 1))
  BY <1>2, ConnectionParts, SeqMonotonic
<1>4. k.fetch \in [Slots -> Fetch(m + 1)]
  BY <1>1, ConnectionParts
<1>5. k.queue \in Seq(0..(m + 1))
  BY ConnectionParts, SeqGrows
<1>6. QED
  BY <1>3, <1>4, <1>5, ConnectionParts DEF Connection

LEMMA CommitType ==
  ASSUME TypeOK, NEW i \in Incidents, NEW kind \in Kinds,
         CommitEvent(i, kind), UNCHANGED <<rtVars, restarts>>
  PROVE  /\ Len(log) \in Nat
         /\ Len(log') = Len(log) + 1
         /\ log' \in Seq([inc : Incidents, kind : Kinds, id : Nat])
         /\ Stamps \subseteq Stamps'
         /\ Len(log) + 1 \in Stamps'
         /\ base' \in 0..Len(log')
         /\ dbClient' \in {"connecting", "up", "null"}
         /\ outbox' \in Seq(Stamps')
         /\ chan' \in Seq(0..Len(log'))
         /\ missed' \in SUBSET Stamps'
         /\ RtTypeOK' /\ restarts' \in 0..MaxRestarts
<1>1. /\ Len(log) \in Nat
      /\ Len(log') = Len(log) + 1
      /\ log' \in Seq([inc : Incidents, kind : Kinds, id : Nat])
  <2> DEFINE S == [inc : Incidents, kind : Kinds, id : Nat]
             e == [inc |-> i, kind |-> kind, id |-> nextEventId]
  <2>a. nextEventId \in Nat
    BY LenProperties DEF TypeOK, StoreTypeOK, nextEventId
  <2>1. e \in S /\ log \in Seq(S) /\ log' = Append(log, e)
    BY <2>a DEF TypeOK, StoreTypeOK, CommitEvent
  <2> HIDE DEF S, e
  <2>2. Len(log) \in Nat /\ Len(log') = Len(log) + 1 /\ log' \in Seq(S)
    BY <2>1
  <2>3. QED BY <2>2 DEF S
<1>2. Stamps \subseteq Stamps' /\ Len(log) + 1 \in Stamps'
  BY <1>1 DEF Stamps
<1>3. base' \in 0..Len(log') /\ dbClient' \in {"connecting", "up", "null"}
  BY <1>1 DEF TypeOK, StoreTypeOK, CommitEvent
<1>4. outbox' \in Seq(Stamps')
  <2>1. outbox \in Seq(Stamps')
    BY <1>2, SeqMonotonic DEF TypeOK, StoreTypeOK
  <2>2. CASE outbox' = outbox
    BY <2>1, <2>2
  <2>3. CASE outbox' = Append(outbox, Len(log) + 1)
    BY <1>2, <2>1, <2>3, AppendProperties
  <2>4. QED BY <2>2, <2>3 DEF CommitEvent
<1>5. chan' \in Seq(0..Len(log'))
  BY <1>1, SeqGrows DEF TypeOK, StoreTypeOK, CommitEvent
<1>6. missed' \in SUBSET Stamps'
  BY <1>2 DEF TypeOK, StoreTypeOK, CommitEvent
<1>7. RtTypeOK'
  <2>1. conn \in [Clients -> Connection(Len(log'))]
    BY <1>1, ConnectionGrows DEF TypeOK, RtTypeOK
  <2>2. /\ heard \in [Clients -> SUBSET (Stamps')]
        /\ excused \in [Clients -> SUBSET (Stamps')]
        /\ last \in [Clients -> 0..Len(log')]
    BY <1>1, <1>2 DEF TypeOK, RtTypeOK
  <2>3. QED
    BY <2>1, <2>2 DEF TypeOK, RtTypeOK, rtVars
<1>8. QED
  BY <1>1, <1>2, <1>3, <1>4, <1>5, <1>6, <1>7 DEF TypeOK

LEMMA ContentType ==
  ASSUME TypeOK, NEW i \in Incidents, NEW T, T \in SUBSET (Stamps'), Stamps \subseteq Stamps'
  PROVE  [content EXCEPT ![i] = T] \in [Incidents -> SUBSET (Stamps')]
BY DEF TypeOK, StoreTypeOK

LEMMA StoreStepType ==
  TypeOK /\ StoreStep /\ UNCHANGED <<rtVars, restarts>> => TypeOK'
<1> SUFFICES ASSUME TypeOK, StoreStep, UNCHANGED <<rtVars, restarts>> PROVE TypeOK'
  OBVIOUS
<1> USE DEF TypeOK, StoreTypeOK
<1>1. CASE CreateIncident
  <2>1. nextIncidentId \in Incidents /\ CommitEvent(nextIncidentId, "CREATED")
    BY <1>1 DEF CreateIncident
  <2>2. "CREATED" \in Kinds
    BY DEF Kinds, SnapshotKinds
  <2>3. Len(log) + 1 \in Stamps' /\ Stamps \subseteq Stamps'
    BY <2>1, <2>2, CommitType
  <2>4. content' \in [Incidents -> SUBSET (Stamps')]
    BY <1>1, <2>1, <2>3, ContentType DEF CreateIncident
  <2>5. nextIncidentId' \in 1..(MaxIncidents + 1)
    BY <1>1, StoreAssumption DEF CreateIncident, Incidents
  <2>6. QED BY <2>1, <2>2, <2>4, <2>5, CommitType
<1>2. ASSUME NEW i \in Incidents, AddComment(i) PROVE TypeOK'
  <2>1. CommitEvent(i, "COMMENT_ADDED") /\ "COMMENT_ADDED" \in Kinds
    BY <1>2 DEF AddComment, Kinds, SnapshotKinds
  <2>2. Len(log) + 1 \in Stamps' /\ Stamps \subseteq Stamps'
    BY <2>1, CommitType
  <2>3. content' \in [Incidents -> SUBSET (Stamps')]
    BY <1>2, <2>2, ContentType DEF AddComment
  <2>4. QED BY <1>2, <2>1, <2>3, CommitType DEF AddComment
<1>3. ASSUME NEW i \in Incidents, ChangeStatus(i) PROVE TypeOK'
  <2>1. CommitEvent(i, "STATUS_CHANGED") /\ "STATUS_CHANGED" \in Kinds
    BY <1>3 DEF ChangeStatus, Kinds, SnapshotKinds
  <2>2. Len(log) + 1 \in Stamps' /\ Stamps \subseteq Stamps'
    BY <2>1, CommitType
  <2>3. content' \in [Incidents -> SUBSET (Stamps')]
    BY <1>3, <2>2, ContentType DEF ChangeStatus
  <2>4. QED BY <1>3, <2>1, <2>3, CommitType DEF ChangeStatus
<1>4. ASSUME NEW i \in Incidents, AddAttachment(i) PROVE TypeOK'
  <2>1. CommitEvent(i, "ATTACHMENT_ADDED") /\ "ATTACHMENT_ADDED" \in Kinds
    BY <1>4 DEF AddAttachment, Kinds
  <2>2. Stamps \subseteq Stamps'
    BY <2>1, CommitType
  <2>3. content' \in [Incidents -> SUBSET (Stamps')]
    BY <1>4, <2>2 DEF AddAttachment
  <2>4. QED BY <1>4, <2>1, <2>3, CommitType DEF AddAttachment
<1>5. CASE DbConnected
  BY <1>5 DEF DbConnected, RtTypeOK, rtVars, Stamps
<1>6. CASE DbConnectFails
  <2>1. Range(outbox) \subseteq Stamps
    BY DEF Range, Stamps
  <2>2. << >> \in Seq(Stamps)
    OBVIOUS
  <2>3. QED BY <1>6, <2>1, <2>2 DEF DbConnectFails, RtTypeOK, rtVars, Stamps
<1>7. ASSUME Notify(listening) \/ NotifyFails PROVE TypeOK'
  <2>1. /\ outbox \in Seq(Stamps) /\ outbox # << >>
        /\ outbox' = Tail(outbox)
    BY <1>7 DEF Notify, NotifyFails
  <2>2. Head(outbox) \in Stamps /\ Tail(outbox) \in Seq(Stamps)
    BY <2>1, HeadTailProperties
  <2>3. Len(log) \in Nat /\ Stamps \subseteq 0..Len(log)
    BY DEF Stamps
  <2>4. Append(chan, Head(outbox)) \in Seq(0..Len(log))
    BY <2>2, <2>3, AppendProperties
  <2>5. /\ chan' \in Seq(0..Len(log)) /\ missed' \in SUBSET Stamps
        /\ outbox' \in Seq(Stamps)
        /\ UNCHANGED <<nextIncidentId, content, log, base, dbClient>>
    BY <1>7, <2>1, <2>2, <2>4 DEF Notify, NotifyFails
  <2>6. QED BY <2>5 DEF RtTypeOK, rtVars, Stamps
<1>8. QED
  BY <1>1, <1>2, <1>3, <1>4, <1>5, <1>6, <1>7 DEF StoreStep

(***************************************************************************)
(* A step that replaces the state of one connection by another of the      *)
(* right type keeps the type of conn.                                      *)
(***************************************************************************)
ConnOK(m) ==
  /\ conn \in [Clients -> Connection(m)]
  /\ \A c \in Clients : Len(conn[c].queue) <= MaxQueue

LEMMA OneConnectionType ==
  ASSUME NEW m \in Nat, ConnOK(m), NEW c \in Clients, NEW k \in Connection(m),
         Len(k.queue) <= MaxQueue, conn' = [conn EXCEPT ![c] = k]
  PROVE  /\ conn' \in [Clients -> Connection(m)]
         /\ \A d \in Clients : Len(conn'[d].queue) <= MaxQueue
BY DEF ConnOK

LEMMA ConnectionStepConn ==
  ASSUME NEW m \in Nat, ConnOK(m), NEW c \in Clients, ConnectionStep(c),
         m = Len(log), last \in [Clients -> 0..m], SeqNat,
         content \in [Incidents -> SUBSET (1..m)]
  PROVE  /\ conn' \in [Clients -> Connection(m)]
         /\ \A d \in Clients : Len(conn'[d].queue) <= MaxQueue
<1> DEFINE k == conn[c]
           Goal == /\ conn' \in [Clients -> Connection(m)]
                   /\ \A d \in Clients : Len(conn'[d].queue) <= MaxQueue
<1>1. k \in Connection(m) /\ Len(k.queue) <= MaxQueue /\ conn \in [Clients -> Connection(m)]
  BY DEF ConnOK
<1>2. /\ k.status \in {"off", "open", "closing"}
      /\ k.sub \in Incidents \cup {NoIncident}
      /\ k.queue \in Seq(0..m)
      /\ k.sending \in BOOLEAN
      /\ k.wire \in Seq(Frame(m))
      /\ k.fetch \in [Slots -> Fetch(m)]
  BY <1>1, ConnectionParts
<1>3. CASE Connect(c)
  <2> DEFINE new == [Off EXCEPT !.status = "open"]
  <2>1. new \in Connection(m) /\ new.queue = Off.queue
    <3>1. Off \in Connection(m)
      BY OffType
    <3>2. QED BY <3>1 DEF Connection
  <2>2. conn' = [conn EXCEPT ![c] = new]
    BY <1>3 DEF Connect
  <2> HIDE DEF new
  <2>3. QED BY <2>1, <2>2, OffQueue, OneConnectionType
<1>4. ASSUME NEW i \in Incidents, SubscribeFromNow(c, i) PROVE Goal
  <2> DEFINE new == [k EXCEPT !.sub = i]
  <2>1. new \in Connection(m) /\ new.queue = k.queue
    BY <1>1 DEF Connection
  <2>2. conn' = [conn EXCEPT ![c] = new]
    BY <1>1, <1>4 DEF SubscribeFromNow
  <2> HIDE DEF new
  <2>3. QED BY <1>1, <2>1, <2>2, OneConnectionType
<1>5. ASSUME NEW i \in Incidents, SubscribeFromSeq(c, i) PROVE Goal
  <2> DEFINE subd == [k EXCEPT !.sub = i]
             new == AskSnapshot(subd, last[c], Stamps, "subscribe")
  <2>1. subd \in Connection(m) /\ subd.queue = k.queue /\ subd.fetch = k.fetch
    BY <1>1 DEF Connection
  <2>2. FreeSlots(subd) # {}
    BY <1>5, <2>1 DEF SubscribeFromSeq, FreeSlots
  <2>3. new \in Connection(m)
    <3> HIDE DEF subd
    <3>1. Stamps \in SUBSET (1..m) /\ last[c] \in 0..m
      BY DEF Stamps
    <3>2. QED BY <2>1, <2>2, <3>1, AskType
  <2>4. new.queue = k.queue
    BY <2>1 DEF AskSnapshot, Connection
  <2>5. conn' = [conn EXCEPT ![c] = new]
    BY <1>1, <1>5 DEF SubscribeFromSeq
  <2> HIDE DEF new
  <2>6. QED BY <1>1, <2>3, <2>4, <2>5, OneConnectionType
<1>6. CASE SendDone(c)
  <2> DEFINE idle == [k EXCEPT !.sending = FALSE]
             new == Flush(idle)
  <2>1. idle \in Connection(m) /\ idle.queue = k.queue
    BY <1>1 DEF Connection
  <2>2. new \in Connection(m) /\ Len(new.queue) <= Len(k.queue)
    <3> HIDE DEF idle
    <3> QED BY <2>1, FlushType
  <2>3. Len(new.queue) \in Nat /\ Len(k.queue) \in Nat
    <3> HIDE DEF new
    <3> QED BY <1>2, <2>2, ConnectionParts
  <2>4. conn' = [conn EXCEPT ![c] = new]
    BY <1>1, <1>6 DEF SendDone
  <2> HIDE DEF new
  <2>5. Len(new.queue) <= MaxQueue
    BY <1>1, <2>2, <2>3, RealtimeAssumption
  <2>6. QED BY <2>2, <2>4, <2>5, OneConnectionType
<1>7. CASE SendError(c)
  <2> DEFINE new == [k EXCEPT !.sending = FALSE, !.status = "closing"]
  <2>1. new \in Connection(m) /\ new.queue = k.queue
    BY <1>1 DEF Connection
  <2>2. conn' = [conn EXCEPT ![c] = new]
    BY <1>1, <1>7 DEF SendError
  <2> HIDE DEF new
  <2>3. QED BY <1>1, <2>1, <2>2, OneConnectionType
<1>8. ASSUME NEW s \in Slots, Answer(c, s) PROVE Goal
  <2> DEFINE f == Answered(k.fetch[s], GetIncident(k.fetch[s].inc))
             new == [k EXCEPT !.fetch = [k.fetch EXCEPT ![s] = f]]
  <2>1. GetIncident(k.fetch[s].inc) \in SUBSET (1..m)
    <3>1. k.fetch[s].inc \in Incidents \cup {NoIncident}
      BY <1>2 DEF Fetch
    <3>2. CASE k.fetch[s].inc = NoIncident
      BY <3>2 DEF GetIncident, Exists, NoIncident
    <3>3. CASE k.fetch[s].inc \in Incidents
      BY <3>3 DEF GetIncident
    <3>4. QED BY <3>1, <3>2, <3>3
  <2>2. f \in Fetch(m)
    BY <1>2, <2>1, AnsweredType
  <2>3. new \in Connection(m) /\ new.queue = k.queue
    <3> HIDE DEF f
    <3> QED BY <1>1, <2>2 DEF Connection
  <2>4. conn' = [conn EXCEPT ![c] = new]
    BY <1>1, <1>8 DEF Answer
  <2> HIDE DEF new
  <2>5. QED BY <1>1, <2>3, <2>4, OneConnectionType
<1>9. ASSUME NEW s \in Slots, SnapshotArrives(c, s) PROVE Goal
  <2> DEFINE w == IF k.status = "open" THEN Append(k.wire, SnapshotFrame(k.fetch[s])) ELSE k.wire
             new == [k EXCEPT !.fetch = [k.fetch EXCEPT ![s] = Idle], !.wire = w]
  <2>1. w \in Seq(Frame(m))
    <3>1. SnapshotFrame(k.fetch[s]) \in Frame(m)
      BY <1>2, SnapshotFrameType
    <3>2. QED BY <1>2, <3>1, AppendProperties
  <2>2. new \in Connection(m) /\ new.queue = k.queue
    <3> HIDE DEF w
    <3> QED BY <1>1, <2>1, IdleType DEF Connection
  <2>3. conn' = [conn EXCEPT ![c] = new]
    BY <1>1, <1>9 DEF SnapshotArrives
  <2> HIDE DEF new
  <2>4. QED BY <1>1, <2>2, <2>3, OneConnectionType
<1>10. ASSUME NEW s \in Slots, SnapshotFails(c, s) PROVE Goal
  <2> DEFINE new == [k EXCEPT !.fetch = [k.fetch EXCEPT ![s] = Idle]]
  <2>1. new \in Connection(m) /\ new.queue = k.queue
    BY <1>1, IdleType DEF Connection
  <2>2. conn' = [conn EXCEPT ![c] = new]
    BY <1>1, <1>10 DEF SnapshotFails
  <2> HIDE DEF new
  <2>3. QED BY <1>1, <2>1, <2>2, OneConnectionType
<1>11. CASE Receive(c)
  <2> DEFINE new == [k EXCEPT !.wire = Tail(k.wire)]
  <2>1. Tail(k.wire) \in Seq(Frame(m))
    BY <1>2, <1>11, HeadTailProperties DEF Receive
  <2>2. new \in Connection(m) /\ new.queue = k.queue
    BY <1>1, <2>1 DEF Connection
  <2>3. conn' = [conn EXCEPT ![c] = new]
    BY <1>1, <1>11 DEF Receive
  <2> HIDE DEF new
  <2>4. QED BY <1>1, <2>2, <2>3, OneConnectionType
<1>12. CASE Close(c)
  <2>1. Off \in Connection(m) /\ Len(Off.queue) <= MaxQueue
    BY OffType, OffQueue
  <2>2. conn' = [conn EXCEPT ![c] = Off]
    BY <1>12 DEF Close
  <2>3. QED BY <2>1, <2>2, OneConnectionType
<1>13. QED
  BY <1>3, <1>4, <1>5, <1>6, <1>7, <1>8, <1>9, <1>10, <1>11, <1>12 DEF ConnectionStep

(***************************************************************************)
(* broadcast and the steps that reset realtime-svc.                        *)
(***************************************************************************)
LEMMA BroadcastConn ==
  ASSUME NEW m \in Nat, ConnOK(m), NEW n \in 0..m, Broadcast(n), SeqNat
  PROVE  /\ conn' \in [Clients -> Connection(m)]
         /\ \A d \in Clients : Len(conn'[d].queue) <= MaxQueue
<1> DEFINE New(c) == IF Wants(conn[c], n) THEN Enqueue(conn[c], n) ELSE conn[c]
<1>1. conn' = [c \in Clients |-> New(c)]
  BY DEF Broadcast
<1>2. ASSUME NEW c \in Clients
      PROVE  New(c) \in Connection(m) /\ Len(New(c).queue) <= MaxQueue
  <2>1. conn[c] \in Connection(m) /\ Len(conn[c].queue) <= MaxQueue
    BY DEF ConnOK
  <2>2. CASE Wants(conn[c], n)
    <3>1. Overflows(conn[c]) => FreeSlots(conn[c]) # {}
      BY <2>2 DEF Broadcast
    <3>2. QED BY <2>1, <2>2, <3>1, EnqueueType
  <2>3. CASE ~Wants(conn[c], n)
    BY <2>1, <2>3
  <2>4. QED BY <2>2, <2>3
<1> HIDE DEF New
<1>3. QED BY <1>1, <1>2

LEMMA DeliverType == TypeOK /\ Deliver => TypeOK'
<1> SUFFICES ASSUME TypeOK, Deliver PROVE TypeOK'
  OBVIOUS
<1> DEFINE n == Head(chan)
           m == Len(log)
<1>1. /\ chan \in Seq(0..m) /\ chan # << >> /\ m \in Nat /\ ConnOK(m)
      /\ chan' = Tail(chan) /\ Broadcast(n) /\ SeqNat
  BY SeqOfType DEF TypeOK, StoreTypeOK, RtTypeOK, Deliver, ConnOK
<1>2. n \in 0..m /\ Tail(chan) \in Seq(0..m)
  <2> HIDE DEF m
  <2> QED BY <1>1, HeadTailProperties
<1>3. /\ conn' \in [Clients -> Connection(m)]
      /\ \A d \in Clients : Len(conn'[d].queue) <= MaxQueue
  <2> HIDE DEF m, n
  <2> QED BY <1>1, <1>2, BroadcastConn
<1>4. excused' \in [Clients -> SUBSET Stamps]
  <2> DEFINE lost(c) == Unsnapshotted((Range(conn[c].queue) \cup {n}) \ {Notice})
  <2>1. ASSUME NEW c \in Clients PROVE lost(c) \subseteq Stamps
    <3>1. conn[c].queue \in Seq(0..m)
      BY <1>1, ConnectionParts DEF ConnOK
    <3>2. Range(conn[c].queue) \subseteq 0..m
      BY <3>1, RangeType
    <3>3. QED BY <1>1, <1>2, <3>2 DEF Unsnapshotted, Stamps, Notice
  <2> HIDE DEF n
  <2>2. QED BY <1>1, <2>1 DEF Broadcast, TypeOK, RtTypeOK
<1>5. StoreTypeOK' /\ restarts' \in 0..MaxRestarts
  BY <1>1, <1>2 DEF TypeOK, StoreTypeOK, Deliver, Stamps
<1>6. QED
  BY <1>1, <1>3, <1>4, <1>5 DEF TypeOK, RtTypeOK, Deliver, Broadcast, Stamps

LEMMA ConnectionStepType ==
  ASSUME TypeOK, NEW c \in Clients, ConnectionStep(c), UNCHANGED <<storeVars, restarts>>
  PROVE  TypeOK'
<1> DEFINE m == Len(log)
<1>1. /\ m \in Nat /\ ConnOK(m) /\ last \in [Clients -> 0..m] /\ Stamps = 1..m
      /\ content \in [Incidents -> SUBSET (1..m)]
      /\ excused \in [Clients -> SUBSET (1..m)] /\ heard \in [Clients -> SUBSET (1..m)]
  BY DEF TypeOK, StoreTypeOK, RtTypeOK, ConnOK, Stamps
<1>2. /\ conn' \in [Clients -> Connection(m)]
      /\ \A d \in Clients : Len(conn'[d].queue) <= MaxQueue
  BY <1>1, SeqOfType, ConnectionStepConn
<1>3. excused' \in [Clients -> SUBSET (1..m)]
  <2>1. ASSUME NEW s \in Slots PROVE conn[c].fetch[s].owes \in SUBSET (1..m)
    BY <1>1, ConnectionParts DEF ConnOK, Fetch
  <2>2. Unsnapshotted(Stamps) \subseteq 1..m
    BY <1>1 DEF Unsnapshotted
  <2>3. \E T \in SUBSET (1..m) :
          excused' = excused \/ excused' = [excused EXCEPT ![c] = T]
    <3>1. ASSUME NEW i \in Incidents, SubscribeFromNow(c, i) \/ SubscribeFromSeq(c, i)
          PROVE  \E T \in SUBSET (1..m) : excused' = [excused EXCEPT ![c] = T]
      BY <1>1, <2>2, <3>1 DEF SubscribeFromNow, SubscribeFromSeq
    <3>2. ASSUME NEW s \in Slots, SnapshotFails(c, s)
          PROVE  \E T \in SUBSET (1..m) : excused' = [excused EXCEPT ![c] = T]
      <4> DEFINE T == excused[c] \cup conn[c].fetch[s].owes
      <4>1. T \in SUBSET (1..m)
        BY <1>1, <2>1
      <4>2. excused' = [excused EXCEPT ![c] = T]
        BY <3>2 DEF SnapshotFails
      <4>3. QED BY <4>1, <4>2
    <3>3. ASSUME NEW s \in Slots, Answer(c, s) \/ SnapshotArrives(c, s)
          PROVE  excused' = excused
      BY <3>3 DEF Answer, SnapshotArrives
    <3>4. CASE Connect(c) \/ SendDone(c) \/ SendError(c) \/ Receive(c) \/ Close(c)
      BY <3>4 DEF Connect, SendDone, SendError, Receive, Close
    <3>5. QED BY <3>1, <3>2, <3>3, <3>4 DEF ConnectionStep
  <2> HIDE DEF m
  <2>4. QED BY <1>1, <2>3
<1>4. heard' \in [Clients -> SUBSET (1..m)] /\ last' \in [Clients -> 0..m]
  <2>1. CASE Receive(c)
    <3>1. conn[c].wire \in Seq(Frame(m)) /\ conn[c].wire # << >>
      BY <1>1, <2>1, ConnectionParts DEF ConnOK, Receive
    <3>2. Head(conn[c].wire) \in Frame(m)
      BY <3>1, HeadTailProperties
    <3>3. Head(conn[c].wire).body \in SUBSET (1..m) /\ Head(conn[c].wire).n \in 0..m
      BY <3>2 DEF Frame
    <3> HIDE DEF m
    <3>4. QED BY <1>1, <2>1, <3>3 DEF Receive
  <2>2. CASE ~Receive(c)
    BY <1>1, <2>2 DEF ConnectionStep, Connect, SubscribeFromNow, SubscribeFromSeq,
      SendDone, SendError, Answer, SnapshotArrives, SnapshotFails, Close
  <2>3. QED BY <2>1, <2>2
<1>5. listening' = listening
  BY DEF ConnectionStep, Connect, SubscribeFromNow, SubscribeFromSeq,
    SendDone, SendError, Answer, SnapshotArrives, SnapshotFails, Receive, Close
<1>6. StoreTypeOK' /\ restarts' \in 0..MaxRestarts /\ log' = log
  BY DEF TypeOK, StoreTypeOK, storeVars, Stamps
<1>7. QED
  BY <1>1, <1>2, <1>3, <1>4, <1>5, <1>6 DEF TypeOK, RtTypeOK, Stamps

LEMMA StoreCrashType == TypeOK /\ StoreCrash => TypeOK'
<1> SUFFICES ASSUME TypeOK, StoreCrash PROVE TypeOK'
  OBVIOUS
<1>1. Range(outbox) \subseteq Stamps
  BY DEF Range, TypeOK, StoreTypeOK
<1>2. << >> \in Seq(Stamps)
  OBVIOUS
<1>3. StoreTypeOK'
  <2>1. /\ nextIncidentId' \in 1..(MaxIncidents + 1)
        /\ base' \in 0..Len(log')
    BY StoreAssumption DEF TypeOK, StoreTypeOK, StoreCrash, StoreRestart
  <2>2. Stamps' = Stamps /\ log' = log /\ chan' = chan
    BY DEF StoreCrash, StoreRestart, Stamps
  <2>3. /\ content' \in [Incidents -> SUBSET Stamps]
        /\ outbox' \in Seq(Stamps) /\ missed' \in SUBSET Stamps
    BY <1>1, <1>2 DEF TypeOK, StoreTypeOK, StoreCrash, StoreRestart
  <2>4. QED BY <2>1, <2>2, <2>3 DEF TypeOK, StoreTypeOK, StoreCrash, StoreRestart
<1>4. restarts' \in 0..MaxRestarts
  BY FanOutAssumption DEF TypeOK, StoreCrash
<1>5. QED
  BY <1>3, <1>4 DEF TypeOK, RtTypeOK, StoreCrash, StoreRestart, rtVars, Stamps

LEMMA RtCrashType == TypeOK /\ RtCrash => TypeOK'
<1> SUFFICES ASSUME TypeOK, RtCrash PROVE TypeOK'
  OBVIOUS
<1>1. Range(chan) \ {Notice} \subseteq Stamps
  BY DEF Range, TypeOK, StoreTypeOK, Notice, Stamps
<1>2. << >> \in Seq(0..Len(log)) /\ Len(log) \in Nat
  BY DEF TypeOK, StoreTypeOK
<1>3. StoreTypeOK'
  BY <1>1, <1>2 DEF TypeOK, StoreTypeOK, RtCrash, Stamps
<1>4. restarts' \in 0..MaxRestarts
  BY FanOutAssumption DEF TypeOK, RtCrash
<1>5. RtTypeOK'
  <2>1. Off \in Connection(Len(log)) /\ Len(Off.queue) <= MaxQueue
    BY <1>2, OffType, OffQueue
  <2>2. QED BY <2>1 DEF TypeOK, RtTypeOK, RtCrash, RtRestart, Stamps
<1>6. QED BY <1>3, <1>4, <1>5 DEF TypeOK

LEMMA PlaybookNotifyType == TypeOK /\ PlaybookNotify => TypeOK'
<1> SUFFICES ASSUME TypeOK, PlaybookNotify PROVE TypeOK'
  OBVIOUS
<1>1. chan \in Seq(0..Len(log)) /\ Notice \in 0..Len(log)
  BY DEF TypeOK, StoreTypeOK, Notice
<1>2. chan' \in Seq(0..Len(log))
  BY <1>1, AppendProperties DEF PlaybookNotify
<1>3. QED
  BY <1>2 DEF TypeOK, StoreTypeOK, RtTypeOK, PlaybookNotify, rtVars, Stamps

LEMMA InitType == Init => TypeOK
<1> SUFFICES ASSUME Init PROVE TypeOK
  OBVIOUS
<1>1. Len(log) = 0 /\ Stamps = {}
  BY DEF Init, StoreInit, Stamps
<1>2. StoreTypeOK
  BY <1>1, StoreAssumption DEF Init, StoreInit, StoreTypeOK
<1>3. RtTypeOK
  <2>1. Off \in Connection(0) /\ Len(Off.queue) <= MaxQueue
    BY OffType, OffQueue
  <2>2. /\ conn \in [Clients -> Connection(Len(log))]
        /\ \A c \in Clients : Len(conn[c].queue) <= MaxQueue
    BY <1>1, <2>1 DEF Init, RtInit
  <2>3. /\ heard \in [Clients -> SUBSET Stamps]
        /\ last \in [Clients -> 0..Len(log)]
        /\ excused \in [Clients -> SUBSET Stamps]
    BY <1>1 DEF Init, RtInit
  <2>4. QED BY <2>2, <2>3 DEF Init, RtInit, RtTypeOK
<1>4. QED BY <1>2, <1>3, FanOutAssumption DEF TypeOK, Init

LEMMA NextType == TypeOK /\ [Next]_vars => TypeOK'
<1> SUFFICES ASSUME TypeOK, [Next]_vars PROVE TypeOK'
  OBVIOUS
<1>1. CASE StoreStep /\ UNCHANGED <<rtVars, restarts>>
  BY <1>1, StoreStepType
<1>2. CASE Listen /\ UNCHANGED <<storeVars, restarts>>
  BY <1>2 DEF TypeOK, StoreTypeOK, RtTypeOK, Listen, storeVars, Stamps
<1>3. CASE Deliver
  BY <1>3, DeliverType
<1>4. CASE PlaybookNotify
  BY <1>4, PlaybookNotifyType
<1>5. ASSUME NEW c \in Clients, ConnectionStep(c), UNCHANGED <<storeVars, restarts>>
      PROVE  TypeOK'
  BY <1>5, ConnectionStepType
<1>6. CASE StoreCrash
  BY <1>6, StoreCrashType
<1>7. CASE RtCrash
  BY <1>7, RtCrashType
<1>8. CASE UNCHANGED vars
  BY <1>8 DEF TypeOK, StoreTypeOK, RtTypeOK, vars, storeVars, rtVars, Stamps
<1>9. QED
  BY <1>1, <1>2, <1>3, <1>4, <1>5, <1>6, <1>7, <1>8 DEF Next

(***************************************************************************)
(* Everything stored, queued, sent, owed or known refers to a committed    *)
(* event, and no queue exceeds MAX_QUEUE, whatever the constants.          *)
(***************************************************************************)
THEOREM TypeCorrect == Spec => []TypeOK
<1>1. QED BY InitType, NextType, PTL DEF Spec
=============================================================================
