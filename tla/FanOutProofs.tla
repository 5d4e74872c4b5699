---------------------------- MODULE FanOutProofs ----------------------------
(***************************************************************************)
(* The safety invariants of FanOut for every value of its constants.       *)
(***************************************************************************)
EXTENDS FanOutTypeProofs

(***************************************************************************)
(* Sequences as collections.                                               *)
(***************************************************************************)
LEMMA RangeEmpty == Range(<< >>) = {}
BY DEF Range

LEMMA RangeAppend ==
  ASSUME NEW S, NEW q \in Seq(S), NEW x \in S
  PROVE  Range(Append(q, x)) = Range(q) \cup {x}
<1> DEFINE r == Append(q, x)
<1>1. /\ r \in Seq(S) /\ Len(r) = Len(q) + 1 /\ Len(q) \in Nat
      /\ \A i \in 1..Len(q) : r[i] = q[i]
      /\ r[Len(q) + 1] = x
  BY AppendProperties, LenProperties
<1>2. DOMAIN r = 1..(Len(q) + 1) /\ DOMAIN q = 1..Len(q)
  BY <1>1, LenProperties
<1> HIDE DEF r
<1>3. Range(r) = Range(q) \cup {x}
  BY <1>1, <1>2 DEF Range
<1>4. QED BY <1>3 DEF r

LEMMA RangeTail ==
  ASSUME NEW S, NEW q \in Seq(S), q # << >>
  PROVE  /\ Head(q) \in S /\ Tail(q) \in Seq(S)
         /\ Range(q) = Range(Tail(q)) \cup {Head(q)}
<1> DEFINE r == Tail(q)
<1>1. /\ Head(q) \in S /\ r \in Seq(S) /\ Len(r) = Len(q) - 1
      /\ \A i \in 1..Len(r) : r[i] = q[i + 1]
      /\ Head(q) = q[1]
  BY HeadTailProperties
<1>2. Len(q) \in Nat \ {0}
  BY EmptySeq
<1>3. DOMAIN r = 1..Len(r) /\ DOMAIN q = 1..Len(q)
  BY <1>1, LenProperties
<1>4. Range(q) = Range(r) \cup {Head(q)}
  <2> HIDE DEF r
  <2>1. ASSUME NEW i \in 1..Len(q) PROVE q[i] \in Range(r) \cup {Head(q)}
    <3>1. CASE i = 1
      BY <1>1, <3>1
    <3>2. CASE i # 1
      <4>1. i - 1 \in 1..Len(r) /\ q[i] = r[i - 1]
        BY <1>1, <1>2, <3>2
      <4>2. QED BY <1>3, <4>1 DEF Range
    <3>3. QED BY <3>1, <3>2
  <2>2. ASSUME NEW i \in 1..Len(r) PROVE r[i] \in Range(q)
    BY <1>1, <1>2, <1>3 DEF Range
  <2>3. Head(q) \in Range(q)
    BY <1>1, <1>2, <1>3 DEF Range
  <2>4. QED BY <1>3, <2>1, <2>2, <2>3 DEF Range
<1>5. QED BY <1>1, <1>4

(***************************************************************************)
(* What the functions of realtime-svc do to one connection.                *)
(***************************************************************************)
Driven(k) == k.status = "open" /\ k.queue # << >> => k.sending

\* Nothing leaves the wire, only event frames enter it.
WireGrows(k, new) ==
  /\ Range(k.wire) \subseteq Range(new.wire)
  /\ \A f \in Range(new.wire) : f \in Range(k.wire) \/ f.type = "event"

\* The numbers xs are queued or on the wire.
Onward(xs, new) == \A x \in xs : x \in Range(new.queue) \/ EventFrame(x) \in Range(new.wire)

LEMMA FlushEffect ==
  ASSUME NEW m \in Nat, NEW k \in Connection(m)
  PROVE  /\ Flush(k).status = k.status /\ Flush(k).sub = k.sub /\ Flush(k).fetch = k.fetch
         /\ Driven(Flush(k))
         /\ WireGrows(k, Flush(k))
         /\ Onward(Range(k.queue), Flush(k))
<1>1. CASE k.sending \/ k.status # "open" \/ k.queue = << >>
  BY <1>1 DEF Flush, Driven, WireGrows, Onward
<1>2. CASE ~(k.sending \/ k.status # "open" \/ k.queue = << >>)
  <2> DEFINE e == EventFrame(Head(k.queue))
  <2>1. /\ Flush(k).status = k.status /\ Flush(k).sub = k.sub /\ Flush(k).fetch = k.fetch
        /\ Flush(k).sending = TRUE
        /\ Flush(k).queue = Tail(k.queue)
        /\ Flush(k).wire = Append(k.wire, e)
    BY <1>2 DEF Flush, Connection
  <2>2. Head(k.queue) \in 0..m /\ Range(k.queue) = Range(Tail(k.queue)) \cup {Head(k.queue)}
    BY <1>2, ConnectionParts, RangeTail
  <2>3. e \in Frame(m) /\ e.type = "event"
    BY <2>2, EventFrameType DEF EventFrame
  <2>4. Range(Append(k.wire, e)) = Range(k.wire) \cup {e}
    <3> HIDE DEF e
    <3> QED BY <2>3, ConnectionParts, RangeAppend
  <2>5. QED
    BY <2>1, <2>2, <2>3, <2>4 DEF Driven, WireGrows, Onward
<1>3. QED BY <1>1, <1>2

\* fetch is k.fetch with a request begun in a free slot.
Asks(k, n, owes, cause, fetch) ==
  \E s \in FreeSlots(k) : fetch = [k.fetch EXCEPT ![s] = Asked(k, n, owes, cause)]

LEMMA AskEffect ==
  ASSUME NEW m \in Nat, NEW k \in Connection(m), FreeSlots(k) # {},
         NEW n \in 0..m, NEW owes \in SUBSET (1..m), NEW cause
  PROVE  /\ AskSnapshot(k, n, owes, cause).status = k.status
         /\ AskSnapshot(k, n, owes, cause).sub = k.sub
         /\ AskSnapshot(k, n, owes, cause).wire = k.wire
         /\ Asks(k, n, owes, cause, AskSnapshot(k, n, owes, cause).fetch)
<1> DEFINE s == CHOOSE s \in FreeSlots(k) : TRUE
<1>1. s \in FreeSlots(k)
  OBVIOUS
<1> HIDE DEF s
<1>2. AskSnapshot(k, n, owes, cause) = [k EXCEPT !.fetch[s] = Asked(k, n, owes, cause)]
  BY DEF AskSnapshot, s
<1>3. QED
  BY <1>1, <1>2 DEF Connection, Asks

LEMMA EnqueueEffect ==
  ASSUME NEW m \in Nat, NEW k \in Connection(m), NEW n \in 0..m,
         Overflows(k) => FreeSlots(k) # {}, Driven(k), SeqNat
  PROVE  LET new == Enqueue(k, n) IN
         /\ new.status = k.status /\ new.sub = k.sub
         /\ Driven(new)
         /\ WireGrows(k, new)
         /\ \/ /\ ~Overflows(k)
               /\ new.fetch = k.fetch
               /\ Onward(Range(k.queue) \cup {n}, new)
            \/ /\ Overflows(k)
               /\ Asks(k, n, (Range(k.queue) \cup {n}) \ {Notice}, "overflow", new.fetch)
<1>1. CASE Overflows(k)
  <2> DEFINE owes == (Range(k.queue) \cup {n}) \ {Notice}
  <2>1. owes \in SUBSET (1..m)
    BY ConnectionParts, RangeType DEF Notice
  <2> HIDE DEF owes
  <2>2. AskSnapshot(k, n, owes, "overflow") \in Connection(m)
    BY <1>1, <2>1, AskType
  <2>3. /\ AskSnapshot(k, n, owes, "overflow").status = k.status
        /\ AskSnapshot(k, n, owes, "overflow").sub = k.sub
        /\ AskSnapshot(k, n, owes, "overflow").wire = k.wire
        /\ Asks(k, n, owes, "overflow", AskSnapshot(k, n, owes, "overflow").fetch)
    BY <1>1, <2>1, AskEffect
  <2> DEFINE asked == AskSnapshot(k, n, owes, "overflow")
  <2>4. Enqueue(k, n) = [asked EXCEPT !.queue = << >>]
    BY <1>1 DEF Enqueue, owes
  <2>a. asked \in Connection(m)
    BY <2>2
  <2>b. /\ asked.status = k.status /\ asked.sub = k.sub /\ asked.wire = k.wire
        /\ Asks(k, n, owes, "overflow", asked.fetch)
    BY <2>3
  <2> HIDE DEF asked
  <2>5. /\ Enqueue(k, n).status = asked.status /\ Enqueue(k, n).sub = asked.sub
        /\ Enqueue(k, n).wire = asked.wire /\ Enqueue(k, n).fetch = asked.fetch
        /\ Enqueue(k, n).queue = << >>
    BY <2>a, <2>4 DEF Connection
  <2>6. QED
    BY <1>1, <2>b, <2>5 DEF Driven, WireGrows, owes
<1>2. CASE ~Overflows(k)
  <2> DEFINE pushed == [k EXCEPT !.queue = Append(@, n)]
  <2>1. /\ Append(k.queue, n) \in Seq(0..m)
        /\ Range(Append(k.queue, n)) = Range(k.queue) \cup {n}
    BY ConnectionParts, AppendProperties, RangeAppend
  <2>2. pushed \in Connection(m)
    BY <2>1, QueueType
  <2>3. /\ pushed.status = k.status /\ pushed.sub = k.sub /\ pushed.fetch = k.fetch
        /\ pushed.wire = k.wire /\ pushed.queue = Append(k.queue, n)
    BY DEF Connection
  <2>4. Enqueue(k, n) = Flush(pushed)
    BY <1>2 DEF Enqueue
  <2> HIDE DEF pushed
  <2>5. /\ Flush(pushed).status = pushed.status /\ Flush(pushed).sub = pushed.sub
        /\ Flush(pushed).fetch = pushed.fetch
        /\ Driven(Flush(pushed)) /\ WireGrows(pushed, Flush(pushed))
        /\ Onward(Range(pushed.queue), Flush(pushed))
    BY <2>2, FlushEffect
  <2>6. QED
    BY <1>2, <2>1, <2>3, <2>4, <2>5 DEF WireGrows
<1>3. QED BY <1>1, <1>2

\* Nothing a connection holds is lost by enqueuing n, and n is held as well.
LEMMA EnqueueHeld ==
  ASSUME NEW m \in Nat, NEW k \in Connection(m), NEW n \in 0..m,
         Overflows(k) => FreeSlots(k) # {}, Driven(k), SeqNat
  PROVE  (Held(k) \cup {n}) \ {Notice} \subseteq Held(Enqueue(k, n))
<1> DEFINE new == Enqueue(k, n)
<1>1. new.sub = k.sub /\ WireGrows(k, new)
  BY EnqueueEffect
<1>2. Carried(k) \subseteq Carried(new)
  BY <1>1 DEF Carried, WireGrows
<1>3. k.fetch \in [Slots -> Fetch(m)]
  BY ConnectionParts
<1>4. CASE ~Overflows(k)
  <2>1. new.fetch = k.fetch /\ Onward(Range(k.queue) \cup {n}, new)
    BY <1>4, EnqueueEffect
  <2> HIDE DEF new
  <2>2. Owed(new) = Owed(k)
    BY <1>1, <2>1 DEF Owed, Owing
  <2>3. (Range(k.queue) \cup {n}) \ {Notice} \subseteq Range(new.queue) \cup Carried(new)
    <3> SUFFICES ASSUME NEW x \in Range(k.queue) \cup {n}, x # Notice
                 PROVE  x \in Range(new.queue) \cup Carried(new)
      OBVIOUS
    <3>1. x \in Range(new.queue) \/ EventFrame(x) \in Range(new.wire)
      BY <2>1 DEF Onward
    <3>2. x \in EventFrame(x).body
      BY DEF EventFrame
    <3>3. QED BY <3>1, <3>2 DEF Carried
  <2>4. QED BY <1>2, <2>2, <2>3 DEF Held, new
<1>5. CASE Overflows(k)
  <2>1. PICK s \in FreeSlots(k) :
          new.fetch = [k.fetch EXCEPT ![s] =
            Asked(k, n, (Range(k.queue) \cup {n}) \ {Notice}, "overflow")]
    BY <1>5, EnqueueEffect DEF Asks
  <2> HIDE DEF new
  <2>2. s \in Slots /\ k.fetch[s].phase = "idle"
    BY DEF FreeSlots
  <2>3. Owing(k) \subseteq Owing(new) /\ \A t \in Owing(k) : new.fetch[t] = k.fetch[t]
    BY <1>1, <1>3, <2>1, <2>2 DEF Owing
  <2>4. s \in Owing(new) /\ new.fetch[s].owes = (Range(k.queue) \cup {n}) \ {Notice}
    BY <1>1, <1>3, <2>1, <2>2 DEF Owing, Asked
  <2>5. Owed(k) \subseteq Owed(new) /\ (Range(k.queue) \cup {n}) \ {Notice} \subseteq Owed(new)
    BY <2>3, <2>4 DEF Owed
  <2>6. QED BY <1>2, <2>5 DEF Held, new
<1>6. QED BY <1>4, <1>5

(***************************************************************************)
(* Commits.                                                                *)
(***************************************************************************)
LEMMA CommitVisible ==
  ASSUME TypeOK, NEW i \in Incidents, NEW kind \in Kinds, CommitEvent(i, kind)
  PROVE  /\ \A n \in Stamps : log'[n] = log[n]
         /\ Current \subseteq Stamps
         /\ Current' = Current \cup {Len(log) + 1}
         /\ Len(log) + 1 \notin Stamps
         /\ log'[Len(log) + 1] = [inc |-> i, kind |-> kind, id |-> Len(log) + 1 - base]
         /\ base' = base
<1> DEFINE S == [inc : Incidents, kind : Kinds, id : Nat]
           e == [inc |-> i, kind |-> kind, id |-> Len(log) + 1 - base]
<1>a. Len(log) + 1 - base \in Nat
  BY LenProperties DEF TypeOK, StoreTypeOK
<1>1. log \in Seq(S) /\ e \in S /\ log' = Append(log, e)
  BY <1>a DEF TypeOK, StoreTypeOK, CommitEvent, nextEventId
<1>2. /\ Len(log') = Len(log) + 1 /\ Len(log) \in Nat
      /\ \A n \in 1..Len(log) : log'[n] = log[n]
      /\ log'[Len(log) + 1] = e
  <2> HIDE DEF S, e
  <2> QED BY <1>1, AppendProperties, LenProperties
<1>3. base' = base /\ base \in 0..Len(log)
  BY DEF TypeOK, StoreTypeOK, CommitEvent
<1>4. QED
  BY <1>2, <1>3 DEF Stamps, Current

\* A step of incident-svc's write routes: what was visible stays so, and the
\* incident's object shows the new event exactly if its kind is snapshotted.
LEMMA CommitContent ==
  ASSUME TypeOK, ContentExact, NEW i \in Incidents, NEW kind \in Kinds, CommitEvent(i, kind),
         content' = IF kind \in SnapshotKinds
                    THEN [content EXCEPT ![i] = @ \cup {Len(log) + 1}] ELSE content,
         nextIncidentId' >= nextIncidentId, nextIncidentId' > i, nextIncidentId' \in Nat
  PROVE  ContentExact'
<1>1. /\ \A n \in Stamps : log'[n] = log[n]
      /\ Current \subseteq Stamps
      /\ Current' = Current \cup {Len(log) + 1}
      /\ Len(log) + 1 \notin Stamps
      /\ log'[Len(log) + 1] = [inc |-> i, kind |-> kind, id |-> Len(log) + 1 - base]
      /\ base' = base
  BY CommitVisible
<1>2. \A j : Visible(j)' = Visible(j) \cup
                (IF j = i /\ kind \in SnapshotKinds THEN {Len(log) + 1} ELSE {})
  BY <1>1 DEF Visible
<1>3. content \in [Incidents -> SUBSET Stamps]
  BY DEF TypeOK, StoreTypeOK
<1>4. ASSUME NEW j \in Incidents PROVE content'[j] = Visible(j)'
  BY <1>2, <1>3 DEF ContentExact
<1>5. ASSUME NEW n \in Current' PROVE log'[n].inc < nextIncidentId' /\ log'[n].id = n - base'
  <2>1. CASE n = Len(log) + 1
    <3> DEFINE e == [inc |-> i, kind |-> kind, id |-> Len(log) + 1 - base]
    <3>1. e.inc = i /\ e.id = Len(log) + 1 - base
      OBVIOUS
    <3> HIDE DEF e
    <3>2. log'[n] = e
      BY <1>1, <2>1 DEF e
    <3>3. log'[n].id = n - base'
      <4>1. n - base' = Len(log) + 1 - base
        <5>1. base' = base /\ n = Len(log) + 1 /\ base \in Int /\ Len(log) \in Int
          BY <1>1, <2>1, LenProperties DEF TypeOK, StoreTypeOK
        <5>2. QED BY <5>1
      <4>2. QED BY <3>1, <3>2, <4>1
    <3>4. nextIncidentId' > i /\ log'[n].inc = i
      BY <3>1, <3>2
    <3>5. QED BY <3>3, <3>4 DEF Incidents
  <2>2. CASE n \in Current
    <3>1. log'[n].inc < nextIncidentId /\ log'[n].inc \in Incidents
      <4>1. log'[n].inc = log[n].inc /\ log[n].inc < nextIncidentId
        BY <1>1, <2>2 DEF ContentExact
      <4>2. n \in 1..Len(log) /\ log \in Seq([inc : Incidents, kind : Kinds, id : Nat])
        BY <1>1, <2>2 DEF Stamps, TypeOK, StoreTypeOK
      <4>3. log[n] \in [inc : Incidents, kind : Kinds, id : Nat]
        BY <4>2, ElementOfSeq
      <4>4. QED BY <4>1, <4>3
    <3>2. log'[n].id = n - base'
      BY <1>1, <2>2 DEF ContentExact
    <3>3. QED BY <3>1, <3>2 DEF Incidents, TypeOK, StoreTypeOK
  <2>3. QED BY <1>1, <2>1, <2>2
<1>6. QED BY <1>4, <1>5 DEF ContentExact

(***************************************************************************)
(* IInv, one client at a time: k, h and e stand for conn[c], heard[c] and  *)
(* excused[c], flow for the stamps on their way to realtime-svc or lost.   *)
(***************************************************************************)
Flow == Range(chan) \cup Range(outbox) \cup missed

Shown(k, e) ==
  \A s \in Slots :
    /\ k.fetch[s].phase # "idle" => Unsnapshotted(k.fetch[s].owes) \subseteq e
    /\ k.fetch[s].phase = "answered" =>
         Visible(k.fetch[s].inc) \cap k.fetch[s].owes \subseteq k.fetch[s].body

Tagged(k) ==
  /\ \A f \in Range(k.wire) : FrameLabelled(f)
  /\ \A s \in Slots :
       /\ k.fetch[s].phase # "idle" => k.fetch[s].label = SeqOf(k.fetch[s].n)
       /\ k.fetch[s].phase = "answered" =>
            Visible(k.fetch[s].inc) \cap (1..k.fetch[s].n) \subseteq k.fetch[s].body

Watched(k) == {n \in Current : log[n].inc = k.sub}

Gapless(k, h, e, flow) ==
  k.status = "open" => Watched(k) \subseteq h \cup Held(k) \cup flow \cup e

ClientOK(k, h, e, flow) == Driven(k) /\ Shown(k, e) /\ Tagged(k) /\ Gapless(k, h, e, flow)

LEMMA ByClient ==
  IInv <=> /\ TypeOK /\ ContentExact
           /\ \A c \in Clients : ClientOK(conn[c], heard[c], excused[c], Flow)
<1>1. QueueDriven <=> \A c \in Clients : Driven(conn[c])
  BY DEF QueueDriven, Driven
<1>2. Labelled <=> \A c \in Clients : Tagged(conn[c])
  BY DEF Labelled, Tagged, FrameLabelled
<1>3. NoGap <=> \A c \in Clients : Gapless(conn[c], heard[c], excused[c], Flow)
  BY DEF NoGap, Gapless, Subscribed, Watched, Flow
<1>4. OwedShown <=> \A c \in Clients : Shown(conn[c], excused[c])
  BY DEF OwedShown, Shown
<1>5. QED BY <1>1, <1>2, <1>3, <1>4 DEF IInv, ClientOK

LEMMA LogType ==
  ASSUME TypeOK
  PROVE  /\ Len(log) \in Nat /\ Stamps = 1..Len(log) /\ Current \subseteq Stamps
         /\ \A n \in Stamps : log[n].inc \in Incidents /\ log[n].kind \in Kinds
<1>1. Len(log) \in Nat /\ Stamps = 1..Len(log) /\ Current \subseteq Stamps
  BY DEF TypeOK, StoreTypeOK, Stamps, Current
<1>2. ASSUME NEW n \in Stamps PROVE log[n] \in [inc : Incidents, kind : Kinds, id : Nat]
  BY <1>1, ElementOfSeq DEF TypeOK, StoreTypeOK
<1>3. QED BY <1>1, <1>2

\* GET /incidents/:id shows exactly the visible events of the incident.
LEMMA GetShows ==
  ASSUME TypeOK, ContentExact, NEW i \in Incidents \cup {NoIncident}
  PROVE  GetIncident(i) = Visible(i)
<1>1. CASE i = NoIncident
  <2>1. GetIncident(i) = {}
    BY <1>1 DEF GetIncident, Exists, NoIncident
  <2>2. \A n \in Current : log[n].inc # i
    BY <1>1, LogType DEF NoIncident, Incidents
  <2>3. QED BY <2>1, <2>2 DEF Visible
<1>2. CASE i \in Incidents /\ Exists(i)
  BY <1>2 DEF GetIncident, ContentExact
<1>3. CASE i \in Incidents /\ ~Exists(i)
  <2>1. i >= nextIncidentId
    BY <1>3 DEF Exists, Incidents, TypeOK, StoreTypeOK
  <2>2. ASSUME NEW n \in Current PROVE log[n].inc # i
    <3>1. log[n].inc < nextIncidentId /\ log[n].inc \in Incidents
      BY LogType DEF ContentExact
    <3>2. QED BY <1>3, <2>1, <3>1 DEF Incidents, TypeOK, StoreTypeOK
  <2>3. QED BY <1>3, <2>2 DEF Visible, GetIncident
<1>4. QED BY <1>1, <1>2, <1>3

\* A connection that carries on with the same requests and incident, and that
\* has moved queued numbers onto the wire or kept them.
LEMMA MovesOn ==
  ASSUME NEW k, NEW new, NEW h, NEW e, NEW flow, TypeOK,
         ClientOK(k, h, e, flow), new.sub = k.sub, new.fetch = k.fetch, Driven(new),
         new.status = "open" => k.status = "open",
         WireGrows(k, new), Onward(Range(k.queue), new)
  PROVE  ClientOK(new, h, e, flow)
<1>1. Carried(k) \subseteq Carried(new)
  BY DEF Carried, WireGrows
<1>2. ASSUME NEW x \in Range(k.queue), x # Notice
      PROVE  x \in Range(new.queue) \cup Carried(new)
  <2>1. x \in Range(new.queue) \/ EventFrame(x) \in Range(new.wire)
    BY DEF Onward
  <2>2. x \in EventFrame(x).body
    BY <1>2 DEF EventFrame
  <2>3. QED BY <2>1, <2>2 DEF Carried
<1>3. Owed(new) = Owed(k)
  BY DEF Owed, Owing
<1>4. Held(k) \ {Notice} \subseteq Held(new)
  BY <1>1, <1>2, <1>3 DEF Held
<1>5. Watched(new) = Watched(k) /\ Notice \notin Watched(k)
  BY LogType DEF Watched, Notice
<1>6. Gapless(new, h, e, flow)
  BY <1>4, <1>5 DEF ClientOK, Gapless
<1>7. Shown(new, e)
  BY DEF ClientOK, Shown
<1>8. Tagged(new)
  <2>1. ASSUME NEW f \in Range(new.wire) PROVE FrameLabelled(f)
    BY DEF ClientOK, Tagged, FrameLabelled, WireGrows
  <2>2. QED BY <2>1 DEF ClientOK, Tagged
<1>9. QED BY <1>6, <1>7, <1>8 DEF ClientOK

\* A new or closed connection holds nothing and watches nothing.
LEMMA BlankOK ==
  ASSUME NEW k, NEW h, NEW e, NEW flow, TypeOK,
         k.queue = << >>, k.wire = << >>, k.sub = NoIncident,
         \A s \in Slots : k.fetch[s] = Idle
  PROVE  ClientOK(k, h, e, flow)
<1>1. Idle.phase = "idle"
  BY DEF Idle
<1>2. Watched(k) = {}
  BY LogType DEF Watched, NoIncident, Incidents
<1>3. Driven(k) /\ Shown(k, e) /\ Tagged(k) /\ Gapless(k, h, e, flow)
  BY <1>1, <1>2, RangeEmpty DEF Driven, Shown, Tagged, Gapless
<1>4. QED BY <1>3 DEF ClientOK

(***************************************************************************)
(* The steps of one connection.                                            *)
(***************************************************************************)
LEMMA SubscribeNowOK ==
  ASSUME TypeOK, NEW c \in Clients, NEW i \in Incidents, SubscribeFromNow(c, i),
         ClientOK(conn[c], heard[c], excused[c], Flow)
  PROVE  ClientOK(conn'[c], heard'[c], excused'[c], Flow)
<1> DEFINE k == conn[c]
           new == [k EXCEPT !.sub = i]
<1>1. conn'[c] = new /\ heard'[c] = heard[c] /\ excused'[c] = Stamps /\ excused[c] \subseteq Stamps
  BY DEF SubscribeFromNow, TypeOK, RtTypeOK
<1>2. /\ new.sub = i /\ new.status = k.status /\ new.fetch = k.fetch
      /\ new.queue = k.queue /\ new.wire = k.wire /\ new.sending = k.sending
  <2>1. k \in Connection(Len(log))
    BY DEF TypeOK, RtTypeOK
  <2>2. QED BY <2>1 DEF Connection
<1> HIDE DEF new, k
<1>3. Driven(new) /\ Tagged(new)
  BY <1>2 DEF ClientOK, Driven, Tagged, k
<1>4. Shown(new, Stamps)
  BY <1>1, <1>2 DEF ClientOK, Shown, k
<1>5. Gapless(new, heard[c], Stamps, Flow)
  BY LogType DEF Gapless, Watched
<1>6. QED BY <1>1, <1>3, <1>4, <1>5 DEF ClientOK

LEMMA SubscribeSeqOK ==
  ASSUME TypeOK, NEW c \in Clients, NEW i \in Incidents, SubscribeFromSeq(c, i),
         ClientOK(conn[c], heard[c], excused[c], Flow)
  PROVE  ClientOK(conn'[c], heard'[c], excused'[c], Flow)
<1> DEFINE m == Len(log)
           k == conn[c]
           subd == [k EXCEPT !.sub = i]
           new == AskSnapshot(subd, last[c], Stamps, "subscribe")
<1>1. m \in Nat /\ k \in Connection(m) /\ last[c] \in 0..m /\ Stamps \in SUBSET (1..m)
  BY LogType DEF TypeOK, RtTypeOK
<1>2. /\ conn'[c] = new /\ heard'[c] = heard[c] /\ excused'[c] = Unsnapshotted(Stamps)
      /\ FreeSlots(k) # {}
  BY DEF SubscribeFromSeq, TypeOK, RtTypeOK
<1>3. /\ subd \in Connection(m) /\ subd.sub = i /\ subd.status = k.status
      /\ subd.fetch = k.fetch /\ subd.queue = k.queue /\ subd.wire = k.wire
      /\ subd.sending = k.sending
  BY <1>1 DEF Connection
<1>4. FreeSlots(subd) = FreeSlots(k)
  BY <1>3 DEF FreeSlots
<1>5. /\ new.status = k.status /\ new.sub = i /\ new.wire = k.wire
      /\ new.queue = k.queue /\ new.sending = k.sending
      /\ Asks(subd, last[c], Stamps, "subscribe", new.fetch)
  <2> HIDE DEF subd
  <2>1. /\ new.status = subd.status /\ new.sub = subd.sub /\ new.wire = subd.wire
        /\ Asks(subd, last[c], Stamps, "subscribe", new.fetch)
    BY <1>1, <1>2, <1>3, <1>4, AskEffect
  <2>2. new.queue = subd.queue /\ new.sending = subd.sending
    BY <1>3 DEF AskSnapshot, Connection
  <2>3. QED BY <1>3, <2>1, <2>2
<1>6. PICK s \in FreeSlots(k) :
        new.fetch = [k.fetch EXCEPT ![s] = Asked(subd, last[c], Stamps, "subscribe")]
  BY <1>3, <1>4, <1>5 DEF Asks
<1> HIDE DEF new, subd, m
<1>7. k.fetch \in [Slots -> Fetch(m)] /\ s \in Slots
  BY <1>1, ConnectionParts DEF FreeSlots
<1>8. /\ new.fetch[s].phase = "asked" /\ new.fetch[s].inc = i
      /\ new.fetch[s].n = last[c] /\ new.fetch[s].label = SeqOf(last[c])
      /\ new.fetch[s].owes = Stamps
      /\ \A t \in Slots \ {s} : new.fetch[t] = k.fetch[t] /\ k.fetch[t] \in Fetch(m)
  BY <1>3, <1>6, <1>7 DEF Asked
<1>9. Driven(new)
  BY <1>5 DEF ClientOK, Driven
<1>10. Shown(new, Unsnapshotted(Stamps))
  <2>1. ASSUME NEW t \in Slots, t # s
        PROVE  Unsnapshotted(k.fetch[t].owes) \subseteq Unsnapshotted(Stamps)
    BY <1>8, <2>1, LogType DEF Fetch, Unsnapshotted, m
  <2>2. QED BY <1>8, <2>1 DEF ClientOK, Shown
<1>11. Tagged(new)
  BY <1>5, <1>8 DEF ClientOK, Tagged
<1>12. Gapless(new, heard[c], Unsnapshotted(Stamps), Flow)
  <2>1. s \in Owing(new)
    BY <1>5, <1>7, <1>8 DEF Owing
  <2>2. Stamps \subseteq Held(new)
    BY <1>8, <2>1 DEF Held, Owed
  <2>3. QED BY <2>2, LogType DEF Gapless, Watched
<1>13. QED BY <1>2, <1>9, <1>10, <1>11, <1>12 DEF ClientOK

LEMMA SendOK ==
  ASSUME TypeOK, NEW c \in Clients, SendDone(c) \/ SendError(c),
         ClientOK(conn[c], heard[c], excused[c], Flow)
  PROVE  ClientOK(conn'[c], heard'[c], excused'[c], Flow)
<1> DEFINE m == Len(log)
           k == conn[c]
<1>1. m \in Nat /\ k \in Connection(m)
  BY LogType DEF TypeOK, RtTypeOK
<1>2. heard' = heard /\ excused' = excused
  BY DEF SendDone, SendError
<1>3. CASE SendDone(c)
  <2> DEFINE idle == [k EXCEPT !.sending = FALSE]
  <2>1. /\ idle \in Connection(m) /\ idle.status = k.status /\ idle.sub = k.sub
        /\ idle.fetch = k.fetch /\ idle.queue = k.queue /\ idle.wire = k.wire
    BY <1>1 DEF Connection
  <2>2. conn'[c] = Flush(idle)
    BY <1>3 DEF SendDone, TypeOK, RtTypeOK
  <2> HIDE DEF idle
  <2>3. /\ Flush(idle).status = idle.status /\ Flush(idle).sub = idle.sub
        /\ Flush(idle).fetch = idle.fetch /\ Driven(Flush(idle))
        /\ WireGrows(idle, Flush(idle)) /\ Onward(Range(idle.queue), Flush(idle))
    BY <1>1, <2>1, FlushEffect
  <2>4. WireGrows(k, Flush(idle)) /\ Onward(Range(k.queue), Flush(idle))
    BY <2>1, <2>3 DEF WireGrows
  <2> DEFINE new == Flush(idle)
  <2>5. /\ new.status = k.status /\ new.sub = k.sub /\ new.fetch = k.fetch
        /\ Driven(new) /\ WireGrows(k, new) /\ Onward(Range(k.queue), new)
    BY <2>1, <2>3, <2>4
  <2> HIDE DEF new, k
  <2>6. ClientOK(new, heard[c], excused[c], Flow)
    BY <2>5, MovesOn DEF k
  <2>7. QED BY <1>2, <2>2, <2>6 DEF new
<1>4. CASE SendError(c)
  <2> DEFINE new == [k EXCEPT !.sending = FALSE, !.status = "closing"]
  <2>1. conn'[c] = new
    BY <1>4 DEF SendError, TypeOK, RtTypeOK
  <2>2. /\ new.status = "closing" /\ new.fetch = k.fetch /\ new.wire = k.wire
    BY <1>1 DEF Connection
  <2> HIDE DEF new
  <2>3. Driven(new) /\ Shown(new, excused[c]) /\ Tagged(new)
        /\ Gapless(new, heard[c], excused[c], Flow)
    BY <2>2 DEF ClientOK, Driven, Shown, Tagged, Gapless
  <2>4. QED BY <1>2, <2>1, <2>3 DEF ClientOK
<1>5. QED BY <1>3, <1>4

LEMMA AnswerOK ==
  ASSUME TypeOK, ContentExact, NEW c \in Clients, NEW s \in Slots, Answer(c, s),
         ClientOK(conn[c], heard[c], excused[c], Flow)
  PROVE  ClientOK(conn'[c], heard'[c], excused'[c], Flow)
<1> DEFINE m == Len(log)
           k == conn[c]
           f == k.fetch[s]
           g == Answered(f, GetIncident(f.inc))
           new == [k EXCEPT !.fetch = [k.fetch EXCEPT ![s] = g]]
<1>1. m \in Nat /\ k \in Connection(m) /\ k.fetch \in [Slots -> Fetch(m)]
  BY LogType, ConnectionParts DEF TypeOK, RtTypeOK
<1>2. /\ conn'[c] = new /\ heard' = heard /\ excused' = excused /\ f.phase = "asked"
  BY <1>1 DEF Answer, TypeOK, RtTypeOK
<1>3. /\ new.status = k.status /\ new.sub = k.sub /\ new.queue = k.queue
      /\ new.wire = k.wire /\ new.sending = k.sending
      /\ new.fetch[s] = g
      /\ \A t \in Slots \ {s} : new.fetch[t] = k.fetch[t]
  BY <1>1 DEF Connection
<1>4. /\ g.phase = "answered" /\ g.inc = f.inc /\ g.label = f.label /\ g.n = f.n /\ g.owes = f.owes
      /\ g.body = Visible(f.inc)
  <2>1. f \in Fetch(m) /\ f.inc \in Incidents \cup {NoIncident}
    BY <1>1 DEF Fetch
  <2>2. GetIncident(f.inc) = Visible(f.inc)
    BY <2>1, GetShows
  <2>3. QED BY <2>1, <2>2 DEF Answered, Fetch
<1> HIDE DEF new, g, m
<1>5. Driven(new) /\ Tagged(new) /\ Shown(new, excused[c])
  <2>1. Driven(new)
    BY <1>3 DEF ClientOK, Driven
  <2>2. Tagged(new)
    BY <1>2, <1>3, <1>4 DEF ClientOK, Tagged
  <2>3. Shown(new, excused[c])
    BY <1>2, <1>3, <1>4 DEF ClientOK, Shown
  <2>4. QED BY <2>1, <2>2, <2>3
<1>6. Owed(new) = Owed(k)
  <2>1. Owing(new) = Owing(k)
    BY <1>2, <1>3, <1>4 DEF Owing
  <2>2. \A t \in Owing(k) : new.fetch[t].owes = k.fetch[t].owes
    BY <1>3, <1>4 DEF Owing
  <2>3. QED BY <2>1, <2>2 DEF Owed
<1>7. Gapless(new, heard[c], excused[c], Flow)
  BY <1>3, <1>6 DEF ClientOK, Gapless, Watched, Held, Carried
<1>8. QED BY <1>2, <1>5, <1>7 DEF ClientOK

\* What an ended request stood for is on the socket or excused.
LEMMA RequestEnds ==
  ASSUME NEW k, NEW new, NEW h, NEW e, NEW ee, NEW flow, NEW s \in Slots,
         ClientOK(k, h, e, flow), e \subseteq ee,
         new.status = k.status, new.sub = k.sub, new.queue = k.queue,
         new.sending = k.sending, new.fetch[s] = Idle,
         \A t \in Slots \ {s} : new.fetch[t] = k.fetch[t],
         Range(k.wire) \subseteq Range(new.wire),
         \A f \in Range(new.wire) : f \in Range(k.wire) \/ FrameLabelled(f),
         k.status = "open" /\ k.fetch[s].inc = k.sub =>
           Watched(k) \cap k.fetch[s].owes \subseteq Carried(new) \cup ee
  PROVE  ClientOK(new, h, ee, flow)
<1>1. Idle.phase = "idle"
  BY DEF Idle
<1>2. Driven(new)
  BY DEF ClientOK, Driven
<1>3. Shown(new, ee)
  BY <1>1 DEF ClientOK, Shown
<1>4. Tagged(new)
  BY <1>1 DEF ClientOK, Tagged
<1>5. ASSUME new.status = "open" PROVE Watched(k) \subseteq h \cup Held(new) \cup flow \cup ee
  <2>1. Carried(k) \subseteq Carried(new)
    BY DEF Carried
  <2>2. Owing(k) \ {s} \subseteq Owing(new)
    BY DEF Owing
  <2>3. ASSUME NEW n \in Watched(k), n \in Owed(k)
        PROVE  n \in Carried(new) \cup Owed(new) \cup ee
    <3>1. PICK t \in Owing(k) : n \in k.fetch[t].owes
      BY <2>3 DEF Owed
    <3>2. CASE t = s
      BY <1>5, <3>1, <3>2 DEF Owing
    <3>3. CASE t # s
      <4>1. t \in Owing(new) /\ new.fetch[t] = k.fetch[t]
        BY <2>2, <3>1, <3>3 DEF Owing
      <4>2. QED BY <3>1, <4>1 DEF Owed
    <3>4. QED BY <3>2, <3>3
  <2>4. Watched(k) \subseteq h \cup Held(k) \cup flow \cup e
    BY <1>5 DEF ClientOK, Gapless
  <2>5. QED BY <2>1, <2>3, <2>4 DEF Held
<1>6. Gapless(new, h, ee, flow)
  BY <1>5 DEF Gapless, Watched
<1>7. QED BY <1>2, <1>3, <1>4, <1>6 DEF ClientOK

LEMMA SnapshotArrivesOK ==
  ASSUME TypeOK, NEW c \in Clients, NEW s \in Slots, SnapshotArrives(c, s),
         ClientOK(conn[c], heard[c], excused[c], Flow)
  PROVE  ClientOK(conn'[c], heard'[c], excused'[c], Flow)
<1> DEFINE m == Len(log)
           k == conn[c]
           f == k.fetch[s]
           w == IF k.status = "open" THEN Append(k.wire, SnapshotFrame(f)) ELSE k.wire
           new == [k EXCEPT !.fetch = [k.fetch EXCEPT ![s] = Idle], !.wire = w]
<1>1. /\ m \in Nat /\ k \in Connection(m) /\ k.fetch \in [Slots -> Fetch(m)]
      /\ k.wire \in Seq(Frame(m))
  BY LogType, ConnectionParts DEF TypeOK, RtTypeOK
<1>2. /\ conn'[c] = new /\ heard' = heard /\ excused' = excused /\ f.phase = "answered"
  BY <1>1 DEF SnapshotArrives, TypeOK, RtTypeOK
<1>3. SnapshotFrame(f) \in Frame(m)
  BY <1>1, SnapshotFrameType
<1>4. Range(w) = Range(k.wire) \cup (IF k.status = "open" THEN {SnapshotFrame(f)} ELSE {})
  BY <1>1, <1>3, RangeAppend
<1> HIDE DEF w
<1>5. /\ new.status = k.status /\ new.sub = k.sub /\ new.queue = k.queue
      /\ new.wire = w /\ new.sending = k.sending /\ new.fetch[s] = Idle
      /\ \A t \in Slots \ {s} : new.fetch[t] = k.fetch[t]
  BY <1>1 DEF Connection
<1> HIDE DEF new, m
<1>6. FrameLabelled(SnapshotFrame(f))
  BY <1>2 DEF ClientOK, Tagged, FrameLabelled, SnapshotFrame
<1>7. ASSUME k.status = "open", f.inc = k.sub
      PROVE  Watched(k) \cap f.owes \subseteq Carried(new) \cup excused[c]
  <2>1. SnapshotFrame(f) \in Range(new.wire) /\ SnapshotFrame(f).body = f.body
    BY <1>4, <1>5, <1>7 DEF SnapshotFrame
  <2>2. f.body \subseteq Carried(new)
    BY <2>1 DEF Carried
  <2>3. /\ Unsnapshotted(f.owes) \subseteq excused[c]
        /\ Visible(f.inc) \cap f.owes \subseteq f.body
    BY <1>2 DEF ClientOK, Shown
  <2>4. QED BY <1>7, <2>2, <2>3 DEF Watched, Visible, Unsnapshotted
<1>8. \A g \in Range(new.wire) : g \in Range(k.wire) \/ FrameLabelled(g)
  BY <1>4, <1>5, <1>6
<1>9. Range(k.wire) \subseteq Range(new.wire)
  BY <1>4, <1>5
<1> HIDE DEF k
<1>10. ClientOK(new, heard[c], excused[c], Flow)
  BY <1>5, <1>7, <1>8, <1>9, RequestEnds DEF k
<1>11. QED BY <1>2, <1>10

LEMMA SnapshotFailsOK ==
  ASSUME TypeOK, NEW c \in Clients, NEW s \in Slots, SnapshotFails(c, s),
         ClientOK(conn[c], heard[c], excused[c], Flow)
  PROVE  ClientOK(conn'[c], heard'[c], excused'[c], Flow)
<1> DEFINE m == Len(log)
           k == conn[c]
           new == [k EXCEPT !.fetch = [k.fetch EXCEPT ![s] = Idle]]
<1>1. m \in Nat /\ k \in Connection(m) /\ k.fetch \in [Slots -> Fetch(m)]
  BY LogType, ConnectionParts DEF TypeOK, RtTypeOK
<1>2. /\ conn'[c] = new /\ heard' = heard
      /\ excused'[c] = excused[c] \cup k.fetch[s].owes
  BY <1>1 DEF SnapshotFails, TypeOK, RtTypeOK
<1>3. /\ new.status = k.status /\ new.sub = k.sub /\ new.queue = k.queue
      /\ new.wire = k.wire /\ new.sending = k.sending /\ new.fetch[s] = Idle
      /\ \A t \in Slots \ {s} : new.fetch[t] = k.fetch[t]
  BY <1>1 DEF Connection
<1> HIDE DEF new, k, m
<1>4. ClientOK(new, heard[c], excused'[c], Flow)
  BY <1>2, <1>3, RequestEnds DEF k
<1>5. QED BY <1>2, <1>4

LEMMA ReceiveOK ==
  ASSUME TypeOK, NEW c \in Clients, Receive(c),
         ClientOK(conn[c], heard[c], excused[c], Flow)
  PROVE  ClientOK(conn'[c], heard'[c], excused'[c], Flow)
<1> DEFINE m == Len(log)
           k == conn[c]
           new == [k EXCEPT !.wire = Tail(k.wire)]
<1>1. m \in Nat /\ k \in Connection(m) /\ k.wire \in Seq(Frame(m)) /\ k.wire # << >>
  BY LogType, ConnectionParts DEF TypeOK, RtTypeOK, Receive
<1>2. /\ conn'[c] = new /\ excused' = excused
      /\ heard'[c] = heard[c] \cup Head(k.wire).body
  BY <1>1 DEF Receive, TypeOK, RtTypeOK
<1>3. /\ new.status = k.status /\ new.sub = k.sub /\ new.queue = k.queue
      /\ new.wire = Tail(k.wire) /\ new.sending = k.sending /\ new.fetch = k.fetch
  BY <1>1 DEF Connection
<1>4. Range(k.wire) = Range(Tail(k.wire)) \cup {Head(k.wire)}
  <2> HIDE DEF m, k
  <2> QED BY <1>1, RangeTail
<1> HIDE DEF new, m
<1>5. Driven(new) /\ Shown(new, excused[c]) /\ Tagged(new)
  BY <1>3, <1>4 DEF ClientOK, Driven, Shown, Tagged
<1>6. Carried(k) \subseteq Carried(new) \cup Head(k.wire).body /\ Owed(new) = Owed(k)
  BY <1>3, <1>4 DEF Carried, Owed, Owing
<1>7. Gapless(new, heard'[c], excused[c], Flow)
  BY <1>2, <1>3, <1>6 DEF ClientOK, Gapless, Watched, Held
<1>8. QED BY <1>2, <1>5, <1>7 DEF ClientOK

LEMMA ConnectionStepOK ==
  ASSUME TypeOK, ContentExact, NEW c \in Clients, ConnectionStep(c),
         ClientOK(conn[c], heard[c], excused[c], Flow)
  PROVE  /\ ClientOK(conn'[c], heard'[c], excused'[c], Flow)
         /\ \A d \in Clients \ {c} :
              conn'[d] = conn[d] /\ heard'[d] = heard[d] /\ excused'[d] = excused[d]
<1>1. ASSUME Connect(c) \/ Close(c)
      PROVE  ClientOK(conn'[c], heard'[c], excused'[c], Flow)
  <2>1. /\ conn'[c].queue = << >> /\ conn'[c].wire = << >> /\ conn'[c].sub = NoIncident
        /\ \A s \in Slots : conn'[c].fetch[s] = Idle
    BY <1>1 DEF Connect, Close, Off, TypeOK, RtTypeOK
  <2> DEFINE new == conn'[c]
  <2> HIDE DEF new
  <2>2. ClientOK(new, heard'[c], excused'[c], Flow)
    BY <2>1, BlankOK DEF new
  <2>3. QED BY <2>2 DEF new
<1>2. ClientOK(conn'[c], heard'[c], excused'[c], Flow)
  BY <1>1, SubscribeNowOK, SubscribeSeqOK, SendOK, AnswerOK, SnapshotArrivesOK,
     SnapshotFailsOK, ReceiveOK DEF ConnectionStep
<1>3. ASSUME NEW d \in Clients \ {c}
      PROVE  conn'[d] = conn[d] /\ heard'[d] = heard[d] /\ excused'[d] = excused[d]
  BY DEF ConnectionStep, Connect, SubscribeFromNow, SubscribeFromSeq, SendDone, SendError,
    Answer, SnapshotArrives, SnapshotFails, Receive, Close, TypeOK, RtTypeOK
<1>4. QED BY <1>2, <1>3

(***************************************************************************)
(* Delivery of a notification to every connection that wants it.           *)
(***************************************************************************)
LEMMA EnqueueOK ==
  ASSUME TypeOK, NEW k \in Connection(Len(log)), NEW n \in 0..Len(log), NEW h, NEW e,
         NEW flow, NEW ee, NEW left, Wants(k, n),
         Overflows(k) => FreeSlots(k) # {},
         ClientOK(k, h, e, flow), flow \subseteq left \cup {n}, e \subseteq ee,
         Overflows(k) => Unsnapshotted((Range(k.queue) \cup {n}) \ {Notice}) \subseteq ee
  PROVE  ClientOK(Enqueue(k, n), h, ee, left)
<1> DEFINE m == Len(log)
           new == Enqueue(k, n)
           owes == (Range(k.queue) \cup {n}) \ {Notice}
<1>1. m \in Nat /\ k.fetch \in [Slots -> Fetch(m)] /\ Driven(k) /\ SeqNat
  BY LogType, SeqOfType, ConnectionParts DEF ClientOK
<1>2. /\ new.status = k.status /\ new.sub = k.sub /\ Driven(new) /\ WireGrows(k, new)
      /\ \/ ~Overflows(k) /\ new.fetch = k.fetch
         \/ Overflows(k) /\ Asks(k, n, owes, "overflow", new.fetch)
  BY <1>1, EnqueueEffect
<1>3. (Held(k) \cup {n}) \ {Notice} \subseteq Held(new)
  BY <1>1, EnqueueHeld
<1> HIDE DEF new, owes, m
<1>4. Gapless(new, h, ee, left)
  <2>1. Watched(new) = Watched(k) /\ Notice \notin Watched(k)
    BY <1>2, LogType DEF Watched, Notice
  <2>2. QED BY <1>2, <1>3, <2>1 DEF ClientOK, Gapless
<1>5. Shown(new, ee) /\ Tagged(new)
  <2>1. \A f \in Range(new.wire) : FrameLabelled(f)
    BY <1>2 DEF ClientOK, Tagged, FrameLabelled, WireGrows
  <2>2. CASE new.fetch = k.fetch
    BY <2>1, <2>2 DEF ClientOK, Shown, Tagged
  <2>3. CASE Overflows(k) /\ Asks(k, n, owes, "overflow", new.fetch)
    <3>1. PICK s \in FreeSlots(k) :
            new.fetch = [k.fetch EXCEPT ![s] = Asked(k, n, owes, "overflow")]
      BY <2>3 DEF Asks
    <3>2. /\ new.fetch[s].phase = "asked" /\ new.fetch[s].owes = owes
          /\ new.fetch[s].n = n /\ new.fetch[s].label = SeqOf(n)
          /\ \A t \in Slots \ {s} : new.fetch[t] = k.fetch[t]
      BY <1>1, <3>1 DEF FreeSlots, Asked
    <3>3. Unsnapshotted(owes) \subseteq ee
      BY <2>3 DEF owes
    <3>4. QED BY <2>1, <3>2, <3>3 DEF ClientOK, Shown, Tagged
  <2>4. QED BY <1>2, <2>2, <2>3
<1>6. QED BY <1>2, <1>4, <1>5 DEF ClientOK, new

LEMMA DeliverOK ==
  ASSUME TypeOK, Deliver, NEW c \in Clients, ClientOK(conn[c], heard[c], excused[c], Flow)
  PROVE  ClientOK(conn'[c], heard'[c], excused'[c], Range(Tail(chan)) \cup Range(outbox) \cup missed)
<1> DEFINE n == Head(chan)
           k == conn[c]
           left == Range(Tail(chan)) \cup Range(outbox) \cup missed
           lost == Unsnapshotted((Range(k.queue) \cup {n}) \ {Notice})
<1>1. /\ Len(log) \in Nat /\ k \in Connection(Len(log)) /\ n \in 0..Len(log)
      /\ Range(chan) = Range(Tail(chan)) \cup {n}
  <2>1. chan \in Seq(0..Len(log)) /\ chan # << >>
    BY DEF TypeOK, StoreTypeOK, Deliver
  <2>2. QED BY <2>1, RangeTail, LogType DEF TypeOK, RtTypeOK
<1>2. Flow \subseteq left \cup {n}
  BY <1>1 DEF Flow
<1>3. heard' = heard /\ Broadcast(n)
  BY DEF Deliver, Broadcast
<1>4. CASE Wants(k, n)
  <2>1. Overflows(k) => FreeSlots(k) # {}
    BY <1>3, <1>4 DEF Broadcast
  <2>2. conn'[c] = Enqueue(k, n)
    BY <1>3, <1>4 DEF Broadcast
  <2>3. excused[c] \subseteq excused'[c] /\ (Overflows(k) => lost \subseteq excused'[c])
    BY <1>3, <1>4 DEF Broadcast
  <2> HIDE DEF n, k, left
  <2>4. ClientOK(Enqueue(k, n), heard[c], excused'[c], left)
    BY <1>1, <1>2, <1>4, <2>1, <2>3, EnqueueOK DEF k
  <2>5. QED BY <1>3, <2>2, <2>4 DEF left
<1>5. CASE ~Wants(k, n)
  <2>1. conn'[c] = k /\ excused'[c] = excused[c]
    BY <1>3, <1>5 DEF Broadcast
  <2>2. k.status = "open" => n \notin Watched(k)
    BY <1>5 DEF Wants, Watched
  <2>3. Gapless(k, heard[c], excused[c], left)
    BY <1>2, <2>2 DEF ClientOK, Gapless
  <2>4. QED BY <1>3, <2>1, <2>3 DEF ClientOK
<1>6. QED BY <1>4, <1>5

(***************************************************************************)
(* Steps that commit nothing: what is on its way may move but not vanish.  *)
(***************************************************************************)
LEMMA SameLog ==
  ASSUME NEW c \in Clients, NEW flow, log' = log, base' = base,
         ClientOK(conn'[c], heard'[c], excused'[c], flow), flow \subseteq Flow'
  PROVE  ClientOK(conn[c], heard[c], excused[c], Flow)'
<1>1. /\ \A i : Visible(i)' = Visible(i)
      /\ Current' = Current
      /\ \A ns : Unsnapshotted(ns)' = Unsnapshotted(ns)
  BY DEF Visible, Current, Unsnapshotted
<1>a. \A n : SeqOf(n)' = SeqOf(n)
  BY DEF SeqOf, Stamps
<1>2. Shown(conn[c], excused[c])'
  BY <1>1 DEF ClientOK, Shown
<1>3. Tagged(conn[c])'
  BY <1>1, <1>a DEF ClientOK, Tagged, FrameLabelled
<1>4. Gapless(conn[c], heard[c], excused[c], Flow)'
  BY <1>1 DEF ClientOK, Gapless, Watched, Held, Owed, Owing, Carried
<1>5. Driven(conn[c])'
  BY DEF ClientOK, Driven
<1>6. QED BY <1>2, <1>3, <1>4, <1>5 DEF ClientOK

\* A commit makes no snapshot wrong and puts its event on the way or in missed.
LEMMA CommitOK ==
  ASSUME TypeOK, NEW i \in Incidents, NEW kind \in Kinds, CommitEvent(i, kind),
         UNCHANGED <<rtVars, restarts>>, NEW c \in Clients,
         ClientOK(conn[c], heard[c], excused[c], Flow)
  PROVE  ClientOK(conn[c], heard[c], excused[c], Flow)'
<1> DEFINE m == Len(log)
           k == conn[c]
           new == Len(log) + 1
<1>1. /\ \A n \in Stamps : log'[n] = log[n]
      /\ Current \subseteq Stamps
      /\ Current' = Current \cup {new}
      /\ new \notin Stamps
  BY CommitVisible
<1>2. m \in Nat /\ Stamps = 1..m /\ k \in Connection(m) /\ conn' = conn
      /\ heard' = heard /\ excused' = excused
  BY LogType DEF TypeOK, RtTypeOK, rtVars
<1>3. \A j : Visible(j)' \cap Stamps = Visible(j) \cap Stamps
  BY <1>1 DEF Visible
<1>4. \A ns \in SUBSET Stamps : Unsnapshotted(ns)' = Unsnapshotted(ns)
  BY <1>1 DEF Unsnapshotted
<1>a. \A n \in 0..m : SeqOf(n)' = SeqOf(n)
  <2>1. Stamps' = Stamps \cup {new} /\ new \notin 0..m
    BY <1>2, CommitType DEF Stamps
  <2>2. QED BY <1>1, <1>2, <2>1 DEF SeqOf
<1>5. ASSUME NEW s \in Slots
      PROVE  k.fetch[s].owes \subseteq Stamps /\ 1..k.fetch[s].n \subseteq Stamps
             /\ SeqOf(k.fetch[s].n)' = SeqOf(k.fetch[s].n)
  <2>1. k.fetch[s] \in Fetch(m)
    BY <1>2, ConnectionParts
  <2>2. QED BY <1>2, <1>a, <2>1 DEF Fetch
<1>6. ASSUME NEW f \in Range(k.wire)
      PROVE  1..f.n \subseteq Stamps /\ SeqOf(f.n)' = SeqOf(f.n)
  <2>1. f \in Frame(m)
    BY <1>2, ConnectionParts, RangeType
  <2>2. QED BY <1>2, <1>a, <2>1 DEF Frame
<1>7. Flow \cup {new} \subseteq Flow'
  <2>1. CASE outbox' = Append(outbox, new) /\ UNCHANGED missed
    <3>1. outbox \in Seq(Nat) /\ new \in Nat
      BY <1>2, SeqMonotonic DEF TypeOK, StoreTypeOK
    <3>2. Range(outbox') = Range(outbox) \cup {new}
      BY <2>1, <3>1, RangeAppend
    <3>3. QED BY <2>1, <3>2 DEF Flow, CommitEvent
  <2>2. CASE missed' = missed \cup {new} /\ UNCHANGED outbox
    BY <2>2 DEF Flow, CommitEvent
  <2>3. QED BY <2>1, <2>2 DEF CommitEvent
<1> HIDE DEF new, m
<1>8. Shown(conn[c], excused[c])'
  BY <1>2, <1>3, <1>4, <1>5 DEF ClientOK, Shown
<1>9. Tagged(conn[c])'
  BY <1>2, <1>3, <1>5, <1>6 DEF ClientOK, Tagged, FrameLabelled
<1>10. Gapless(conn[c], heard[c], excused[c], Flow)'
  <2>1. Watched(conn[c])' \subseteq Watched(k) \cup {new}
    BY <1>1, <1>2 DEF Watched
  <2>2. Held(conn[c])' = Held(k)
    BY <1>2 DEF Held, Carried, Owed, Owing
  <2>3. QED BY <1>2, <1>7, <2>1, <2>2 DEF ClientOK, Gapless
<1>11. Driven(conn[c])'
  BY <1>2 DEF ClientOK, Driven
<1>12. QED BY <1>8, <1>9, <1>10, <1>11 DEF ClientOK

\* The routes of incident-svc as commits.
LEMMA Routed ==
  ASSUME TypeOK, ContentExact,
         CreateIncident \/ \E i \in Incidents : AddComment(i) \/ ChangeStatus(i) \/ AddAttachment(i)
  PROVE  /\ ContentExact'
         /\ \E i \in Incidents, kind \in Kinds : CommitEvent(i, kind)
<1> DEFINE Goal == ContentExact' /\ \E i \in Incidents, kind \in Kinds : CommitEvent(i, kind)
<1>1. /\ content \in [Incidents -> SUBSET Stamps] /\ nextIncidentId \in Nat
  BY DEF TypeOK, StoreTypeOK
<1>2. CASE CreateIncident
  <2> DEFINE i == nextIncidentId
  <2>1. /\ i \in Incidents /\ CommitEvent(i, "CREATED")
        /\ nextIncidentId' = i + 1 /\ content' = [content EXCEPT ![i] = {Len(log) + 1}]
    BY <1>2 DEF CreateIncident
  <2>2. content[i] = {}
    BY <1>1, GetShows, <2>1 DEF GetIncident, Exists, Incidents, ContentExact
  <2> DEFINE added == [content EXCEPT ![i] = @ \cup {Len(log) + 1}]
  <2>3. content' = IF "CREATED" \in SnapshotKinds THEN added ELSE content
    BY <1>1, <2>1, <2>2 DEF SnapshotKinds
  <2>4. "CREATED" \in Kinds /\ "CREATED" \in SnapshotKinds
    BY DEF Kinds, SnapshotKinds
  <2>a. nextIncidentId' >= i /\ nextIncidentId' > i /\ nextIncidentId' \in Nat
    BY <1>1, <2>1
  <2> HIDE DEF i
  <2>5. ContentExact'
    BY <2>1, <2>3, <2>4, <2>a, CommitContent DEF i
  <2>6. QED BY <2>1, <2>4, <2>5
<1>3. ASSUME NEW i \in Incidents, AddComment(i) \/ ChangeStatus(i) PROVE Goal
  <2>1. PICK kind \in SnapshotKinds :
          /\ CommitEvent(i, kind) /\ Exists(i) /\ nextIncidentId' = nextIncidentId
          /\ content' = [content EXCEPT ![i] = @ \cup {Len(log) + 1}]
    BY <1>3 DEF AddComment, ChangeStatus, SnapshotKinds
  <2>2. kind \in Kinds /\ nextIncidentId' > i /\ nextIncidentId' >= nextIncidentId
    BY <1>1, <2>1 DEF Kinds, Exists
  <2>a. content' = IF kind \in SnapshotKinds
                   THEN [content EXCEPT ![i] = @ \cup {Len(log) + 1}] ELSE content
    BY <2>1
  <2>3. ContentExact'
    BY <1>1, <2>1, <2>2, <2>a, CommitContent
  <2>4. QED BY <2>1, <2>2, <2>3
<1>4. ASSUME NEW i \in Incidents, AddAttachment(i) PROVE Goal
  <2>1. /\ CommitEvent(i, "ATTACHMENT_ADDED") /\ Exists(i)
        /\ nextIncidentId' = nextIncidentId /\ content' = content
    BY <1>4 DEF AddAttachment
  <2>2. "ATTACHMENT_ADDED" \in Kinds /\ "ATTACHMENT_ADDED" \notin SnapshotKinds
    BY DEF Kinds, SnapshotKinds
  <2>3. nextIncidentId > i
    BY <1>1, <2>1 DEF Exists
  <2>4. ContentExact'
    BY <1>1, <2>1, <2>2, <2>3, CommitContent
  <2>5. QED BY <2>1, <2>2, <2>4
<1>5. QED BY <1>2, <1>3, <1>4

\* Steps that leave the connections and what is visible alone.
LEMMA FlowKept ==
  ASSUME TypeOK, ContentExact, NEW c \in Clients,
         ClientOK(conn[c], heard[c], excused[c], Flow),
         DbConnected \/ DbConnectFails \/ Notify(listening) \/ NotifyFails \/ PlaybookNotify,
         UNCHANGED rtVars
  PROVE  ContentExact' /\ ClientOK(conn[c], heard[c], excused[c], Flow)'
<1>1. /\ log' = log /\ base' = base /\ content' = content /\ nextIncidentId' = nextIncidentId
      /\ conn' = conn /\ heard' = heard /\ excused' = excused
  BY DEF DbConnected, DbConnectFails, Notify, NotifyFails, PlaybookNotify, rtVars
<1>2. Flow \subseteq Flow'
  <2>1. CASE DbConnected
    BY <2>1 DEF DbConnected, Flow
  <2>2. CASE DbConnectFails
    BY <2>2 DEF DbConnectFails, Flow
  <2>3. CASE Notify(listening) \/ NotifyFails
    <3>1. outbox \in Seq(Stamps) /\ outbox # << >> /\ outbox' = Tail(outbox)
      BY <2>3 DEF Notify, NotifyFails, TypeOK, StoreTypeOK
    <3>2. Head(outbox) \in Stamps /\ Range(outbox) = Range(outbox') \cup {Head(outbox)}
      BY <3>1, RangeTail
    <3>3. Range(Append(chan, Head(outbox))) = Range(chan) \cup {Head(outbox)}
      <4>1. chan \in Seq(0..Len(log))
        BY DEF TypeOK, StoreTypeOK
      <4>2. Len(log) \in Nat /\ Stamps = 1..Len(log)
        BY LogType
      <4>3. Head(outbox) \in 0..Len(log)
        BY <3>2, <4>2
      <4>4. QED BY <4>1, <4>3, RangeAppend
    <3>4. Head(outbox) \in Range(chan') \cup missed' /\ Range(chan) \subseteq Range(chan')
          /\ missed \subseteq missed'
      BY <2>3, <3>3 DEF Notify, NotifyFails
    <3>5. QED BY <3>2, <3>4 DEF Flow
  <2>4. CASE PlaybookNotify
    <3>1. chan \in Seq(0..Len(log)) /\ Notice \in 0..Len(log) /\ chan' = Append(chan, Notice)
      BY <2>4, LogType DEF TypeOK, StoreTypeOK, PlaybookNotify, Notice
    <3>2. Range(chan') = Range(chan) \cup {Notice}
      BY <3>1, RangeAppend
    <3>3. QED BY <2>4, <3>2 DEF PlaybookNotify, Flow
  <2>5. QED BY <2>1, <2>2, <2>3, <2>4
<1>3. ContentExact'
  BY <1>1 DEF ContentExact, Visible, Current
<1>4. ClientOK(conn[c], heard[c], excused[c], Flow)'
  BY <1>1, <1>2, SameLog
<1>5. QED BY <1>3, <1>4

\* After a restart of incident-svc no event is current.
LEMMA StoreCrashOK ==
  ASSUME TypeOK, StoreCrash, NEW c \in Clients, ClientOK(conn[c], heard[c], excused[c], Flow)
  PROVE  ContentExact' /\ ClientOK(conn[c], heard[c], excused[c], Flow)'
<1>1. /\ log' = log /\ conn' = conn /\ heard' = heard /\ excused' = excused
      /\ content' = [i \in Incidents |-> {}] /\ base' = Len(log)
  BY DEF StoreCrash, StoreRestart, rtVars
<1>2. Current' = {}
  BY <1>1, LogType DEF Current
<1>3. ContentExact' /\ \A i : Visible(i)' = {}
  BY <1>1, <1>2 DEF ContentExact, Visible
<1>4. Watched(conn[c])' = {}
  BY <1>2 DEF Watched
<1>5. Shown(conn[c], excused[c])'
  BY <1>1, <1>3 DEF ClientOK, Shown, Unsnapshotted
<1>a. \A n : SeqOf(n)' = SeqOf(n)
  BY <1>1 DEF SeqOf, Stamps
<1>6. /\ Driven(conn[c])' /\ Tagged(conn[c])'
      /\ Gapless(conn[c], heard[c], excused[c], Flow)'
  BY <1>1, <1>3, <1>4, <1>a DEF ClientOK, Driven, Tagged, FrameLabelled, Gapless
<1>7. QED BY <1>3, <1>5, <1>6 DEF ClientOK

LEMMA RtCrashOK ==
  ASSUME TypeOK, RtCrash, ContentExact, NEW c \in Clients
  PROVE  ContentExact' /\ ClientOK(conn[c], heard[c], excused[c], Flow)'
<1>1. /\ log' = log /\ base' = base /\ content' = content /\ nextIncidentId' = nextIncidentId
      /\ conn'[c] = Off
  BY DEF RtCrash, RtRestart
<1>2. Off.queue = << >> /\ Off.wire = << >> /\ Off.sub = NoIncident
      /\ \A s \in Slots : Off.fetch[s] = Idle
  BY DEF Off
<1> DEFINE k == Off
           flow == {}
<1> HIDE DEF k
<1>3. ClientOK(k, heard'[c], excused'[c], flow)
  BY <1>2, BlankOK DEF k
<1>4. ClientOK(conn[c], heard[c], excused[c], Flow)'
  BY <1>1, <1>3, SameLog DEF k
<1>5. ContentExact'
  BY <1>1 DEF ContentExact, Visible, Current
<1>6. QED BY <1>4, <1>5

(***************************************************************************)
(* IInv is inductive.                                                      *)
(***************************************************************************)
AllOK == \A c \in Clients : ClientOK(conn[c], heard[c], excused[c], Flow)

LEMMA InitOK == Init => IInv
<1> SUFFICES ASSUME Init PROVE IInv
  OBVIOUS
<1>1. TypeOK
  BY InitType
<1>2. Current = {}
  BY DEF Init, StoreInit, Current
<1>3. ContentExact
  BY <1>2 DEF Init, StoreInit, ContentExact, Visible
<1>4. ASSUME NEW c \in Clients PROVE ClientOK(conn[c], heard[c], excused[c], Flow)
  <2>1. /\ conn[c].queue = << >> /\ conn[c].wire = << >> /\ conn[c].sub = NoIncident
        /\ \A s \in Slots : conn[c].fetch[s] = Idle
    BY DEF Init, RtInit, Off
  <2> DEFINE k == conn[c]
  <2> HIDE DEF k
  <2>2. ClientOK(k, heard[c], excused[c], Flow)
    BY <1>1, <2>1, BlankOK DEF k
  <2>3. QED BY <2>2 DEF k
<1>5. QED BY <1>1, <1>3, <1>4, ByClient

LEMMA NextOK == TypeOK /\ ContentExact /\ AllOK /\ [Next]_vars => ContentExact' /\ AllOK'
<1> SUFFICES ASSUME TypeOK, ContentExact, AllOK, [Next]_vars
             PROVE  ContentExact' /\ AllOK'
  OBVIOUS
<1> USE DEF AllOK
<1>1. CASE StoreStep /\ UNCHANGED <<rtVars, restarts>>
  <2>1. CASE CreateIncident \/ \E i \in Incidents :
               AddComment(i) \/ ChangeStatus(i) \/ AddAttachment(i)
    <3>1. PICK i \in Incidents, kind \in Kinds : CommitEvent(i, kind)
      BY <2>1, Routed
    <3>2. QED BY <1>1, <2>1, <3>1, Routed, CommitOK
  <2>2. CASE DbConnected \/ DbConnectFails \/ Notify(listening) \/ NotifyFails
    <3>1. ContentExact'
      BY <2>2 DEF ContentExact, Visible, Current, DbConnected, DbConnectFails, Notify,
        NotifyFails
    <3>2. QED BY <1>1, <2>2, <3>1, FlowKept
  <2>3. QED BY <1>1, <2>1, <2>2 DEF StoreStep
<1>2. CASE Listen /\ UNCHANGED <<storeVars, restarts>>
  <2>1. /\ log' = log /\ base' = base /\ content' = content /\ nextIncidentId' = nextIncidentId
        /\ conn' = conn /\ heard' = heard /\ excused' = excused /\ Flow' = Flow
    BY <1>2 DEF Listen, storeVars, Flow
  <2>2. ContentExact'
    BY <2>1 DEF ContentExact, Visible, Current
  <2>3. QED BY <2>1, <2>2, SameLog
<1>3. CASE Deliver
  <2>1. /\ log' = log /\ base' = base /\ content' = content /\ nextIncidentId' = nextIncidentId
    BY <1>3 DEF Deliver
  <2>2. ContentExact'
    BY <2>1 DEF ContentExact, Visible, Current
  <2>3. Range(Tail(chan)) \cup Range(outbox) \cup missed \subseteq Flow'
    BY <1>3 DEF Deliver, Flow
  <2>4. QED BY <1>3, <2>1, <2>2, <2>3, DeliverOK, SameLog
<1>4. CASE PlaybookNotify
  <2>1. ContentExact'
    BY <1>4 DEF ContentExact, Visible, Current, PlaybookNotify
  <2>2. UNCHANGED rtVars
    BY <1>4 DEF PlaybookNotify
  <2>3. QED BY <1>4, <2>1, <2>2, FlowKept
<1>5. ASSUME NEW c \in Clients, ConnectionStep(c), UNCHANGED <<storeVars, restarts>>
      PROVE  ContentExact' /\ AllOK'
  <2>1. /\ log' = log /\ base' = base /\ content' = content /\ nextIncidentId' = nextIncidentId
        /\ Flow' = Flow
    BY <1>5 DEF storeVars, Flow
  <2>2. ContentExact'
    BY <2>1 DEF ContentExact, Visible, Current
  <2>3. ASSUME NEW d \in Clients PROVE ClientOK(conn'[d], heard'[d], excused'[d], Flow)
    <3>1. CASE d = c
      BY <1>5, <3>1, ConnectionStepOK
    <3>2. CASE d # c
      <4>1. conn'[d] = conn[d] /\ heard'[d] = heard[d] /\ excused'[d] = excused[d]
        BY <1>5, <3>2, ConnectionStepOK
      <4>2. QED BY <4>1
    <3>3. QED BY <3>1, <3>2
  <2>4. QED BY <2>1, <2>2, <2>3, SameLog
<1>6. CASE StoreCrash
  <2>1. ContentExact'
    <3>1. Current' = {} /\ content' = [i \in Incidents |-> {}]
      BY <1>6, LogType DEF StoreCrash, StoreRestart, Current
    <3>2. QED BY <3>1 DEF ContentExact, Visible
  <2>2. QED BY <1>6, <2>1, StoreCrashOK
<1>7. CASE RtCrash
  <2>1. ContentExact'
    BY <1>7 DEF ContentExact, Visible, Current, RtCrash
  <2>2. QED BY <1>7, <2>1, RtCrashOK
<1>8. CASE UNCHANGED vars
  <2>1. /\ log' = log /\ base' = base /\ content' = content /\ nextIncidentId' = nextIncidentId
        /\ conn' = conn /\ heard' = heard /\ excused' = excused /\ Flow' = Flow
    BY <1>8 DEF vars, storeVars, rtVars, Flow
  <2>2. ContentExact'
    BY <2>1 DEF ContentExact, Visible, Current
  <2>3. QED BY <2>1, <2>2, SameLog
<1>9. QED BY <1>1, <1>2, <1>3, <1>4, <1>5, <1>6, <1>7, <1>8 DEF Next

(***************************************************************************)
(* The strengthening holds in every reachable state: incident objects and  *)
(* snapshots show what they should, and nothing owed is forgotten.         *)
(***************************************************************************)
THEOREM Inductive == Spec => []IInv
<1> DEFINE Parts == TypeOK /\ ContentExact /\ AllOK
<1>1. IInv <=> Parts
  BY ByClient DEF AllOK
<1>2. Init => Parts
  BY <1>1, InitOK
<1>3. Parts /\ [Next]_vars => Parts'
  <2> SUFFICES ASSUME Parts, [Next]_vars PROVE Parts'
    OBVIOUS
  <2>1. TypeOK'
    BY NextType
  <2>2. ContentExact' /\ AllOK'
    BY NextOK
  <2>3. QED BY <2>1, <2>2
<1> HIDE DEF Parts
<1>4. QED BY <1>1, <1>2, <1>3, PTL DEF Spec

(***************************************************************************)
(* No event of the incident a client watches goes missing without one of   *)
(* the causes NoGap names, whatever the queue sizes, the numbers of        *)
(* clients and of snapshot requests, the crashes and the order of steps.   *)
(* (enqueue, flush and the subscribe handler against commitEvent)          *)
(***************************************************************************)
THEOREM NoGapCorrect == Spec => []NoGap
<1>1. IInv => NoGap
  BY DEF IInv
<1>2. QED BY <1>1, Inductive, PTL

(***************************************************************************)
(* On an open socket a non-empty queue always has a send outstanding.      *)
(* (the sending flag of enqueue and flush)                                 *)
(***************************************************************************)
THEOREM QueueDrivenCorrect == Spec => []QueueDriven
<1>1. IInv => QueueDriven
  BY DEF IInv
<1>2. QED BY <1>1, Inductive, PTL

(***************************************************************************)
(* A snapshot labelled with the number of an event of the running          *)
(* incident-svc shows every visible event of that process numbered up to   *)
(* the label.  (the label of enqueue and of subscribe, GET /incidents/:id, *)
(* nextEventId)                                                            *)
(***************************************************************************)
THEOREM SnapshotCorrect == Spec => []SnapshotCoversLabel
<1>1. ASSUME TypeOK, ContentExact, NEW f, f.n \in Current, f.label = SeqOf(f.n),
             Visible(f.inc) \cap (1..f.n) \subseteq f.body
      PROVE  Claimed(f) \subseteq f.body
  <2>1. /\ Current \subseteq Stamps /\ f.n \in Nat /\ base \in Nat
        /\ f.label = f.n - base
    BY <1>1, LogType DEF SeqOf, ContentExact, TypeOK, StoreTypeOK
  <2>2. ASSUME NEW n \in Visible(f.inc), log[n].id <= f.label PROVE n \in 1..f.n
    <3>1. n \in Current /\ n \in Stamps /\ log[n].id = n - base
      BY <1>1, <2>1 DEF Visible, ContentExact
    <3>2. QED BY <1>1, <2>1, <2>2, <3>1, LogType
  <2>3. QED BY <1>1, <2>2 DEF Claimed
<1>2. IInv => SnapshotCoversLabel
  BY <1>1 DEF IInv, SnapshotCoversLabel, Labelled, FrameLabelled
<1>3. QED BY <1>2, Inductive, PTL
(***************************************************************************)
(* The order of the pipeline.  Each stage rises, and what is in a stage is *)
(* below all that is farther from the client; notices count for nothing.   *)
(***************************************************************************)
Ahead(S, T) == \A x \in S, y \in T : x # Notice /\ y # Notice => x < y

Rising(q) == \A i, j \in DOMAIN q : i < j /\ q[i] # Notice /\ q[j] # Notice => q[i] < q[j]

LEMMA RisingAppend ==
  ASSUME NEW m \in Nat, NEW q \in Seq(0..m), NEW x \in 0..m, Rising(q), Ahead(Range(q), {x})
  PROVE  Rising(Append(q, x)) /\ Append(q, x) \in Seq(0..m) /\ Range(Append(q, x)) = Range(q) \cup {x}
<1> DEFINE r == Append(q, x)
<1>1. /\ r \in Seq(0..m) /\ Len(q) \in Nat
      /\ \A i \in 1..Len(q) : r[i] = q[i]
      /\ r[Len(q) + 1] = x
  BY AppendProperties, LenProperties
<1>2. DOMAIN r = 1..(Len(q) + 1) /\ DOMAIN q = 1..Len(q)
  BY <1>1, AppendProperties, LenProperties
<1>3. Range(r) = Range(q) \cup {x}
  BY RangeAppend
<1> HIDE DEF r
<1>4. ASSUME NEW i \in DOMAIN r, NEW j \in DOMAIN r, i < j, r[i] # Notice, r[j] # Notice
      PROVE  r[i] < r[j]
  <2>1. i \in 1..Len(q) /\ r[i] = q[i] /\ q[i] \in Range(q)
    BY <1>1, <1>2, <1>4 DEF Range
  <2>2. CASE j \in 1..Len(q)
    BY <1>1, <1>2, <1>4, <2>1, <2>2 DEF Rising
  <2>3. CASE j = Len(q) + 1
    BY <1>1, <1>4, <2>1, <2>3 DEF Ahead
  <2> QED BY <1>1, <1>2, <2>2, <2>3
<1>5. Rising(r)
  BY <1>4 DEF Rising
<1> QED BY <1>1, <1>3, <1>5 DEF r

LEMMA RisingTail ==
  ASSUME NEW m \in Nat, NEW q \in Seq(0..m), q # << >>, Rising(q)
  PROVE  /\ Rising(Tail(q)) /\ Tail(q) \in Seq(0..m) /\ Head(q) \in 0..m
         /\ Range(q) = Range(Tail(q)) \cup {Head(q)}
         /\ Ahead({Head(q)}, Range(Tail(q)))
<1> DEFINE r == Tail(q)
<1>1. /\ Head(q) \in 0..m /\ r \in Seq(0..m)
      /\ Range(q) = Range(r) \cup {Head(q)}
  BY RangeTail
<1>2. /\ \A i \in 1..Len(r) : r[i] = q[i + 1] /\ i \in Nat
      /\ Head(q) = q[1] /\ Len(r) = Len(q) - 1
  BY HeadTailProperties
<1>3. Len(q) \in Nat \ {0} /\ DOMAIN r = 1..Len(r) /\ DOMAIN q = 1..Len(q)
  BY <1>1, EmptySeq, LenProperties
<1> HIDE DEF r
<1>4. \A i \in DOMAIN r : i \in Nat /\ i + 1 \in DOMAIN q /\ 1 \in DOMAIN q /\ 1 < i + 1 /\ r[i] = q[i + 1]
  BY <1>2, <1>3
<1>5. Rising(r)
  BY <1>4 DEF Rising
<1>6. Ahead({Head(q)}, Range(r))
  <2> SUFFICES ASSUME NEW i \in DOMAIN r, Head(q) # Notice, r[i] # Notice PROVE Head(q) < r[i]
    BY DEF Ahead, Range
  <2>1. 1 \in DOMAIN q /\ i + 1 \in DOMAIN q /\ 1 < i + 1 /\ q[1] = Head(q) /\ q[i + 1] = r[i]
    BY <1>2, <1>4
  <2> QED BY <2>1 DEF Rising
<1> QED BY <1>1, <1>5, <1>6 DEF r

Number(f) == IF f.type = "event" THEN f.n ELSE Notice

LEMMA NumbersType ==
  ASSUME NEW m \in Nat, NEW w \in Seq(Frame(m))
  PROVE  /\ Numbers(w) \in Seq(0..m) /\ Len(Numbers(w)) = Len(w)
         /\ \A i \in 1..Len(w) : Numbers(w)[i] = Number(w[i])
<1>1. Len(w) \in Nat /\ DOMAIN w = 1..Len(w) /\ \A i \in 1..Len(w) : w[i] \in Frame(m)
  BY LenProperties, ElementOfSeq
<1>2. Numbers(w) = [i \in 1..Len(w) |-> Number(w[i])]
  BY <1>1 DEF Numbers, Number
<1>3. \A f \in Frame(m) : Number(f) \in 0..m
  BY DEF Frame, Number, Notice
<1>4. Numbers(w) \in [1..Len(w) -> 0..m]
  BY <1>1, <1>2, <1>3
<1> QED BY <1>1, <1>2, <1>4

LEMMA NumbersAppend ==
  ASSUME NEW m \in Nat, NEW w \in Seq(Frame(m)), NEW f \in Frame(m)
  PROVE  Numbers(Append(w, f)) = Append(Numbers(w), Number(f)) /\ Number(f) \in 0..m
<1> DEFINE v == Append(w, f)
<1>1. /\ v \in Seq(Frame(m)) /\ Len(v) = Len(w) + 1 /\ Len(w) \in Nat
      /\ \A i \in 1..Len(w) : v[i] = w[i]
      /\ v[Len(w) + 1] = f
  BY AppendProperties, LenProperties
<1>2. /\ Numbers(v) \in Seq(0..m) /\ Len(Numbers(v)) = Len(v)
      /\ \A i \in 1..Len(v) : Numbers(v)[i] = Number(v[i])
      /\ Numbers(w) \in Seq(0..m) /\ Len(Numbers(w)) = Len(w)
      /\ \A i \in 1..Len(w) : Numbers(w)[i] = Number(w[i])
  <2> HIDE DEF v
  <2> QED BY <1>1, NumbersType
<1>3. Number(f) \in 0..m
  BY DEF Frame, Number, Notice
<1> DEFINE nv == Numbers(v)
           nw == Numbers(w)
           x == Number(f)
           u == Append(nw, x)
<1>4. /\ nv \in Seq(0..m) /\ Len(nv) = Len(nw) + 1 /\ nw \in Seq(0..m) /\ x \in 0..m
      /\ \A i \in 1..Len(nw) : nv[i] = nw[i]
      /\ nv[Len(nw) + 1] = x
  <2> HIDE DEF v
  <2> QED BY <1>1, <1>2, <1>3
<1> HIDE DEF nv, nw, x, v
<1>5. /\ u \in Seq(0..m) /\ Len(u) = Len(nw) + 1 /\ Len(nw) \in Nat
      /\ \A i \in 1..Len(nw) : u[i] = nw[i]
      /\ u[Len(nw) + 1] = x
  BY <1>4, AppendProperties, LenProperties
<1>6. \A i \in 1..Len(u) : nv[i] = u[i]
  BY <1>4, <1>5
<1> HIDE DEF u
<1>7. nv = u
  BY <1>4, <1>5, <1>6, SeqEqual
<1> QED BY <1>3, <1>7 DEF nv, nw, x, u, v

LEMMA NumbersTail ==
  ASSUME NEW m \in Nat, NEW w \in Seq(Frame(m)), w # << >>
  PROVE  /\ Numbers(w) # << >>
         /\ Numbers(Tail(w)) = Tail(Numbers(w)) /\ Head(Numbers(w)) = Number(Head(w))
<1> DEFINE v == Tail(w)
<1>1. /\ v \in Seq(Frame(m)) /\ Len(v) = Len(w) - 1 /\ Head(w) = w[1]
      /\ \A i \in 1..Len(v) : v[i] = w[i + 1]
  BY HeadTailProperties
<1>2. Len(w) \in Nat \ {0}
  BY EmptySeq, LenProperties
<1>3. /\ Numbers(v) \in Seq(0..m) /\ Len(Numbers(v)) = Len(v)
      /\ \A i \in 1..Len(v) : Numbers(v)[i] = Number(v[i])
      /\ Numbers(w) \in Seq(0..m) /\ Len(Numbers(w)) = Len(w)
      /\ \A i \in 1..Len(w) : Numbers(w)[i] = Number(w[i])
  <2> HIDE DEF v
  <2> QED BY <1>1, NumbersType
<1> DEFINE nv == Numbers(v)
           nw == Numbers(w)
           u == Tail(nw)
<1>4. /\ nv \in Seq(0..m) /\ Len(nv) = Len(nw) - 1 /\ nw \in Seq(0..m) /\ Len(nw) \in Nat \ {0}
      /\ \A i \in 1..Len(nv) : nv[i] = nw[i + 1]
      /\ nw[1] = Number(Head(w))
  <2> HIDE DEF v, nv, nw
  <2>1. nv \in Seq(0..m) /\ nw \in Seq(0..m) /\ Len(nv) = Len(v) /\ Len(nw) = Len(w)
        /\ (\A i \in 1..Len(v) : nv[i] = Number(v[i]))
        /\ (\A i \in 1..Len(w) : nw[i] = Number(w[i]))
    BY <1>3 DEF nv, nw
  <2>2. \A i \in 1..Len(v) : i + 1 \in 1..Len(w)
    BY <1>1, <1>2
  <2>3. 1 \in 1..Len(w)
    BY <1>2
  <2> QED BY <1>1, <1>2, <2>1, <2>2, <2>3
<1> HIDE DEF nv, nw, v
<1>5. nw # << >>
  BY <1>4, EmptySeq
<1>6. /\ u \in Seq(0..m) /\ Len(u) = Len(nw) - 1 /\ Head(nw) = nw[1]
      /\ \A i \in 1..Len(u) : u[i] = nw[i + 1]
  BY <1>4, <1>5, HeadTailProperties
<1> HIDE DEF u
<1>7. nv = u
  BY <1>4, <1>6, SeqEqual
<1> QED BY <1>4, <1>5, <1>6, <1>7 DEF nv, nw, u, v

\* One connection, whose client read l last: its wire, then its queue.
Line(l, k) ==
  /\ Rising(Numbers(k.wire)) /\ Rising(k.queue)
  /\ Ahead({l}, Range(Numbers(k.wire))) /\ Ahead({l}, Range(k.queue))
  /\ Ahead(Range(Numbers(k.wire)), Range(k.queue))

Near(l, k) == {l} \cup Range(Numbers(k.wire)) \cup Range(k.queue)

LEMMA LineType ==
  ASSUME NEW m \in Nat, NEW k \in Connection(m)
  PROVE  /\ k.queue \in Seq(0..m) /\ k.wire \in Seq(Frame(m)) /\ Numbers(k.wire) \in Seq(0..m)
         /\ Range(k.queue) \subseteq 0..m /\ Range(Numbers(k.wire)) \subseteq 0..m
<1>1. k.queue \in Seq(0..m) /\ k.wire \in Seq(Frame(m))
  BY ConnectionParts
<1>2. Numbers(k.wire) \in Seq(0..m)
  BY <1>1, NumbersType
<1> QED BY <1>1, <1>2, RangeType

LEMMA EmptyLine ==
  ASSUME NEW l, NEW k, k.wire = << >>, k.queue = << >>
  PROVE  Line(l, k) /\ Near(l, k) = {l}
<1>1. DOMAIN << >> = {} /\ Range(<< >>) = {}
  BY RangeEmpty
<1>2. Numbers(k.wire) = [j \in {} |-> IF k.wire[j].type = "event" THEN k.wire[j].n ELSE Notice]
  BY <1>1 DEF Numbers
<1>3. DOMAIN Numbers(k.wire) = {} /\ Range(Numbers(k.wire)) = {}
  BY <1>2 DEF Range
<1> QED BY <1>1, <1>3 DEF Line, Near, Rising, Ahead

LEMMA FlushLine ==
  ASSUME NEW m \in Nat, NEW k \in Connection(m), NEW l \in 0..m, Line(l, k)
  PROVE  Line(l, Flush(k)) /\ Near(l, Flush(k)) \subseteq Near(l, k)
<1>1. CASE k.sending \/ k.status # "open" \/ k.queue = << >>
  BY <1>1 DEF Flush
<1>2. CASE ~(k.sending \/ k.status # "open" \/ k.queue = << >>)
  <2> DEFINE q == k.queue
             w == Numbers(k.wire)
             h == Head(k.queue)
             new == Flush(k)
  <2>1. new.queue = Tail(q) /\ new.wire = Append(k.wire, EventFrame(h))
    BY <1>2 DEF Flush, Connection
  <2>2. q \in Seq(0..m) /\ q # << >> /\ w \in Seq(0..m) /\ k.wire \in Seq(Frame(m))
    BY <1>2, LineType
  <2>3. Rising(q) /\ Rising(w) /\ Ahead({l}, Range(w)) /\ Ahead({l}, Range(q)) /\ Ahead(Range(w), Range(q))
    BY DEF Line
  <2> HIDE DEF q, new
  <2>4. /\ Rising(Tail(q)) /\ Head(q) \in 0..m
        /\ Range(q) = Range(Tail(q)) \cup {Head(q)}
        /\ Ahead({Head(q)}, Range(Tail(q)))
    BY <2>2, <2>3, RisingTail
  <2>5. EventFrame(Head(q)) \in Frame(m) /\ Number(EventFrame(Head(q))) = Head(q)
    BY <2>4, EventFrameType DEF EventFrame, Number
  <2>6. Numbers(new.wire) = Append(w, Head(q))
    BY <2>1, <2>2, <2>5, NumbersAppend DEF q
  <2> HIDE DEF w, h
  <2>7. Ahead(Range(w), {Head(q)})
    BY <2>3, <2>4 DEF Ahead
  <2>8. Rising(Append(w, Head(q))) /\ Range(Append(w, Head(q))) = Range(w) \cup {Head(q)}
    BY <2>2, <2>3, <2>4, <2>7, RisingAppend
  <2>9. Ahead({l}, Range(w) \cup {Head(q)}) /\ Ahead({l}, Range(Tail(q)))
        /\ Ahead(Range(w) \cup {Head(q)}, Range(Tail(q)))
    BY <2>3, <2>4 DEF Ahead
  <2>10. Line(l, new)
    BY <2>1, <2>4, <2>6, <2>8, <2>9 DEF Line
  <2>11. Near(l, new) \subseteq Near(l, k)
    BY <2>1, <2>4, <2>6, <2>8 DEF Near, q, w
  <2> QED BY <2>10, <2>11 DEF new
<1> QED BY <1>1, <1>2

\* Two connections that differ in neither wire nor queue.
LEMMA SameLine ==
  ASSUME NEW l, NEW k, NEW new, new.wire = k.wire, new.queue = k.queue
  PROVE  (Line(l, k) => Line(l, new)) /\ Near(l, new) = Near(l, k)
BY DEF Line, Near

LEMMA EnqueueLine ==
  ASSUME NEW m \in Nat, NEW k \in Connection(m), NEW n \in 0..m, NEW l \in 0..m,
         Overflows(k) => FreeSlots(k) # {}, Line(l, k), Ahead(Near(l, k), {n}), SeqNat
  PROVE  Line(l, Enqueue(k, n)) /\ Near(l, Enqueue(k, n)) \subseteq Near(l, k) \cup {n}
<1>0. k.queue \in Seq(0..m) /\ Rising(k.queue)
  BY LineType DEF Line
<1>1. CASE Overflows(k)
  <2> DEFINE owes == (Range(k.queue) \cup {n}) \ {Notice}
             asked == AskSnapshot(k, n, owes, "overflow")
             new == [asked EXCEPT !.queue = << >>]
  <2>1. owes \in SUBSET (1..m)
    BY ConnectionParts, RangeType DEF Notice
  <2>2. Enqueue(k, n) = new
    BY <1>1 DEF Enqueue
  <2> HIDE DEF owes
  <2>3. asked \in Connection(m) /\ asked.wire = k.wire
    BY <1>1, <2>1, AskType, AskEffect
  <2> HIDE DEF asked
  <2>4. new.wire = k.wire /\ new.queue = << >>
    BY <2>3 DEF Connection
  <2> HIDE DEF new
  <2>5. Rising(<< >>) /\ Range(<< >>) = {}
    BY RangeEmpty DEF Rising
  <2>6. Line(l, new) /\ Near(l, new) \subseteq Near(l, k)
    BY <2>4, <2>5 DEF Line, Near, Ahead
  <2> QED BY <2>2, <2>6
<1>2. CASE ~Overflows(k)
  <2> DEFINE pushed == [k EXCEPT !.queue = Append(@, n)]
             q == k.queue
             r == Append(q, n)
             w == Range(Numbers(k.wire))
  <2>1. r \in Seq(0..m)
    BY <1>0, AppendProperties
  <2>2. pushed \in Connection(m) /\ pushed.queue = r /\ pushed.wire = k.wire
    BY <2>1 DEF Connection
  <2>3. Enqueue(k, n) = Flush(pushed)
    BY <1>2 DEF Enqueue
  <2> HIDE DEF pushed
  <2>4. /\ Ahead(Range(q), {n}) /\ Ahead(w, {n}) /\ Ahead({l}, {n})
    BY DEF Near, Ahead
  <2>5. Rising(r) /\ Range(r) = Range(q) \cup {n}
    BY <1>0, <2>4, RisingAppend
  <2> HIDE DEF r
  <2>6. Ahead({l}, Range(r)) /\ Ahead(w, Range(r))
    BY <2>4, <2>5 DEF Ahead, Line
  <2>7. Line(l, pushed) /\ Near(l, pushed) \subseteq Near(l, k) \cup {n}
    BY <2>2, <2>5, <2>6 DEF Line, Near
  <2>8. Line(l, Flush(pushed)) /\ Near(l, Flush(pushed)) \subseteq Near(l, pushed)
    BY <2>2, <2>7, FlushLine
  <2> QED BY <2>3, <2>7, <2>8
<1> QED BY <1>1, <1>2

\* A step of a connection moves numbers towards its client, and drops some.
LEMMA ConnectionLine ==
  ASSUME TypeOK, NEW c \in Clients, ConnectionStep(c), Line(last[c], conn[c])
  PROVE  /\ \A d \in Clients \ {c} : conn'[d] = conn[d] /\ last'[d] = last[d]
         /\ Line(last'[c], conn'[c])
         /\ Near(last'[c], conn'[c]) \subseteq Near(last[c], conn[c]) \cup {Notice}
<1> DEFINE m == Len(log)
           k == conn[c]
           Goal == /\ \A d \in Clients \ {c} : conn'[d] = conn[d] /\ last'[d] = last[d]
                   /\ Line(last'[c], conn'[c])
                   /\ Near(last'[c], conn'[c]) \subseteq Near(last[c], conn[c]) \cup {Notice}
<1>1. /\ m \in Nat /\ conn \in [Clients -> Connection(m)] /\ last \in [Clients -> 0..m]
      /\ k \in Connection(m) /\ last[c] \in 0..m
  BY DEF TypeOK, StoreTypeOK, RtTypeOK
<1> HIDE DEF m
<1>2. /\ k.queue \in Seq(0..m) /\ k.wire \in Seq(Frame(m)) /\ k.fetch \in [Slots -> Fetch(m)]
  BY <1>1, ConnectionParts
<1>3. ASSUME NEW new, conn' = [conn EXCEPT ![c] = new], last' = last,
             new.wire = k.wire, new.queue = k.queue
      PROVE  Goal
  BY <1>1, <1>3, SameLine
<1>4. ASSUME NEW new, conn' = [conn EXCEPT ![c] = new], last' = last,
             new.wire = << >>, new.queue = << >>
      PROVE  Goal
  <2>1. Line(last[c], new) /\ Near(last[c], new) = {last[c]}
    BY <1>4, EmptyLine
  <2> QED BY <1>1, <1>4, <2>1 DEF Near
<1>5. Off.wire = << >> /\ Off.queue = << >>
  BY DEF Off
<1>6. CASE Connect(c)
  <2> DEFINE new == [Off EXCEPT !.status = "open"]
  <2>1. new.wire = << >> /\ new.queue = << >> /\ conn' = [conn EXCEPT ![c] = new] /\ last' = last
    BY <1>6 DEF Connect, Off
  <2> HIDE DEF new
  <2> QED BY <1>4, <2>1
<1>7. ASSUME NEW i \in Incidents, SubscribeFromNow(c, i) PROVE Goal
  <2> DEFINE new == [k EXCEPT !.sub = i]
  <2>1. new.wire = k.wire /\ new.queue = k.queue /\ conn' = [conn EXCEPT ![c] = new] /\ last' = last
    BY <1>1, <1>7 DEF SubscribeFromNow, Connection
  <2> HIDE DEF new
  <2> QED BY <1>3, <2>1
<1>8. ASSUME NEW i \in Incidents, SubscribeFromSeq(c, i) PROVE Goal
  <2> DEFINE subd == [k EXCEPT !.sub = i]
             new == AskSnapshot(subd, last[c], Stamps, "subscribe")
  <2>1. subd \in Connection(m) /\ subd.queue = k.queue /\ subd.wire = k.wire
    BY <1>1 DEF Connection
  <2>2. new.wire = subd.wire /\ new.queue = subd.queue
    <3> HIDE DEF subd
    <3> QED BY <2>1 DEF AskSnapshot, Connection
  <2>3. conn' = [conn EXCEPT ![c] = new] /\ last' = last
    BY <1>1, <1>8 DEF SubscribeFromSeq
  <2> HIDE DEF new, subd
  <2> QED BY <1>3, <2>1, <2>2, <2>3
<1>9. CASE SendDone(c)
  <2> DEFINE idle == [k EXCEPT !.sending = FALSE]
  <2>1. idle \in Connection(m) /\ idle.queue = k.queue /\ idle.wire = k.wire
    BY <1>1 DEF Connection
  <2>2. conn' = [conn EXCEPT ![c] = Flush(idle)] /\ last' = last
    BY <1>1, <1>9 DEF SendDone
  <2> HIDE DEF idle
  <2>3. Line(last[c], idle) /\ Near(last[c], idle) = Near(last[c], k)
    BY <2>1, SameLine
  <2>4. Line(last[c], Flush(idle)) /\ Near(last[c], Flush(idle)) \subseteq Near(last[c], k)
    BY <1>1, <2>1, <2>3, FlushLine
  <2> QED BY <1>1, <2>2, <2>4
<1>10. CASE SendError(c)
  <2> DEFINE new == [k EXCEPT !.sending = FALSE, !.status = "closing"]
  <2>1. new.wire = k.wire /\ new.queue = k.queue /\ conn' = [conn EXCEPT ![c] = new] /\ last' = last
    BY <1>1, <1>10 DEF SendError, Connection
  <2> HIDE DEF new
  <2> QED BY <1>3, <2>1
<1>11. ASSUME NEW s \in Slots, Answer(c, s) \/ SnapshotFails(c, s) PROVE Goal
  <2>1. PICK f : conn' = [conn EXCEPT ![c] = [k EXCEPT !.fetch = [k.fetch EXCEPT ![s] = f]]] /\ last' = last
    <3>1. CASE Answer(c, s)
      <4> DEFINE f == Answered(k.fetch[s], GetIncident(k.fetch[s].inc))
      <4>1. conn' = [conn EXCEPT ![c] = [k EXCEPT !.fetch = [k.fetch EXCEPT ![s] = f]]] /\ last' = last
        BY <1>1, <3>1 DEF Answer
      <4> QED BY <4>1
    <3>2. CASE SnapshotFails(c, s)
      BY <1>1, <3>2 DEF SnapshotFails
    <3> QED BY <1>11, <3>1, <3>2
  <2> DEFINE new == [k EXCEPT !.fetch = [k.fetch EXCEPT ![s] = f]]
  <2>2. new.wire = k.wire /\ new.queue = k.queue
    BY <1>1 DEF Connection
  <2> HIDE DEF new
  <2> QED BY <1>3, <2>1, <2>2 DEF new
<1>12. ASSUME NEW s \in Slots, SnapshotArrives(c, s) PROVE Goal
  <2> DEFINE w == IF k.status = "open" THEN Append(k.wire, SnapshotFrame(k.fetch[s])) ELSE k.wire
             new == [k EXCEPT !.fetch = [k.fetch EXCEPT ![s] = Idle], !.wire = w]
  <2>1. conn' = [conn EXCEPT ![c] = new] /\ last' = last
    BY <1>1, <1>12 DEF SnapshotArrives
  <2>2. new.wire = w /\ new.queue = k.queue
    BY <1>1 DEF Connection
  <2> HIDE DEF new
  <2>3. CASE k.status # "open"
    BY <1>3, <2>1, <2>2, <2>3
  <2>4. CASE k.status = "open"
    <3> DEFINE f == SnapshotFrame(k.fetch[s])
               nw == Numbers(k.wire)
    <3>1. f \in Frame(m) /\ Number(f) = Notice
      <4>1. k.fetch[s] \in Fetch(m)
        BY <1>2
      <4>2. SnapshotFrame(k.fetch[s]) \in Frame(m)
        BY <1>1, <4>1, SnapshotFrameType
      <4>3. SnapshotFrame(k.fetch[s]).type = "snapshot"
        BY DEF SnapshotFrame
      <4> QED BY <4>2, <4>3 DEF Number
    <3> HIDE DEF f
    <3>2. Numbers(new.wire) = Append(nw, Notice) /\ nw \in Seq(0..m) /\ Notice \in 0..m
      <4>1. new.wire = Append(k.wire, f)
        BY <2>2, <2>4 DEF f
      <4>2. Numbers(Append(k.wire, f)) = Append(Numbers(k.wire), Number(f))
        BY <1>1, <1>2, <3>1, NumbersAppend
      <4>3. Numbers(k.wire) \in Seq(0..m) /\ Notice \in 0..m
        BY <1>1, LineType DEF Notice
      <4> QED BY <3>1, <4>1, <4>2, <4>3
    <3>3. Rising(nw) /\ Ahead(Range(nw), {Notice})
      BY DEF Line, Ahead
    <3> HIDE DEF nw
    <3>4. Rising(Numbers(new.wire)) /\ Range(Numbers(new.wire)) = Range(nw) \cup {Notice}
      BY <1>1, <3>2, <3>3, RisingAppend
    <3>5. Line(last[c], new)
      BY <2>2, <3>4 DEF Line, Ahead, nw
    <3>6. Near(last[c], new) \subseteq Near(last[c], k) \cup {Notice}
      BY <2>2, <3>4 DEF Near, nw
    <3> QED BY <1>1, <2>1, <3>5, <3>6
  <2> QED BY <2>3, <2>4
<1>13. CASE Receive(c)
  <2> DEFINE nw == Numbers(k.wire)
             h == Head(nw)
             new == [k EXCEPT !.wire = Tail(k.wire)]
             l == IF h # Notice THEN h ELSE last[c]
  <2>1. k.wire # << >> /\ conn' = [conn EXCEPT ![c] = new]
    BY <1>1, <1>13 DEF Receive
  <2>2. new.wire = Tail(k.wire) /\ new.queue = k.queue
    BY <1>1 DEF Connection
  <2> HIDE DEF new
  <2>3. /\ nw # << >> /\ nw \in Seq(0..m) /\ h = Number(Head(k.wire))
        /\ Numbers(Tail(k.wire)) = Tail(nw)
    BY <1>1, <1>2, <2>1, NumbersTail, LineType
  <2>4. last' = [last EXCEPT ![c] = l]
    BY <1>1, <1>13, <2>3 DEF Receive, Number
  <2>5. Rising(nw) /\ Rising(k.queue) /\ Ahead({last[c]}, Range(nw)) /\ Ahead({last[c]}, Range(k.queue))
        /\ Ahead(Range(nw), Range(k.queue)) /\ Near(last[c], k) = {last[c]} \cup Range(nw) \cup Range(k.queue)
    BY DEF Line, Near
  <2> HIDE DEF nw
  <2>6. /\ Rising(Tail(nw)) /\ Range(nw) = Range(Tail(nw)) \cup {h} /\ Ahead({h}, Range(Tail(nw)))
    BY <1>1, <2>3, <2>5, RisingTail
  <2> HIDE DEF h
  <2>7. Ahead({l}, Range(Tail(nw))) /\ Ahead({l}, Range(k.queue)) /\ Ahead(Range(Tail(nw)), Range(k.queue))
    BY <2>5, <2>6 DEF Ahead
  <2>8. Line(l, new)
    BY <2>2, <2>3, <2>5, <2>6, <2>7 DEF Line
  <2>9. Near(l, new) \subseteq Near(last[c], k)
    BY <2>2, <2>3, <2>5, <2>6 DEF Near
  <2> HIDE DEF l
  <2> QED BY <1>1, <2>1, <2>4, <2>8, <2>9
<1>14. CASE Close(c)
  <2>1. conn' = [conn EXCEPT ![c] = Off] /\ last' = last
    BY <1>14 DEF Close
  <2> QED BY <1>4, <1>5, <2>1
<1> QED
  BY <1>6, <1>7, <1>8, <1>9, <1>10, <1>11, <1>12, <1>13, <1>14 DEF ConnectionStep

(***************************************************************************)
(* The whole pipeline: the two queues of notifications, and each client's  *)
(* line, whose numbers are below all those still to come.                  *)
(***************************************************************************)
Far == Range(chan) \cup Range(outbox)

Flowing == Rising(chan) /\ Rising(outbox) /\ Ahead(Range(chan), Range(outbox))

InLine(c) == Line(last[c], conn[c]) /\ Ahead(Near(last[c], conn[c]), Far)

OrderInv == Flowing /\ \A c \in Clients : InLine(c)

LEMMA StageTypes ==
  ASSUME TypeOK
  PROVE  /\ Len(log) \in Nat /\ chan \in Seq(0..Len(log)) /\ outbox \in Seq(0..Len(log))
         /\ Range(chan) \subseteq 0..Len(log) /\ Range(outbox) \subseteq 0..Len(log)
         /\ conn \in [Clients -> Connection(Len(log))] /\ last \in [Clients -> 0..Len(log)]
         /\ \A c \in Clients : Near(last[c], conn[c]) \subseteq 0..Len(log)
<1>1. /\ Len(log) \in Nat /\ chan \in Seq(0..Len(log)) /\ outbox \in Seq(Stamps)
      /\ conn \in [Clients -> Connection(Len(log))] /\ last \in [Clients -> 0..Len(log)]
      /\ Stamps \subseteq 0..Len(log)
  BY DEF TypeOK, StoreTypeOK, RtTypeOK, Stamps
<1>2. outbox \in Seq(0..Len(log))
  BY <1>1, SeqMonotonic
<1>3. ASSUME NEW c \in Clients PROVE Near(last[c], conn[c]) \subseteq 0..Len(log)
  BY <1>1, LineType DEF Near
<1> QED BY <1>1, <1>2, <1>3, RangeType

\* Nothing enters the lines, and what is still to come is none the smaller.
LEMMA LinesKept ==
  ASSUME OrderInv, UNCHANGED <<conn, last>>, Far' \subseteq Far \cup {Notice}
  PROVE  \A c \in Clients : InLine(c)'
BY DEF OrderInv, InLine, Ahead

LEMMA CommitOrder ==
  ASSUME TypeOK, OrderInv, NEW i, NEW kind, CommitEvent(i, kind), UNCHANGED rtVars
  PROVE  OrderInv'
<1> DEFINE m == Len(log)
           q == outbox
<1>0. UNCHANGED <<chan, conn, last>>
  BY DEF CommitEvent, rtVars
<1>1. CASE outbox' = outbox
  BY <1>0, <1>1, LinesKept DEF OrderInv, Flowing, Far
<1>2. CASE outbox' = Append(q, m + 1)
  <2>1. /\ m \in Nat /\ q \in Seq(0..m) /\ Range(q) \subseteq 0..m /\ Range(chan) \subseteq 0..m
        /\ \A c \in Clients : Near(last[c], conn[c]) \subseteq 0..m
    BY StageTypes
  <2> HIDE DEF m
  <2>2. q \in Seq(0..(m + 1))
    BY <2>1, SeqGrows
  <2>3. ASSUME NEW S \in SUBSET (0..m) PROVE Ahead(S, {m + 1})
    <3>1. \A x \in 0..m : x < m + 1
      BY <2>1
    <3> QED BY <3>1 DEF Ahead
  <2>4. /\ m + 1 \in Nat /\ m + 1 \in 0..(m + 1) /\ Rising(q) /\ Ahead(Range(q), {m + 1})
    <3>1. m + 1 \in Nat /\ m + 1 \in 0..(m + 1)
      BY <2>1
    <3>2. Rising(q)
      BY DEF OrderInv, Flowing
    <3> QED BY <2>1, <2>3, <3>1, <3>2
  <2>5. Rising(Append(q, m + 1)) /\ Range(Append(q, m + 1)) = Range(q) \cup {m + 1}
    BY <2>2, <2>4, RisingAppend
  <2>6. Flowing'
    <3>1. Ahead(Range(chan), {m + 1})
      BY <2>1, <2>3
    <3> QED BY <1>0, <1>2, <2>5, <3>1 DEF OrderInv, Flowing, Ahead
  <2>7. ASSUME NEW c \in Clients PROVE InLine(c)'
    <3>1. Ahead(Near(last[c], conn[c]), {m + 1})
      BY <2>1, <2>3
    <3>2. Far' = Far \cup {m + 1}
      BY <1>0, <1>2, <2>5 DEF Far
    <3> QED BY <1>0, <3>1, <3>2 DEF OrderInv, InLine, Ahead
  <2> QED BY <2>6, <2>7 DEF OrderInv
<1> QED BY <1>1, <1>2 DEF CommitEvent

LEMMA StoreOrder ==
  ASSUME TypeOK, OrderInv, StoreStep, UNCHANGED rtVars
  PROVE  OrderInv'
<1>0. UNCHANGED <<conn, last>>
  BY DEF rtVars
<1>1. CASE \E i, kind : CommitEvent(i, kind)
  BY <1>1, CommitOrder
<1>2. CASE DbConnected
  BY <1>0, <1>2, LinesKept DEF DbConnected, OrderInv, Flowing, Far
<1>3. CASE DbConnectFails
  <2>1. Rising(<< >>) /\ Range(<< >>) = {}
    BY RangeEmpty DEF Rising
  <2> QED BY <1>0, <1>3, <2>1, LinesKept DEF DbConnectFails, OrderInv, Flowing, Far, Ahead
<1>4. CASE Notify(listening) \/ NotifyFails
  <2> DEFINE m == Len(log)
             q == outbox
             h == Head(outbox)
  <2>1. /\ m \in Nat /\ q \in Seq(0..m) /\ chan \in Seq(0..m)
    BY StageTypes
  <2>2. /\ q # << >> /\ outbox' = Tail(q)
        /\ chan' = chan \/ chan' = Append(chan, h)
    BY <1>4 DEF Notify, NotifyFails
  <2>3. Rising(chan) /\ Rising(q) /\ Ahead(Range(chan), Range(q))
    BY DEF OrderInv, Flowing
  <2> HIDE DEF m
  <2>4. /\ Rising(Tail(q)) /\ h \in 0..m /\ Range(q) = Range(Tail(q)) \cup {h}
        /\ Ahead({h}, Range(Tail(q)))
    BY <2>1, <2>2, <2>3, RisingTail
  <2>5. Ahead(Range(chan), {h})
    BY <2>3, <2>4 DEF Ahead
  <2>6. Rising(Append(chan, h)) /\ Range(Append(chan, h)) = Range(chan) \cup {h}
    BY <2>1, <2>3, <2>4, <2>5, RisingAppend
  <2>7. Far' \subseteq Far
    BY <2>2, <2>4, <2>6 DEF Far
  <2>8. Rising(chan') /\ Range(chan') \subseteq Range(chan) \cup {h}
    BY <2>2, <2>3, <2>6
  <2>9. Ahead(Range(chan) \cup {h}, Range(Tail(q)))
    BY <2>3, <2>4 DEF Ahead
  <2> HIDE DEF q, h
  <2>10. Flowing'
    BY <2>2, <2>4, <2>8, <2>9 DEF Flowing, Ahead
  <2> QED BY <1>0, <2>7, <2>10, LinesKept DEF OrderInv
<1> QED BY <1>1, <1>2, <1>3, <1>4
        DEF StoreStep, CreateIncident, AddComment, ChangeStatus, AddAttachment

LEMMA DeliverOrder ==
  ASSUME TypeOK, OrderInv, Deliver
  PROVE  OrderInv'
<1> DEFINE m == Len(log)
           n == Head(chan)
<1>1. /\ m \in Nat /\ chan \in Seq(0..m) /\ conn \in [Clients -> Connection(m)]
      /\ last \in [Clients -> 0..m]
  BY StageTypes
<1>2. /\ chan # << >> /\ Broadcast(n) /\ chan' = Tail(chan) /\ outbox' = outbox /\ last' = last
  BY DEF Deliver, Broadcast
<1> HIDE DEF m
<1>3. Rising(chan) /\ Rising(outbox) /\ Ahead(Range(chan), Range(outbox))
  BY DEF OrderInv, Flowing
<1>4. /\ Rising(Tail(chan)) /\ n \in 0..m /\ Range(chan) = Range(Tail(chan)) \cup {n}
      /\ Ahead({n}, Range(Tail(chan)))
  BY <1>1, <1>2, <1>3, RisingTail
<1> HIDE DEF n
<1>5. Flowing'
  BY <1>2, <1>3, <1>4 DEF Flowing, Ahead
<1>6. Ahead({n}, Far') /\ Far' \subseteq Far /\ n \in Far
  BY <1>2, <1>3, <1>4 DEF Far, Ahead
<1>7. ASSUME NEW c \in Clients PROVE InLine(c)'
  <2>1. /\ conn[c] \in Connection(m) /\ last[c] \in 0..m
        /\ Line(last[c], conn[c]) /\ Ahead(Near(last[c], conn[c]), Far)
    BY <1>1 DEF OrderInv, InLine
  <2>2. Ahead(Near(last[c], conn[c]), {n})
    BY <1>6, <2>1 DEF Ahead
  <2>3. conn'[c] = IF Wants(conn[c], n) THEN Enqueue(conn[c], n) ELSE conn[c]
    BY <1>2 DEF Broadcast
  <2>4. Wants(conn[c], n) /\ Overflows(conn[c]) => FreeSlots(conn[c]) # {}
    BY <1>2 DEF Broadcast
  <2>5. /\ Line(last[c], conn'[c])
        /\ Near(last[c], conn'[c]) \subseteq Near(last[c], conn[c]) \cup {n}
    <3>1. CASE Wants(conn[c], n)
      <4> DEFINE k == conn[c]
                 l == last[c]
      <4>1. /\ k \in Connection(m) /\ l \in 0..m /\ Line(l, k) /\ Ahead(Near(l, k), {n})
            /\ Overflows(k) => FreeSlots(k) # {}
        BY <2>1, <2>2, <2>4, <3>1
      <4> HIDE DEF k, l
      <4>2. Line(l, Enqueue(k, n)) /\ Near(l, Enqueue(k, n)) \subseteq Near(l, k) \cup {n}
        BY <1>1, <1>4, <4>1, SeqOfType, EnqueueLine
      <4> QED BY <2>3, <3>1, <4>2 DEF k, l
    <3>2. CASE ~Wants(conn[c], n)
      BY <2>1, <2>3, <3>2
    <3> QED BY <3>1, <3>2
  <2>6. Ahead(Near(last[c], conn'[c]), Far')
    BY <1>6, <2>1, <2>5 DEF Ahead
  <2> QED BY <1>2, <2>5, <2>6 DEF InLine
<1> QED BY <1>5, <1>7 DEF OrderInv

LEMMA ConnectionOrder ==
  ASSUME TypeOK, OrderInv, NEW c \in Clients, ConnectionStep(c), UNCHANGED storeVars
  PROVE  OrderInv'
<1>1. UNCHANGED <<chan, outbox>> /\ Far' = Far
  BY DEF storeVars, Far
<1>2. /\ \A d \in Clients \ {c} : conn'[d] = conn[d] /\ last'[d] = last[d]
      /\ Line(last'[c], conn'[c])
      /\ Near(last'[c], conn'[c]) \subseteq Near(last[c], conn[c]) \cup {Notice}
  BY ConnectionLine DEF OrderInv, InLine
<1>3. InLine(c)'
  BY <1>1, <1>2 DEF OrderInv, InLine, Ahead
<1>4. \A d \in Clients \ {c} : InLine(d)'
  BY <1>1, <1>2 DEF OrderInv, InLine
<1> QED BY <1>1, <1>3, <1>4 DEF OrderInv, Flowing

LEMMA CrashOrder ==
  ASSUME OrderInv, StoreCrash \/ RtCrash
  PROVE  OrderInv'
<1>0. Rising(<< >>) /\ Range(<< >>) = {}
  BY RangeEmpty DEF Rising
<1>1. CASE StoreCrash
  <2>1. outbox' = << >> /\ chan' = chan /\ UNCHANGED <<conn, last>>
    BY <1>1 DEF StoreCrash, StoreRestart, rtVars
  <2> QED BY <1>0, <2>1, LinesKept DEF OrderInv, Flowing, Far, Ahead
<1>2. CASE RtCrash
  <2>1. outbox' = outbox /\ chan' = << >> /\ conn' = [c \in Clients |-> Off] /\ last' = last
    BY <1>2 DEF RtCrash, RtRestart
  <2>2. Flowing' /\ Far' \subseteq Far
    BY <1>0, <2>1 DEF OrderInv, Flowing, Far, Ahead
  <2>3. ASSUME NEW c \in Clients PROVE InLine(c)'
    <3>1. Line(last[c], Off) /\ Near(last[c], Off) = {last[c]}
      <4>1. Off.wire = << >> /\ Off.queue = << >>
        BY DEF Off
      <4> QED BY <4>1, EmptyLine
    <3>2. conn'[c] = Off /\ last'[c] = last[c] /\ last[c] \in Near(last[c], conn[c])
      BY <2>1 DEF Near
    <3> QED BY <2>2, <3>1, <3>2 DEF OrderInv, InLine, Ahead
  <2> QED BY <2>2, <2>3 DEF OrderInv
<1> QED BY <1>1, <1>2

LEMMA NoticeOrder ==
  ASSUME TypeOK, OrderInv, PlaybookNotify
  PROVE  OrderInv'
<1>1. /\ chan' = Append(chan, Notice) /\ outbox' = outbox /\ UNCHANGED <<conn, last>>
  BY DEF PlaybookNotify, rtVars
<1>2. Len(log) \in Nat /\ chan \in Seq(0..Len(log)) /\ Notice \in 0..Len(log)
  BY StageTypes DEF Notice
<1>3. Rising(chan) /\ Ahead(Range(chan), {Notice})
  BY DEF OrderInv, Flowing, Ahead
<1>4. Rising(chan') /\ Range(chan') = Range(chan) \cup {Notice}
  BY <1>1, <1>2, <1>3, RisingAppend
<1>5. Flowing' /\ Far' = Far \cup {Notice}
  BY <1>1, <1>4 DEF OrderInv, Flowing, Far, Ahead
<1> QED BY <1>1, <1>5, LinesKept DEF OrderInv

LEMMA OrderInit == Init => OrderInv
<1> SUFFICES ASSUME Init PROVE OrderInv
  OBVIOUS
<1>1. chan = << >> /\ outbox = << >> /\ Rising(<< >>) /\ Range(<< >>) = {}
  BY RangeEmpty DEF Init, StoreInit, Rising
<1>2. \A c \in Clients : conn[c].wire = << >> /\ conn[c].queue = << >>
  BY DEF Init, RtInit, Off
<1> QED BY <1>1, <1>2, EmptyLine DEF OrderInv, Flowing, InLine, Far, Ahead

LEMMA OrderNext == TypeOK /\ OrderInv /\ [Next]_vars => OrderInv'
<1> SUFFICES ASSUME TypeOK, OrderInv, [Next]_vars PROVE OrderInv'
  OBVIOUS
<1>1. CASE StoreStep /\ UNCHANGED <<rtVars, restarts>>
  BY <1>1, StoreOrder
<1>2. CASE Listen /\ UNCHANGED <<storeVars, restarts>>
  <2>1. UNCHANGED <<chan, outbox, conn, last>>
    BY <1>2 DEF Listen, storeVars
  <2> QED BY <2>1, LinesKept DEF OrderInv, Flowing, Far
<1>3. CASE Deliver
  BY <1>3, DeliverOrder
<1>4. CASE PlaybookNotify
  BY <1>4, NoticeOrder
<1>5. ASSUME NEW c \in Clients, ConnectionStep(c), UNCHANGED <<storeVars, restarts>> PROVE OrderInv'
  BY <1>5, ConnectionOrder
<1>6. CASE StoreCrash \/ RtCrash
  BY <1>6, CrashOrder
<1>7. CASE UNCHANGED vars
  <2>1. UNCHANGED <<chan, outbox, conn, last>>
    BY <1>7 DEF vars, storeVars, rtVars
  <2> QED BY <2>1, LinesKept DEF OrderInv, Flowing, Far
<1> QED BY <1>1, <1>2, <1>3, <1>4, <1>5, <1>6, <1>7 DEF Next

\* The invariant speaks of the five stages of EventsInOrder.
LEMMA OrderImplies == OrderInv => EventsInOrder
<1> SUFFICES ASSUME OrderInv, NEW c \in Clients, NEW a \in 1..5, NEW b \in 1..5,
                    NEW i \in DOMAIN Pipeline(c)[a], NEW j \in DOMAIN Pipeline(c)[b],
                    a < b \/ (a = b /\ i < j),
                    Pipeline(c)[a][i] # Notice, Pipeline(c)[b][j] # Notice
             PROVE  Pipeline(c)[a][i] < Pipeline(c)[b][j]
  BY DEF EventsInOrder
<1> DEFINE P == Pipeline(c)
           l == last[c]
           w == Numbers(conn[c].wire)
           q == conn[c].queue
<1>1. P[1] = <<l>> /\ P[2] = w /\ P[3] = q /\ P[4] = chan /\ P[5] = outbox
  BY DEF Pipeline
<1>2. /\ Rising(w) /\ Rising(q) /\ Rising(chan) /\ Rising(outbox)
      /\ Ahead({l}, Range(w)) /\ Ahead({l}, Range(q)) /\ Ahead(Range(w), Range(q))
      /\ Ahead({l} \cup Range(w) \cup Range(q), Range(chan) \cup Range(outbox))
      /\ Ahead(Range(chan), Range(outbox))
  BY DEF OrderInv, Flowing, InLine, Line, Near, Far
<1>3. DOMAIN <<l>> = {1} /\ <<l>>[1] = l
  OBVIOUS
<1>4. Range(<<l>>) = {l} /\ Rising(<<l>>)
  BY <1>3 DEF Range, Rising
<1> HIDE DEF P, l, w, q
<1>5. P[a][i] \in Range(P[a]) /\ P[b][j] \in Range(P[b])
  BY DEF Range, P
<1>6. CASE a = b
  <2>1. Rising(P[a])
    BY <1>1, <1>2, <1>4
  <2> QED BY <1>6, <2>1 DEF Rising, P
<1>7. CASE a < b
  <2>1. Ahead(Range(P[a]), Range(P[b]))
    <3>1. CASE a = 1
      BY <1>1, <1>2, <1>4, <1>7, <3>1 DEF Ahead
    <3>2. CASE a = 2
      BY <1>1, <1>2, <1>7, <3>2 DEF Ahead
    <3>3. CASE a = 3
      BY <1>1, <1>2, <1>7, <3>3 DEF Ahead
    <3>4. CASE a = 4
      BY <1>1, <1>2, <1>7, <3>4 DEF Ahead
    <3> QED BY <1>7, <3>1, <3>2, <3>3, <3>4
  <2> QED BY <1>5, <2>1 DEF Ahead, P
<1> QED BY <1>6, <1>7

(***************************************************************************)
(* A client receives event frames in commit order and none twice, whatever *)
(* the queue bounds, the number of clients and incidents, the crashes, the *)
(* reconnections and the order of steps: from one NOTIFY queue through the *)
(* LISTEN session and the connection's queue to its socket, nothing        *)
(* overtakes.  (commitEvent, broadcast, queue.push/shift, one send at a    *)
(* time)                                                                   *)
(***************************************************************************)
THEOREM OrderCorrect == Spec => []EventsInOrder
<1>1. TypeOK /\ OrderInv /\ [Next]_vars => OrderInv'
  BY OrderNext
<1>2. OrderInv => EventsInOrder
  BY OrderImplies
<1> QED BY OrderInit, <1>1, <1>2, TypeCorrect, PTL DEF Spec

=============================================================================
