------------------------ MODULE IncidentEventsProofs ------------------------
(***************************************************************************)
(* Theorems of IncidentEvents, for any finite number of requests and any   *)
(* incident ids.                                                           *)
(*                                                                         *)
(* The argument is about stamps.  A row is written by one request and kept *)
(* (Owned); a request acts on an incident it created or one whose creation *)
(* had been acknowledged (Created); whatever was acknowledged before a     *)
(* request was sent has a smaller stamp than its row and is among the rows *)
(* it loaded (Due); what it loaded is sorted by stamp, and none of it was  *)
(* sent after the request was answered (Seen).                             *)
(***************************************************************************)
EXTENDS IncidentEvents, FiniteSetTheorems, FunctionTheorems, TLAPS

Row == [type : {"IncidentCreated", "MessageAdded", "IncidentSubmitted"}, inc : Ids,
        req : Requests, ts : Nat]

Phases == {"unsent", "loading", "loaded", "notFound", "error", "appending", "appended",
           "answered"}

Handler == [phase : Phases, op : {None, "create", "get", "message", "submit"},
            inc : Ids \cup {None}, due : SUBSET Requests, seen : Seq(Row), row : Row \cup {NoRow}]

TypeOK == rows \subseteq Row /\ clock \in Nat /\ req \in [Requests -> Handler]

\* A request that waits for its SELECT, or has its result and not yet decided.
Undecided(r) == req[r].phase \in {"unsent", "loading", "loaded", "notFound"}
Loaded(r) == req[r].phase \in {"loaded", "notFound", "appending", "appended", "answered"}

\* What the phase of a request says of its fields.
Phased(r) ==
  /\ Undecided(r) => req[r].row = NoRow
  /\ req[r].phase \in {"unsent", "loading", "notFound"} => req[r].seen = << >>
  /\ req[r].phase = "unsent" => req[r].op = None /\ req[r].due = {} /\ req[r].inc = None
  /\ req[r].phase # "unsent" => req[r].op # None /\ req[r].inc \in Ids

\* What its row says, and when it is in the table.
Written(r) ==
  req[r].row # NoRow =>
    /\ req[r].op \in {"create", "message", "submit"} /\ req[r].row.type = EventType(req[r].op)
    /\ req[r].row.req = r /\ req[r].row.inc = req[r].inc
    /\ req[r].row.ts <= clock

Placed(r) ==
  /\ req[r].phase = "appending" => req[r].row # NoRow
  /\ req[r].phase = "appended" => req[r].row # NoRow /\ req[r].row \in rows
  /\ req[r].phase = "answered" /\ req[r].row # NoRow => req[r].row \in rows /\ req[r].row.ts < clock

Owned ==
  /\ \A e \in rows : e = req[e.req].row
  /\ \A r \in Requests : Phased(r) /\ Written(r) /\ Placed(r)

Created ==
  /\ \A r \in Requests : req[r].op = "create" =>
       req[r].due = {} /\ req[r].seen = << >> /\ req[r].inc # None /\ ~Undecided(r)
  /\ \A r, q \in Requests : req[r].op = "create" /\ q # r /\ req[q].inc = req[r].inc =>
       req[q].op # "create" /\ r \in req[q].due

Due ==
  \A r \in Requests : \A q \in req[r].due :
    /\ req[q].phase = "answered" /\ req[q].row # NoRow /\ req[q].inc = req[r].inc
    /\ req[r].row # NoRow => req[q].row.ts < req[r].row.ts
    /\ Loaded(r) => req[q].row \in Range(req[r].seen)

Seen ==
  \A r \in Requests :
    /\ \A k \in DOMAIN req[r].seen : LET e == req[r].seen[k] IN
         e \in rows /\ e.inc = req[r].inc /\ r \notin req[e.req].due
    /\ \A j, k \in DOMAIN req[r].seen : j < k => req[r].seen[j].ts <= req[r].seen[k].ts
    /\ req[r].row # NoRow /\ req[r].op # "create" => req[r].seen # << >>

Inv == TypeOK /\ Owned /\ Created /\ Due /\ Seen

----------------------------------------------------------------------------
\* A load returns each row of the incident once, sorted by stamp.
LEMMA LoadedRows ==
  ASSUME TypeOK, Owned, NEW i, NEW s \in LoadResults(i)
  PROVE  /\ s \in Seq(Row) /\ Range(s) = RowsOf(i)
         /\ \A j, k \in DOMAIN s : j < k => s[j].ts <= s[k].ts
<1> DEFINE D == 1..Cardinality(RowsOf(i))
<1>1. IsFiniteSet(RowsOf(i))
  <2> DEFINE f == [e \in RowsOf(i) |-> e.req]
  <2>1. f \in [RowsOf(i) -> Requests]
    BY DEF TypeOK, Row, RowsOf
  <2>2. \A a, b \in RowsOf(i) : f[a] = f[b] => a = b
    <3>1. \A e \in RowsOf(i) : e = req[e.req].row /\ f[e] = e.req
      BY DEF Owned, RowsOf
    <3> QED BY <3>1
  <2>3. f \in Injection(RowsOf(i), Requests)
    BY <2>1, <2>2, Fun_IsInj
  <2> QED BY <2>3, EventsAssumption, FS_Injection
<1>2. /\ s \in [D -> RowsOf(i)]
      /\ \A j, k \in D : j # k => s[j] # s[k]
      /\ \A j, k \in DOMAIN s : j < k => s[j].ts <= s[k].ts
  BY DEF LoadResults, SetToSeqs
<1>3. Cardinality(RowsOf(i)) \in Nat /\ IsFiniteSet(D) /\ Cardinality(D) = Cardinality(RowsOf(i))
  BY <1>1, FS_CardinalityType, FS_Interval
<1>4. s \in Injection(D, RowsOf(i))
  BY <1>2, Fun_IsInj
<1>5. s \in Surjection(D, RowsOf(i))
  BY <1>1, <1>3, <1>4, FS_Injection
<1>6. Range(s) = RowsOf(i)
  BY <1>5, Fun_SurjectionProperties
<1>7. RowsOf(i) \subseteq Row
  BY DEF TypeOK, RowsOf
<1>8. s \in Seq(Row)
  BY <1>2, <1>3, <1>7
<1> QED BY <1>2, <1>6, <1>8

\* What the steps of a handler do to its record.
LEMMA TwoFields ==
  ASSUME NEW f \in [Requests -> Handler], NEW r \in Requests, NEW p, NEW x
  PROVE  /\ [f EXCEPT ![r].phase = p, ![r].row = x] = [f EXCEPT ![r] = [f[r] EXCEPT !.phase = p, !.row = x]]
         /\ [f EXCEPT ![r].phase = p, ![r].seen = x] = [f EXCEPT ![r] = [f[r] EXCEPT !.phase = p, !.seen = x]]
<1> DEFINE g == [f EXCEPT ![r].phase = p]
<1>1. g[r] = [f[r] EXCEPT !.phase = p] /\ DOMAIN g = Requests /\ \A q \in Requests \ {r} : g[q] = f[q]
  OBVIOUS
<1>2. /\ [f EXCEPT ![r].phase = p, ![r].row = x] = [g EXCEPT ![r] = [g[r] EXCEPT !.row = x]]
      /\ [f EXCEPT ![r].phase = p, ![r].seen = x] = [g EXCEPT ![r] = [g[r] EXCEPT !.seen = x]]
  OBVIOUS
<1>3. \A y : [g EXCEPT ![r] = y] = [f EXCEPT ![r] = y]
  BY <1>1
<1> QED BY <1>1, <1>2, <1>3

\* Request r goes on in phase p, with the rows seen and its own row.
Becomes(r, p, seen, row) ==
  /\ req' \in [Requests -> Handler]
  /\ \A q \in Requests \ {r} : req'[q] = req[q]
  /\ req'[r].phase = p /\ req'[r].seen = seen /\ req'[r].row = row
  /\ req'[r].op = req[r].op /\ req'[r].inc = req[r].inc /\ req'[r].due = req[r].due

LEMMA PhaseStep ==
  ASSUME TypeOK, NEW r \in Requests, NEW p \in Phases, req' = [req EXCEPT ![r].phase = p]
  PROVE  Becomes(r, p, req[r].seen, req[r].row)
<1>0. req \in [Requests -> Handler]
  BY DEF TypeOK
<1>1. PICK g \in Handler : g = req[r]
  BY <1>0
<1> DEFINE h == [g EXCEPT !.phase = p]
<1>2. /\ h \in Handler /\ h.phase = p /\ h.seen = g.seen /\ h.row = g.row
      /\ h.op = g.op /\ h.inc = g.inc /\ h.due = g.due
  BY DEF Handler
<1>3. req' = [req EXCEPT ![r] = h]
  <2>1. req' = [req EXCEPT ![r] = [req[r] EXCEPT !.phase = p]]
    BY <1>0
  <2> QED BY <1>1, <2>1
<1> HIDE DEF h
<1>4. req'[r] = h /\ req' \in [Requests -> Handler] /\ \A q \in Requests \ {r} : req'[q] = req[q]
  BY <1>0, <1>2, <1>3
<1> QED BY <1>1, <1>2, <1>4 DEF Becomes

LEMMA RowStep ==
  ASSUME TypeOK, NEW r \in Requests, NEW p \in Phases, NEW e \in Row,
         req' = [req EXCEPT ![r].phase = p, ![r].row = e]
  PROVE  Becomes(r, p, req[r].seen, e)
<1>0. req \in [Requests -> Handler]
  BY DEF TypeOK
<1>1. PICK g \in Handler : g = req[r]
  BY <1>0
<1> DEFINE h == [g EXCEPT !.phase = p, !.row = e]
<1>2. /\ h \in Handler /\ h.phase = p /\ h.seen = g.seen /\ h.row = e
      /\ h.op = g.op /\ h.inc = g.inc /\ h.due = g.due
  BY DEF Handler
<1>3. req' = [req EXCEPT ![r] = h]
  <2>1. req' = [req EXCEPT ![r] = [req[r] EXCEPT !.phase = p, !.row = e]]
    BY <1>0, TwoFields, Zenon
  <2> QED BY <1>1, <2>1
<1> HIDE DEF h
<1>4. req'[r] = h /\ req' \in [Requests -> Handler] /\ \A q \in Requests \ {r} : req'[q] = req[q]
  BY <1>0, <1>2, <1>3
<1> QED BY <1>1, <1>2, <1>4 DEF Becomes

LEMMA SeenStep ==
  ASSUME TypeOK, NEW r \in Requests, NEW p \in Phases, NEW s \in Seq(Row),
         req' = [req EXCEPT ![r].phase = p, ![r].seen = s]
  PROVE  Becomes(r, p, s, req[r].row)
<1>0. req \in [Requests -> Handler]
  BY DEF TypeOK
<1>1. PICK g \in Handler : g = req[r]
  BY <1>0
<1> DEFINE h == [g EXCEPT !.phase = p, !.seen = s]
<1>2. /\ h \in Handler /\ h.phase = p /\ h.seen = s /\ h.row = g.row
      /\ h.op = g.op /\ h.inc = g.inc /\ h.due = g.due
  BY DEF Handler
<1>3. req' = [req EXCEPT ![r] = h]
  <2>1. req' = [req EXCEPT ![r] = [req[r] EXCEPT !.phase = p, !.seen = s]]
    BY <1>0, TwoFields, Zenon
  <2> QED BY <1>1, <2>1
<1> HIDE DEF h
<1>4. req'[r] = h /\ req' \in [Requests -> Handler] /\ \A q \in Requests \ {r} : req'[q] = req[q]
  BY <1>0, <1>2, <1>3
<1> QED BY <1>1, <1>2, <1>4 DEF Becomes

\* Request r starts, in phase p.
Starts(r, p, op, i, due, row) ==
  /\ req[r].phase = "unsent"
  /\ req' \in [Requests -> Handler]
  /\ \A q \in Requests \ {r} : req'[q] = req[q]
  /\ req'[r].phase = p /\ req'[r].seen = << >> /\ req'[r].row = row
  /\ req'[r].op = op /\ req'[r].inc = i /\ req'[r].due = due

LEMMA UnsentFields ==
  Unsent \in Handler /\ Unsent.seen = << >> /\ Unsent.due = {} /\ Unsent.row = NoRow
<1>1. << >> \in Seq(Row)
  OBVIOUS
<1>2. PICK s \in Seq(Row), n \in Row \cup {NoRow} : s = << >> /\ n = NoRow
  BY <1>1
<1>3. [phase |-> "unsent", op |-> None, inc |-> None, due |-> {}, seen |-> s, row |-> n] \in Handler
  BY DEF Handler, Phases
<1>4. Unsent \in Handler
  BY <1>2, <1>3 DEF Unsent
<1> QED BY <1>4 DEF Unsent

LEMMA CreateStep ==
  ASSUME TypeOK, NEW r \in Requests, NEW i \in Ids, Create(r, i)
  PROVE  /\ Starts(r, "appending", "create", i, {}, NewRow(r, "create", i))
         /\ NewRow(r, "create", i) \in Row /\ ~Used(i) /\ UNCHANGED <<rows, clock>>
<1>1. PICK e \in Row : e = NewRow(r, "create", i)
  BY DEF NewRow, EventType, Row, TypeOK
<1>2. PICK u \in Handler : /\ u = Unsent /\ u.seen = << >> /\ u.due = {} /\ u.row = NoRow
  BY UnsentFields
<1> DEFINE h == [u EXCEPT !.phase = "appending", !.op = "create", !.inc = i, !.row = e]
<1>3. /\ h \in Handler /\ h.phase = "appending" /\ h.seen = u.seen /\ h.row = e
      /\ h.op = "create" /\ h.inc = i /\ h.due = u.due
  BY DEF Handler, Phases
<1>4. /\ req' = [req EXCEPT ![r] = h] /\ ~Used(i) /\ UNCHANGED <<rows, clock>>
      /\ req[r].phase = "unsent"
  BY <1>1, <1>2 DEF Create
<1> HIDE DEF h
<1>5. req'[r] = h /\ req' \in [Requests -> Handler] /\ \A q \in Requests \ {r} : req'[q] = req[q]
  BY <1>3, <1>4 DEF TypeOK
<1> QED BY <1>1, <1>2, <1>3, <1>4, <1>5 DEF Starts

LEMMA SendStep ==
  ASSUME TypeOK, NEW r \in Requests, NEW i \in Ids, NEW op \in {"get", "message", "submit"},
         Send(r, op, i)
  PROVE  /\ Starts(r, "loading", op, i, Acknowledged(i), NoRow)
         /\ Known(i) \/ ~Used(i)
         /\ UNCHANGED <<rows, clock>>
<1>1. PICK due \in SUBSET Requests : due = Acknowledged(i)
  BY DEF Acknowledged
<1>2. PICK u \in Handler : /\ u = Unsent /\ u.seen = << >> /\ u.due = {} /\ u.row = NoRow
  BY UnsentFields
<1> DEFINE h == [u EXCEPT !.phase = "loading", !.op = op, !.inc = i, !.due = due]
<1>3. /\ h \in Handler /\ h.phase = "loading" /\ h.seen = u.seen /\ h.row = u.row
      /\ h.op = op /\ h.inc = i /\ h.due = due
  BY DEF Handler, Phases
<1>4. /\ req' = [req EXCEPT ![r] = h] /\ (Known(i) \/ ~Used(i)) /\ UNCHANGED <<rows, clock>>
      /\ req[r].phase = "unsent"
  BY <1>1, <1>2 DEF Send
<1> HIDE DEF h
<1>5. req'[r] = h /\ req' \in [Requests -> Handler] /\ \A q \in Requests \ {r} : req'[q] = req[q]
  BY <1>3, <1>4 DEF TypeOK
<1> QED BY <1>1, <1>2, <1>3, <1>4, <1>5 DEF Starts

LEMMA LoadStep ==
  ASSUME TypeOK, Owned, NEW r \in Requests, Load(r)
  PROVE  /\ req[r].phase = "loading" /\ UNCHANGED <<rows, clock>>
         /\ \E s \in LoadResults(req[r].inc) : Becomes(r, "loaded", s, req[r].row)
<1>1. PICK s \in LoadResults(req[r].inc) : req' = [req EXCEPT ![r].phase = "loaded", ![r].seen = s]
  BY DEF Load
<1>2. s \in Seq(Row)
  BY LoadedRows
<1>3. Becomes(r, "loaded", s, req[r].row)
  BY <1>1, <1>2, SeenStep DEF Phases
<1> QED BY <1>3 DEF Load

LEMMA DecideStep ==
  ASSUME TypeOK, NEW r \in Requests, Decide(r), req[r].op # "create", req[r].op # None,
         req[r].inc \in Ids
  PROVE  /\ NewRow(r, req[r].op, req[r].inc) \in Row
         /\ Becomes(r, "appending", req[r].seen, NewRow(r, req[r].op, req[r].inc))
         /\ req[r].phase = "loaded" /\ req[r].op \in {"message", "submit"}
         /\ req[r].seen # << >> /\ UNCHANGED <<rows, clock>>
<1>1. req[r].op \in {"message", "submit"} /\ req[r].inc \in Ids
  BY DEF Decide, TypeOK, Handler
<1>2. PICK e \in Row : e = NewRow(r, req[r].op, req[r].inc)
  BY <1>1 DEF NewRow, EventType, Row, TypeOK
<1>3. Becomes(r, "appending", req[r].seen, e)
  BY <1>2, RowStep DEF Phases, Decide
<1> QED BY <1>1, <1>2, <1>3 DEF Decide

LEMMA InsertStep ==
  ASSUME TypeOK, NEW r \in Requests, Insert(r)
  PROVE  /\ Becomes(r, IF req[r].phase = "appending" THEN "appended" ELSE req[r].phase,
                     req[r].seen, req[r].row)
         /\ req[r].row # NoRow /\ req[r].row \notin rows
         /\ rows' = rows \cup {req[r].row} /\ clock' = clock
<1>1. req[r].phase \in Phases
  BY DEF TypeOK, Handler
<1>2. PICK p \in Phases : p = IF req[r].phase = "appending" THEN "appended" ELSE req[r].phase
  BY <1>1 DEF Phases
<1>3. req' = [req EXCEPT ![r].phase = p]
  BY <1>2 DEF Insert
<1> QED BY <1>2, <1>3, PhaseStep DEF Insert

\* The steps that only move a handler on.
LEMMA MoveStep ==
  ASSUME TypeOK, NEW r \in Requests
  PROVE  /\ NotFound(r) => /\ Becomes(r, "notFound", req[r].seen, req[r].row)
                           /\ req[r].phase = "loaded" /\ req[r].seen = << >>
                           /\ UNCHANGED <<rows, clock>>
         /\ Refuse(r) \/ Fail(r) => /\ Becomes(r, "error", req[r].seen, req[r].row)
                                    /\ req[r].phase \in {"loading", "loaded", "appending", "appended"}
                                    /\ UNCHANGED <<rows, clock>>
         /\ Show(r) => /\ Becomes(r, "answered", req[r].seen, req[r].row)
                       /\ req[r].phase = "loaded" /\ UNCHANGED <<rows, clock>>
         /\ Acknowledge(r) => /\ Becomes(r, "answered", req[r].seen, req[r].row)
                              /\ req[r].phase = "appended" /\ clock' = clock + 1 /\ rows' = rows
BY PhaseStep DEF Phases, NotFound, Refuse, Fail, Show, Acknowledge

LEMMA DecideOwn ==
  ASSUME Inv, NEW r \in Requests, Decide(r)
  PROVE  /\ NewRow(r, req[r].op, req[r].inc) \in Row
         /\ Becomes(r, "appending", req[r].seen, NewRow(r, req[r].op, req[r].inc))
         /\ req[r].phase = "loaded" /\ req[r].op \in {"message", "submit"} /\ req[r].row = NoRow
         /\ req[r].seen # << >> /\ UNCHANGED <<rows, clock>>
<1>1. req[r].phase = "loaded" /\ Undecided(r)
  BY DEF Decide, Undecided
<1>2. req[r].op # "create"
  BY <1>1 DEF Inv, Created
<1>3. req[r].op # None /\ req[r].inc \in Ids /\ req[r].row = NoRow
  <2>1. Phased(r)
    BY DEF Inv, Owned
  <2> QED BY <1>1, <2>1 DEF Phased
<1> QED BY <1>1, <1>2, <1>3, DecideStep DEF Inv

----------------------------------------------------------------------------
LEMMA TypeKept == Inv /\ [Next]_vars => TypeOK'
<1> SUFFICES ASSUME Inv, [Next]_vars PROVE TypeOK'
  OBVIOUS
<1>0. TypeOK /\ Owned
  BY DEF Inv
<1>1. CASE UNCHANGED vars
  BY <1>0, <1>1 DEF TypeOK, vars
<1>2. ASSUME NEW r \in Requests, NEW i \in Ids, Create(r, i) PROVE TypeOK'
  BY <1>0, <1>2, CreateStep DEF TypeOK, Starts
<1>3. ASSUME NEW r \in Requests, NEW i \in Ids, NEW op \in {"get", "message", "submit"}, Send(r, op, i)
      PROVE  TypeOK'
  BY <1>0, <1>3, SendStep DEF TypeOK, Starts
<1>4. ASSUME NEW r \in Requests, Load(r) PROVE TypeOK'
  BY <1>0, <1>4, LoadStep DEF TypeOK, Becomes
<1>5. ASSUME NEW r \in Requests, NotFound(r) \/ Refuse(r) \/ Show(r) \/ Acknowledge(r) \/ Fail(r)
      PROVE  TypeOK'
  <2>1. rows' = rows /\ clock' \in {clock, clock + 1} /\ \E p : Becomes(r, p, req[r].seen, req[r].row)
    BY <1>0, <1>5, MoveStep
  <2> QED BY <1>0, <2>1 DEF TypeOK, Becomes
<1>6. ASSUME NEW r \in Requests, Decide(r) PROVE TypeOK'
  BY <1>0, <1>6, DecideOwn DEF TypeOK, Becomes
<1>7. ASSUME NEW r \in Requests, Insert(r) PROVE TypeOK'
  <2>1. req[r].row \in Row
    BY <1>0, <1>7 DEF TypeOK, Handler, Insert
  <2> QED BY <1>0, <1>7, <2>1, InsertStep DEF TypeOK, Becomes
<1> QED BY <1>1, <1>2, <1>3, <1>4, <1>5, <1>6, <1>7 DEF Next

LEMMA NoRowIsNoRow == NoRow \notin Row
BY DEF NoRow, Row, None

\* The rows in the table stay their requests' rows when r alone changes, and the
\* other requests' fields keep what they say of rows and clock.
LEMMA OthersOwned ==
  ASSUME Inv, NEW r \in Requests, \A q \in Requests \ {r} : req'[q] = req[q],
         req[r].row = NoRow \/ req'[r].row = req[r].row,
         rows \subseteq rows', clock' \in Nat, clock <= clock'
  PROVE  /\ \A e \in rows : e = req'[e.req].row
         /\ \A q \in Requests \ {r} : Phased(q)' /\ Written(q)' /\ Placed(q)'
<1>1. \A e \in rows : e = req'[e.req].row
  <2> SUFFICES ASSUME NEW e \in rows PROVE e = req'[e.req].row
    OBVIOUS
  <2>1. e \in Row /\ e.req \in Requests
    BY DEF Inv, TypeOK, Row
  <2>2. e = req[e.req].row
    BY DEF Inv, Owned
  <2> QED BY <2>1, <2>2, NoRowIsNoRow
<1>2. ASSUME NEW q \in Requests \ {r} PROVE Phased(q)' /\ Written(q)' /\ Placed(q)'
  <2>1. Phased(q) /\ Written(q) /\ Placed(q)
    BY DEF Inv, Owned
  <2>2. req'[q] = req[q]
    OBVIOUS
  <2>3. Phased(q)'
    BY <2>1, <2>2 DEF Phased, Undecided
  <2>4. clock \in Nat /\ (req[q].row # NoRow => req[q].row \in Row)
    BY DEF Inv, TypeOK, Handler
  <2>5. \A e \in Row : e.ts \in Nat
    BY DEF Row
  <2>6. \A e \in Row : (e.ts <= clock => e.ts <= clock') /\ (e.ts < clock => e.ts < clock')
    BY <2>4, <2>5
  <2>7. Written(q)'
    BY <2>1, <2>2, <2>4, <2>6 DEF Written
  <2>8. Placed(q)'
    BY <2>1, <2>2, <2>4, <2>6 DEF Placed
  <2> QED BY <2>3, <2>7, <2>8
<1> QED BY <1>1, <1>2

LEMMA OwnedKept == Inv /\ [Next]_vars => Owned'
<1> SUFFICES ASSUME Inv, [Next]_vars PROVE Owned'
  OBVIOUS
<1>0. /\ TypeOK /\ Owned /\ clock \in Nat
      /\ \A r \in Requests : Phased(r) /\ Written(r) /\ Placed(r)
      /\ \A r \in Requests : req[r].row = NoRow \/ (req[r].row \in Row /\ req[r].row.ts \in Nat)
  BY DEF Inv, Owned, TypeOK, Handler, Row
<1>1. CASE UNCHANGED vars
  BY <1>0, <1>1 DEF vars, Owned, Phased, Written, Placed, Undecided
<1>2. ASSUME NEW r \in Requests, NEW i \in Ids, Create(r, i) PROVE Owned'
  <2>1. /\ Starts(r, "appending", "create", i, {}, NewRow(r, "create", i))
        /\ NewRow(r, "create", i) \in Row /\ UNCHANGED <<rows, clock>>
    BY <1>0, <1>2, CreateStep
  <2>2. req[r].row = NoRow
    BY <1>0, <2>1 DEF Starts, Phased, Undecided
  <2>3. /\ \A e \in rows : e = req'[e.req].row
        /\ \A q \in Requests \ {r} : Phased(q)' /\ Written(q)' /\ Placed(q)'
    BY <1>0, <2>1, <2>2, OthersOwned DEF Starts
  <2>4. /\ NewRow(r, "create", i).type = EventType("create") /\ NewRow(r, "create", i).req = r
        /\ NewRow(r, "create", i).inc = i /\ NewRow(r, "create", i).ts = clock
    BY DEF NewRow
  <2>5. Phased(r)' /\ Written(r)' /\ Placed(r)'
    <3>1. Phased(r)'
      BY <2>1 DEF Starts, Phased, Undecided, None
    <3>2. Written(r)'
      BY <1>0, <2>1, <2>4 DEF Starts, Written
    <3>3. Placed(r)'
      BY <2>1, NoRowIsNoRow DEF Starts, Placed
    <3> QED BY <3>1, <3>2, <3>3
  <2> QED BY <2>1, <2>3, <2>5 DEF Owned
<1>3. ASSUME NEW r \in Requests, NEW i \in Ids, NEW op \in {"get", "message", "submit"}, Send(r, op, i)
      PROVE  Owned'
  <2>1. /\ Starts(r, "loading", op, i, Acknowledged(i), NoRow) /\ UNCHANGED <<rows, clock>>
    BY <1>0, <1>3, SendStep
  <2>2. req[r].row = NoRow
    BY <1>0, <2>1 DEF Starts, Phased, Undecided
  <2>3. /\ \A e \in rows : e = req'[e.req].row
        /\ \A q \in Requests \ {r} : Phased(q)' /\ Written(q)' /\ Placed(q)'
    BY <1>0, <2>1, <2>2, OthersOwned DEF Starts
  <2>4. Phased(r)' /\ Written(r)' /\ Placed(r)'
    BY <2>1 DEF Starts, Phased, Written, Placed, Undecided, None
  <2> QED BY <2>1, <2>3, <2>4 DEF Owned
<1>4. ASSUME NEW r \in Requests, Load(r) PROVE Owned'
  <2>1. PICK s \in LoadResults(req[r].inc) : Becomes(r, "loaded", s, req[r].row)
    BY <1>0, <1>4, LoadStep
  <2>2. req[r].phase = "loading" /\ UNCHANGED <<rows, clock>>
    BY <1>0, <1>4, LoadStep
  <2>3. /\ \A e \in rows : e = req'[e.req].row
        /\ \A q \in Requests \ {r} : Phased(q)' /\ Written(q)' /\ Placed(q)'
    BY <1>0, <2>1, <2>2, OthersOwned DEF Becomes
  <2>4. Phased(r)' /\ Written(r)' /\ Placed(r)'
    BY <1>0, <2>1, <2>2 DEF Becomes, Phased, Written, Placed, Undecided, None
  <2> QED BY <2>2, <2>3, <2>4 DEF Owned
<1>5. ASSUME NEW r \in Requests, NotFound(r) \/ Refuse(r) \/ Show(r) \/ Acknowledge(r) \/ Fail(r)
      PROVE  Owned'
  <2>1. /\ rows' = rows /\ clock' \in {clock, clock + 1}
        /\ \/ /\ Becomes(r, "notFound", req[r].seen, req[r].row)
              /\ req[r].phase = "loaded" /\ req[r].seen = << >>
           \/ /\ Becomes(r, "error", req[r].seen, req[r].row) /\ req[r].phase # "unsent"
           \/ /\ Becomes(r, "answered", req[r].seen, req[r].row)
              /\ req[r].phase = "loaded"
           \/ /\ Becomes(r, "answered", req[r].seen, req[r].row)
              /\ req[r].phase = "appended" /\ clock' = clock + 1
    BY <1>0, <1>5, MoveStep
  <2>2. /\ \A q \in Requests \ {r} : req'[q] = req[q]
        /\ req'[r].row = req[r].row /\ req'[r].seen = req[r].seen /\ req'[r].op = req[r].op
        /\ req'[r].inc = req[r].inc /\ req'[r].due = req[r].due
    BY <2>1 DEF Becomes
  <2>3. /\ \A e \in rows : e = req'[e.req].row
        /\ \A q \in Requests \ {r} : Phased(q)' /\ Written(q)' /\ Placed(q)'
    BY <1>0, <2>1, <2>2, OthersOwned
  <2>4. req[r].phase # "unsent" /\ (req'[r].phase = "notFound" => req[r].seen = << >> /\ req[r].row = NoRow)
        /\ req'[r].phase \in {"notFound", "error", "answered"}
    BY <1>0, <2>1 DEF Becomes, Phased, Undecided
  <2>5. Phased(r)'
    BY <1>0, <2>2, <2>4 DEF Phased, Undecided
  <2>6. Written(r)'
    BY <1>0, <2>1, <2>2 DEF Written
  <2>7. req'[r].phase = "answered" => req[r].row = NoRow \/ (req[r].row \in rows /\ clock' = clock + 1)
    BY <1>0, <2>1 DEF Becomes, Phased, Placed, Undecided
  <2>8. Placed(r)'
    <3>1. req[r].row # NoRow => req[r].row.ts <= clock
      BY <1>0 DEF Written
    <3> QED BY <1>0, <2>1, <2>2, <2>4, <2>7, <3>1 DEF Placed
  <2> QED BY <2>1, <2>3, <2>5, <2>6, <2>8 DEF Owned
<1>6. ASSUME NEW r \in Requests, Decide(r) PROVE Owned'
  <2> DEFINE e == NewRow(r, req[r].op, req[r].inc)
  <2>1. /\ e \in Row /\ Becomes(r, "appending", req[r].seen, e)
        /\ req[r].op \in {"message", "submit"} /\ req[r].row = NoRow /\ req[r].phase = "loaded"
        /\ UNCHANGED <<rows, clock>>
    BY <1>6, DecideOwn
  <2>2. e.type = EventType(req[r].op) /\ e.req = r /\ e.inc = req[r].inc /\ e.ts = clock
    BY DEF NewRow
  <2> HIDE DEF e
  <2>3. /\ \A x \in rows : x = req'[x.req].row
        /\ \A q \in Requests \ {r} : Phased(q)' /\ Written(q)' /\ Placed(q)'
    BY <1>0, <2>1, OthersOwned DEF Becomes
  <2>4. Phased(r)' /\ Written(r)' /\ Placed(r)'
    <3>1. Phased(r)'
      BY <1>0, <2>1 DEF Becomes, Phased, Undecided
    <3>2. Written(r)'
      BY <1>0, <2>1, <2>2 DEF Becomes, Written
    <3>3. Placed(r)'
      BY <2>1, NoRowIsNoRow DEF Becomes, Placed
    <3> QED BY <3>1, <3>2, <3>3
  <2> QED BY <2>1, <2>3, <2>4 DEF Owned
<1>7. ASSUME NEW r \in Requests, Insert(r) PROVE Owned'
  <2>1. /\ Becomes(r, IF req[r].phase = "appending" THEN "appended" ELSE req[r].phase,
                    req[r].seen, req[r].row)
        /\ req[r].row # NoRow /\ rows' = rows \cup {req[r].row} /\ clock' = clock
    BY <1>0, <1>7, InsertStep
  <2>2. /\ \A e \in rows : e = req'[e.req].row
        /\ \A q \in Requests \ {r} : Phased(q)' /\ Written(q)' /\ Placed(q)'
    BY <1>0, <2>1, OthersOwned DEF Becomes
  <2>3. Phased(r)' /\ Written(r)' /\ Placed(r)'
    BY <1>0, <2>1 DEF Becomes, Phased, Written, Placed, Undecided, None
  <2>4. req[r].row.req = r /\ req'[r].row = req[r].row
    BY <1>0, <2>1 DEF Becomes, Written
  <2> QED BY <2>1, <2>2, <2>3, <2>4 DEF Owned
<1> QED BY <1>1, <1>2, <1>3, <1>4, <1>5, <1>6, <1>7 DEF Next

\* A step of a request that has been sent leaves the other handlers alone, and
\* a request that still moves was not acknowledged to anyone.
Onward(r) == Load(r) \/ NotFound(r) \/ Refuse(r) \/ Show(r) \/ Decide(r) \/ Insert(r)
               \/ Acknowledge(r) \/ Fail(r)

LEMMA Owes ==
  ASSUME Inv, NEW x \in Requests,
         req[x].phase # "answered" \/ (req[x].row # NoRow /\ req[x].row \notin rows)
  PROVE  \A r \in Requests : x \notin req[r].due
<1>1. Placed(x)
  BY DEF Inv, Owned
<1> QED BY <1>1 DEF Inv, Due, Placed

LEMMA GoesOn ==
  ASSUME Inv, NEW r \in Requests, Onward(r)
  PROVE  /\ \A q \in Requests \ {r} : req'[q] = req[q]
         /\ req'[r].op = req[r].op /\ req'[r].inc = req[r].inc /\ req'[r].due = req[r].due
         /\ rows \subseteq rows'
         /\ \A q \in Requests : r \notin req[q].due
         /\ Undecided(r) \/ (~Undecided(r)' /\ req'[r].seen = req[r].seen /\ req'[r].row = req[r].row)
         /\ Load(r) \/ /\ req'[r].seen = req[r].seen
                       /\ Loaded(r)' => Loaded(r)
                       /\ req'[r].row = req[r].row \/ Decide(r)
<1>0. TypeOK /\ Owned /\ Phased(r)
  BY DEF Inv, Owned
<1>1. CASE Load(r)
  <2>1. PICK s \in LoadResults(req[r].inc) : Becomes(r, "loaded", s, req[r].row)
    BY <1>0, <1>1, LoadStep
  <2>2. req[r].phase = "loading" /\ UNCHANGED <<rows, clock>>
    BY <1>0, <1>1, LoadStep
  <2> QED BY <1>1, <2>1, <2>2, Owes DEF Becomes, Undecided
<1>2. ASSUME NotFound(r) \/ Refuse(r) \/ Show(r) \/ Acknowledge(r) \/ Fail(r)
      PROVE  /\ \E p \in {"notFound", "error", "answered"} :
                  /\ Becomes(r, p, req[r].seen, req[r].row)
                  /\ p = "error" \/ Loaded(r)
                  /\ p = "notFound" => Undecided(r)
             /\ rows' = rows /\ req[r].phase # "answered"
  BY <1>0, <1>2, MoveStep DEF Loaded, Undecided
<1>3. CASE NotFound(r) \/ Refuse(r) \/ Show(r) \/ Acknowledge(r) \/ Fail(r)
  <2>1. PICK p \in {"notFound", "error", "answered"} :
                  /\ Becomes(r, p, req[r].seen, req[r].row)
                  /\ p = "error" \/ Loaded(r)
                  /\ p = "notFound" => Undecided(r)
    BY <1>2, <1>3
  <2>2. rows' = rows /\ req[r].phase # "answered"
    BY <1>2, <1>3
  <2> QED BY <2>1, <2>2, Owes DEF Becomes, Undecided, Loaded
<1>4. CASE Decide(r)
  <2>1. /\ Becomes(r, "appending", req[r].seen, NewRow(r, req[r].op, req[r].inc))
        /\ req[r].phase = "loaded" /\ UNCHANGED <<rows, clock>>
    BY <1>4, DecideOwn
  <2> QED BY <1>4, <2>1, Owes DEF Becomes, Undecided, Loaded
<1>5. CASE Insert(r)
  <2>1. /\ Becomes(r, IF req[r].phase = "appending" THEN "appended" ELSE req[r].phase,
                    req[r].seen, req[r].row)
        /\ req[r].row # NoRow /\ req[r].row \notin rows /\ rows' = rows \cup {req[r].row}
    BY <1>0, <1>5, InsertStep
  <2>2. ~Undecided(r)
    BY <1>0, <2>1 DEF Phased
  <2>3. ~Undecided(r)' /\ (Loaded(r)' => Loaded(r))
    BY <2>1, <2>2 DEF Becomes, Undecided, Loaded
  <2> QED BY <2>1, <2>3, Owes DEF Becomes
<1> QED BY <1>1, <1>3, <1>4, <1>5 DEF Onward

\* What starts has no fields yet, and was acknowledged to nobody.
LEMMA StartsFresh ==
  ASSUME Inv, NEW r \in Requests, req[r].phase = "unsent"
  PROVE  /\ req[r].row = NoRow /\ req[r].seen = << >> /\ req[r].op = None
         /\ req[r].due = {} /\ req[r].inc = None
         /\ \A q \in Requests : r \notin req[q].due
<1>1. Phased(r)
  BY DEF Inv, Owned
<1> QED BY <1>1, Owes DEF Phased, Undecided

LEMMA CreatedKept == Inv /\ [Next]_vars => Created'
<1> SUFFICES ASSUME Inv, [Next]_vars PROVE Created'
  OBVIOUS
<1>0. TypeOK /\ Created
  BY DEF Inv
<1>1. CASE UNCHANGED vars
  BY <1>0, <1>1 DEF vars, Created, Undecided
<1>2. ASSUME NEW r \in Requests, NEW i \in Ids, Create(r, i) PROVE Created'
  <2>1. Starts(r, "appending", "create", i, {}, NewRow(r, "create", i)) /\ ~Used(i)
    BY <1>0, <1>2, CreateStep
  <2>2. req[r].inc = None /\ i # None
    BY <2>1, StartsFresh DEF Starts, Used
  <2>3. \A q \in Requests : req[q].inc # i
    BY <2>1 DEF Used
  <2>4. (\A q \in Requests : req[q].op = "create" =>
           req[q].due = {} /\ req[q].seen = << >> /\ req[q].inc # None /\ ~Undecided(q))'
    BY <1>0, <2>1, <2>2 DEF Starts, Created, Undecided
  <2>5. (\A c, q \in Requests : req[c].op = "create" /\ q # c /\ req[q].inc = req[c].inc =>
           req[q].op # "create" /\ c \in req[q].due)'
    BY <1>0, <2>1, <2>3 DEF Starts, Created
  <2> QED BY <2>4, <2>5 DEF Created
<1>3. ASSUME NEW r \in Requests, NEW i \in Ids, NEW op \in {"get", "message", "submit"}, Send(r, op, i)
      PROVE  Created'
  <2>1. Starts(r, "loading", op, i, Acknowledged(i), NoRow) /\ (Known(i) \/ ~Used(i))
    BY <1>0, <1>3, SendStep
  <2>2. \A c \in Requests : req[c].op = "create" /\ req[c].inc = i => c \in Acknowledged(i)
    BY <1>0, <2>1 DEF Used, Known, Acknowledged, Created
  <2>3. (\A q \in Requests : req[q].op = "create" =>
           req[q].due = {} /\ req[q].seen = << >> /\ req[q].inc # None /\ ~Undecided(q))'
    BY <1>0, <2>1 DEF Starts, Created, Undecided
  <2>4. (\A c, q \in Requests : req[c].op = "create" /\ q # c /\ req[q].inc = req[c].inc =>
           req[q].op # "create" /\ c \in req[q].due)'
    BY <1>0, <2>1, <2>2 DEF Starts, Created
  <2> QED BY <2>3, <2>4 DEF Created
<1>4. ASSUME NEW r \in Requests, Onward(r) PROVE Created'
  <2>1. /\ \A q \in Requests \ {r} : req'[q] = req[q]
        /\ req'[r].op = req[r].op /\ req'[r].inc = req[r].inc /\ req'[r].due = req[r].due
        /\ Undecided(r) \/ (~Undecided(r)' /\ req'[r].seen = req[r].seen)
    BY <1>4, GoesOn
  <2>2. (\A q \in Requests : req[q].op = "create" =>
           req[q].due = {} /\ req[q].seen = << >> /\ req[q].inc # None /\ ~Undecided(q))'
    BY <1>0, <2>1 DEF Created, Undecided
  <2>3. (\A c, q \in Requests : req[c].op = "create" /\ q # c /\ req[q].inc = req[c].inc =>
           req[q].op # "create" /\ c \in req[q].due)'
    BY <1>0, <2>1 DEF Created
  <2> QED BY <2>2, <2>3 DEF Created
<1> QED BY <1>1, <1>2, <1>3, <1>4 DEF Next, Onward

\* Due, for one request and one it had to show.
Shows(r, q) ==
  /\ req[q].phase = "answered" /\ req[q].row # NoRow /\ req[q].inc = req[r].inc
  /\ req[r].row # NoRow => req[q].row.ts < req[r].row.ts
  /\ Loaded(r) => req[q].row \in Range(req[r].seen)

LEMMA DueShows == Due <=> \A r \in Requests : \A q \in req[r].due : Shows(r, q)
BY DEF Due, Shows

LEMMA DueKept == Inv /\ [Next]_vars => Due'
<1> SUFFICES ASSUME Inv, [Next]_vars PROVE \A r \in Requests : \A q \in req'[r].due : Shows(r, q)'
  BY DEF Due, Shows
<1>0. TypeOK /\ Owned /\ \A r \in Requests : \A q \in req[r].due : Shows(r, q) /\ q \in Requests
  BY DueShows DEF Inv, TypeOK, Handler
<1>1. CASE UNCHANGED vars
  BY <1>0, <1>1 DEF vars, Shows, Loaded
<1>2. ASSUME NEW x \in Requests, NEW i \in Ids, Create(x, i),
             NEW r \in Requests, NEW q \in req'[r].due
      PROVE  Shows(r, q)'
  <2>1. Starts(x, "appending", "create", i, {}, NewRow(x, "create", i)) /\ UNCHANGED rows
    BY <1>0, <1>2, CreateStep
  <2>2. r # x /\ q # x
    BY <1>2, <2>1, StartsFresh DEF Starts
  <2>3. req'[r] = req[r] /\ Shows(r, q) /\ req'[q] = req[q]
    BY <1>0, <1>2, <2>1, <2>2 DEF Starts
  <2> QED BY <2>3 DEF Shows, Loaded
<1>3. ASSUME NEW x \in Requests, NEW i \in Ids, NEW op \in {"get", "message", "submit"}, Send(x, op, i),
             NEW r \in Requests, NEW q \in req'[r].due
      PROVE  Shows(r, q)'
  <2>1. Starts(x, "loading", op, i, Acknowledged(i), NoRow)
    BY <1>0, <1>3, SendStep
  <2>2. CASE r = x
    <3>1. q \in Acknowledged(i)
      BY <2>1, <2>2 DEF Starts
    <3>2. q \in Requests /\ q # x /\ req[q].phase = "answered" /\ req[q].row # NoRow /\ req[q].inc = i
      BY <2>1, <3>1 DEF Starts, Acknowledged
    <3>3. req'[q] = req[q]
      BY <2>1, <3>2 DEF Starts
    <3> QED BY <2>1, <2>2, <3>2, <3>3 DEF Starts, Shows, Loaded
  <2>3. CASE r # x
    <3>1. q # x
      BY <2>1, <2>3, StartsFresh DEF Starts
    <3>2. req'[r] = req[r] /\ Shows(r, q) /\ req'[q] = req[q]
      BY <1>0, <1>3, <2>1, <2>3, <3>1 DEF Starts
    <3> QED BY <3>2 DEF Shows, Loaded
  <2> QED BY <2>2, <2>3
<1>4. ASSUME NEW x \in Requests, Onward(x), NEW r \in Requests, NEW q \in req'[r].due
      PROVE  Shows(r, q)'
  <2>1. /\ \A y \in Requests \ {x} : req'[y] = req[y]
        /\ req'[x].inc = req[x].inc /\ req'[x].due = req[x].due
        /\ \A y \in Requests : x \notin req[y].due
    BY <1>4, GoesOn
  <2>2. q \in req[r].due /\ q # x /\ Shows(r, q) /\ q \in Requests
    BY <1>0, <1>4, <2>1
  <2>3. req'[q] = req[q] /\ req'[r].inc = req[r].inc
    BY <2>1, <2>2
  <2>4. CASE r # x
    <3>1. req'[r] = req[r]
      BY <2>1, <2>4
    <3> QED BY <2>2, <2>3, <3>1 DEF Shows, Loaded
  <2>5. CASE r = x /\ Load(x)
    <3>1. PICK s \in LoadResults(req[x].inc) : Becomes(x, "loaded", s, req[x].row)
      BY <1>0, <2>5, LoadStep
    <3>2. req[x].phase = "loading" /\ Phased(x)
      BY <1>0, <2>5 DEF Load, Owned
    <3>3. req'[x].row = NoRow /\ req'[x].seen = s
      BY <3>1, <3>2 DEF Becomes, Phased, Undecided
    <3>4. req[q].row \in rows /\ req[q].row.inc = req[q].inc
      BY <1>0, <2>2 DEF Owned, Placed, Written, Shows
    <3>5. req[q].row \in RowsOf(req[x].inc)
      BY <2>2, <2>5, <3>4 DEF Shows, RowsOf
    <3>6. req[q].row \in Range(s)
      BY <1>0, <3>5, LoadedRows
    <3> QED BY <2>2, <2>3, <2>5, <3>3, <3>6 DEF Shows
  <2>6. CASE r = x /\ Decide(x)
    <3>1. /\ Becomes(x, "appending", req[x].seen, NewRow(x, req[x].op, req[x].inc))
          /\ req[x].phase = "loaded"
      BY <2>6, DecideOwn
    <3>2. NewRow(x, req[x].op, req[x].inc).ts = clock
      BY DEF NewRow
    <3>3. req[q].row.ts < clock
      BY <1>0, <2>2 DEF Owned, Placed, Shows
    <3> QED BY <2>2, <2>3, <2>6, <3>1, <3>2, <3>3 DEF Becomes, Shows, Loaded
  <2>7. CASE r = x /\ ~Load(x) /\ ~Decide(x)
    <3>1. req'[x].seen = req[x].seen /\ (Loaded(x)' => Loaded(x)) /\ req'[x].row = req[x].row
      BY <1>4, <2>7, GoesOn
    <3> QED BY <2>2, <2>3, <2>7, <3>1 DEF Shows
  <2> QED BY <2>4, <2>5, <2>6, <2>7
<1> QED BY <1>1, <1>2, <1>3, <1>4 DEF Next, Onward

\* Seen, for one request.
Sees(r) ==
  /\ \A k \in DOMAIN req[r].seen : LET e == req[r].seen[k] IN
       e \in rows /\ e.inc = req[r].inc /\ r \notin req[e.req].due
  /\ \A j, k \in DOMAIN req[r].seen : j < k => req[r].seen[j].ts <= req[r].seen[k].ts
  /\ req[r].row # NoRow /\ req[r].op # "create" => req[r].seen # << >>

\* What a request has loaded stays as it was: due only changes for requests
\* that have no row yet.
LEMMA SeesStill ==
  ASSUME Inv, NEW r \in Requests, req'[r].seen = req[r].seen, req'[r].inc = req[r].inc,
         req'[r].op = req[r].op,
         req'[r].row = req[r].row \/ req[r].seen # << >>, rows \subseteq rows',
         \A q \in Requests : req'[q].due = req[q].due \/ req[q].row = NoRow
  PROVE  Sees(r)'
<1>1. Sees(r)
  BY DEF Inv, Seen, Sees
<1>2. ASSUME NEW k \in DOMAIN req[r].seen
      PROVE  LET e == req[r].seen[k] IN e \in rows' /\ e.inc = req'[r].inc /\ r \notin req'[e.req].due
  <2> DEFINE e == req[r].seen[k]
  <2>1. e \in rows /\ e.inc = req[r].inc /\ r \notin req[e.req].due
    BY <1>1 DEF Sees
  <2>2. e \in Row /\ e.req \in Requests
    BY <2>1 DEF Inv, TypeOK, Row
  <2>3. req[e.req].row # NoRow
    BY <2>1, <2>2, NoRowIsNoRow DEF Inv, Owned
  <2> QED BY <2>1, <2>2, <2>3
<1> QED BY <1>1, <1>2 DEF Sees

LEMMA SeenKept == Inv /\ [Next]_vars => Seen'
<1> SUFFICES ASSUME Inv, [Next]_vars PROVE \A r \in Requests : Sees(r)'
  BY DEF Seen, Sees
<1>0. TypeOK /\ Owned /\ \A r \in Requests : Sees(r)
  BY DEF Inv, Seen, Sees
<1>1. CASE UNCHANGED vars
  BY <1>0, <1>1 DEF vars, Sees
<1>2. ASSUME NEW x \in Requests, NEW i \in Ids, Create(x, i), NEW r \in Requests PROVE Sees(r)'
  <2>1. Starts(x, "appending", "create", i, {}, NewRow(x, "create", i)) /\ UNCHANGED rows
    BY <1>0, <1>2, CreateStep
  <2>2. req[x].row = NoRow
    BY <2>1, StartsFresh DEF Starts
  <2>3. CASE r = x
    BY <2>1, <2>3 DEF Starts, Sees
  <2>4. CASE r # x
    BY <2>1, <2>2, <2>4, SeesStill DEF Starts
  <2> QED BY <2>3, <2>4
<1>3. ASSUME NEW x \in Requests, NEW i \in Ids, NEW op \in {"get", "message", "submit"}, Send(x, op, i),
             NEW r \in Requests
      PROVE  Sees(r)'
  <2>1. Starts(x, "loading", op, i, Acknowledged(i), NoRow) /\ UNCHANGED rows
    BY <1>0, <1>3, SendStep
  <2>2. req[x].row = NoRow
    BY <2>1, StartsFresh DEF Starts
  <2>3. CASE r = x
    BY <2>1, <2>3 DEF Starts, Sees
  <2>4. CASE r # x
    BY <2>1, <2>2, <2>4, SeesStill DEF Starts
  <2> QED BY <2>3, <2>4
<1>4. ASSUME NEW x \in Requests, Onward(x), NEW r \in Requests PROVE Sees(r)'
  <2>1. /\ \A y \in Requests \ {x} : req'[y] = req[y]
        /\ req'[x].op = req[x].op /\ req'[x].inc = req[x].inc /\ req'[x].due = req[x].due
        /\ rows \subseteq rows'
        /\ \A y \in Requests : x \notin req[y].due
    BY <1>4, GoesOn
  <2>2. \A y \in Requests : req'[y].due = req[y].due
    BY <2>1
  <2>3. CASE r # x
    BY <2>1, <2>2, <2>3, SeesStill
  <2>4. CASE r = x /\ Load(x)
    <3>1. PICK s \in LoadResults(req[x].inc) : Becomes(x, "loaded", s, req[x].row)
      BY <1>0, <2>4, LoadStep
    <3>2. req[x].phase = "loading" /\ Phased(x) /\ rows' = rows
      BY <1>0, <2>4 DEF Load, Owned
    <3>3. req'[x].row = NoRow /\ req'[x].seen = s
      BY <3>1, <3>2 DEF Becomes, Phased, Undecided
    <3>4. /\ \A k \in DOMAIN s : s[k] \in RowsOf(req[x].inc)
          /\ \A j, k \in DOMAIN s : j < k => s[j].ts <= s[k].ts
      BY <1>0, LoadedRows DEF Range
    <3>5. \A e \in rows : e.req \in Requests
      BY <1>0 DEF TypeOK, Row
    <3> QED BY <2>1, <2>2, <2>4, <3>2, <3>3, <3>4, <3>5 DEF Sees, RowsOf
  <2>5. CASE r = x /\ ~Load(x)
    <3>1. req'[x].seen = req[x].seen /\ (req'[x].row = req[x].row \/ Decide(x))
      BY <1>4, <2>5, GoesOn
    <3>2. Decide(x) => req[x].seen # << >>
      BY DEF Decide
    <3> QED BY <2>1, <2>2, <2>5, <3>1, <3>2, SeesStill
  <2> QED BY <2>3, <2>4, <2>5
<1> QED BY <1>1, <1>2, <1>3, <1>4 DEF Next, Onward

LEMMA InvInit == Init => Inv
<1> SUFFICES ASSUME Init PROVE Inv
  OBVIOUS
<1>1. PICK u \in Handler : u = Unsent /\ u.seen = << >> /\ u.due = {} /\ u.row = NoRow
  BY UnsentFields
<1>2. u.phase = "unsent" /\ u.op = None /\ u.inc = None
  BY <1>1 DEF Unsent
<1>3. rows = {} /\ clock = 1 /\ req \in [Requests -> Handler] /\ \A r \in Requests : req[r] = u
  BY <1>1 DEF Init
<1> QED BY <1>1, <1>2, <1>3
        DEF Inv, TypeOK, Owned, Phased, Written, Placed, Created, Due, Seen, Undecided, None

\* The invariant of the argument: IncidentEvents' own, for Reflects and the rest.
THEOREM Inductive == Spec => []Inv
<1>1. Inv /\ [Next]_vars => Inv'
  BY TypeKept, OwnedKept, CreatedKept, DueKept, SeenKept DEF Inv
<1> QED BY InvInit, <1>1, PTL DEF Spec

----------------------------------------------------------------------------
LEMMA RowFacts ==
  ASSUME Inv, NEW e \in rows
  PROVE  /\ e \in Row /\ e.req \in Requests /\ e = req[e.req].row /\ req[e.req].row # NoRow
         /\ req[e.req].inc = e.inc /\ e.inc \in Ids /\ e.ts \in Nat
         /\ req[e.req].op \in {"create", "message", "submit"} /\ e.type = EventType(req[e.req].op)
<1>1. e \in Row /\ e.req \in Requests /\ e.inc \in Ids /\ e.ts \in Nat
  BY DEF Inv, TypeOK, Row
<1>2. e = req[e.req].row
  BY DEF Inv, Owned
<1>3. e # NoRow
  BY <1>1, NoRowIsNoRow
<1>4. Written(e.req)
  BY <1>1 DEF Inv, Owned
<1> QED BY <1>1, <1>2, <1>3, <1>4 DEF Written

\* The creation of an incident has a smaller stamp than every other row of it.
LEMMA CreationFirst ==
  ASSUME Inv, NEW e \in rows, NEW f \in rows, e.inc = f.inc,
         f.type = "IncidentCreated", e.type # "IncidentCreated"
  PROVE  f.ts < e.ts
<1>1. /\ f.req \in Requests /\ f = req[f.req].row /\ req[f.req].inc = f.inc /\ req[f.req].op = "create"
      /\ e.req \in Requests /\ e = req[e.req].row /\ req[e.req].row # NoRow /\ req[e.req].inc = e.inc
  BY RowFacts DEF EventType
<1>2. f.req \in req[e.req].due
  BY <1>1 DEF Inv, Created
<1> QED BY <1>1, <1>2 DEF Inv, Due

\* The events an answer shows: the loaded ones and the handler's own.
Told(r) == IF req[r].row = NoRow THEN req[r].seen ELSE Append(req[r].seen, req[r].row)

LEMMA ToldEvents ==
  ASSUME Inv, NEW r \in Requests
  PROVE  /\ Body(r) = From(Told(r))
         /\ DOMAIN Told(r) \subseteq Int /\ DOMAIN req[r].seen \subseteq DOMAIN Told(r)
         /\ \A k \in DOMAIN req[r].seen : Told(r)[k] = req[r].seen[k]
         /\ \A k \in DOMAIN Told(r) \ DOMAIN req[r].seen :
              /\ Told(r)[k] = req[r].row /\ req[r].row # NoRow
              /\ \A l \in DOMAIN Told(r) : l <= k
<1>1. PICK s \in Seq(Row), e \in Row \cup {NoRow} : s = req[r].seen /\ e = req[r].row
  BY DEF Inv, TypeOK, Handler
<1>2. CASE e = NoRow
  BY <1>1, <1>2 DEF Told, Body
<1>3. CASE e # NoRow
  <2>1. e \in Row /\ Told(r) = Append(s, e)
    BY <1>1, <1>3 DEF Told
  <2>2. /\ Len(s) \in Nat /\ DOMAIN s = 1..Len(s) /\ DOMAIN Append(s, e) = 1..(Len(s) + 1)
        /\ \A k \in 1..Len(s) : Append(s, e)[k] = s[k]
        /\ Append(s, e)[Len(s) + 1] = e
    BY <1>1, <2>1
  <2> QED BY <1>1, <1>3, <2>1, <2>2 DEF Body, Told
<1> QED BY <1>2, <1>3

\* From, field by field.
Added(events) == {k \in DOMAIN events : events[k].type = "MessageAdded"}

LEMMA FromMessages ==
  ASSUME NEW s
  PROVE  From(s).messages = [k \in Added(s) |-> s[k].req]
<1> DEFINE posted == [k \in Added(s) |-> s[k].req]
<1>1. posted = [k \in {k \in DOMAIN s : s[k].type = "MessageAdded"} |-> s[k].req]
  BY DEF Added
<1> HIDE DEF posted
<1>2. From(s) = [status |-> From(s).status, messages |-> posted]
  BY <1>1 DEF From
<1> QED BY <1>2 DEF posted

LEMMA InvReflects == Inv => Reflects
<1> SUFFICES ASSUME Inv, NEW r \in Requests
             PROVE  /\ req[r].phase = "notFound" => req[r].due = {}
                    /\ Answered(r) => \A q \in req[r].due :
                         /\ req[q].op = "message" => q \in Range(Body(r).messages)
                         /\ req[q].op = "submit" => Body(r).status = "Submitted"
  BY DEF Reflects
<1>1. ASSUME req[r].phase = "notFound" PROVE req[r].due = {}
  <2>1. req[r].seen = << >> /\ Loaded(r)
    BY <1>1 DEF Inv, Owned, Phased, Loaded
  <2>2. Range(req[r].seen) = {}
    BY <2>1 DEF Range
  <2> QED BY <2>1, <2>2 DEF Inv, Due
<1>2. ASSUME Answered(r), NEW q \in req[r].due
      PROVE  /\ req[q].op = "message" => q \in Range(Body(r).messages)
             /\ req[q].op = "submit" => Body(r).status = "Submitted"
  <2>0. q \in Requests
    BY DEF Inv, TypeOK, Handler
  <2>1. PICK k \in DOMAIN req[r].seen : req[q].row = req[r].seen[k]
    BY <1>2 DEF Inv, Due, Loaded, Answered, Range
  <2> DEFINE e == req[r].seen[k]
  <2>2. e \in rows /\ e.req = q /\ e.type = EventType(req[q].op) /\ k \in DOMAIN Told(r) /\ Told(r)[k] = e
    <3>1. req[q].row # NoRow
      BY DEF Inv, Due
    <3>2. Written(q) /\ e \in rows
      BY <2>0 DEF Inv, Owned, Seen
    <3> QED BY <2>1, <3>1, <3>2, ToldEvents DEF Written
  <2>3. ASSUME req[q].op = "message" PROVE q \in Range(Body(r).messages)
    <3>1. Told(r)[k].type = "MessageAdded" /\ Told(r)[k].req = q
      BY <2>2, <2>3 DEF EventType
    <3>2. Body(r).messages = [l \in Added(Told(r)) |-> Told(r)[l].req]
      <4>1. Body(r) = From(Told(r))
        BY ToldEvents
      <4> QED BY <4>1, FromMessages
    <3>3. k \in Added(Told(r))
      BY <2>2, <3>1 DEF Added
    <3> QED BY <3>1, <3>2, <3>3 DEF Range
  <2>4. ASSUME req[q].op = "submit" PROVE Body(r).status = "Submitted"
    <3>1. Told(r)[k].type = "IncidentSubmitted" /\ e.type = "IncidentSubmitted"
      BY <2>2, <2>4 DEF EventType
    <3>2. ASSUME NEW l \in DOMAIN Told(r), l > k, Told(r)[l].type = "IncidentCreated" PROVE FALSE
      <4>1. CASE l \in DOMAIN req[r].seen
        <5> DEFINE f == req[r].seen[l]
        <5>1. f \in rows /\ f.inc = e.inc /\ e \in rows /\ f.type = "IncidentCreated"
          BY <3>2, <4>1, ToldEvents DEF Inv, Seen
        <5>2. f.ts < e.ts
          BY <3>1, <5>1, CreationFirst
        <5>3. k < l
          BY <3>2, <2>2, ToldEvents
        <5>4. e.ts <= f.ts
          BY <4>1, <5>3 DEF Inv, Seen
        <5>5. e.ts \in Nat /\ f.ts \in Nat
          BY <5>1, RowFacts
        <5> QED BY <5>2, <5>4, <5>5
      <4>2. CASE l \notin DOMAIN req[r].seen
        <5>1. req[r].row.type = "IncidentCreated" /\ req[r].row # NoRow
          BY <3>2, <4>2, ToldEvents
        <5>2. req[r].op = "create"
          BY <5>1 DEF Inv, Owned, Written, EventType
        <5> QED BY <5>2 DEF Inv, Created
      <4> QED BY <4>1, <4>2
    <3>3. Body(r) = From(Told(r))
      BY ToldEvents
    <3> QED BY <2>2, <3>1, <3>2, <3>3 DEF From
  <2> QED BY <2>3, <2>4
<1> QED BY <1>1, <1>2

LEMMA InvInOrder == Inv => MessagesInOrder
<1> SUFFICES ASSUME Inv, NEW r \in Requests, Answered(r),
                    NEW a \in DOMAIN Body(r).messages, NEW b \in DOMAIN Body(r).messages, a < b
             PROVE  Body(r).messages[b] \notin req[Body(r).messages[a]].due
  BY DEF MessagesInOrder
<1>1. Body(r).messages = [l \in Added(Told(r)) |-> Told(r)[l].req]
  <2>1. Body(r) = From(Told(r))
    BY ToldEvents
  <2> QED BY <2>1, FromMessages
<1>2. a \in DOMAIN Told(r) /\ b \in DOMAIN Told(r) /\ Body(r).messages[a] = Told(r)[a].req
      /\ Body(r).messages[b] = Told(r)[b].req
  BY <1>1 DEF Added
<1>3. a \in DOMAIN req[r].seen
  <2>1. a \in Int /\ b \in Int
    BY <1>2, ToldEvents
  <2>2. a \notin DOMAIN req[r].seen => b <= a
    BY <1>2, ToldEvents
  <2> QED BY <2>1, <2>2
<1> DEFINE e == req[r].seen[a]
<1>4. e \in rows /\ Told(r)[a] = e /\ r \notin req[e.req].due
  BY <1>3, ToldEvents DEF Inv, Seen
<1>5. CASE b \in DOMAIN req[r].seen
  <2> DEFINE f == req[r].seen[b]
  <2>1. f \in rows /\ Told(r)[b] = f /\ e.ts <= f.ts
    BY <1>3, <1>5, ToldEvents DEF Inv, Seen
  <2>2. ASSUME f.req \in req[e.req].due PROVE FALSE
    <3>1. /\ f = req[f.req].row /\ e = req[e.req].row /\ e.req \in Requests /\ req[e.req].row # NoRow
          /\ e.ts \in Nat /\ f.ts \in Nat
      BY <1>4, <2>1, RowFacts
    <3>2. f.ts < e.ts
      BY <2>2, <3>1 DEF Inv, Due
    <3> QED BY <2>1, <3>1, <3>2
  <2> QED BY <1>2, <1>4, <2>1, <2>2
<1>6. CASE b \notin DOMAIN req[r].seen
  <2>1. Told(r)[b] = req[r].row /\ req[r].row # NoRow
    BY <1>2, <1>6, ToldEvents
  <2>2. req[r].row.req = r
    BY <2>1 DEF Inv, Owned, Written
  <2> QED BY <1>2, <1>4, <2>1, <2>2
<1> QED BY <1>5, <1>6

\* Read your writes: what had been acknowledged when a request was sent is in its
\* answer.
THEOREM ReflectsCorrect == Spec => []Reflects
BY Inductive, InvReflects, PTL

\* An answer lists no message before one that was acknowledged before it was sent.
THEOREM OrderCorrect == Spec => []MessagesInOrder
BY Inductive, InvInOrder, PTL

----------------------------------------------------------------------------
\* A submission among the loaded rows is read after the creation, and refuses another.
LEMMA LoadedSubmission ==
  ASSUME Inv, NEW r \in Requests, NEW k \in DOMAIN req[r].seen, req[r].seen[k].type = "IncidentSubmitted"
  PROVE  From(req[r].seen).status = "Submitted"
<1>1. ASSUME NEW l \in DOMAIN req[r].seen, l > k, req[r].seen[l].type = "IncidentCreated" PROVE FALSE
  <2> DEFINE e == req[r].seen[k]
             f == req[r].seen[l]
  <2>1. e \in rows /\ f \in rows /\ e.inc = f.inc
    BY DEF Inv, Seen
  <2>2. f.ts < e.ts
    BY <1>1, <2>1, CreationFirst
  <2>3. k < l
    BY <1>1, ToldEvents
  <2>4. e.ts <= f.ts
    BY <2>3 DEF Inv, Seen
  <2>5. e.ts \in Nat /\ f.ts \in Nat
    BY <2>1, RowFacts
  <2> QED BY <2>2, <2>4, <2>5
<1> QED BY <1>1 DEF From

\* A handler that decides to submit knows of no submission.
LEMMA DecidesFirst ==
  ASSUME Inv, NEW r \in Requests, Decide(r), req[r].op = "submit", NEW q \in req[r].due
  PROVE  req[q].op # "submit"
<1> SUFFICES ASSUME req[q].op = "submit" PROVE FALSE
  OBVIOUS
<1>1. q \in Requests /\ Loaded(r) /\ From(req[r].seen).status = "Draft"
  BY DEF Inv, TypeOK, Handler, Decide, Loaded, Refused
<1>2. req[q].row # NoRow /\ req[q].row \in Range(req[r].seen) /\ Written(q)
  BY <1>1 DEF Inv, Due, Owned
<1>3. PICK k \in DOMAIN req[r].seen : req[r].seen[k] = req[q].row
  BY <1>2 DEF Range
<1>4. req[r].seen[k].type = "IncidentSubmitted"
  BY <1>2, <1>3 DEF Written, EventType
<1> QED BY <1>1, <1>4, LoadedSubmission

\* Whom a request has to count with is settled when it is sent.
LEMMA TwiceKept == Inv /\ TwiceOnlyByRace /\ [Next]_vars => TwiceOnlyByRace'
<1> DEFINE First(r) == req[r].op = "submit" /\ req[r].row # NoRow => \A q \in req[r].due : req[q].op # "submit"
<1> SUFFICES ASSUME Inv, \A r \in Requests : First(r), [Next]_vars, NEW r \in Requests PROVE First(r)'
  BY DEF TwiceOnlyByRace
<1>0. TypeOK
  BY DEF Inv
<1>1. CASE UNCHANGED vars
  BY <1>1 DEF vars
<1>2. ASSUME NEW x \in Requests, req[x].phase = "unsent", \A q \in Requests \ {x} : req'[q] = req[q],
             req'[x].op # "submit" \/ req'[x].row = NoRow
      PROVE  First(r)'
  <2>1. x \notin req[r].due /\ req[r].due \subseteq Requests
    BY <1>0, <1>2, StartsFresh DEF TypeOK, Handler
  <2> QED BY <1>2, <2>1
<1>3. ASSUME NEW x \in Requests, NEW i \in Ids, Create(x, i) PROVE First(r)'
  <2>1. Starts(x, "appending", "create", i, {}, NewRow(x, "create", i))
    BY <1>0, <1>3, CreateStep
  <2> QED BY <1>2, <2>1 DEF Starts
<1>4. ASSUME NEW x \in Requests, NEW i \in Ids, NEW op \in {"get", "message", "submit"}, Send(x, op, i)
      PROVE  First(r)'
  <2>1. Starts(x, "loading", op, i, Acknowledged(i), NoRow)
    BY <1>0, <1>4, SendStep
  <2> QED BY <1>2, <2>1 DEF Starts
<1>5. ASSUME NEW x \in Requests, Onward(x) PROVE First(r)'
  <2>1. /\ \A q \in Requests : req'[q].op = req[q].op /\ req'[q].due = req[q].due
        /\ r # x => req'[r] = req[r]
    BY <1>5, GoesOn
  <2>2. req'[r].row = req[r].row \/ Decide(r)
    <3>1. CASE Load(x)
      <4>1. \E s : Becomes(x, "loaded", s, req[x].row)
        BY <1>0, <3>1, LoadStep DEF Inv
      <4> QED BY <2>1, <4>1 DEF Becomes
    <3>2. CASE ~Load(x)
      BY <1>5, <2>1, <3>2, GoesOn
    <3> QED BY <3>1, <3>2
  <2>3. req[r].due \subseteq Requests
    BY <1>0 DEF TypeOK, Handler
  <2>4. CASE Decide(r)
    BY <2>1, <2>3, <2>4, DecidesFirst
  <2>5. CASE req'[r].row = req[r].row
    BY <2>1, <2>3, <2>5
  <2> QED BY <2>2, <2>4, <2>5
<1> QED BY <1>1, <1>3, <1>4, <1>5 DEF Next, Onward

\* Incident.submit lets a second submission pass only if it was sent before the first
\* was acknowledged.
THEOREM TwiceCorrect == Spec => []TwiceOnlyByRace
<1>1. Init => TwiceOnlyByRace
  BY UnsentFields DEF Init, TwiceOnlyByRace
<1> QED BY <1>1, Inductive, TwiceKept, PTL DEF Spec

----------------------------------------------------------------------------
Posted(i) == {e.req : e \in {e \in RowsOf(i) : e.type = "MessageAdded"}}

\* No stamp lets a creation be read after a submission: one submission row is enough.
SubmissionDecides ==
  \A i \in Ids :
    Stored(i) = IF RowsOf(i) = {} THEN "none"
                ELSE IF \E e \in RowsOf(i) : e.type = "IncidentSubmitted" THEN "Submitted" ELSE "Draft"

LEMMA StoredStatus == Inv => SubmissionDecides
<1> SUFFICES ASSUME Inv, NEW i \in Ids
             PROVE  \A e \in RowsOf(i) : e.type = "IncidentSubmitted" =>
                      ~ \E f \in RowsOf(i) : f.type = "IncidentCreated" /\ e.ts <= f.ts
  BY DEF SubmissionDecides, Stored
<1>1. ASSUME NEW e \in RowsOf(i), e.type = "IncidentSubmitted",
             NEW f \in RowsOf(i), f.type = "IncidentCreated", e.ts <= f.ts
      PROVE  FALSE
  <2>1. e \in rows /\ f \in rows /\ e.inc = f.inc
    BY DEF RowsOf
  <2>2. f.ts < e.ts
    BY <1>1, <2>1, CreationFirst
  <2>3. e.ts \in Nat /\ f.ts \in Nat
    BY <2>1, RowFacts
  <2> QED BY <1>1, <2>2, <2>3
<1> QED BY <1>1

\* In whatever order the database returns equal stamps, a load rebuilds the status
\* the rows amount to.
LEMMA InvLoads ==
  Inv => \A i \in Ids : RowsOf(i) # {} => \A s \in LoadResults(i) : From(s).status = Stored(i)
<1> SUFFICES ASSUME Inv, NEW i \in Ids, RowsOf(i) # {}, NEW s \in LoadResults(i)
             PROVE  From(s).status = Stored(i)
  OBVIOUS
<1>1. /\ Range(s) = RowsOf(i) /\ s \in Seq(Row)
      /\ \A j, k \in DOMAIN s : j < k => s[j].ts <= s[k].ts
  BY LoadedRows DEF Inv
<1>2. \A k \in DOMAIN s : s[k] \in RowsOf(i) /\ s[k] \in rows /\ s[k].inc = i
  BY <1>1 DEF Range, RowsOf
<1>3. ASSUME NEW k \in DOMAIN s, s[k].type = "IncidentSubmitted",
             NEW l \in DOMAIN s, l > k, s[l].type = "IncidentCreated"
      PROVE  FALSE
  <2>1. s[l].ts < s[k].ts
    BY <1>2, <1>3, CreationFirst
  <2>2. s[k].ts \in Nat /\ s[l].ts \in Nat
    BY <1>2, RowFacts
  <2>3. k \in Int /\ l \in Int /\ k < l
    BY <1>1, <1>3
  <2> QED BY <1>1, <2>1, <2>2, <2>3
<1>4. (\E k \in DOMAIN s : s[k].type = "IncidentSubmitted")
        <=> \E e \in RowsOf(i) : e.type = "IncidentSubmitted"
  BY <1>1 DEF Range
<1>5. Stored(i) = IF \E k \in DOMAIN s : s[k].type = "IncidentSubmitted" THEN "Submitted" ELSE "Draft"
  BY <1>4, StoredStatus DEF SubmissionDecides
<1> QED BY <1>3, <1>5 DEF From

THEOREM LoadsAgree ==
  Spec => [](\A i \in Ids : RowsOf(i) # {} => \A s \in LoadResults(i) : From(s).status = Stored(i))
BY Inductive, InvLoads, PTL

\* The statuses and messages of all incidents, as LifecycleImplemented maps them.
StatusMap == [i \in Ids |-> Stored(i)]
PostedMap == [i \in Ids |-> Posted(i)]

LEMMA StoredStatusNext == Inv' => SubmissionDecides'
BY StoredStatus, PTL

\* A step that inserts no row changes nothing of them.
LEMMA RowsDecide == rows' = rows => StatusMap' = StatusMap /\ PostedMap' = PostedMap
<1> SUFFICES ASSUME rows' = rows PROVE StatusMap' = StatusMap /\ PostedMap' = PostedMap
  OBVIOUS
<1>1. \A i : RowsOf(i)' = RowsOf(i)
  BY DEF RowsOf
<1>2. \A i : Stored(i)' = Stored(i) /\ Posted(i)' = Posted(i)
  BY <1>1, Zenon DEF Stored, Posted
<1> QED BY <1>2 DEF StatusMap, PostedMap

LEMMA OnlyInsert ==
  ASSUME Inv, [Next]_vars
  PROVE  rows' = rows \/ \E r \in Requests : Insert(r)
BY DEF Next, vars, Create, Send, Load, NotFound, Refuse, Show, Decide, Acknowledge, Fail

\* An insert adds one row, to its own incident only.
LEMMA OneRow ==
  ASSUME Inv, NEW r \in Requests, Insert(r), NEW e, e = req[r].row
  PROVE  /\ e \in Row /\ e.inc \in Ids /\ e.req = r /\ e \notin rows
         /\ e.type = EventType(req[r].op) /\ req[r].op \in {"create", "message", "submit"}
         /\ e.inc = req[r].inc
         /\ \A i \in Ids : RowsOf(i)' = IF i = e.inc THEN RowsOf(i) \cup {e} ELSE RowsOf(i)
<1>1. e # NoRow /\ e \notin rows /\ rows' = rows \cup {e}
  BY DEF Insert
<1>2. e \in Row
  BY <1>1 DEF Inv, TypeOK, Handler
<1>3. Written(r) /\ e.inc \in Ids
  BY <1>2 DEF Inv, Owned, Row
<1> QED BY <1>1, <1>2, <1>3 DEF Written, RowsOf

\* A creation is the first row of its incident.
LEMMA CreateFirst ==
  ASSUME Inv, NEW r \in Requests, Insert(r), req[r].op = "create"
  PROVE  RowsOf(req[r].inc) = {}
<1> SUFFICES ASSUME NEW f \in RowsOf(req[r].inc) PROVE FALSE
  OBVIOUS
<1>1. f \in rows /\ f.inc = req[r].inc
  BY DEF RowsOf
<1>2. f.req \in Requests /\ f = req[f.req].row /\ req[f.req].inc = req[r].inc
  BY <1>1, RowFacts
<1>3. f.req # r
  BY <1>1, <1>2 DEF Insert
<1>4. r \in req[f.req].due
  BY <1>2, <1>3 DEF Inv, Created
<1>5. \A q \in Requests : r \notin req[q].due
  BY Owes DEF Insert
<1> QED BY <1>2, <1>4, <1>5

\* Whatever follows had found rows to load.
LEMMA LaterNotFirst ==
  ASSUME Inv, NEW r \in Requests, Insert(r), req[r].op # "create"
  PROVE  RowsOf(req[r].inc) # {}
<1>1. req[r].seen # << >> /\ req[r].seen \in Seq(Row)
  BY DEF Inv, Seen, Insert, TypeOK, Handler
<1>2. 1 \in DOMAIN req[r].seen
  BY <1>1
<1> QED BY <1>2 DEF Inv, Seen, RowsOf

\* Every step is a step of IncidentLifecycle, or changes nothing of it.
LEMMA StepImplements ==
  ASSUME Inv, Inv', [Next]_vars
  PROVE  [Lifecycle!LifecycleNext]_<<StatusMap, PostedMap>>
<1>1. CASE rows' = rows
  BY <1>1, RowsDecide
<1>2. ASSUME NEW r \in Requests, Insert(r) PROVE [Lifecycle!LifecycleNext]_<<StatusMap, PostedMap>>
  <2>0. PICK i \in Ids, e \in Row : i = req[r].inc /\ e = req[r].row
    BY <1>2, OneRow
  <2>1. /\ e.req = r /\ e \notin rows /\ e.type = EventType(req[r].op)
        /\ req[r].op \in {"create", "message", "submit"}
        /\ \A j \in Ids : RowsOf(j)' = IF j = i THEN RowsOf(j) \cup {e} ELSE RowsOf(j)
    BY <1>2, <2>0, OneRow
  <2>2. \A j \in Ids :
          /\ Stored(j) = IF RowsOf(j) = {} THEN "none"
               ELSE IF \E x \in RowsOf(j) : x.type = "IncidentSubmitted" THEN "Submitted" ELSE "Draft"
          /\ Stored(j)' = IF RowsOf(j)' = {} THEN "none"
               ELSE IF \E x \in RowsOf(j)' : x.type = "IncidentSubmitted" THEN "Submitted" ELSE "Draft"
    BY StoredStatus, StoredStatusNext DEF SubmissionDecides
  <2>3. \A j \in Ids \ {i} : Stored(j)' = Stored(j) /\ Posted(j)' = Posted(j)
    BY <2>1, <2>2 DEF Posted
  <2>4. Posted(i)' = IF e.type = "MessageAdded" THEN Posted(i) \cup {r} ELSE Posted(i)
    BY <2>1 DEF Posted
  <2>5. CASE req[r].op = "create"
    <3>1. Stored(i) = "none" /\ Stored(i)' = "Draft" /\ Posted(i)' = Posted(i)
      BY <1>2, <2>0, <2>1, <2>2, <2>4, <2>5, CreateFirst DEF EventType
    <3>2. StatusMap' = [StatusMap EXCEPT ![i] = "Draft"] /\ PostedMap' = PostedMap
      BY <2>1, <2>3, <3>1 DEF StatusMap, PostedMap
    <3>3. StatusMap[i] = "none"
      BY <2>1, <3>1 DEF StatusMap
    <3> QED BY <2>1, <3>2, <3>3 DEF Lifecycle!LifecycleNext, Lifecycle!Create, StatusMap, PostedMap, Posted
  <2>6. CASE req[r].op = "message"
    <3>1. RowsOf(i) # {} /\ e.type = "MessageAdded"
      BY <1>2, <2>0, <2>1, <2>6, LaterNotFirst DEF EventType
    <3>2. Stored(i) # "none" /\ Stored(i)' = Stored(i) /\ Posted(i)' = Posted(i) \cup {r}
      BY <2>1, <2>2, <2>4, <3>1
    <3>3. r \notin Posted(i)
      BY <2>0, <2>1, RowFacts DEF Posted, RowsOf
    <3>4. StatusMap' = StatusMap /\ PostedMap' = [PostedMap EXCEPT ![i] = @ \cup {r}]
      BY <2>1, <2>3, <3>2 DEF StatusMap, PostedMap
    <3>5. StatusMap[i] # "none" /\ r \notin PostedMap[i]
      BY <2>1, <3>2, <3>3 DEF StatusMap, PostedMap
    <3> QED BY <2>1, <3>4, <3>5 DEF Lifecycle!LifecycleNext, Lifecycle!Post, StatusMap, PostedMap, Posted
  <2>7. CASE req[r].op = "submit"
    <3>1. RowsOf(i) # {} /\ e.type = "IncidentSubmitted"
      BY <1>2, <2>0, <2>1, <2>7, LaterNotFirst DEF EventType
    <3>2. /\ Stored(i) \in {"Draft", "Submitted"} /\ Stored(i)' = "Submitted"
          /\ Posted(i)' = Posted(i)
      BY <2>1, <2>2, <2>4, <3>1
    <3>3. StatusMap' = [StatusMap EXCEPT ![i] = "Submitted"] /\ PostedMap' = PostedMap
      BY <2>1, <2>3, <3>2 DEF StatusMap, PostedMap
    <3>4. CASE Stored(i) = "Submitted"
      <4>1. StatusMap' = StatusMap
        BY <2>1, <2>3, <3>2, <3>4 DEF StatusMap
      <4> QED BY <3>3, <4>1
    <3>5. CASE Stored(i) = "Draft"
      <4>1. StatusMap[i] = "Draft"
        BY <2>1, <3>5 DEF StatusMap
      <4> QED BY <2>1, <3>3, <4>1
              DEF Lifecycle!LifecycleNext, Lifecycle!Submit, StatusMap, PostedMap, Posted
    <3> QED BY <3>2, <3>4, <3>5
  <2> QED BY <2>1, <2>5, <2>6, <2>7
<1> QED BY <1>1, <1>2, OnlyInsert

\* The table of events implements the life of an incident, whatever the requests'
\* interleaving: created once, posted to and submitted afterwards, for good.
THEOREM LifecycleRefined == Spec => LifecycleImplemented
<1>1. Init => Lifecycle!LifecycleInit
  <2> SUFFICES ASSUME Init PROVE Lifecycle!LifecycleInit
    OBVIOUS
  <2>1. \A i \in Ids : RowsOf(i) = {}
    BY DEF Init, RowsOf
  <2> QED BY <2>1 DEF Lifecycle!LifecycleInit, Stored
<1>2. ASSUME Inv, Inv', [Next]_vars
      PROVE  [Lifecycle!LifecycleNext]_(Lifecycle!lifecycleVars)
  BY <1>2, StepImplements DEF StatusMap, PostedMap, Posted, Lifecycle!lifecycleVars
<1> QED BY <1>1, <1>2, Inductive, PTL DEF Spec, LifecycleImplemented, Lifecycle!LifecycleSpec

=============================================================================
