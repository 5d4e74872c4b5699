------------------------- MODULE IncidentPageProofs -------------------------
(***************************************************************************)
(* Theorems of IncidentPage, as a part of Restarts: for any number of      *)
(* requests, the page follows the answers that came in order.              *)
(***************************************************************************)
EXTENDS Restarts, TLAPS

Kinds == {"none", "get", "chat", "task", "patch", "other"}
Ids == PageRequests \cup {"none"}
Changed == PageStatuses \cup {"open"}
RowSet == [id : Ids, status : Changed \cup {"none"}]
Trip == [kind : Kinds, at : {"none", "asked", "served", "arrived"}, id : Ids, status : Changed,
         answer : SUBSET RowSet, serial : Nat, came : Nat]

Answered(r) == trip[r].at \in {"served", "arrived"}
Inserted(id) == id \in PageRequests /\ Answered(id) /\ trip[id].id = id /\ trip[id].answer # {Junk}

\* Types, what the kinds mean, and the two counts that no answer is ahead of.
Types ==
  /\ rows \subseteq RowSet /\ served \in Nat /\ came \in Nat
  /\ trip \in [Fetches -> Trip]
  /\ trip["list"].kind = "get" /\ trip["list"].id = "none" /\ trip["list"].at # "none"
  /\ \A r \in PageRequests :
       /\ trip[r].kind # "get"
       /\ trip[r].kind \in {"chat", "task"} => trip[r].id = r
       /\ trip[r].kind = "patch" => trip[r].id # r
       /\ \A id \in PageRequests \ {r} : trip[r].id = id => Inserted(id)
  /\ \A r \in Fetches : Answered(r) => trip[r].serial <= served
  /\ \A r \in Fetches : trip[r].at = "arrived" => trip[r].came <= came

Single(set) == \A x, y \in set : x.id = y.id => x = y

\* The table has one row for each INSERT.
Table ==
  /\ Single(rows)
  /\ \A row \in rows : Inserted(row.id)
  /\ \A id \in PageRequests : Inserted(id) => \E row \in rows : row.id = id

\* An answer shows what was inserted when it was served, nothing else; a list all of it.
Sound(r) ==
  Answered(r) /\ trip[r].answer # {Junk} =>
    /\ Single(trip[r].answer)
    /\ \A row \in trip[r].answer : Inserted(row.id) /\ trip[row.id].serial <= trip[r].serial
    /\ r \in PageRequests => trip[r].answer = {Row(trip[r].id, trip[r].status)}
    /\ r = "list" => \A id \in PageRequests : Inserted(id) /\ trip[id].serial <= trip[r].serial
                       => \E row \in trip[r].answer : row.id = id

Answers == \A r \in Fetches : Sound(r)

\* What is in a list of items was in an answer that came.
FromAnswers(items) ==
  \A x \in items :
    /\ x.id \in Ids
    /\ x.id \in PageRequests => \E b \in About(x.id) : \E row \in trip[b].answer : row.id = x.id

Latest(a, id) == a \in About(id) /\ \A b \in About(id) : trip[b].came <= trip[a].came

Once(items, id) == \A x, y \in items : x.id = id /\ y.id = id => x = y

Shows(items, a, id) ==
  /\ \A x \in items : x.id = id => Row(id, x.status) \in trip[a].answer
  /\ \A row \in trip[a].answer : row.id = id => \E x \in items : x.id = id

\* A row that a change was asked for is still there when its answer comes.
Changeable(items, id) ==
  (\E r \in PageRequests : trip[r].kind = "patch" /\ trip[r].id = id) => \E x \in items : x.id = id

Follows(id) ==
  Plain(id) => /\ Once(shown, id) /\ Changeable(shown, id)
               /\ \A a \in Fetches : Latest(a, id) => Shows(shown, a, id)

\* The induction: PageFollows is about the last answers only, and what they say of the
\* rows has to be known of all answers and of the table.
PageInv == Types /\ Table /\ Answers /\ FromAnswers(shown) /\ \A id \in PageRequests : Follows(id)

LEMMA PageInitInv == PageInit => PageInv
<1> SUFFICES ASSUME PageInit PROVE PageInv
  OBVIOUS
<1>1. trip \in [Fetches -> Trip]
  BY DEF PageInit, Trip, Unasked, Kinds, Ids, Changed, Fetches
<1>2. \A r \in PageRequests : r # "list" /\ trip[r] = Unasked
  BY PageAssumption DEF PageInit, Fetches
<1>3. \A r \in PageRequests : trip[r].at = "none" /\ trip[r].kind = "none" /\ trip[r].id = "none"
  BY <1>2 DEF Unasked
<1>4. trip["list"].at = "asked" /\ trip["list"].kind = "get" /\ trip["list"].id = "none"
  BY DEF PageInit, Unasked, Fetches
<1>5. \A r \in Fetches : ~Answered(r) /\ trip[r].at # "arrived"
  BY <1>3, <1>4 DEF Answered, Fetches
<1>6. Types
  BY <1>1, <1>3, <1>4, <1>5, PageAssumption DEF Types, PageInit
<1>7. rows = {} /\ shown = {} /\ \A id \in PageRequests : ~Inserted(id)
  BY <1>5 DEF PageInit, Inserted, Fetches
<1>8. Table /\ Answers /\ FromAnswers(shown)
  BY <1>5, <1>7 DEF Table, Answers, Sound, FromAnswers, Single
<1>9. \A id \in PageRequests : Follows(id)
  BY <1>3, <1>5, <1>7 DEF Follows, About, Latest, Once, Changeable
<1> QED BY <1>6, <1>8, <1>9 DEF PageInv

-----------------------------------------------------------------------------
\* Asking and serving change no answer that came.
LEMMA NothingCame ==
  ASSUME PageInv, NEW r \in Fetches, UNCHANGED shown,
         trip[r].at # "arrived", trip'[r].at # "arrived",
         \A q \in Fetches \ {r} : trip'[q] = trip[q],
         \A id \in PageRequests : trip'[r].kind = "patch" /\ trip'[r].id = id =>
           (trip[r].kind = "patch" /\ trip[r].id = id) \/ \E x \in shown : x.id = id
  PROVE  FromAnswers(shown)' /\ \A id \in PageRequests : Follows(id)'
<1>1. \A id \in PageRequests : /\ About(id)' = About(id)
                               /\ \A a \in About(id) : a \in Fetches /\ trip'[a] = trip[a]
  BY DEF About, Fetches
<1>2. FromAnswers(shown)'
  BY <1>1 DEF PageInv, FromAnswers
<1> SUFFICES ASSUME NEW id \in PageRequests, Plain(id)' PROVE Follows(id)'
  BY <1>2 DEF Follows
<1>3. Plain(id)
  BY <1>1 DEF Plain
<1>4. Once(shown, id) /\ Changeable(shown, id) /\ \A a \in Fetches : Latest(a, id) => Shows(shown, a, id)
  BY <1>3 DEF PageInv, Follows
<1>5. Once(shown, id)'
  BY <1>4 DEF Once
<1>6. Changeable(shown, id)'
  BY <1>4 DEF Changeable, Fetches
<1>7. \A a \in Fetches : Latest(a, id)' => Shows(shown, a, id)'
  BY <1>1, <1>4 DEF Latest, Shows
<1> QED BY <1>5, <1>6, <1>7 DEF Follows

LEMMA AskFacts ==
  ASSUME trip \in [Fetches -> Trip], NEW r \in Fetches, NEW kind \in Kinds, NEW id \in Ids,
         NEW status \in Changed, Ask(r, kind, id, status)
  PROVE  /\ trip' \in [Fetches -> Trip]
         /\ \A q \in Fetches \ {r} : trip'[q] = trip[q]
         /\ trip'[r].kind = kind /\ trip'[r].at = "asked" /\ trip'[r].id = id
         /\ trip[r].at = "none"
         /\ UNCHANGED <<rows, served, came, shown>>
<1>1. trip[r] \in Trip
  OBVIOUS
<1>2. [trip[r] EXCEPT !.kind = kind, !.at = "asked", !.id = id, !.status = status] \in Trip
  BY <1>1 DEF Trip
<1>3. trip' = [trip EXCEPT ![r] = [trip[r] EXCEPT !.kind = kind, !.at = "asked", !.id = id, !.status = status]]
  BY DEF Ask
<1>4. trip'[r] = [trip[r] EXCEPT !.kind = kind, !.at = "asked", !.id = id, !.status = status]
  BY <1>3
<1>5. trip'[r].kind = kind /\ trip'[r].at = "asked" /\ trip'[r].id = id
  BY <1>1, <1>4 DEF Trip
<1> QED BY <1>2, <1>3, <1>5 DEF Ask

LEMMA AskKeeps ==
  ASSUME PageInv, NEW r \in Fetches, NEW kind \in Kinds \ {"get"}, NEW id \in Ids,
         NEW status \in Changed, Ask(r, kind, id, status),
         kind \in {"chat", "task"} => id = r,
         id \in PageRequests \ {r} => Inserted(id),
         kind = "patch" => id # r /\ \E x \in shown : x.id = id
  PROVE  PageInv'
<1>1. /\ trip' \in [Fetches -> Trip]
      /\ \A q \in Fetches \ {r} : trip'[q] = trip[q]
      /\ trip'[r].kind = kind /\ trip'[r].at = "asked" /\ trip'[r].id = id
      /\ trip[r].at = "none"
      /\ UNCHANGED <<rows, served, came, shown>>
  BY AskFacts DEF PageInv, Types
<1>2. \A q \in Fetches : /\ Answered(q)' <=> Answered(q)
                         /\ Answered(q) => q # r /\ trip'[q] = trip[q]
  BY <1>1 DEF Answered
<1>3. r # "list" /\ "list" \in Fetches /\ PageRequests \subseteq Fetches
  BY <1>1 DEF PageInv, Types, Fetches
<1>4. \A q \in Ids : Inserted(q)' <=> Inserted(q)
  BY <1>2, <1>3 DEF Inserted
<1>5. Types'
  BY <1>1, <1>2, <1>3, <1>4 DEF PageInv, Types, Ids
<1>6. Table'
  BY <1>1, <1>4 DEF PageInv, Types, Table, Single, RowSet, Ids, Inserted
<1>7. Answers'
  BY <1>2, <1>3, <1>4 DEF PageInv, Answers, Sound, Inserted, Ids, Junk
<1>8. FromAnswers(shown)' /\ \A q \in PageRequests : Follows(q)'
  BY <1>1, NothingCame
<1> QED BY <1>5, <1>6, <1>7, <1>8 DEF PageInv

-----------------------------------------------------------------------------
LEMMA ServeFacts ==
  ASSUME Types, NEW r \in Fetches, NEW newRows, NEW answer \in SUBSET RowSet, Serve(r, newRows, answer)
  PROVE  /\ trip' \in [Fetches -> Trip]
         /\ \A q \in Fetches \ {r} : trip'[q] = trip[q]
         /\ trip'[r].kind = trip[r].kind /\ trip'[r].id = trip[r].id /\ trip'[r].status = trip[r].status
         /\ trip[r].at = "asked" /\ trip'[r].at = "served"
         /\ trip'[r].answer = answer /\ trip'[r].serial = served + 1
         /\ rows' = newRows /\ served' = served + 1 /\ UNCHANGED <<came, shown>>
<1>1. trip[r] \in Trip /\ served + 1 \in Nat
  BY DEF Types
<1>2. [trip[r] EXCEPT !.at = "served", !.serial = served + 1, !.answer = answer] \in Trip
  BY <1>1 DEF Trip
<1>3. trip' = [trip EXCEPT ![r] = [trip[r] EXCEPT !.at = "served", !.serial = served + 1, !.answer = answer]]
  BY DEF Serve
<1>4. trip'[r] = [trip[r] EXCEPT !.at = "served", !.serial = served + 1, !.answer = answer]
  BY <1>3 DEF Types
<1>5. /\ trip'[r].kind = trip[r].kind /\ trip'[r].id = trip[r].id /\ trip'[r].status = trip[r].status
      /\ trip'[r].at = "served" /\ trip'[r].answer = answer /\ trip'[r].serial = served + 1
  BY <1>1, <1>4 DEF Trip
<1> QED BY <1>2, <1>3, <1>5 DEF Serve, Types

\* Being served changes no other answer, and inserts at most the row of this request.
LEMMA ServeKeeps ==
  ASSUME PageInv, NEW r \in Fetches, NEW newRows \in SUBSET RowSet, NEW answer \in SUBSET RowSet,
         Serve(r, newRows, answer)
  PROVE  /\ Types' /\ FromAnswers(shown)' /\ \A id \in PageRequests : Follows(id)'
         /\ \A q \in Fetches \ {r} : Sound(q)'
         /\ \A q \in Ids \ {r} : Inserted(q)' <=> Inserted(q)
         /\ ~Inserted(r)
         /\ Inserted(r)' <=> r \in PageRequests /\ trip[r].id = r /\ answer # {Junk}
         /\ \A q \in Ids : Inserted(q) => q # r /\ trip'[q] = trip[q] /\ trip[q].serial <= served
<1>1. /\ trip' \in [Fetches -> Trip]
      /\ \A q \in Fetches \ {r} : trip'[q] = trip[q]
      /\ trip'[r].kind = trip[r].kind /\ trip'[r].id = trip[r].id
      /\ trip[r].at = "asked" /\ trip'[r].at = "served"
      /\ trip'[r].answer = answer /\ trip'[r].serial = served + 1
      /\ rows' = newRows /\ served' = served + 1 /\ UNCHANGED <<came, shown>>
  BY ServeFacts DEF PageInv
<1>2. PageRequests \subseteq Fetches /\ "list" \in Fetches /\ served \in Nat
  BY DEF Fetches, PageInv, Types
<1>3. \A q \in Fetches \ {r} : Answered(q)' <=> Answered(q)
  BY <1>1 DEF Answered
<1>4. ~Answered(r) /\ Answered(r)'
  BY <1>1 DEF Answered
<1>5. \A q \in Ids \ {r} : Inserted(q)' <=> Inserted(q)
  BY <1>1, <1>2, <1>3 DEF Inserted, Junk
<1>6. ~Inserted(r) /\ (Inserted(r)' <=> r \in PageRequests /\ trip[r].id = r /\ answer # {Junk})
  BY <1>1, <1>2, <1>4 DEF Inserted, Junk
<1>7. \A q \in Ids : Inserted(q) => q # r /\ q \in Fetches /\ trip'[q] = trip[q] /\ trip[q].serial <= served
  <2>1. \A q \in Ids : Inserted(q) => q # r /\ q \in Fetches /\ Answered(q)
    BY <1>2, <1>6 DEF Inserted
  <2> QED BY <1>1, <2>1 DEF PageInv, Types
<1>8. Types'
  <2>1. /\ rows' \subseteq RowSet /\ served' \in Nat /\ came' \in Nat
        /\ trip' \in [Fetches -> Trip]
    BY <1>1, <1>2 DEF PageInv, Types
  <2>2. trip'["list"].kind = "get" /\ trip'["list"].id = "none" /\ trip'["list"].at # "none"
    BY <1>1, <1>2 DEF PageInv, Types
  <2>3. \A q \in PageRequests : trip'[q].kind = trip[q].kind /\ trip'[q].id = trip[q].id
    BY <1>1, <1>2
  <2>4. \A q \in PageRequests : Inserted(q) => Inserted(q)'
    BY <1>5, <1>6 DEF Ids
  <2>5. \A q \in PageRequests :
          /\ trip'[q].kind # "get"
          /\ trip'[q].kind \in {"chat", "task"} => trip'[q].id = q
          /\ trip'[q].kind = "patch" => trip'[q].id # q
          /\ \A id \in PageRequests \ {q} : trip'[q].id = id => Inserted(id)'
    BY <2>3, <2>4 DEF PageInv, Types
  <2>6. \A q \in Fetches : Answered(q)' => trip'[q].serial <= served'
    <3> SUFFICES ASSUME NEW q \in Fetches, Answered(q)' PROVE trip'[q].serial <= served'
      OBVIOUS
    <3>1. CASE q = r
      BY <3>1, <1>1, <1>2
    <3>2. CASE q # r
      <4>1. trip[q].serial <= served /\ trip[q].serial \in Nat
        BY <3>2, <1>3 DEF PageInv, Types, Trip
      <4> QED BY <4>1, <3>2, <1>1, <1>2
    <3> QED BY <3>1, <3>2
  <2>7. \A q \in Fetches : trip'[q].at = "arrived" => trip'[q].came <= came'
    BY <1>1 DEF PageInv, Types
  <2> QED BY <2>1, <2>2, <2>5, <2>6, <2>7 DEF Types
<1>9. FromAnswers(shown)' /\ \A id \in PageRequests : Follows(id)'
  BY <1>1, NothingCame
<1>10. ASSUME NEW q \in Fetches \ {r} PROVE Sound(q)'
  <2> SUFFICES ASSUME Answered(q)', trip'[q].answer # {Junk} PROVE Sound(q)'
    BY DEF Sound, Junk
  <2>1. Answered(q) /\ trip'[q] = trip[q] /\ trip[q].answer # {Junk}
    BY <1>1, <1>3
  <2>2. trip[q].serial <= served /\ trip[q].serial \in Nat
    BY <2>1 DEF PageInv, Types, Trip
  <2>3. /\ Single(trip[q].answer)
        /\ \A row \in trip[q].answer : Inserted(row.id) /\ trip[row.id].serial <= trip[q].serial
        /\ q \in PageRequests => trip[q].answer = {Row(trip[q].id, trip[q].status)}
        /\ q = "list" => \A id \in PageRequests : Inserted(id) /\ trip[id].serial <= trip[q].serial
                           => \E row \in trip[q].answer : row.id = id
    BY <2>1 DEF PageInv, Answers, Sound
  <2>4. \A row \in trip[q].answer : Inserted(row.id)' /\ trip'[row.id].serial <= trip'[q].serial
    <3> SUFFICES ASSUME NEW row \in trip[q].answer
                 PROVE  Inserted(row.id)' /\ trip'[row.id].serial <= trip'[q].serial
      OBVIOUS
    <3>1. Inserted(row.id) /\ row.id \in Ids /\ trip[row.id].serial <= trip[q].serial
      BY <2>3 DEF Inserted, Ids
    <3>2. row.id # r /\ trip'[row.id] = trip[row.id]
      BY <3>1, <1>7
    <3> QED BY <3>1, <3>2, <2>1, <1>5
  <2>5. ASSUME q = "list", NEW id \in PageRequests, Inserted(id)', trip'[id].serial <= trip'[q].serial
        PROVE  \E row \in trip[q].answer : row.id = id
    <3>1. id # r
      BY <2>1, <2>2, <2>5, <1>1, <1>2
    <3>2. Inserted(id) /\ trip'[id] = trip[id]
      BY <3>1, <2>5, <1>5, <1>7 DEF Ids
    <3> QED BY <3>2, <2>1, <2>3, <2>5
  <2> QED BY <2>1, <2>3, <2>4, <2>5 DEF Sound, Single
<1> QED BY <1>5, <1>6, <1>7, <1>8, <1>9, <1>10

LEMMA ServeListKeeps ==
  ASSUME PageInv, NEW r \in Fetches, ServeList(r) PROVE PageInv'
<1>1. r = "list" /\ r \notin PageRequests /\ Serve(r, rows, rows) /\ rows \in SUBSET RowSet
  BY PageAssumption DEF ServeList, PageInv, Types, Fetches
<1>2. /\ Types' /\ FromAnswers(shown)' /\ \A id \in PageRequests : Follows(id)'
      /\ \A q \in Fetches \ {r} : Sound(q)'
      /\ \A q \in Ids \ {r} : Inserted(q)' <=> Inserted(q)
      /\ \A q \in Ids : Inserted(q) => q # r /\ trip'[q] = trip[q] /\ trip[q].serial <= served
  BY <1>1, ServeKeeps
<1>3. rows' = rows /\ trip'[r].answer = rows /\ trip'[r].serial = served + 1 /\ served \in Nat
  BY <1>1, ServeFacts DEF PageInv, Types
<1>4. \A q \in PageRequests : Inserted(q)' <=> Inserted(q)
  BY <1>1, <1>2 DEF Ids
<1>5. Table'
  BY <1>3, <1>4 DEF PageInv, Table, Single, Inserted
<1>6. \A row \in rows : Inserted(row.id)' /\ trip'[row.id].serial <= served + 1
  <2> SUFFICES ASSUME NEW row \in rows PROVE Inserted(row.id)' /\ trip'[row.id].serial <= served + 1
    OBVIOUS
  <2>1. Inserted(row.id) /\ row.id \in PageRequests /\ row.id \in Ids /\ row.id \in Fetches
    BY DEF PageInv, Table, Inserted, Ids, Fetches
  <2>2. trip[row.id].serial <= served /\ trip[row.id].serial \in Nat /\ trip'[row.id] = trip[row.id]
    BY <2>1, <1>2 DEF PageInv, Types, Trip
  <2> QED BY <2>1, <2>2, <1>3, <1>4
<1>7. Sound(r)'
  BY <1>1, <1>3, <1>5, <1>6 DEF Sound, Table
<1> QED BY <1>2, <1>5, <1>7 DEF PageInv, Answers

LEMMA InsertRowKeeps ==
  ASSUME PageInv, NEW r \in Fetches, InsertRow(r) PROVE PageInv'
<1> DEFINE row == Row(r, trip[r].status)
<1>1. r \in PageRequests /\ r # "none" /\ r # "list" /\ trip[r].id = r
  BY PageAssumption DEF InsertRow, PageInv, Types, Fetches
<1>2. Serve(r, rows \cup {row}, {row})
  BY DEF InsertRow
<1>3. row \in RowSet /\ row.id = r /\ {row} # {Junk} /\ rows \in SUBSET RowSet
  <2>1. trip[r].status \in Changed
    BY DEF PageInv, Types, Trip
  <2>2. row \in RowSet /\ row.id = r /\ Junk.id = "none"
    BY <1>1, <2>1 DEF Row, RowSet, Ids, Junk
  <2>3. rows \in SUBSET RowSet
    BY DEF PageInv, Types
  <2> HIDE DEF row
  <2> QED BY <1>1, <2>2, <2>3
<1>4. /\ Types' /\ FromAnswers(shown)' /\ \A id \in PageRequests : Follows(id)'
      /\ \A q \in Fetches \ {r} : Sound(q)'
      /\ \A q \in Ids \ {r} : Inserted(q)' <=> Inserted(q)
      /\ ~Inserted(r) /\ Inserted(r)'
  <2> HIDE DEF row
  <2> DEFINE newRows == rows \cup {row}
             answer == {row}
  <2>1. newRows \in SUBSET RowSet /\ answer \in SUBSET RowSet /\ answer # {Junk} /\ Serve(r, newRows, answer)
    BY <1>2, <1>3
  <2> HIDE DEF newRows, answer
  <2> QED BY <1>1, <2>1, ServeKeeps
<1>5. /\ rows' = rows \cup {row} /\ trip'[r].answer = {row} /\ trip'[r].serial = served + 1 /\ served \in Nat
      /\ trip'[r].id = r /\ trip'[r].status = trip[r].status
  <2> HIDE DEF row
  <2> QED BY <1>1, <1>2, <1>3, ServeFacts DEF PageInv, Types
<1>6. \A x \in rows : x.id # r /\ Inserted(x.id) /\ Inserted(x.id)' /\ x.id \in PageRequests
  BY <1>4 DEF PageInv, Table, Inserted, Ids
<1>7. Table'
  <2> HIDE DEF row
  <2>1. Single(rows')
    BY <1>3, <1>5, <1>6 DEF PageInv, Table, Single
  <2>2. \A x \in rows' : Inserted(x.id)'
    BY <1>3, <1>4, <1>5, <1>6
  <2>3. \A id \in PageRequests : Inserted(id)' => \E x \in rows' : x.id = id
    BY <1>3, <1>4, <1>5 DEF PageInv, Table, Ids
  <2> QED BY <2>1, <2>2, <2>3 DEF Table, Single
<1>8. Sound(r)'
  BY <1>1, <1>3, <1>4, <1>5 DEF Sound, Single
<1> QED BY <1>4, <1>7, <1>8 DEF PageInv, Answers

LEMMA UpdateRowKeeps ==
  ASSUME PageInv, NEW r \in Fetches, UpdateRow(r) PROVE PageInv'
<1> DEFINE row == Row(trip[r].id, trip[r].status)
           newRows == {x \in rows : x.id # row.id} \cup {row}
<1>1. row.id = trip[r].id /\ trip[r].id \in PageRequests \ {r} /\ trip[r].id # "none"
  BY PageAssumption DEF UpdateRow, Row
<1>2. r \in PageRequests /\ r # "list" /\ Inserted(trip[r].id)
  BY <1>1, PageAssumption DEF PageInv, Types, Fetches
<1>3. Serve(r, newRows, {row})
  BY DEF UpdateRow
<1>4. row \in RowSet /\ {row} # {Junk} /\ newRows \in SUBSET RowSet
  <2>1. trip[r].status \in Changed
    BY DEF PageInv, Types, Trip
  <2>2. row \in RowSet /\ Junk.id = "none"
    BY <1>1, <2>1 DEF Row, RowSet, Ids, Junk
  <2>3. rows \in SUBSET RowSet
    BY DEF PageInv, Types
  <2> HIDE DEF row
  <2> QED BY <1>1, <2>2, <2>3
<1>5. /\ Types' /\ FromAnswers(shown)' /\ \A id \in PageRequests : Follows(id)'
      /\ \A q \in Fetches \ {r} : Sound(q)'
      /\ \A q \in Ids \ {r} : Inserted(q)' <=> Inserted(q)
      /\ ~Inserted(r) /\ ~Inserted(r)'
      /\ \A q \in Ids : Inserted(q) => q # r /\ trip'[q] = trip[q] /\ trip[q].serial <= served
  <2> HIDE DEF row, newRows
  <2> QED BY <1>1, <1>3, <1>4, ServeKeeps
<1>6. /\ rows' = newRows /\ trip'[r].answer = {row} /\ trip'[r].serial = served + 1 /\ served \in Nat
      /\ trip'[r].id = trip[r].id /\ trip'[r].status = trip[r].status
  <2> HIDE DEF row, newRows
  <2> QED BY <1>3, <1>4, ServeFacts DEF PageInv, Types
<1>7. \A q \in PageRequests : Inserted(q)' <=> Inserted(q)
  BY <1>5 DEF Ids
<1>8. Table'
  <2>1. Single(rows')
    BY <1>6 DEF PageInv, Table, Single
  <2>2. \A x \in rows' : Inserted(x.id)'
    BY <1>1, <1>2, <1>6, <1>7 DEF PageInv, Table, Inserted
  <2>3. \A id \in PageRequests : Inserted(id)' => \E x \in rows' : x.id = id
    BY <1>6, <1>7 DEF PageInv, Table
  <2> QED BY <2>1, <2>2, <2>3 DEF Table, Single
<1>9. Sound(r)'
  <2>1. trip'[row.id].serial <= served + 1 /\ Inserted(row.id)'
    <3>1. trip[r].id \in Fetches /\ trip[r].id \in Ids
      BY <1>1 DEF Fetches, Ids
    <3>2. trip[trip[r].id].serial <= served /\ trip[trip[r].id].serial \in Nat
      BY <1>2, <1>5, <3>1 DEF PageInv, Types, Trip
    <3>3. trip'[trip[r].id] = trip[trip[r].id]
      BY <1>2, <1>5, <3>1
    <3> QED BY <1>1, <1>2, <1>6, <1>7, <3>2, <3>3
  <2> QED BY <1>2, <1>6, <2>1 DEF Sound, Single
<1> QED BY <1>5, <1>8, <1>9 DEF PageInv, Answers

LEMMA RefuseFetchKeeps ==
  ASSUME PageInv, NEW r \in Fetches, RefuseFetch(r) PROVE PageInv'
<1>1. Serve(r, rows, {Junk}) /\ Junk \in RowSet /\ rows \in SUBSET RowSet
  BY DEF RefuseFetch, Junk, Row, RowSet, Ids, PageInv, Types
<1>2. /\ Types' /\ FromAnswers(shown)' /\ \A id \in PageRequests : Follows(id)'
      /\ \A q \in Fetches \ {r} : Sound(q)'
      /\ \A q \in Ids \ {r} : Inserted(q)' <=> Inserted(q)
      /\ ~Inserted(r) /\ ~Inserted(r)'
  BY <1>1, ServeKeeps
<1>3. rows' = rows /\ trip'[r].answer = {Junk}
  BY <1>1, ServeFacts DEF PageInv, Types
<1>4. \A q \in PageRequests : Inserted(q)' <=> Inserted(q)
  BY <1>2 DEF Ids
<1>5. Table'
  BY <1>3, <1>4 DEF PageInv, Table, Single, Inserted
<1>6. Sound(r)'
  BY <1>3 DEF Sound, Junk
<1> QED BY <1>2, <1>5, <1>6 DEF PageInv, Answers

-----------------------------------------------------------------------------
LEMMA ApplyFacts ==
  ASSUME Types, NEW r \in Fetches, NEW kind, NEW items, Apply(r, kind, items)
  PROVE  /\ trip' \in [Fetches -> Trip]
         /\ \A q \in Fetches \ {r} : trip'[q] = trip[q]
         /\ trip'[r].kind = trip[r].kind /\ trip'[r].id = trip[r].id /\ trip'[r].status = trip[r].status
         /\ trip'[r].answer = trip[r].answer /\ trip'[r].serial = trip[r].serial
         /\ trip[r].at = "served" /\ trip[r].kind = kind /\ trip'[r].at = "arrived"
         /\ trip'[r].came = came + 1 /\ came' = came + 1
         /\ shown' = items /\ UNCHANGED <<rows, served>>
<1>1. trip[r] \in Trip /\ came + 1 \in Nat
  BY DEF Types
<1>2. [trip[r] EXCEPT !.at = "arrived", !.came = came + 1] \in Trip
  BY <1>1 DEF Trip
<1>3. trip' = [trip EXCEPT ![r] = [trip[r] EXCEPT !.at = "arrived", !.came = came + 1]]
  BY DEF Apply
<1>4. trip'[r] = [trip[r] EXCEPT !.at = "arrived", !.came = came + 1]
  BY <1>3 DEF Types
<1>5. /\ trip'[r].kind = trip[r].kind /\ trip'[r].id = trip[r].id /\ trip'[r].status = trip[r].status
      /\ trip'[r].answer = trip[r].answer /\ trip'[r].serial = trip[r].serial
      /\ trip'[r].at = "arrived" /\ trip'[r].came = came + 1
  BY <1>1, <1>4 DEF Trip
<1> QED BY <1>2, <1>3, <1>5 DEF Apply, Types

\* An answer that comes is the last one: of the rows it says nothing of the items must
\* stay the same; of the others the items must be what it says, when nothing is amiss.
LEMMA ApplyKeeps ==
  ASSUME PageInv, NEW r \in Fetches, NEW kind, NEW items, Apply(r, kind, items),
         \A x \in items : /\ x.id \in Ids
                          /\ \/ x \in shown
                             \/ /\ \E row \in trip[r].answer : row.id = x.id
                                /\ x.id \in PageRequests => kind = "get" \/ trip[r].id = x.id,
         \A id \in PageRequests : kind # "get" /\ trip[r].id # id =>
           {x \in items : x.id = id} = {x \in shown : x.id = id},
         \A id \in PageRequests :
           /\ kind = "get" \/ trip[r].id = id
           /\ Once(shown, id) /\ Changeable(shown, id)
           /\ trip[r].answer # {Junk}
           /\ \A b \in About(id) : trip[b].serial < trip[r].serial
           => Once(items, id) /\ Changeable(items, id) /\ Shows(items, r, id)
  PROVE  PageInv'
<1>1. /\ trip' \in [Fetches -> Trip]
      /\ \A q \in Fetches \ {r} : trip'[q] = trip[q]
      /\ trip'[r].kind = trip[r].kind /\ trip'[r].id = trip[r].id /\ trip'[r].status = trip[r].status
      /\ trip'[r].answer = trip[r].answer /\ trip'[r].serial = trip[r].serial
      /\ trip[r].at = "served" /\ trip[r].kind = kind /\ trip'[r].at = "arrived"
      /\ trip'[r].came = came + 1 /\ came' = came + 1
      /\ shown' = items /\ UNCHANGED <<rows, served>>
  BY ApplyFacts DEF PageInv
<1>2. \A q \in Fetches : /\ trip'[q].kind = trip[q].kind /\ trip'[q].id = trip[q].id
                         /\ trip'[q].status = trip[q].status
                         /\ trip'[q].answer = trip[q].answer /\ trip'[q].serial = trip[q].serial
                         /\ Answered(q)' <=> Answered(q)
  BY <1>1 DEF Answered
<1>3. PageRequests \subseteq Fetches /\ "list" \in Fetches /\ came \in Nat
  BY DEF Fetches, PageInv, Types
<1>4. \A q \in Ids : Inserted(q)' <=> Inserted(q)
  BY <1>2, <1>3 DEF Inserted, Junk
<1>5. Types'
  <2>1. /\ rows' \subseteq RowSet /\ served' \in Nat /\ came' \in Nat
        /\ trip' \in [Fetches -> Trip]
        /\ trip'["list"].kind = "get" /\ trip'["list"].id = "none" /\ trip'["list"].at # "none"
    BY <1>1, <1>2, <1>3 DEF PageInv, Types
  <2>2. \A q \in PageRequests :
          /\ trip'[q].kind # "get"
          /\ trip'[q].kind \in {"chat", "task"} => trip'[q].id = q
          /\ trip'[q].kind = "patch" => trip'[q].id # q
          /\ \A id \in PageRequests \ {q} : trip'[q].id = id => Inserted(id)'
    BY <1>2, <1>3, <1>4 DEF PageInv, Types, Ids
  <2>3. \A q \in Fetches : Answered(q)' => trip'[q].serial <= served'
    BY <1>1, <1>2 DEF PageInv, Types
  <2>4. \A q \in Fetches : trip'[q].at = "arrived" => trip'[q].came <= came'
    <3> SUFFICES ASSUME NEW q \in Fetches, trip'[q].at = "arrived" PROVE trip'[q].came <= came'
      OBVIOUS
    <3>1. CASE q = r
      BY <3>1, <1>1, <1>3
    <3>2. CASE q # r
      <4>1. trip[q].came <= came /\ trip[q].came \in Nat
        BY <3>2, <1>1 DEF PageInv, Types, Trip
      <4> QED BY <4>1, <3>2, <1>1, <1>3
    <3> QED BY <3>1, <3>2
  <2> QED BY <2>1, <2>2, <2>3, <2>4 DEF Types
<1>6. Table'
  BY <1>1, <1>4 DEF PageInv, Types, Table, Single, RowSet, Ids
<1>7. Answers'
  <2> SUFFICES ASSUME NEW q \in Fetches PROVE Sound(q)'
    BY DEF Answers
  <2>1. Sound(q)
    BY DEF PageInv, Answers
  <2>2. \A id \in Ids : (Inserted(id)' <=> Inserted(id)) /\ (Inserted(id) => trip'[id].serial = trip[id].serial)
    BY <1>2, <1>3, <1>4 DEF Inserted
  <2>3. trip[q].answer # {Junk} /\ Answered(q) => \A row \in trip[q].answer : row.id \in Ids
    BY <2>1 DEF Sound, Inserted, Ids
  <2> QED BY <1>2, <2>1, <2>2, <2>3 DEF Sound, Single, Junk, Ids
<1>8. \A id \in PageRequests :
        /\ About(id)' = IF kind = "get" \/ trip[r].id = id THEN About(id) \cup {r} ELSE About(id)
        /\ r \notin About(id) /\ About(id) \subseteq Fetches
  BY <1>1, <1>2 DEF About
<1>9. FromAnswers(shown)'
  <2> SUFFICES ASSUME NEW x \in items, x.id \in PageRequests
               PROVE  \E b \in About(x.id)' : \E row \in trip'[b].answer : row.id = x.id
    BY <1>1 DEF FromAnswers
  <2>1. CASE x \in shown
    <3>1. PICK b \in About(x.id) : \E row \in trip[b].answer : row.id = x.id
      BY <2>1 DEF PageInv, FromAnswers
    <3> QED BY <3>1, <1>2, <1>8
  <2>2. CASE (\E row \in trip[r].answer : row.id = x.id) /\ (kind = "get" \/ trip[r].id = x.id)
    BY <2>2, <1>2, <1>8
  <2> QED BY <2>1, <2>2
<1>10. ASSUME NEW id \in PageRequests, Plain(id)' PROVE Follows(id)'
  <2>1. \A b \in About(id) : b # r /\ b \in About(id)' /\ trip'[b] = trip[b] /\ b \in Fetches
    BY <1>1, <1>8
  <2>2. Plain(id)
    BY <1>10, <2>1 DEF Plain, Junk
  <2>3. /\ Once(shown, id) /\ Changeable(shown, id)
        /\ \A a \in Fetches : Latest(a, id) => Shows(shown, a, id)
    BY <2>2 DEF PageInv, Follows
  <2>4. CASE kind # "get" /\ trip[r].id # id
    <3>1. {x \in items : x.id = id} = {x \in shown : x.id = id} /\ About(id)' = About(id)
      BY <2>4, <1>8
    <3>2. Once(shown', id)
      BY <3>1, <2>3, <1>1 DEF Once
    <3>3. Changeable(shown, id)'
      BY <3>1, <2>3, <1>1, <1>2, <1>3 DEF Changeable
    <3>4. ASSUME NEW a \in Fetches, Latest(a, id)' PROVE Shows(shown, a, id)'
      <4>1. Shows(shown, a, id)
        BY <3>1, <3>4, <2>1, <2>3 DEF Latest
      <4> QED BY <4>1, <3>1, <1>1, <1>2 DEF Shows
    <3> QED BY <3>2, <3>3, <3>4 DEF Follows, Once
  <2>5. CASE kind = "get" \/ trip[r].id = id
    <3>1. About(id)' = About(id) \cup {r}
      BY <2>5, <1>8
    <3>2. \A b \in About(id) : trip[b].came < trip'[r].came
      <4> SUFFICES ASSUME NEW b \in About(id) PROVE trip[b].came < came + 1
        BY <1>1
      <4>1. trip[b].came \in Nat /\ trip[b].came <= came
        BY DEF About, PageInv, Types, Trip
      <4> QED BY <4>1, <1>3
    <3>3. \A b \in About(id) : trip[b].serial < trip[r].serial
      BY <3>1, <3>2, <2>1, <1>1, <1>10 DEF Plain
    <3>4. trip[r].answer # {Junk}
      BY <3>1, <1>1, <1>10 DEF Plain, Junk
    <3>5. Once(items, id) /\ Changeable(items, id) /\ Shows(items, r, id)
      BY <2>3, <2>5, <3>3, <3>4
    <3>6. \A a \in Fetches : Latest(a, id)' => a = r
      <4> SUFFICES ASSUME NEW a \in About(id), Latest(a, id)' PROVE FALSE
        BY <3>1 DEF Latest
      <4>1. came + 1 <= trip[a].came
        BY <3>1, <2>1, <1>1 DEF Latest
      <4>2. trip[a].came \in Nat /\ trip[a].came <= came
        BY DEF About, PageInv, Types, Trip
      <4> QED BY <4>1, <4>2, <1>3
    <3>7. Changeable(shown, id)'
      BY <3>5, <1>1, <1>2, <1>3 DEF Changeable
    <3>8. Shows(shown, r, id)'
      BY <3>5, <1>1 DEF Shows
    <3>9. Once(shown, id)'
      BY <3>5, <1>1 DEF Once
    <3> QED BY <3>6, <3>7, <3>8, <3>9 DEF Follows
  <2> QED BY <2>4, <2>5
<1>11. \A id \in PageRequests : Follows(id)'
  BY <1>10 DEF Follows
<1> QED BY <1>5, <1>6, <1>7, <1>9, <1>11 DEF PageInv

\* What an answer that was served says.
LEMMA ServedAnswer ==
  ASSUME PageInv, NEW r \in Fetches, Answered(r)
  PROVE  /\ trip[r].answer \subseteq RowSet
         /\ \A row \in trip[r].answer : row.id \in Ids /\ row = Row(row.id, row.status)
         /\ r \in PageRequests =>
              \A row \in trip[r].answer : row.id \in PageRequests => row.id = trip[r].id
         /\ r \in PageRequests /\ trip[r].answer # {Junk} =>
              /\ trip[r].answer = {Row(trip[r].id, trip[r].status)}
              /\ trip[r].id \in PageRequests
         /\ \A row \in trip[r].answer : row.id \in PageRequests =>
              /\ Inserted(row.id) /\ trip[row.id].serial <= trip[r].serial
              /\ trip[r].answer # {Junk}
<1>1. trip[r].answer \subseteq RowSet
  BY DEF PageInv, Types, Trip
<1>2. \A row \in trip[r].answer : row.id \in Ids /\ row = Row(row.id, row.status)
  BY <1>1 DEF RowSet, Row
<1>3. Sound(r) /\ Junk.id = "none" /\ "none" \notin PageRequests
  BY PageAssumption DEF PageInv, Answers, Junk, Row
<1>4. r \in PageRequests /\ trip[r].answer # {Junk} => trip[r].answer = {Row(trip[r].id, trip[r].status)}
  BY <1>3 DEF Sound
<1>5. r \in PageRequests /\ trip[r].answer # {Junk} => trip[r].id \in PageRequests
  BY <1>3, <1>4 DEF Sound, Inserted, Row
<1>6. r \in PageRequests => \A row \in trip[r].answer : row.id \in PageRequests => row.id = trip[r].id
  BY <1>3, <1>4 DEF Row
<1>7. \A row \in trip[r].answer : row.id \in PageRequests =>
        Inserted(row.id) /\ trip[row.id].serial <= trip[r].serial /\ trip[r].answer # {Junk}
  BY <1>3 DEF Sound
<1> QED BY <1>1, <1>2, <1>4, <1>5, <1>6, <1>7

\* An item shows a row that was inserted before any answer about it was served.
LEMMA ShownBefore ==
  ASSUME PageInv, NEW x \in shown, x.id \in PageRequests
  PROVE  \E b \in About(x.id) : Inserted(x.id) /\ trip[x.id].serial <= trip[b].serial
<1>1. PICK b \in About(x.id) : \E row \in trip[b].answer : row.id = x.id
  BY DEF PageInv, FromAnswers
<1>2. b \in Fetches /\ Answered(b)
  BY DEF About, Answered
<1> QED BY <1>1, <1>2, ServedAnswer

LEMMA ShowListKeeps ==
  ASSUME PageInv, NEW r \in Fetches, ShowList(r) PROVE PageInv'
<1>1. Apply(r, "get", Items(r)) /\ trip[r].kind = "get" /\ trip[r].at = "served"
  BY DEF ShowList, Apply
<1>2. r = "list" /\ Answered(r)
  BY <1>1 DEF PageInv, Types, Fetches, Answered
<1>3. \A row \in trip[r].answer : row.id \in Ids /\ row = Row(row.id, row.status)
  BY <1>2, ServedAnswer
<1>4. \A x \in Items(r) : \E row \in trip[r].answer :
        x = Item(r, row.id, row) /\ x.id = row.id /\ x.status = row.status
  BY DEF Items, Item
<1>5. \A row \in trip[r].answer : Item(r, row.id, row) \in Items(r) /\ Item(r, row.id, row).id = row.id
  BY DEF Items, Item
<1>6. ASSUME NEW id \in PageRequests, Changeable(shown, id), trip[r].answer # {Junk},
             \A b \in About(id) : trip[b].serial < trip[r].serial
      PROVE  Once(Items(r), id) /\ Changeable(Items(r), id) /\ Shows(Items(r), r, id)
  <2>1. /\ Single(trip[r].answer)
        /\ Inserted(id) /\ trip[id].serial <= trip[r].serial => \E row \in trip[r].answer : row.id = id
    BY <1>2, <1>6 DEF PageInv, Answers, Sound
  <2>2. Once(Items(r), id)
    BY <1>4, <2>1 DEF Once, Single
  <2>3. Changeable(Items(r), id)
    <3> SUFFICES ASSUME NEW x \in shown, x.id = id PROVE \E y \in Items(r) : y.id = id
      BY <1>6 DEF Changeable
    <3>1. PICK b \in About(id) : Inserted(id) /\ trip[id].serial <= trip[b].serial
      BY ShownBefore
    <3>2. trip[b].serial < trip[r].serial /\ trip[b].serial \in Nat /\ trip[r].serial \in Nat
      BY <1>6 DEF About, PageInv, Types, Trip
    <3>3. trip[id].serial \in Nat
      BY DEF Fetches, PageInv, Types, Trip
    <3>4. trip[id].serial <= trip[r].serial
      BY <3>1, <3>2, <3>3
    <3> QED BY <3>1, <3>4, <2>1, <1>5
  <2>4. Shows(Items(r), r, id)
    BY <1>3, <1>4, <1>5 DEF Shows
  <2> QED BY <2>2, <2>3, <2>4
<1>7. \A x \in Items(r) : x.id \in Ids /\ \E row \in trip[r].answer : row.id = x.id
  BY <1>3, <1>4
<1> QED BY <1>1, <1>6, <1>7, ApplyKeeps

\* What a POST answers is added, and was not there.
LEMMA ShowRowKeeps ==
  ASSUME PageInv, NEW r \in Fetches, NEW kind \in {"chat", "task"}, Apply(r, kind, shown \cup Items(r))
  PROVE  PageInv'
<1>1. trip[r].kind = kind /\ Answered(r)
  BY DEF Apply, Answered
<1>2. r \in PageRequests /\ trip[r].id = r
  BY <1>1 DEF PageInv, Types, Fetches
<1>3. /\ \A row \in trip[r].answer : row.id \in Ids /\ (row.id \in PageRequests => row.id = r)
      /\ trip[r].answer # {Junk} => trip[r].answer = {Row(r, trip[r].status)}
  BY <1>1, <1>2, ServedAnswer
<1>4. \A x \in Items(r) : \E row \in trip[r].answer :
        x = Item(r, row.id, row) /\ x.id = row.id /\ x.status = row.status
  BY DEF Items, Item
<1>5. \A row \in trip[r].answer : Item(r, row.id, row) \in Items(r) /\ Item(r, row.id, row).id = row.id
  BY DEF Items, Item
<1>6. \A x \in shown \cup Items(r) :
        /\ x.id \in Ids
        /\ \/ x \in shown
           \/ /\ \E row \in trip[r].answer : row.id = x.id
              /\ x.id \in PageRequests => kind = "get" \/ trip[r].id = x.id
  BY <1>2, <1>3, <1>4 DEF PageInv, FromAnswers
<1>7. \A id \in PageRequests : kind # "get" /\ trip[r].id # id =>
        {x \in shown \cup Items(r) : x.id = id} = {x \in shown : x.id = id}
  BY <1>2, <1>3, <1>4
<1>8. ASSUME NEW id \in PageRequests, trip[r].id = id, trip[r].answer # {Junk},
             \A b \in About(id) : trip[b].serial < trip[r].serial
      PROVE  /\ Once(shown \cup Items(r), id) /\ Changeable(shown \cup Items(r), id)
             /\ Shows(shown \cup Items(r), r, id)
  <2>1. \A x \in shown : x.id # id
    <3> SUFFICES ASSUME NEW x \in shown, x.id = id PROVE FALSE
      OBVIOUS
    <3>1. PICK b \in About(id) : trip[r].serial <= trip[b].serial
      BY <1>2, <1>8, ShownBefore
    <3>2. trip[b].serial < trip[r].serial /\ trip[b].serial \in Nat /\ trip[r].serial \in Nat
      BY <1>8 DEF About, PageInv, Types, Trip
    <3> QED BY <3>1, <3>2
  <2>2. trip[r].answer = {Row(id, trip[r].status)}
    BY <1>2, <1>3, <1>8
  <2>3. \A x, y \in Items(r) : x = y
    BY <1>4, <2>2
  <2>4. \A x \in Items(r) : x.id = id /\ Row(id, x.status) \in trip[r].answer
    BY <1>4, <2>2 DEF Row
  <2>5. \E x \in Items(r) : x.id = id
    BY <1>5, <2>2 DEF Row
  <2> QED BY <2>1, <2>3, <2>4, <2>5 DEF Once, Changeable, Shows
<1> DEFINE items == shown \cup Items(r)
<1>9. kind # "get" /\ Apply(r, kind, items)
  OBVIOUS
<1>10. \A x \in items :
         /\ x.id \in Ids
         /\ \/ x \in shown
            \/ /\ \E row \in trip[r].answer : row.id = x.id
               /\ x.id \in PageRequests => kind = "get" \/ trip[r].id = x.id
  BY <1>6
<1>11. \A id \in PageRequests : kind # "get" /\ trip[r].id # id =>
         {x \in items : x.id = id} = {x \in shown : x.id = id}
  BY <1>7
<1>12. \A id \in PageRequests :
         /\ kind = "get" \/ trip[r].id = id
         /\ Once(shown, id) /\ Changeable(shown, id)
         /\ trip[r].answer # {Junk}
         /\ \A b \in About(id) : trip[b].serial < trip[r].serial
         => Once(items, id) /\ Changeable(items, id) /\ Shows(items, r, id)
  BY <1>8, <1>9
<1> HIDE DEF items
<1> QED BY <1>9, <1>10, <1>11, <1>12, ApplyKeeps

LEMMA ShowStatusKeeps ==
  ASSUME PageInv, NEW r \in Fetches, ShowStatus(r) PROVE PageInv'
<1>1. PICK task \in trip[r].answer :
        Apply(r, "patch", {IF x.id = trip[r].id THEN Item(x.from[1], x.from[2], task) ELSE x : x \in shown})
  BY DEF ShowStatus
<1> DEFINE New(x) == IF x.id = trip[r].id THEN Item(x.from[1], x.from[2], task) ELSE x
           items == {New(x) : x \in shown}
<1>2. trip[r].kind = "patch" /\ Answered(r)
  BY <1>1 DEF Apply, Answered
<1>3. r \in PageRequests
  BY <1>2 DEF PageInv, Types, Fetches
<1>4. /\ task.id \in Ids /\ task = Row(task.id, task.status)
      /\ task.id \in PageRequests => task.id = trip[r].id
      /\ trip[r].answer # {Junk} => task.id = trip[r].id /\ trip[r].answer = {task}
  <2>1. trip[r].answer # {Junk} => trip[r].answer = {Row(trip[r].id, trip[r].status)}
    BY <1>2, <1>3, ServedAnswer
  <2>2. /\ task.id \in Ids /\ task = Row(task.id, task.status)
        /\ task.id \in PageRequests => task.id = trip[r].id
    BY <1>2, <1>3, ServedAnswer
  <2> QED BY <2>1, <2>2 DEF Row
<1>5. \A x \in shown : /\ x.id # trip[r].id => New(x) = x
                       /\ x.id = trip[r].id => New(x).id = task.id /\ New(x).status = task.status
  BY DEF Item
<1> HIDE DEF New
<1>6. \A x \in items :
        /\ x.id \in Ids
        /\ \/ x \in shown
           \/ /\ \E row \in trip[r].answer : row.id = x.id
              /\ x.id \in PageRequests => "patch" = "get" \/ trip[r].id = x.id
  BY <1>4, <1>5 DEF PageInv, FromAnswers
<1>7. \A id \in PageRequests : "patch" # "get" /\ trip[r].id # id =>
        {x \in items : x.id = id} = {x \in shown : x.id = id}
  <2> SUFFICES ASSUME NEW id \in PageRequests, trip[r].id # id
               PROVE  {x \in items : x.id = id} = {x \in shown : x.id = id}
    OBVIOUS
  <2>1. \A x \in shown : New(x).id = id <=> x.id = id
    BY <1>4, <1>5
  <2>2. \A x \in shown : x.id = id => New(x) = x
    BY <1>5
  <2> QED BY <2>1, <2>2
<1>8. ASSUME NEW id \in PageRequests, trip[r].id = id, trip[r].answer # {Junk},
             Once(shown, id), Changeable(shown, id)
      PROVE  Once(items, id) /\ Changeable(items, id) /\ Shows(items, r, id)
  <2>1. task.id = id /\ trip[r].answer = {task} /\ task = Row(id, task.status)
    BY <1>4, <1>8
  <2>2. PICK x0 \in shown : x0.id = id
    BY <1>2, <1>3, <1>8 DEF Changeable
  <2>3. \A x \in shown : New(x).id = id => x = x0
    BY <1>5, <1>8, <2>2 DEF Once
  <2>4. New(x0) \in items /\ New(x0).id = id /\ New(x0).status = task.status
    BY <1>5, <1>8, <2>1, <2>2
  <2>5. \A y \in items : y.id = id => y = New(x0)
    BY <2>3
  <2> QED BY <2>1, <2>4, <2>5 DEF Once, Changeable, Shows
<1>9. Apply(r, "patch", items)
  BY <1>1 DEF New
<1> HIDE DEF items
<1> QED BY <1>6, <1>7, <1>8, <1>9, ApplyKeeps

-----------------------------------------------------------------------------
LEMMA PageStep == PageInv /\ PageNext => PageInv'
<1> SUFFICES ASSUME PageInv, PageNext PROVE PageInv'
  OBVIOUS
<1>1. PICK r \in Fetches :
        \/ SendChat(r) \/ CreateTask(r) \/ Elsewhere(r)
        \/ \E item \in shown, status \in PageStatuses : ChangeStatus(r, item, status)
        \/ ServeList(r) \/ InsertRow(r) \/ UpdateRow(r) \/ RefuseFetch(r)
        \/ ShowList(r) \/ ShowChat(r) \/ ShowTask(r) \/ ShowStatus(r)
  BY DEF PageNext
<1>2. trip[r].at = "none" => r \in Ids /\ ~Inserted(r)
  BY DEF PageInv, Types, Fetches, Ids, Inserted, Answered
<1>3. "open" \in Changed /\ PageStatuses \subseteq Changed
  BY DEF Changed
<1>4. CASE SendChat(r) \/ CreateTask(r)
  <2>1. PICK kind \in {"chat", "task"} : Ask(r, kind, r, "open")
    BY <1>4 DEF SendChat, CreateTask
  <2>2. kind \in Kinds \ {"get"} /\ r \in Ids
    BY <1>2, <2>1 DEF Kinds, Ask
  <2> QED BY <2>1, <2>2, <1>3, AskKeeps
<1>5. CASE Elsewhere(r)
  <2>1. PICK id \in {r} \cup {row.id : row \in rows}, status \in Changed : Ask(r, "other", id, status)
    BY <1>3, <1>5 DEF Elsewhere
  <2>2. id \in Ids /\ (id # r => Inserted(id))
    BY <1>2, <2>1 DEF Ask, PageInv, Table, Inserted, Ids
  <2>3. "other" \in Kinds \ {"get"}
    BY DEF Kinds
  <2> QED BY <2>1, <2>2, <2>3, AskKeeps
<1>6. CASE \E item \in shown, status \in PageStatuses : ChangeStatus(r, item, status)
  <2>1. PICK item \in shown, status \in PageStatuses : Ask(r, "patch", item.id, status)
    BY <1>6 DEF ChangeStatus
  <2>2. item.id \in Ids /\ (item.id \in PageRequests => Inserted(item.id))
    BY ShownBefore DEF PageInv, FromAnswers
  <2>3. trip[r].at = "none" /\ r \in PageRequests
    BY <2>1 DEF Ask, PageInv, Types, Fetches
  <2>4. item.id # r
    BY <2>2, <2>3, <1>2
  <2>5. "patch" \in Kinds \ {"get"}
    BY DEF Kinds
  <2> QED BY <2>1, <2>2, <2>4, <2>5, <1>3, AskKeeps
<1>7. CASE ServeList(r)
  BY <1>7, ServeListKeeps
<1>8. CASE InsertRow(r)
  BY <1>8, InsertRowKeeps
<1>9. CASE UpdateRow(r)
  BY <1>9, UpdateRowKeeps
<1>10. CASE RefuseFetch(r)
  BY <1>10, RefuseFetchKeeps
<1>11. CASE ShowList(r)
  BY <1>11, ShowListKeeps
<1>12. CASE ShowChat(r) \/ ShowTask(r)
  BY <1>12, ShowRowKeeps DEF ShowChat, ShowTask
<1>13. CASE ShowStatus(r)
  BY <1>13, ShowStatusKeeps
<1> QED
  BY <1>1, <1>4, <1>5, <1>6, <1>7, <1>8, <1>9, <1>10, <1>11, <1>12, <1>13

LEMMA PageStutter == PageInv /\ UNCHANGED pageVars => PageInv'
<1> SUFFICES ASSUME PageInv, UNCHANGED pageVars PROVE PageInv'
  OBVIOUS
<1>1. UNCHANGED <<rows, served, came, trip, shown>>
  BY DEF pageVars
<1>2. Types' /\ Table' /\ Answers'
  BY <1>1 DEF PageInv, Types, Table, Answers, Sound, Inserted, Answered, Single
<1>3. FromAnswers(shown)' /\ \A id \in PageRequests : Follows(id)'
  BY <1>1 DEF PageInv, FromAnswers, Follows, About, Plain, Latest, Once, Changeable, Shows, Junk
<1> QED BY <1>2, <1>3 DEF PageInv

LEMMA PageInvFollows == PageInv => PageFollows
<1> SUFFICES ASSUME PageInv, NEW id \in PageRequests, NEW a \in About(id), Plain(id),
                    \A b \in About(id) : trip[b].came <= trip[a].came
             PROVE  /\ \A x \in shown : x.id = id => Row(id, x.status) \in trip[a].answer
                    /\ \A row \in trip[a].answer : row.id = id =>
                         \E x \in shown : \A y \in shown : y.id = id <=> y = x
  BY DEF PageFollows
<1>1. Latest(a, id) /\ a \in Fetches
  BY DEF Latest, About
<1>2. Once(shown, id) /\ Shows(shown, a, id)
  BY <1>1 DEF PageInv, Follows
<1> QED BY <1>2 DEF Once, Shows

\* PageFollows: whatever requests the page and others make, in whatever order they are
\* served and answered, the page shows of a row what the last answer about it said, once,
\* unless one of the answers about this row was an error or overtook another.
THEOREM PageFollowsCorrect == RestartSpec => []PageFollows
<1>1. RestartInit => PageInv
  BY PageInitInv DEF RestartInit
<1>2. PageInv /\ [RestartNext]_restartVars => PageInv'
  <2> SUFFICES ASSUME PageInv, [RestartNext]_restartVars PROVE PageInv'
    OBVIOUS
  <2>1. PageNext \/ UNCHANGED pageVars
    BY DEF RestartNext, restartVars
  <2> QED BY <2>1, PageStep, PageStutter
<1>3. PageInv => PageFollows
  BY PageInvFollows
<1> QED BY <1>1, <1>2, <1>3, PTL DEF RestartSpec
=============================================================================
