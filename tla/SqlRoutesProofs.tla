-------------------------- MODULE SqlRoutesProofs --------------------------
(***************************************************************************)
(* Theorems of SqlRoutes, for any requests, people, groups and workloads:  *)
(* the two implementations of the role rules agree, nobody passes the      *)
(* permission checks of the routes as they call them, and the war log      *)
(* holds submitted messages only.                                          *)
(***************************************************************************)
EXTENDS SqlRoutes, TLAPS

Granted == Ladder \cup {"none"}

RolesInv ==
  /\ grants \in [People -> Granted]
  /\ stored \in [{Lower(q) : q \in People} -> Granted]

LEMMA RolesInductive == SqlSpec => []RolesInv
<1>1. SqlInit => RolesInv
  BY DEF SqlInit, PermissionInit, RolesInv, Granted
<1>2. ASSUME RolesInv, PermissionNext PROVE RolesInv'
  <2>1. ASSUME NEW r \in Requests, NEW p \in People,
               \/ GetEffectivePermissions(r, p) \/ GetPermissions(r, p)
               \/ PostAssignment(r, p) \/ DeleteAssignment(r, p) \/ PostRole(r, p)
        PROVE  UNCHANGED permissionVars
    BY <2>1 DEF GetEffectivePermissions, GetPermissions, PostAssignment, DeleteAssignment, PostRole, Ask
  <2>2. ASSUME NEW r \in Requests, FindOperation(r) \/ MyAssignments(r) \/ Decide(r)
        PROVE  UNCHANGED permissionVars
    BY <2>2 DEF FindOperation, MyAssignments, Decide
  <2>3. ASSUME NEW p \in People, NEW role \in Ladder, AssignRole(p, role) PROVE RolesInv'
    <3>1. Lower(p) \in {Lower(q) : q \in People}
      OBVIOUS
    <3> QED BY <1>2, <2>3, <3>1 DEF AssignRole, RolesInv, Granted
  <2>4. ASSUME ClearAssignments PROVE RolesInv'
    BY <1>2, <2>4 DEF ClearAssignments, RolesInv, Granted
  <2>5. UNCHANGED permissionVars => RolesInv'
    BY <1>2 DEF permissionVars, RolesInv
  <2> QED BY <1>2, <2>1, <2>2, <2>3, <2>4, <2>5 DEF PermissionNext
<1>3. ASSUME RolesInv, [SqlNext]_<<clientVars, routeVars, submitVars, scheduleVars, permissionVars>>
      PROVE  RolesInv'
  <2>1. PermissionNext \/ UNCHANGED permissionVars
    BY <1>3 DEF SqlNext
  <2>2. UNCHANGED permissionVars => RolesInv'
    BY <1>3 DEF permissionVars, RolesInv
  <2> QED BY <1>2, <1>3, <2>1, <2>2
<1> QED BY <1>1, <1>3, PTL DEF SqlSpec

-----------------------------------------------------------------------------
\* effective() for somebody with at most one grant.
LEMMA EffectiveOfGrant ==
  ASSUME RolesInv, NEW p \in People, NEW suffixes
  PROVE  Effective(p, suffixes, GrantRows) =
           (IF suffixes \cap Suffixes # {} THEN {"VIEWER"} ELSE {}) \cup Escalate(grants[p])
<1> DEFINE rows == {x \in GrantRows : x.upn = p}
<1>1. Escalate("VIEWER") = {"VIEWER"} /\ Escalate("none") = {}
  BY DEF Escalate
<1>2. CASE grants[p] = "none"
  <2>1. rows = {}
    BY <1>2 DEF GrantRows
  <2>2. UNION {Escalate(g.role) : g \in rows} = {}
    BY <2>1
  <2> QED BY <1>1, <1>2, <2>2 DEF Effective
<1>3. CASE grants[p] # "none"
  <2>1. rows = {[upn |-> p, role |-> grants[p]]}
    BY <1>3 DEF GrantRows
  <2>2. {Escalate(g.role) : g \in rows} = {Escalate(grants[p])}
    <3> DEFINE row == [upn |-> p, role |-> grants[p]]
    <3>1. row.role = grants[p]
      OBVIOUS
    <3> HIDE DEF rows, row
    <3>2. rows = {row}
      BY <2>1 DEF row
    <3> QED BY <3>1, <3>2
  <2>3. UNION {Escalate(g.role) : g \in rows} = Escalate(grants[p])
    BY <2>2
  <2> QED BY <1>1, <2>3 DEF Effective
<1> QED BY <1>2, <1>3

\* What each role allows, in the numbers of services/rbac.
LEMMA MapMeaning ==
  ASSUME NEW roles
  PROVE  /\ MapAllows(roles, "READ") <=> "VIEWER" \in roles \/ "EDITOR" \in roles \/ "IMO" \in roles \/ "ADMIN" \in roles
         /\ MapAllows(roles, "WRITE") <=> "EDITOR" \in roles \/ "IMO" \in roles \/ "ADMIN" \in roles
         /\ MapAllows(roles, "ASSIGN") <=> "IMO" \in roles \/ "ADMIN" \in roles
         /\ MapAllows(roles, "ADMIN") <=> "ADMIN" \in roles
<1>1. Order[1] = "VIEWER" /\ Order[2] = "EDITOR" /\ Order[3] = "IMO" /\ Order[4] = "ADMIN"
  BY DEF Order
<1>2. /\ ActionMap["READ"] = {1, 2, 3, 4} /\ ActionMap["WRITE"] = {2, 3, 4}
      /\ ActionMap["ASSIGN"] = {3, 4} /\ ActionMap["ADMIN"] = {4}
  BY DEF ActionMap
<1> QED BY <1>1, <1>2 DEF MapAllows

\* The same of effective.ts.
LEMMA CanMeaning ==
  ASSUME NEW roles
  PROVE  /\ Can(roles, "READ") <=> "VIEWER" \in roles \/ "EDITOR" \in roles \/ "IMO" \in roles \/ "ADMIN" \in roles
         /\ Can(roles, "WRITE") <=> "EDITOR" \in roles \/ "IMO" \in roles \/ "ADMIN" \in roles
         /\ Can(roles, "ASSIGN") <=> "IMO" \in roles \/ "ADMIN" \in roles
         /\ Can(roles, "ADMIN") <=> "ADMIN" \in roles
BY DEF Can, Ladder

\* Both give a Boolean.
LEMMA Allowing ==
  ASSUME NEW roles, NEW action \in Actions
  PROVE  Can(roles, action) \in BOOLEAN /\ MapAllows(roles, action) \in BOOLEAN
<1>1. MapAllows(roles, action) \in BOOLEAN
  BY Zenon DEF MapAllows
<1>2. Can(roles, "READ") \in BOOLEAN
  BY DEF Can
<1>3. Can(roles, "WRITE") \in BOOLEAN
  BY DEF Can
<1>4. Can(roles, "ASSIGN") \in BOOLEAN
  BY DEF Can
<1>5. Can(roles, "ADMIN") \in BOOLEAN
  BY DEF Can
<1>6. Can(roles, action) \in BOOLEAN
  BY <1>2, <1>3, <1>4, <1>5 DEF Actions
<1> QED BY <1>1, <1>6

\* With at most one grant per person, effective.ts and services/rbac allow the same
\* actions, whatever the groups and grants are.
THEOREM RolesCorrect == SqlSpec => []RolesAgree
<1>1. ASSUME RolesInv, NEW p \in People, NEW action \in Actions
      PROVE  Can(Effective(p, groups, GrantRows), action) = MapAllows(ComputeEffective(groups, grants[p]), action)
  <2> DEFINE reads == IF groups \cap Suffixes # {} THEN {"VIEWER"} ELSE {}
             one == Effective(p, groups, GrantRows)
             other == ComputeEffective(groups, grants[p])
  <2>1. one = reads \cup Escalate(grants[p])
    BY <1>1, EffectiveOfGrant
  <2>2. other = reads \cup (IF grants[p] = "none" THEN {} ELSE {grants[p]})
    BY DEF ComputeEffective
  <2>3. grants[p] \in {"VIEWER", "EDITOR", "IMO", "ADMIN", "none"}
    BY <1>1 DEF RolesInv, Granted, Ladder
  <2>4. /\ Escalate("ADMIN") = {"VIEWER", "EDITOR", "IMO", "ADMIN"} /\ Escalate("none") = {}
        /\ Escalate("IMO") = {"VIEWER", "EDITOR", "IMO"} /\ Escalate("EDITOR") = {"VIEWER", "EDITOR"}
        /\ Escalate("VIEWER") = {"VIEWER"}
    BY DEF Escalate, Ladder
  <2> HIDE DEF one, other, reads
  <2>5. /\ "ADMIN" \in one <=> "ADMIN" \in other
        /\ "IMO" \in one \/ "ADMIN" \in one <=> "IMO" \in other \/ "ADMIN" \in other
        /\ "EDITOR" \in one \/ "IMO" \in one \/ "ADMIN" \in one
             <=> "EDITOR" \in other \/ "IMO" \in other \/ "ADMIN" \in other
        /\ "VIEWER" \in one \/ "EDITOR" \in one \/ "IMO" \in one \/ "ADMIN" \in one
             <=> "VIEWER" \in other \/ "EDITOR" \in other \/ "IMO" \in other \/ "ADMIN" \in other
    BY <2>1, <2>2, <2>3, <2>4
  <2>6. action \in {"READ", "WRITE", "ASSIGN", "ADMIN"}
    BY DEF Actions
  <2>7. Can(one, action) <=> MapAllows(other, action)
    BY <2>5, <2>6, CanMeaning, MapMeaning
  <2>8. Can(one, action) \in BOOLEAN /\ MapAllows(other, action) \in BOOLEAN
    BY <1>1, Allowing
  <2> QED BY <2>7, <2>8 DEF one, other
<1>2. RolesInv => RolesAgree
  BY <1>1 DEF RolesAgree
<1> QED BY <1>2, RolesInductive, PTL

\* READ and ASSIGN, which the routes of index.ts look for, are not among the roles
\* effective() can return: nobody passes, whatever the tables hold.
THEOREM NobodyPasses ==
  ASSUME NEW upn, NEW suffixes, NEW rows, NEW kind
  PROVE  Needs(kind) \notin Effective(upn, suffixes, rows)
<1>1. \A role : Escalate(role) \subseteq Ladder
  BY DEF Escalate, Ladder
<1>2. Effective(upn, suffixes, rows) \subseteq Ladder
  BY <1>1 DEF Effective
<1>3. Needs(kind) \in {"READ", "ASSIGN"}
  BY DEF Needs
<1> QED BY <1>2, <1>3 DEF Ladder

\* The place of a role in the ladder.
LEMMA OrderIs ==
  /\ Order[1] = "VIEWER" /\ Order[2] = "EDITOR" /\ Order[3] = "IMO" /\ Order[4] = "ADMIN"
  /\ \A i, j \in 1..4 : Order[i] = Order[j] => i = j
  /\ \A role \in Ladder : \E i \in 1..4 : Order[i] = role
BY DEF Order, Ladder

\* What Highest chooses, of the roles computeEffective can return.
LEMMA HighestIs ==
  ASSUME NEW roles, NEW i \in 1..4, Order[i] \in roles, \A j \in 1..4 : Order[j] \in roles => j <= i
  PROVE  Highest(roles) = Order[i]
<1> DEFINE P(n) == /\ n = 1 \/ Order[n] \in roles
                   /\ \A j \in 1..4 : Order[j] \in roles => j <= n
<1>1. P(i)
  OBVIOUS
<1>2. ASSUME NEW n \in 1..4, P(n) PROVE n = i
  <2>1. i <= n
    BY <1>2
  <2>2. n <= i
    BY <1>2
  <2> QED BY <2>1, <2>2
<1>3. (CHOOSE n \in 1..4 : P(n)) = i
  BY <1>1, <1>2
<1> QED BY <1>3 DEF Highest

\* computeEffective's roles allow what the highest of them allows, and every role what
\* the lower ones do (services/rbac against the ladder of effective.ts).
THEOREM HighestCorrect == SqlSpec => []HighestDecides
<1>1. ASSUME NEW granted \in Granted, NEW suffixes
      PROVE  LET roles == ComputeEffective(suffixes, granted) IN
             roles # {} => \A action \in Actions :
               MapAllows(roles, action) = Can(Escalate(Highest(roles)), action)
  <2> DEFINE roles == ComputeEffective(suffixes, granted)
  <2>1. granted \in {"VIEWER", "EDITOR", "IMO", "ADMIN", "none"}
    BY DEF Granted, Ladder
  <2>2. roles \in {{}, {"VIEWER"}, {"EDITOR"}, {"IMO"}, {"ADMIN"},
                   {"VIEWER", "EDITOR"}, {"VIEWER", "IMO"}, {"VIEWER", "ADMIN"}}
    BY <2>1 DEF ComputeEffective
  <2> HIDE DEF roles
  <2>3. /\ roles = {"VIEWER"} => Highest(roles) = "VIEWER"
        /\ roles \in {{"EDITOR"}, {"VIEWER", "EDITOR"}} => Highest(roles) = "EDITOR"
        /\ roles \in {{"IMO"}, {"VIEWER", "IMO"}} => Highest(roles) = "IMO"
        /\ roles \in {{"ADMIN"}, {"VIEWER", "ADMIN"}} => Highest(roles) = "ADMIN"
    <3>1. ASSUME roles = {"VIEWER"} PROVE Highest(roles) = "VIEWER"
      BY <3>1, OrderIs, HighestIs, 1 \in 1..4
    <3>2. ASSUME roles \in {{"EDITOR"}, {"VIEWER", "EDITOR"}} PROVE Highest(roles) = "EDITOR"
      BY <3>2, OrderIs, HighestIs, 2 \in 1..4
    <3>3. ASSUME roles \in {{"IMO"}, {"VIEWER", "IMO"}} PROVE Highest(roles) = "IMO"
      BY <3>3, OrderIs, HighestIs, 3 \in 1..4
    <3>4. ASSUME roles \in {{"ADMIN"}, {"VIEWER", "ADMIN"}} PROVE Highest(roles) = "ADMIN"
      BY <3>4, OrderIs, HighestIs, 4 \in 1..4
    <3> QED BY <3>1, <3>2, <3>3, <3>4
  <2>4. /\ Escalate("ADMIN") = {"VIEWER", "EDITOR", "IMO", "ADMIN"}
        /\ Escalate("IMO") = {"VIEWER", "EDITOR", "IMO"} /\ Escalate("EDITOR") = {"VIEWER", "EDITOR"}
        /\ Escalate("VIEWER") = {"VIEWER"}
    BY DEF Escalate, Ladder
  <2> DEFINE all == Escalate(Highest(roles))
  <2>5. ASSUME roles # {}
        PROVE  /\ "ADMIN" \in roles <=> "ADMIN" \in all
               /\ "IMO" \in roles \/ "ADMIN" \in roles <=> "IMO" \in all \/ "ADMIN" \in all
               /\ "EDITOR" \in roles \/ "IMO" \in roles \/ "ADMIN" \in roles
                    <=> "EDITOR" \in all \/ "IMO" \in all \/ "ADMIN" \in all
               /\ "VIEWER" \in roles \/ "EDITOR" \in roles \/ "IMO" \in roles \/ "ADMIN" \in roles
                    <=> "VIEWER" \in all \/ "EDITOR" \in all \/ "IMO" \in all \/ "ADMIN" \in all
    BY <2>2, <2>3, <2>4, <2>5
  <2> HIDE DEF all
  <2>6. ASSUME roles # {}, NEW action \in Actions
        PROVE  MapAllows(roles, action) = Can(all, action)
    <3>1. MapAllows(roles, action) <=> Can(all, action)
      BY <2>5, <2>6, CanMeaning, MapMeaning DEF Actions
    <3>2. MapAllows(roles, action) \in BOOLEAN /\ Can(all, action) \in BOOLEAN
      BY <2>6, Allowing
    <3> QED BY <3>1, <3>2
  <2> QED BY <2>6 DEF roles, all
<1>2. RolesInv => HighestDecides
  <2> SUFFICES ASSUME RolesInv, NEW p \in People
               PROVE  LET roles == ComputeEffective(groups, stored[Lower(p)]) IN
                      roles # {} => \A action \in Actions :
                        MapAllows(roles, action) = Can(Escalate(Highest(roles)), action)
    BY DEF HighestDecides
  <2>1. stored[Lower(p)] \in Granted
    BY DEF RolesInv
  <2> QED BY <1>1, <2>1
<1> QED BY <1>2, RolesInductive, PTL

-----------------------------------------------------------------------------
\* Submissions.  A row that is on its way to the war log was submitted and stays so:
\* nothing takes a status back, because a draft's INSERT runs before its row exists.

Fields(x) == [kind |-> x.kind, at |-> x.at, arg |-> x.arg, ans |-> x.ans]

Asked ==
  /\ req = [r \in Requests |-> Fields(req[r])]
  /\ \A r \in Requests :
       /\ req[r].at = "insertDraft" => req[r].kind = "draft" /\ messages[r] = "none"
       /\ req[r].at = "updateMessage" => req[r].kind = "submit" /\ req[r].arg.msg \in Requests
       /\ req[r].at = "selectChat" => req[r].kind = "poll"
       /\ req[r].kind = "none" => req[r].at = "none"
       /\ req[r].kind = "submit" => req[r].at \in {"updateMessage", "fetch", "done", "lost"}

Rows ==
  /\ messages \in [Requests -> {"none", "draft", "submitted"}]
  /\ \A r \in Requests : messages[r] # "none" => req[r].kind = "draft"

OnItsWay ==
  /\ post \in [Requests -> {"none", "sent", "stored", "201", "500", "lost"}]
  /\ \A r \in Requests : post[r] # "none" => req[r].kind = "submit" /\ req[r].at \in {"fetch", "done", "lost"}
  /\ \A r \in Requests : post[r] = "sent" =>
       req[r].arg.msg \in Requests /\ messages[req[r].arg.msg] = "submitted"

Promised ==
  \A r \in Requests :
    req[r].kind = "submit" /\ req[r].at \in {"fetch", "done"} /\ req[r].ans = Code(200) /\ url # "none" =>
      post[r] # "none"

Logged ==
  /\ entries \in Seq([by : Requests, msg : Requests])
  /\ \A e \in DOMAIN entries : messages[entries[e].msg] = "submitted"

Indexed ==
  /\ index \subseteq DOMAIN entries
  /\ \A e, f \in DOMAIN entries : entries[e].by = entries[f].by => e = f
  /\ \A r \in Requests :
       /\ post[r] \in {"none", "sent"} => \A e \in DOMAIN entries : entries[e].by # r
       /\ post[r] \in {"stored", "201"} => \E e \in DOMAIN entries : entries[e].by = r
       /\ post[r] = "201" /\ r \notin blind => \E e \in index : entries[e].by = r

WarlogInv == Asked /\ Rows /\ OnItsWay /\ Promised /\ Logged /\ Indexed

\* A request's record set anew, whole ...
LEMMA SetWhole ==
  ASSUME Asked, NEW r \in Requests, NEW k, NEW at, NEW arg, NEW ans,
         req' = [req EXCEPT ![r] = [kind |-> k, at |-> at, arg |-> arg, ans |-> ans]]
  PROVE  /\ \A q \in Requests : q # r => req'[q] = req[q]
         /\ req'[r] = [kind |-> k, at |-> at, arg |-> arg, ans |-> ans]
         /\ req' = [q \in Requests |-> Fields(req'[q])]
<1>1. DOMAIN req = Requests /\ \A q \in Requests : req[q] = Fields(req[q])
  BY DEF Asked
<1>2. /\ \A q \in Requests : q # r => req'[q] = req[q]
      /\ req'[r] = [kind |-> k, at |-> at, arg |-> arg, ans |-> ans]
      /\ DOMAIN req' = Requests /\ req' = [q \in DOMAIN req' |-> req'[q]]
  BY <1>1
<1>3. \A q \in Requests : req'[q] = Fields(req'[q])
  BY <1>1, <1>2 DEF Fields
<1> QED BY <1>2, <1>3

\* ... or field by field.
LEMMA Reset ==
  ASSUME NEW k, NEW at, NEW arg, NEW ans, NEW new
  PROVE  /\ [[kind |-> k, at |-> at, arg |-> arg, ans |-> ans] EXCEPT !.at = new]
                = [kind |-> k, at |-> new, arg |-> arg, ans |-> ans]
         /\ [[kind |-> k, at |-> at, arg |-> arg, ans |-> ans] EXCEPT !.arg = new]
                = [kind |-> k, at |-> at, arg |-> new, ans |-> ans]
         /\ [[kind |-> k, at |-> at, arg |-> arg, ans |-> ans] EXCEPT !.ans = new]
                = [kind |-> k, at |-> at, arg |-> arg, ans |-> new]
OBVIOUS

Whole(r, k, at, arg, ans) == req' = [req EXCEPT ![r] = [kind |-> k, at |-> at, arg |-> arg, ans |-> ans]]
Three(r, to, arg, ans) == req' = [req EXCEPT ![r].at = to, ![r].arg = arg, ![r].ans = ans]
Two(r, to, ans) == req' = [req EXCEPT ![r].at = to, ![r].ans = ans]
One(r, to) == req' = [req EXCEPT ![r].at = to]

LEMMA SetThree ==
  ASSUME Asked, NEW r \in Requests, NEW to, NEW arg, NEW ans, Three(r, to, arg, ans)
  PROVE  Whole(r, req[r].kind, to, arg, ans)
<1> DEFINE x == [kind |-> req[r].kind, at |-> req[r].at, arg |-> req[r].arg, ans |-> req[r].ans]
           y == [kind |-> req[r].kind, at |-> to, arg |-> req[r].arg, ans |-> req[r].ans]
           z == [kind |-> req[r].kind, at |-> to, arg |-> arg, ans |-> req[r].ans]
           w == [kind |-> req[r].kind, at |-> to, arg |-> arg, ans |-> ans]
<1>1. DOMAIN req = Requests
  BY DEF Asked
<1>2. req[r] = x
  BY DEF Asked, Fields
<1>3. [x EXCEPT !.at = to] = y
  BY ONLY Reset
<1>4. [y EXCEPT !.arg = arg] = z
  BY ONLY Reset
<1>5. [z EXCEPT !.ans = ans] = w
  BY ONLY Reset
<1>6. req' = [req EXCEPT ![r] = [[[req[r] EXCEPT !.at = to] EXCEPT !.arg = arg] EXCEPT !.ans = ans]]
  BY <1>1 DEF Three
<1> HIDE DEF x, y, z, w
<1>7. [[[req[r] EXCEPT !.at = to] EXCEPT !.arg = arg] EXCEPT !.ans = ans] = w
  BY ONLY <1>2, <1>3, <1>4, <1>5
<1>8. req' = [req EXCEPT ![r] = w]
  BY ONLY <1>6, <1>7
<1> QED BY <1>8 DEF w, Whole

LEMMA SetTwo ==
  ASSUME Asked, NEW r \in Requests, NEW to, NEW ans, Two(r, to, ans)
  PROVE  Whole(r, req[r].kind, to, req[r].arg, ans)
<1> DEFINE x == [kind |-> req[r].kind, at |-> req[r].at, arg |-> req[r].arg, ans |-> req[r].ans]
           y == [kind |-> req[r].kind, at |-> to, arg |-> req[r].arg, ans |-> req[r].ans]
           w == [kind |-> req[r].kind, at |-> to, arg |-> req[r].arg, ans |-> ans]
<1>1. DOMAIN req = Requests
  BY DEF Asked
<1>2. req[r] = x
  BY DEF Asked, Fields
<1>3. [x EXCEPT !.at = to] = y
  BY ONLY Reset
<1>4. [y EXCEPT !.ans = ans] = w
  BY ONLY Reset
<1>5. req' = [req EXCEPT ![r] = [[req[r] EXCEPT !.at = to] EXCEPT !.ans = ans]]
  BY <1>1 DEF Two
<1> HIDE DEF x, y, w
<1>6. [[req[r] EXCEPT !.at = to] EXCEPT !.ans = ans] = w
  BY ONLY <1>2, <1>3, <1>4
<1>7. req' = [req EXCEPT ![r] = w]
  BY ONLY <1>5, <1>6
<1> QED BY <1>7 DEF w, Whole

LEMMA SetAt ==
  ASSUME Asked, NEW r \in Requests, NEW to, One(r, to)
  PROVE  Whole(r, req[r].kind, to, req[r].arg, req[r].ans)
<1> DEFINE x == [kind |-> req[r].kind, at |-> req[r].at, arg |-> req[r].arg, ans |-> req[r].ans]
           y == [kind |-> req[r].kind, at |-> to, arg |-> req[r].arg, ans |-> req[r].ans]
<1>1. req[r] = x
  BY DEF Asked, Fields
<1>2. [x EXCEPT !.at = to] = y
  BY ONLY Reset
<1> HIDE DEF x, y
<1>3. req' = [req EXCEPT ![r] = y]
  BY <1>1, <1>2 DEF One
<1> QED BY <1>3 DEF y, Whole

\* A step that leaves the tables alone.
LEMMA MoveKeeps ==
  ASSUME WarlogInv, NEW r \in Requests, NEW k, NEW at, NEW arg, NEW ans,
         Whole(r, k, at, arg, ans),
         at = "insertDraft" => k = "draft" /\ messages[r] = "none",
         at = "updateMessage" => k = "submit" /\ arg.msg \in Requests,
         at = "selectChat" => k = "poll", k = "none" => at = "none",
         k = "submit" => at = "updateMessage",
         messages[r] # "none" => k = "draft", post[r] = "none",
         UNCHANGED submitVars
  PROVE  WarlogInv'
<1>1. UNCHANGED <<messages, url, post, entries, index, blind>>
  BY DEF submitVars
<1>2. /\ \A q \in Requests : q # r => req'[q] = req[q]
      /\ req'[r] = [kind |-> k, at |-> at, arg |-> arg, ans |-> ans]
      /\ req' = [q \in Requests |-> Fields(req'[q])]
  BY SetWhole DEF WarlogInv, Whole
<1>3. Asked'
  BY <1>1, <1>2 DEF WarlogInv, Asked
<1>4. Rows'
  BY <1>1, <1>2 DEF WarlogInv, Rows
<1>5. OnItsWay'
  BY <1>1, <1>2 DEF WarlogInv, OnItsWay
<1>6. Promised'
  BY <1>1, <1>2 DEF WarlogInv, Promised
<1> QED BY <1>1, <1>3, <1>4, <1>5, <1>6 DEF WarlogInv, Logged, Indexed

\* Steps of the other routes: a request arrives, ...
LEMMA ArrivalKeeps ==
  ASSUME WarlogInv, NEW r \in Requests, NEW k, NEW at, NEW arg, Begin(r, k, at, arg),
         k \notin {"none", "submit"}, at \notin {"insertDraft", "updateMessage"}, at = "selectChat" => k = "poll",
         UNCHANGED submitVars
  PROVE  WarlogInv'
<1>1. req[r].kind = "none" /\ Whole(r, k, at, arg, Nothing)
  BY DEF Begin, Whole
<1>2. messages[r] = "none" /\ post[r] = "none"
  BY <1>1 DEF WarlogInv, Rows, OnItsWay
<1> QED BY <1>1, <1>2, MoveKeeps

LEMMA RefusalKeeps ==
  ASSUME WarlogInv, NEW r \in Requests, NEW k, NEW arg, NEW ans, Refuse(r, k, arg, ans),
         k \notin {"none", "submit"}, UNCHANGED submitVars
  PROVE  WarlogInv'
<1>1. req[r].kind = "none" /\ Whole(r, k, "done", arg, ans)
  BY DEF Refuse, Whole
<1>2. messages[r] = "none" /\ post[r] = "none"
  BY <1>1 DEF WarlogInv, Rows, OnItsWay
<1>3. "done" \notin {"insertDraft", "updateMessage", "selectChat"}
  OBVIOUS
<1> QED BY <1>1, <1>2, <1>3, MoveKeeps

\* ... or one of its queries runs and it goes on or ends.
Between == {"insertChat", "selectChat", "insertTask", "updateTask", "activityChat", "activityWarlog",
            "activityTasks", "getShift", "roster", "overlap", "write", "delete", "operation",
            "myAssign", "myRoles", "notify"}

LEMMA QueryKeeps ==
  ASSUME WarlogInv, NEW r \in Requests, NEW q \in Between, Runs(r, q), NEW to, NEW arg, NEW ans,
         \/ Continue(r, to, arg, ans) /\ to \notin {"insertDraft", "updateMessage", "selectChat"}
         \/ Leave(r, "done", ans) \/ Finish(r, ans) \/ Notify(r),
         UNCHANGED submitVars
  PROVE  WarlogInv'
<1>1. req[r].at \in Between
  BY DEF Runs
<1>2. req[r].kind \notin {"none", "submit"} /\ post[r] = "none"
  BY <1>1 DEF WarlogInv, Asked, OnItsWay, Between
<1>3. messages[r] # "none" => req[r].kind = "draft"
  BY DEF WarlogInv, Rows
<1>4. Asked
  BY DEF WarlogInv
<1>5. ASSUME NEW a, NEW n, Whole(r, req[r].kind, "done", a, n) PROVE WarlogInv'
  <2>1. "done" \notin {"insertDraft", "updateMessage", "selectChat", "none"}
    OBVIOUS
  <2> QED BY <1>2, <1>3, <1>5, <2>1, MoveKeeps
<1>6. CASE Continue(r, to, arg, ans) /\ to \notin {"insertDraft", "updateMessage", "selectChat"}
  <2>1. Three(r, to, arg, ans)
    BY <1>6 DEF Continue, Three
  <2> QED BY <1>2, <1>3, <1>4, <1>6, <2>1, SetThree, MoveKeeps
<1>7. CASE Leave(r, "done", ans)
  <2>1. Two(r, "done", ans)
    BY <1>7 DEF Leave, Two
  <2> QED BY <1>4, <1>5, <2>1, SetTwo
<1>8. CASE Finish(r, ans)
  <2>1. Three(r, "done", Nothing, ans)
    BY <1>8 DEF Finish, Three
  <2> QED BY <1>4, <1>5, <2>1, SetThree
<1>9. CASE Notify(r)
  <2>1. Three(r, "done", Nothing, Code(200))
    BY <1>9 DEF Notify, Three
  <2> QED BY <1>4, <1>5, <2>1, SetThree
<1> QED BY <1>6, <1>7, <1>8, <1>9

LEMMA ReleaseKeeps ==
  ASSUME WarlogInv, NEW r \in Requests, Runs(r, "selectChat"), Release(r), UNCHANGED submitVars
  PROVE  WarlogInv'
<1>1. req[r].kind = "poll" /\ req[r].at = "selectChat"
  BY DEF Runs, WarlogInv, Asked
<1>2. messages[r] = "none" /\ post[r] = "none"
  BY <1>1 DEF WarlogInv, Rows, OnItsWay
<1>3. Whole(r, "none", "none", Nothing, Nothing)
  BY DEF Release, Blank, Whole
<1> QED BY <1>2, <1>3, MoveKeeps

LEMMA Elements == ASSUME NEW S, NEW s \in Seq(S) PROVE \A e \in DOMAIN s : s[e] \in S
OBVIOUS

LEMMA LogKept ==
  ASSUME Logged, UNCHANGED entries,
         \A m \in Requests : messages[m] = "submitted" => messages'[m] = "submitted"
  PROVE  Logged'
<1>1. entries \in Seq([by : Requests, msg : Requests])
  BY DEF Logged
<1>2. \A e \in DOMAIN entries : entries[e] \in [by : Requests, msg : Requests]
  BY <1>1, Elements
<1>3. \A e \in DOMAIN entries : entries[e].msg \in Requests
  BY <1>2
<1> QED BY <1>1, <1>3 DEF Logged

\* A step of the message routes.
LEMMA StepKeeps ==
  ASSUME WarlogInv, NEW r \in Requests, NEW at \in {"insertDraft", "updateMessage", "fetch", "done"},
         NEW k, NEW arg, NEW ans, Whole(r, k, at, arg, ans), k # "none",
         messages' \in [Requests -> {"none", "draft", "submitted"}],
         \A m \in Requests : messages[m] = "submitted" => messages'[m] = "submitted",
         \A m \in Requests : m # r /\ messages[m] = "none" => messages'[m] = "none",
         messages'[r] # "none" => k = "draft",
         at = "insertDraft" => k = "draft" /\ messages'[r] = "none",
         at = "updateMessage" => k = "submit" /\ arg.msg \in Requests, k = "submit" => at # "insertDraft",
         UNCHANGED post \/ (post[r] = "none" /\ post' = [post EXCEPT ![r] = "sent"]),
         post'[r] # "none" => k = "submit" /\ at \in {"fetch", "done"},
         post'[r] = "sent" => arg.msg \in Requests /\ messages'[arg.msg] = "submitted",
         k = "submit" /\ at \in {"fetch", "done"} /\ ans = Code(200) /\ url # "none" => post'[r] # "none",
         UNCHANGED <<url, entries, index, blind>>
  PROVE  WarlogInv'
<1>1. /\ \A q \in Requests : q # r => req'[q] = req[q]
      /\ req'[r] = [kind |-> k, at |-> at, arg |-> arg, ans |-> ans]
      /\ req' = [q \in Requests |-> Fields(req'[q])]
  BY SetWhole DEF WarlogInv, Whole
<1>2. Asked'
  BY <1>1 DEF WarlogInv, Asked
<1>3. Rows'
  BY <1>1 DEF WarlogInv, Rows
<1>4. /\ post' \in [Requests -> {"none", "sent", "stored", "201", "500", "lost"}]
      /\ \A q \in Requests : q # r => post'[q] = post[q]
      /\ post'[r] \in {"stored", "201"} => post'[r] = post[r]
  BY DEF WarlogInv, OnItsWay
<1>5. OnItsWay'
  <2>1. ASSUME NEW q \in Requests, post'[q] # "none"
        PROVE  req'[q].kind = "submit" /\ req'[q].at \in {"fetch", "done", "lost"}
    <3>1. CASE q = r
      BY <1>1, <2>1, <3>1
    <3>2. CASE q # r
      BY <1>1, <1>4, <2>1, <3>2 DEF WarlogInv, OnItsWay
    <3> QED BY <3>1, <3>2
  <2>2. ASSUME NEW q \in Requests, post'[q] = "sent"
        PROVE  req'[q].arg.msg \in Requests /\ messages'[req'[q].arg.msg] = "submitted"
    <3>1. CASE q = r
      BY <1>1, <2>2, <3>1
    <3>2. CASE q # r
      BY <1>1, <1>4, <2>2, <3>2 DEF WarlogInv, OnItsWay
    <3> QED BY <3>1, <3>2
  <2> QED BY <1>4, <2>1, <2>2 DEF OnItsWay
<1>8. Promised'
  <2> SUFFICES ASSUME NEW q \in Requests, req'[q].kind = "submit", req'[q].at \in {"fetch", "done"},
                      req'[q].ans = Code(200), url # "none"
               PROVE  post'[q] # "none"
    BY DEF Promised, Code
  <2>1. CASE q = r
    BY <1>1, <2>1
  <2>2. CASE q # r
    BY <1>1, <1>4, <2>2 DEF WarlogInv, Promised
  <2> QED BY <2>1, <2>2
<1>6. Logged'
  BY LogKept DEF WarlogInv
<1>7. Indexed'
  BY <1>4 DEF WarlogInv, Indexed
<1> QED BY <1>2, <1>3, <1>5, <1>6, <1>7, <1>8 DEF WarlogInv

LEMMA DieKeeps ==
  ASSUME WarlogInv, NEW ids, Die(ids), UNCHANGED warlogVars,
         messages' \in [Requests -> {"none", "draft", "submitted"}],
         \A m \in Requests : messages[m] = "submitted" => messages'[m] = "submitted",
         \A m \in Requests : messages'[m] # "none" => req[m].kind = "draft"
  PROVE  WarlogInv'
<1>1. \A q \in Requests :
        req'[q] = IF q \in InFlight THEN [req[q] EXCEPT !.at = "lost", !.ans = Nothing] ELSE req[q]
  BY DEF Die
<1>2. \A q \in Requests : req[q] = Fields(req[q])
  BY DEF WarlogInv, Asked
<1>0. \A q \in Requests : req[q].kind = "none" => req[q].at = "none"
  BY DEF WarlogInv, Asked
<1>3. \A q \in Requests : q \in InFlight =>
        req'[q] = [kind |-> req[q].kind, at |-> "lost", arg |-> req[q].arg, ans |-> Nothing]
  <2> SUFFICES ASSUME NEW q \in Requests, q \in InFlight
               PROVE  req'[q] = [kind |-> req[q].kind, at |-> "lost", arg |-> req[q].arg, ans |-> Nothing]
    OBVIOUS
  <2> DEFINE x == [kind |-> req[q].kind, at |-> req[q].at, arg |-> req[q].arg, ans |-> req[q].ans]
             y == [kind |-> req[q].kind, at |-> "lost", arg |-> req[q].arg, ans |-> req[q].ans]
             z == [kind |-> req[q].kind, at |-> "lost", arg |-> req[q].arg, ans |-> Nothing]
  <2>1. req[q] = x
    BY <1>2 DEF Fields
  <2>2. [x EXCEPT !.at = "lost"] = y
    BY ONLY Reset
  <2>3. [y EXCEPT !.ans = Nothing] = z
    BY ONLY Reset
  <2>4. req'[q] = [[req[q] EXCEPT !.at = "lost"] EXCEPT !.ans = Nothing]
    BY <1>1
  <2> HIDE DEF x, y, z
  <2>5. [[req[q] EXCEPT !.at = "lost"] EXCEPT !.ans = Nothing] = z
    BY ONLY <2>1, <2>2, <2>3
  <2>6. req'[q] = z
    BY ONLY <2>4, <2>5
  <2> QED BY <2>6 DEF z
<1>4. \A q \in Requests : q \notin InFlight => req'[q] = req[q] /\ req[q].at \in {"none", "done", "lost"}
  BY <1>1 DEF InFlight
<1>5. req' = [q \in Requests |-> Fields(req'[q])]
  <2>1. DOMAIN req' = Requests /\ req' = [q \in DOMAIN req' |-> req'[q]]
    BY DEF Die
  <2>2. ASSUME NEW q \in Requests PROVE req'[q] = Fields(req'[q])
    <3>1. CASE q \in InFlight
      <4>1. req'[q] = [kind |-> req[q].kind, at |-> "lost", arg |-> req[q].arg, ans |-> Nothing]
        BY <1>3, <3>1
      <4> QED BY <4>1 DEF Fields
    <3>2. CASE q \notin InFlight
      BY <1>2, <1>4, <3>2
    <3> QED BY <3>1, <3>2
  <2> QED BY <2>1, <2>2
<1>6. UNCHANGED <<url, post, entries, index, blind>>
  BY DEF warlogVars
<1>7. Asked'
  <2>1. ASSUME NEW q \in Requests
        PROVE  /\ req'[q].at \notin {"insertDraft", "updateMessage", "selectChat"}
               /\ req'[q].kind = "none" => req'[q].at = "none"
               /\ req'[q].kind = "submit" => req'[q].at \in {"updateMessage", "fetch", "done", "lost"}
    <3>1. CASE q \in InFlight
      <4>1. req[q].kind # "none"
        BY <1>0, <3>1 DEF InFlight
      <4>2. req'[q] = [kind |-> req[q].kind, at |-> "lost", arg |-> req[q].arg, ans |-> Nothing]
        BY <1>3, <3>1
      <4>3. req'[q].at = "lost" /\ req'[q].kind = req[q].kind
        BY <4>2
      <4> QED BY <4>1, <4>3
    <3>2. CASE q \notin InFlight
      BY <1>0, <1>4, <3>2 DEF WarlogInv, Asked
    <3> QED BY <3>1, <3>2
  <2> QED BY <1>5, <2>1 DEF Asked
<1>8. \A q \in Requests : /\ req'[q].kind = req[q].kind /\ req'[q].arg = req[q].arg
                          /\ req'[q].at \in {req[q].at, "lost"}
  <2> TAKE q \in Requests
  <2>1. CASE q \in InFlight
    <3>1. req'[q] = [kind |-> req[q].kind, at |-> "lost", arg |-> req[q].arg, ans |-> Nothing]
      BY <1>3, <2>1
    <3> QED BY <3>1
  <2>2. CASE q \notin InFlight
    BY <1>4, <2>2
  <2> QED BY <2>1, <2>2
<1>9. Rows'
  BY <1>8 DEF Rows
<1>10. OnItsWay'
  BY <1>6, <1>8 DEF WarlogInv, OnItsWay
<1>11. Logged' /\ Indexed'
  BY <1>6, LogKept DEF WarlogInv, Indexed
<1>12. Promised'
  <2> SUFFICES ASSUME NEW q \in Requests, req'[q].kind = "submit", req'[q].at \in {"fetch", "done"},
                      req'[q].ans = Code(200), url # "none"
               PROVE  post[q] # "none"
    BY <1>6 DEF Promised, Code
  <2>1. q \notin InFlight
    <3> SUFFICES ASSUME q \in InFlight PROVE FALSE
      OBVIOUS
    <3>1. req'[q] = [kind |-> req[q].kind, at |-> "lost", arg |-> req[q].arg, ans |-> Nothing]
      BY <1>3
    <3> QED BY <3>1
  <2> QED BY <1>4, <2>1 DEF WarlogInv, Promised
<1> QED BY <1>7, <1>9, <1>10, <1>11, <1>12 DEF WarlogInv

\* What warlog-svc does.
LEMMA StoreKeeps == ASSUME WarlogInv, NEW r \in Requests, StoreEntry(r) PROVE WarlogInv'
<1> DEFINE new == [by |-> r, msg |-> req[r].arg.msg]
<1>1. /\ post[r] = "sent" /\ UNCHANGED <<req, messages, url, index>>
      /\ \/ /\ entries' = Append(entries, new)
            /\ post' = [post EXCEPT ![r] = IF client THEN "stored" ELSE "201"]
            /\ blind' = IF client THEN blind ELSE blind \cup {r}
         \/ UNCHANGED <<entries, blind>> /\ post' = [post EXCEPT ![r] = "500"]
  BY DEF StoreEntry, Reached, clientVars
<1>2. new \in [by : Requests, msg : Requests] /\ messages[new.msg] = "submitted"
  BY <1>1 DEF WarlogInv, OnItsWay
<1>3. post \in [Requests -> {"none", "sent", "stored", "201", "500", "lost"}]
  BY DEF WarlogInv, OnItsWay
<1>4. Asked' /\ Rows' /\ Promised'
  BY <1>1, <1>3 DEF WarlogInv, Asked, Rows, Promised, Fields
<1>5. OnItsWay'
  BY <1>1, <1>3 DEF WarlogInv, OnItsWay
<1>6. entries \in Seq([by : Requests, msg : Requests])
  BY DEF WarlogInv, Logged
<1>7. new.by = r /\ \A e \in DOMAIN entries : entries[e].by # r
  BY <1>1 DEF WarlogInv, Indexed
<1> HIDE DEF new
<1>8. CASE /\ entries' = Append(entries, new)
           /\ post' = [post EXCEPT ![r] = IF client THEN "stored" ELSE "201"]
           /\ blind' = IF client THEN blind ELSE blind \cup {r}
  <2>1. /\ entries' \in Seq([by : Requests, msg : Requests])
        /\ DOMAIN entries' = DOMAIN entries \cup {Len(entries) + 1}
        /\ \A e \in DOMAIN entries : entries'[e] = entries[e]
        /\ entries'[Len(entries) + 1] = new
    BY <1>2, <1>6, <1>8
  <2>2. Logged'
    BY <1>1, <1>2, <2>1 DEF WarlogInv, Logged
  <2>3. /\ post'[r] \in {"stored", "201"} /\ (post'[r] = "201" => r \in blind')
        /\ \A q \in Requests : q # r => post'[q] = post[q] /\ (q \notin blind' => q \notin blind)
    BY <1>3, <1>8
  <2>4. \A e, f \in DOMAIN entries' : entries'[e].by = entries'[f].by => e = f
    BY <1>7, <2>1 DEF WarlogInv, Indexed
  <2>5. \A q \in Requests : post'[q] \in {"none", "sent"} => \A e \in DOMAIN entries' : entries'[e].by # q
    BY <1>7, <2>1, <2>3 DEF WarlogInv, Indexed
  <2>6. \A q \in Requests :
          /\ post'[q] \in {"stored", "201"} => \E e \in DOMAIN entries' : entries'[e].by = q
          /\ post'[q] = "201" /\ q \notin blind' => \E e \in index : entries'[e].by = q
    BY <1>7, <2>1, <2>3 DEF WarlogInv, Indexed
  <2>7. Indexed'
    BY <1>1, <2>1, <2>4, <2>5, <2>6 DEF WarlogInv, Indexed
  <2> QED BY <1>4, <1>5, <2>2, <2>7 DEF WarlogInv
<1>9. CASE UNCHANGED <<entries, blind>> /\ post' = [post EXCEPT ![r] = "500"]
  <2>1. Logged' /\ Indexed'
    BY <1>1, <1>3, <1>9, LogKept DEF WarlogInv, Indexed
  <2> QED BY <1>4, <1>5, <2>1 DEF WarlogInv
<1> QED BY <1>1, <1>8, <1>9

LEMMA UnreachedKeeps == ASSUME WarlogInv, NEW r \in Requests, Unreached(r) PROVE WarlogInv'
<1>1. /\ post[r] = "sent" /\ post' = [post EXCEPT ![r] = "lost"]
      /\ UNCHANGED <<req, messages, url, entries, index, blind>>
  BY DEF Unreached, Reached, clientVars
<1>2. post \in [Requests -> {"none", "sent", "stored", "201", "500", "lost"}]
  BY DEF WarlogInv, OnItsWay
<1>3. Asked' /\ Rows' /\ OnItsWay' /\ Promised'
  BY <1>1, <1>2 DEF WarlogInv, Asked, Rows, OnItsWay, Promised, Fields
<1>4. Logged' /\ Indexed'
  BY <1>1, <1>2, LogKept DEF WarlogInv, Indexed
<1> QED BY <1>3, <1>4 DEF WarlogInv

LEMMA EntryIs ==
  ASSUME WarlogInv, NEW r \in Requests, post[r] = "stored"
  PROVE  EntryOf(r) \in DOMAIN entries /\ entries[EntryOf(r)].by = r
BY DEF WarlogInv, Indexed, EntryOf

LEMMA IndexKeeps == ASSUME WarlogInv, NEW r \in Requests, IndexEntry(r) PROVE WarlogInv'
<1>1. /\ post[r] = "stored" /\ UNCHANGED <<req, messages, url, entries, blind>>
      /\ \/ index' = index \cup {EntryOf(r)} /\ post' = [post EXCEPT ![r] = "201"]
         \/ index' \in {index, index \cup {EntryOf(r)}} /\ post' = [post EXCEPT ![r] = "500"]
  BY DEF IndexEntry, Reached, clientVars
<1>2. EntryOf(r) \in DOMAIN entries /\ entries[EntryOf(r)].by = r
  BY <1>1, EntryIs
<1>3. post \in [Requests -> {"none", "sent", "stored", "201", "500", "lost"}]
  BY DEF WarlogInv, OnItsWay
<1>4. Asked' /\ Rows' /\ Promised'
  BY <1>1, <1>3 DEF WarlogInv, Asked, Rows, Promised, Fields
<1>5. OnItsWay'
  BY <1>1, <1>3 DEF WarlogInv, OnItsWay
<1>6. Logged'
  BY <1>1, LogKept DEF WarlogInv
<1>7. Indexed'
  BY <1>1, <1>2, <1>3 DEF WarlogInv, Indexed
<1> QED BY <1>4, <1>5, <1>6, <1>7 DEF WarlogInv

LEMMA ServiceKeeps ==
  ASSUME WarlogInv, ServiceStarts \/ TableReady \/ OpenSearchAnswers \/ ServiceEnds PROVE WarlogInv'
<1>1. ASSUME UNCHANGED <<clientVars, messages, url, post, entries, index, blind>> PROVE WarlogInv'
  BY <1>1 DEF clientVars, WarlogInv, Asked, Rows, OnItsWay, Promised, Logged, Indexed, Fields
<1>2. CASE ServiceEnds
  <2>1. PICK late \in SUBSET {r \in Requests : post[r] = "stored"} :
          index' = index \cup {EntryOf(r) : r \in late}
    BY <1>2 DEF ServiceEnds
  <2>2. UNCHANGED <<req, messages, url, entries, blind>>
    BY <1>2 DEF ServiceEnds, clientVars
  <2>3. post \in [Requests -> {"none", "sent", "stored", "201", "500", "lost"}]
    BY DEF WarlogInv, OnItsWay
  <2>4. \A r \in Requests : post'[r] = IF post[r] \in {"sent", "stored"} THEN "lost" ELSE post[r]
    BY <1>2 DEF ServiceEnds
  <2>5. post' \in [Requests -> {"none", "sent", "stored", "201", "500", "lost"}]
    BY <1>2, <2>3 DEF ServiceEnds
  <2>6. index' \subseteq DOMAIN entries /\ index \subseteq index'
    BY <2>1, EntryIs DEF WarlogInv, Indexed
  <2>7. Asked' /\ Rows' /\ Promised'
    BY <2>2, <2>4 DEF WarlogInv, Asked, Rows, Promised, Fields
  <2>8. OnItsWay'
    BY <2>2, <2>4, <2>5 DEF WarlogInv, OnItsWay
  <2>9. Logged'
    BY <2>2, LogKept DEF WarlogInv
  <2>10. Indexed'
    BY <2>2, <2>4, <2>6 DEF WarlogInv, Indexed
  <2> QED BY <2>7, <2>8, <2>9, <2>10 DEF WarlogInv
<1> QED BY <1>1, <1>2 DEF ServiceStarts, TableReady, OpenSearchAnswers

LEMMA SubmissionsKeep == ASSUME WarlogInv, SubmitNext PROVE WarlogInv'
<1> SUFFICES ASSUME ~(ServiceStarts \/ TableReady \/ OpenSearchAnswers \/ ServiceEnds) PROVE WarlogInv'
  BY ServiceKeeps
<1>1. PICK r \in Requests :
        \/ Draft(r) \/ SaveDraft(r) \/ SubmitMessage(r) \/ FetchSettles(r)
        \/ Unreached(r) \/ StoreEntry(r) \/ IndexEntry(r)
        \/ \E m \in {k \in Requests : messages[k] # "none"} \cup {r} : Submit(r, m)
  BY DEF SubmitNext
<1>2. /\ messages \in [Requests -> {"none", "draft", "submitted"}]
      /\ \A q \in Requests : messages[q] # "none" => req[q].kind = "draft"
  BY DEF WarlogInv, Rows
<1>3. Asked
  BY DEF WarlogInv
<1>4. req[r].at # "none" => req[r].kind # "none"
  BY <1>3 DEF Asked
<1>5. ASSUME NEW k, NEW first, NEW arg, Begin(r, k, first, arg) PROVE messages[r] = "none" /\ post[r] = "none"
  <2>1. req[r].kind = "none"
    BY <1>5 DEF Begin
  <2> QED BY <2>1 DEF WarlogInv, Rows, OnItsWay
<1>6. CASE Draft(r)
  <2>1. Begin(r, "draft", "insertDraft", Nothing) /\ UNCHANGED submitVars
    BY <1>6 DEF Draft
  <2>2. Whole(r, "draft", "insertDraft", Nothing, Nothing)
    BY <2>1 DEF Begin, Whole
  <2> QED BY <1>5, <2>1, <2>2, MoveKeeps
<1>7. CASE SaveDraft(r)
  <2>1. /\ req[r].at = "insertDraft" /\ messages' = [messages EXCEPT ![r] = "draft"]
        /\ Finish(r, Code(201)) /\ UNCHANGED warlogVars
    BY <1>7 DEF SaveDraft, DraftRow, Runs
  <2>2. req[r].kind = "draft" /\ messages[r] = "none"
    BY <2>1 DEF WarlogInv, Asked
  <2>3. post[r] = "none"
    BY <2>1 DEF WarlogInv, OnItsWay
  <2>4. Three(r, "done", Nothing, Code(201))
    BY <2>1 DEF Finish, Three
  <2>5. Whole(r, "draft", "done", Nothing, Code(201))
    BY <1>3, <2>2, <2>4, SetThree
  <2>6. UNCHANGED <<post, url, entries, index, blind>>
    BY <2>1 DEF warlogVars
  <2> QED BY <1>2, <2>1, <2>2, <2>3, <2>5, <2>6, StepKeeps
<1>8. CASE SubmitMessage(r)
  <2> DEFINE m == req[r].arg.msg
  <2>1. /\ req[r].at = "updateMessage"
        /\ messages' = IF messages[m] = "none" THEN messages ELSE [messages EXCEPT ![m] = "submitted"]
        /\ UNCHANGED <<url, entries, index, blind>>
    BY <1>8 DEF SubmitMessage, MessageRow, Runs
  <2>2. m \in Requests /\ post[r] = "none" /\ req[r].kind = "submit"
    BY <1>4, <2>1 DEF WarlogInv, Asked, OnItsWay
  <2>3. /\ messages' \in [Requests -> {"none", "draft", "submitted"}]
        /\ \A q \in Requests : messages[q] = "submitted" => messages'[q] = "submitted"
        /\ \A q \in Requests : messages[q] = "none" => messages'[q] = "none"
        /\ messages[m] # "none" => messages'[m] = "submitted"
    BY <1>2, <2>1, <2>2
  <2>4. messages'[r] # "none" => req[r].kind = "draft"
    BY <1>2, <2>3
  <2> HIDE DEF m
  <2>5. CASE Leave(r, "fetch", Code(200)) /\ messages[m] # "none" /\ post' = [post EXCEPT ![r] = "sent"]
    <3>1. Two(r, "fetch", Code(200))
      BY <2>5 DEF Leave, Two
    <3>2. Whole(r, req[r].kind, "fetch", req[r].arg, Code(200))
      BY <1>3, <3>1, SetTwo
    <3>3. req[r].arg.msg \in Requests /\ messages'[req[r].arg.msg] = "submitted"
      BY <2>2, <2>3, <2>5 DEF m
    <3>4. "fetch" \in {"insertDraft", "updateMessage", "fetch", "done"} \ {"insertDraft", "updateMessage"}
      OBVIOUS
    <3>5. post'[r] = "sent"
      BY <2>5 DEF WarlogInv, OnItsWay
    <3> QED BY <2>1, <2>2, <2>3, <2>4, <2>5, <3>2, <3>3, <3>4, <3>5, StepKeeps
  <2>6. ASSUME NEW code, Finish(r, code), UNCHANGED post, code = Code(200) => url = "none" PROVE WarlogInv'
    <3>1. Three(r, "done", Nothing, code)
      BY <2>6 DEF Finish, Three
    <3>2. Whole(r, req[r].kind, "done", Nothing, code)
      BY <1>3, <3>1, SetThree
    <3> QED BY <2>1, <2>2, <2>3, <2>4, <2>6, <3>2, StepKeeps
  <2>7. Code(404) # Code(200)
    BY [code |-> 404].code # [code |-> 200].code DEF Code
  <2> QED BY <1>8, <2>5, <2>6, <2>7 DEF SubmitMessage, m
<1>9. CASE FetchSettles(r)
  <2>1. req[r].at = "fetch" /\ One(r, "done") /\ UNCHANGED submitVars
    BY <1>9 DEF FetchSettles, One
  <2>2. Whole(r, req[r].kind, "done", req[r].arg, req[r].ans)
    BY <1>3, <2>1, SetAt
  <2>3. post[r] = "sent" => req[r].arg.msg \in Requests /\ messages[req[r].arg.msg] = "submitted"
    BY DEF WarlogInv, OnItsWay
  <2>4. UNCHANGED <<messages, post, url, entries, index, blind>>
    BY <2>1 DEF submitVars
  <2>5. post[r] # "none" => req[r].kind = "submit"
    BY <2>1 DEF WarlogInv, Asked, OnItsWay
  <2>6. req[r].kind = "submit" /\ req[r].ans = Code(200) /\ url # "none" => post[r] # "none"
    BY <2>1 DEF WarlogInv, Promised
  <2> QED BY <1>2, <1>4, <2>1, <2>2, <2>3, <2>4, <2>5, <2>6, StepKeeps
<1>10. CASE StoreEntry(r)
  BY <1>10, StoreKeeps
<1>13. CASE Unreached(r)
  BY <1>13, UnreachedKeeps
<1>11. CASE IndexEntry(r)
  BY <1>11, IndexKeeps
<1>12. ASSUME NEW m \in {k \in Requests : messages[k] # "none"} \cup {r}, Submit(r, m) PROVE WarlogInv'
  <2>1. Begin(r, "submit", "updateMessage", [msg |-> m]) /\ UNCHANGED submitVars
    BY <1>12 DEF Submit
  <2>2. Whole(r, "submit", "updateMessage", [msg |-> m], Nothing)
    BY <2>1 DEF Begin, Whole
  <2>3. [msg |-> m].msg \in Requests
    BY <1>12
  <2> QED BY <1>5, <2>1, <2>2, <2>3, MoveKeeps
<1> QED BY <1>1, <1>6, <1>7, <1>8, <1>9, <1>10, <1>11, <1>12, <1>13

LEMMA RoutesKeep == ASSUME WarlogInv, RoutesNext, UNCHANGED submitVars PROVE WarlogInv'
<1>1. PICK r \in Requests :
       \/ PostChat(r) \/ InsertChat(r) \/ PollChat(r) \/ SelectChat(r)
       \/ PostTask(r) \/ InsertTask(r) \/ PatchEmpty(r) \/ UpdateTask(r)
       \/ GetActivity(r) \/ ReadChat(r) \/ ReadWarlog(r) \/ ReadTasks(r)
       \/ \E id \in TaskRows \cup {r}, s \in Statuses : PatchTask(r, id, s)
  BY DEF RoutesNext
<1>2. CASE PostChat(r)
  BY <1>2, ArrivalKeeps DEF PostChat
<1>3. CASE InsertChat(r)
  BY <1>3, QueryKeeps DEF InsertChat, ChatRow, Between
<1>4. CASE PollChat(r)
  BY <1>4, ArrivalKeeps DEF PollChat
<1>5. CASE SelectChat(r)
  BY <1>5, ReleaseKeeps DEF SelectChat
<1>6. CASE PostTask(r)
  BY <1>6, ArrivalKeeps DEF PostTask
<1>7. CASE InsertTask(r)
  BY <1>7, QueryKeeps DEF InsertTask, TaskRow, Between
<1>8. CASE PatchEmpty(r)
  BY <1>8, RefusalKeeps DEF PatchEmpty
<1>9. CASE UpdateTask(r)
  BY <1>9, QueryKeeps DEF UpdateTask, PatchRow, Between
<1>10. CASE GetActivity(r)
  BY <1>10, ArrivalKeeps DEF GetActivity
<1>11. CASE ReadChat(r)
  BY <1>11, QueryKeeps DEF ReadChat, Between
<1>12. CASE ReadWarlog(r)
  BY <1>12, QueryKeeps DEF ReadWarlog, Between
<1>13. CASE ReadTasks(r)
  BY <1>13, QueryKeeps DEF ReadTasks, Between
<1>14. ASSUME NEW id, NEW s, PatchTask(r, id, s) PROVE WarlogInv'
  BY <1>14, ArrivalKeeps DEF PatchTask
<1> QED BY <1>1, <1>2, <1>3, <1>4, <1>5, <1>6, <1>7, <1>8, <1>9, <1>10, <1>11, <1>12, <1>13, <1>14

LEMMA SchedulesKeep == ASSUME WarlogInv, ScheduleNext, UNCHANGED submitVars PROVE WarlogInv'
<1>1. PICK r \in Requests :
    \/ \E s \in Inputs : CreateShift(r, s)
    \/ \E id \in Known(r), p \in Patches : UpdateShift(r, id, p)
    \/ \E id \in Known(r) : DeleteShift(r, id)
    \/ GetShift(r) \/ RosterExists(r) \/ FindConflict(r)
    \/ WriteShift(r) \/ WriteNothing(r) \/ RemoveShift(r) \/ QueryFails(r)
  BY DEF ScheduleNext
<1>2. ASSUME NEW s \in Inputs, CreateShift(r, s) PROVE WarlogInv'
  BY <1>2, ArrivalKeeps, RefusalKeeps DEF CreateShift
<1>3. ASSUME NEW id \in Known(r), NEW p \in Patches, UpdateShift(r, id, p) PROVE WarlogInv'
  BY <1>3, ArrivalKeeps DEF UpdateShift
<1>4. ASSUME NEW id \in Known(r), DeleteShift(r, id) PROVE WarlogInv'
  BY <1>4, ArrivalKeeps DEF DeleteShift
<1>5. CASE GetShift(r)
  BY <1>5, QueryKeeps DEF GetShift, Between
<1>6. CASE RosterExists(r)
  BY <1>6, QueryKeeps DEF RosterExists, Between
<1>7. CASE FindConflict(r)
  BY <1>7, QueryKeeps DEF FindConflict, Between
<1>8. CASE WriteShift(r)
  BY <1>8, QueryKeeps DEF WriteShift, WriteRow, Between
<1>9. CASE WriteNothing(r)
  BY <1>9, QueryKeeps DEF WriteNothing, Between
<1>10. CASE RemoveShift(r)
  BY <1>10, QueryKeeps DEF RemoveShift, DeleteRow, Between
<1>11. CASE QueryFails(r)
  BY <1>11, QueryKeeps DEF QueryFails, Between
<1> QED BY <1>1, <1>2, <1>3, <1>4, <1>5, <1>6, <1>7, <1>8, <1>9, <1>10, <1>11

LEMMA PermissionsKeep == ASSUME WarlogInv, PermissionNext, UNCHANGED submitVars PROVE WarlogInv'
<1>1. ASSUME UNCHANGED clientVars PROVE WarlogInv'
  BY <1>1 DEF clientVars, submitVars, WarlogInv, Asked, Rows, OnItsWay, Promised, Logged, Indexed, Fields
<1>2. ASSUME NEW r \in Requests, NEW p \in People,
             \/ GetEffectivePermissions(r, p) \/ GetPermissions(r, p)
             \/ PostAssignment(r, p) \/ DeleteAssignment(r, p) \/ PostRole(r, p)
      PROVE  WarlogInv'
  <2>1. ASSUME NEW k \in PermissionKinds, Ask(r, k, p) PROVE WarlogInv'
    BY <2>1, ArrivalKeeps DEF Ask, PermissionKinds
  <2> QED BY <1>2, <2>1 DEF GetEffectivePermissions, GetPermissions, PostAssignment,
                            DeleteAssignment, PostRole, PermissionKinds
<1>3. ASSUME NEW r \in Requests, FindOperation(r) PROVE WarlogInv'
  BY <1>3, QueryKeeps DEF FindOperation, Between
<1>4. ASSUME NEW r \in Requests, MyAssignments(r) PROVE WarlogInv'
  BY <1>4, QueryKeeps DEF MyAssignments, Between
<1>5. ASSUME NEW r \in Requests, Decide(r) PROVE WarlogInv'
  BY <1>5, QueryKeeps DEF Decide, Between
<1>6. ASSUME NEW p \in People, NEW role \in Ladder, AssignRole(p, role) PROVE WarlogInv'
  BY <1>1, <1>6 DEF AssignRole, clientVars
<1>7. ASSUME ClearAssignments PROVE WarlogInv'
  BY <1>1, <1>7 DEF ClearAssignments, clientVars
<1> QED BY <1>2, <1>3, <1>4, <1>5, <1>6, <1>7 DEF PermissionNext

LEMMA DeathKeeps == ASSUME WarlogInv, NEW ids, Die(ids), UNCHANGED submitVars PROVE WarlogInv'
<1>1. /\ messages \in [Requests -> {"none", "draft", "submitted"}]
      /\ \A m \in Requests : messages[m] # "none" => req[m].kind = "draft"
  BY DEF WarlogInv, Rows
<1> QED BY <1>1, DieKeeps DEF submitVars, warlogVars

LEMMA SubmitDeathKeeps == ASSUME WarlogInv, SubmitDie PROVE WarlogInv'
<1>1. /\ messages \in [Requests -> {"none", "draft", "submitted"}]
      /\ \A m \in Requests : messages[m] # "none" => req[m].kind = "draft"
  BY DEF WarlogInv, Rows
<1>2. PICK r \in Requests : (DraftRow(r) \/ MessageRow(r)) /\ Die({}) /\ UNCHANGED warlogVars
  BY DEF SubmitDie
<1>3. CASE DraftRow(r)
  <2>1. req[r].at = "insertDraft" /\ messages' = [messages EXCEPT ![r] = "draft"]
    BY <1>3 DEF DraftRow, Runs
  <2>2. req[r].kind = "draft" /\ messages[r] = "none"
    BY <2>1 DEF WarlogInv, Asked
  <2> QED BY <1>1, <1>2, <2>1, <2>2, DieKeeps
<1>4. CASE MessageRow(r)
  <2> DEFINE m == req[r].arg.msg
  <2>1. /\ req[r].at = "updateMessage"
        /\ messages' = IF messages[m] = "none" THEN messages ELSE [messages EXCEPT ![m] = "submitted"]
    BY <1>4 DEF MessageRow, Runs
  <2>2. m \in Requests
    BY <2>1 DEF WarlogInv, Asked
  <2> HIDE DEF m
  <2> QED BY <1>1, <1>2, <2>1, <2>2, DieKeeps
<1> QED BY <1>2, <1>3, <1>4

LEMMA WarlogInductive == SqlSpec => []WarlogInv
<1>1. SqlInit => WarlogInv
  <2> SUFFICES ASSUME SqlInit PROVE WarlogInv
    OBVIOUS
  <2>1. /\ req = [r \in Requests |-> [kind |-> "none", at |-> "none", arg |-> Nothing, ans |-> Nothing]]
        /\ messages = [r \in Requests |-> "none"] /\ post = [r \in Requests |-> "none"]
        /\ entries = <<>> /\ index = {}
    BY DEF SqlInit, ClientInit, SubmitInit, Blank
  <2>2. Asked
    BY <2>1 DEF Asked, Fields
  <2>3. Rows /\ OnItsWay /\ Promised /\ Logged /\ Indexed
    BY <2>1 DEF Rows, OnItsWay, Promised, Logged, Indexed
  <2> QED BY <2>2, <2>3 DEF WarlogInv
<1>2. ASSUME WarlogInv, [SqlNext]_<<clientVars, routeVars, submitVars, scheduleVars, permissionVars>>
      PROVE  WarlogInv'
  <2>1. CASE RoutesNext /\ UNCHANGED <<submitVars, scheduleVars, permissionVars>>
    BY <1>2, <2>1, RoutesKeep
  <2>2. CASE SubmitNext
    BY <1>2, <2>2, SubmissionsKeep
  <2>3. CASE ScheduleNext /\ UNCHANGED <<routeVars, submitVars, permissionVars>>
    BY <1>2, <2>3, SchedulesKeep
  <2>4. CASE PermissionNext /\ UNCHANGED <<routeVars, submitVars, scheduleVars>>
    BY <1>2, <2>4, PermissionsKeep
  <2>5. ASSUME NEW r \in Requests, Notify(r), UNCHANGED submitVars PROVE WarlogInv'
    <3>1. Runs(r, "notify")
      BY <2>5 DEF Notify
    <3> QED BY <1>2, <2>5, <3>1, QueryKeeps DEF Between
  <2>6. CASE Die({}) /\ UNCHANGED <<routeVars, submitVars, scheduleVars, permissionVars>>
    BY <1>2, <2>6, DeathKeeps
  <2>7. CASE RoutesDie /\ UNCHANGED <<submitVars, scheduleVars, permissionVars>>
    BY <1>2, <2>7, DeathKeeps DEF RoutesDie
  <2>8. CASE SubmitDie
    BY <1>2, <2>8, SubmitDeathKeeps
  <2>9. CASE ScheduleDie /\ UNCHANGED <<routeVars, submitVars, permissionVars>>
    BY <1>2, <2>9, DeathKeeps DEF ScheduleDie
  <2>10. CASE UNCHANGED <<clientVars, routeVars, submitVars, scheduleVars, permissionVars>>
    BY <1>2, <2>10 DEF clientVars, submitVars, WarlogInv, Asked, Rows, OnItsWay, Promised, Logged, Indexed, Fields
  <2> QED BY <1>2, <2>1, <2>2, <2>3, <2>4, <2>5, <2>6, <2>7, <2>8, <2>9, <2>10 DEF SqlNext
<1> QED BY <1>1, <1>2, PTL DEF SqlSpec

\* The war log holds submitted messages only, for every number of requests and deaths
\* and every interleaving of their queries.
THEOREM WarlogCorrect == SqlSpec => []WarlogOnlySubmitted
<1>1. WarlogInv => WarlogOnlySubmitted
  BY DEF WarlogInv, Logged, WarlogOnlySubmitted
<1> QED BY <1>1, WarlogInductive, PTL

\* No submit is logged twice, one answered 200 is not lost without a lost or refused
\* post, and what warlog-svc acknowledged is in the index unless it had no client then:
\* for every number of requests, deaths and starts of either process.
THEOREM EntriesCorrect == SqlSpec => []EntriesAccounted
<1>1. WarlogInv => EntriesAccounted
  <2> SUFFICES ASSUME WarlogInv PROVE EntriesAccounted
    OBVIOUS
  <2>1. post \in [Requests -> {"none", "sent", "stored", "201", "500", "lost"}]
    BY DEF WarlogInv, OnItsWay
  <2> QED BY <2>1 DEF WarlogInv, Promised, Indexed, EntriesAccounted
<1> QED BY <1>1, WarlogInductive, PTL
=============================================================================
