---------------------------- MODULE Permissions ----------------------------
(***************************************************************************)
(* Who may do what in an operation: incident-svc, rbac/effective.ts and    *)
(* the routes on permissions in index.ts; services/rbac, a second          *)
(* implementation of the same rules.                                       *)
(*                                                                         *)
(* The routes hand effective() the rows of assignments as its grants and   *)
(* drop those of role_grants, a fourth argument; an assignment has no      *)
(* role.  They then look for READ and ASSIGN among its results.  What      *)
(* follows those checks cannot be reached and is not modelled.             *)
(***************************************************************************)
EXTENDS DbClient

CONSTANTS
  People,    \* upns, as pairs of whom they mean and how they are spelled
  OtherGroup \* an AD group of the operation that is not a read group

VARIABLES
  operation, \* there is a row for the operation
  groups,    \* the caller's AD groups of this operation, by suffix
  assigned,  \* people with a row in assignments
  grants,    \* operation_role_grants: each person's role, "none" without a row
  stored     \* services/rbac: role by lowercased upn

permissionVars == <<operation, groups, assigned, grants, stored>>

Lower(p) == p[1]  \* toLowerCase

Ladder == {"VIEWER", "EDITOR", "IMO", "ADMIN"}
Actions == {"READ", "WRITE", "ASSIGN", "ADMIN"}
Suffixes == {"READ", "VIEW", "ALL"}

PermissionInit ==
  /\ operation \in BOOLEAN
  /\ groups \in SUBSET {"READ", OtherGroup}
  /\ assigned \in SUBSET People
  /\ grants \in [People -> Ladder \cup {"none"}]
  /\ stored = [p \in {Lower(q) : q \in People} |-> "none"]

\* effective.ts
Escalate(role) ==
  CASE role = "ADMIN" -> Ladder
    [] role = "IMO" -> {"IMO", "EDITOR", "VIEWER"}
    [] role = "EDITOR" -> {"EDITOR", "VIEWER"}
    [] role = "VIEWER" -> {"VIEWER"}
    [] OTHER -> {}

Effective(upn, suffixes, rows) ==
  (IF suffixes \cap Suffixes # {} THEN Escalate("VIEWER") ELSE {})
  \cup UNION {Escalate(g.role) : g \in {x \in rows : x.upn = upn}}

Can(roles, action) ==
  CASE action = "READ" -> roles \cap Ladder # {}
    [] action = "WRITE" -> roles \cap {"EDITOR", "IMO", "ADMIN"} # {}
    [] action = "ASSIGN" -> roles \cap {"IMO", "ADMIN"} # {}
    [] action = "ADMIN" -> "ADMIN" \in roles

\* services/rbac/src/index.ts
Order == <<"VIEWER", "EDITOR", "IMO", "ADMIN">>
\* Seeded fault: only ADMIN assigns.
ActionMapStrict == [READ |-> {1, 2, 3, 4}, WRITE |-> {2, 3, 4}, ASSIGN |-> {4}, ADMIN |-> {4}]
ActionMap == [READ |-> {1, 2, 3, 4}, WRITE |-> {2, 3, 4}, ASSIGN |-> {3, 4}, ADMIN |-> {4}]

ComputeEffective(suffixes, grant) ==
  (IF suffixes \cap Suffixes # {} THEN {"VIEWER"} ELSE {}) \cup (IF grant = "none" THEN {} ELSE {grant})

\* Seeded fault: the first role found counts.
HighestFirst(roles) == Order[CHOOSE i \in 1..4 : Order[i] \in roles /\ \A j \in 1..4 : Order[j] \in roles => i <= j]

Highest(roles) ==
  Order[CHOOSE i \in 1..4 : /\ i = 1 \/ Order[i] \in roles
                            /\ \A j \in 1..4 : Order[j] \in roles => j <= i]

MapAllows(roles, action) == \E i \in ActionMap[action] : Order[i] \in roles

AssignRole(p, role) ==
  /\ "assignRole" \in workload
  /\ stored' = [stored EXCEPT ![Lower(p)] = role]
  /\ UNCHANGED <<clientVars, operation, groups, assigned, grants>>

ClearAssignments ==
  /\ "assignRole" \in workload
  /\ stored' = [p \in DOMAIN stored |-> "none"]
  /\ UNCHANGED <<clientVars, operation, groups, assigned, grants>>

----------------------------------------------------------------------------
\* GET permissions, POST and DELETE assignments, POST roles, GET
\* me/effective-permissions, of a caller: three reads, then the decision.

PermissionKinds == {"me", "permissions", "assign", "unassign", "grant"}

Needs(kind) == IF kind = "permissions" THEN "READ" ELSE "ASSIGN"

Ask(r, kind, caller) == Begin(r, kind, "operation", [upn |-> caller, rows |-> {}])
                        /\ UNCHANGED permissionVars

FindOperation(r) ==
  /\ Runs(r, "operation")
  /\ IF operation THEN Continue(r, "myAssign", req[r].arg, Nothing)
     ELSE Finish(r, IF req[r].kind = "me" THEN [roles |-> {}] ELSE Code(404))
  /\ UNCHANGED permissionVars

\* assignRes.rows: user_upn and active, no role.
MyAssignments(r) ==
  LET caller == req[r].arg.upn IN
  /\ Runs(r, "myAssign")
  /\ Continue(r, "myRoles", [upn |-> caller, rows |-> {[upn |-> p, role |-> "undefined"] :
                                                        p \in assigned \cap {caller}}], Nothing)
  /\ UNCHANGED permissionVars

Decide(r) ==
  LET perms == Effective(req[r].arg.upn, groups, req[r].arg.rows) IN
  /\ Runs(r, "myRoles")
  /\ IF req[r].kind = "me" THEN Finish(r, [roles |-> perms])
     ELSE Needs(req[r].kind) \notin perms /\ Leave(r, "done", Code(403)) \* the conjunct never fails
  /\ UNCHANGED permissionVars

\* The five routes.
GetEffectivePermissions(r, p) == Ask(r, "me", p)
GetPermissions(r, p) == Ask(r, "permissions", p)
PostAssignment(r, p) == Ask(r, "assign", p)
DeleteAssignment(r, p) == Ask(r, "unassign", p)
PostRole(r, p) == Ask(r, "grant", p)

PermissionNext ==
  \/ \E r \in Requests :
       \/ \E p \in People : \/ GetEffectivePermissions(r, p) \/ GetPermissions(r, p)
                            \/ PostAssignment(r, p) \/ DeleteAssignment(r, p) \/ PostRole(r, p)
       \/ FindOperation(r) \/ MyAssignments(r) \/ Decide(r)
  \/ \E p \in People, role \in Ladder : AssignRole(p, role)
  \/ ClearAssignments

----------------------------------------------------------------------------
GrantRows == {[upn |-> p, role |-> grants[p]] : p \in {q \in People : grants[q] # "none"}}

\* For a person with at most one grant, the two implementations allow the same
\* actions, though one names every lower role and the other does not.
RolesAgree ==
  \A p \in People, action \in Actions :
    Can(Effective(p, groups, GrantRows), action) = MapAllows(ComputeEffective(groups, grants[p]), action)

\* Whoever may do more may do less; the highest role decides alone.
HighestDecides ==
  \A p \in People :
    LET roles == ComputeEffective(groups, stored[Lower(p)]) IN
    roles # {} => \A action \in Actions :
      MapAllows(roles, action) = Can(Escalate(Highest(roles)), action)
=============================================================================
