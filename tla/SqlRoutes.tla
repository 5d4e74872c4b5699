----------------------------- MODULE SqlRoutes -----------------------------
(***************************************************************************)
(* The SQL routes of incident-svc on their shared client, under one mix of *)
(* requests per behaviour.                                                 *)
(***************************************************************************)
EXTENDS IncidentRoutes, Submissions, Schedule, Permissions

SqlInit ==
  /\ ClientInit /\ RoutesInit /\ SubmitInit /\ ScheduleInit /\ PermissionInit
  \* what no request of the mix looks at starts in one way only
  /\ workload \cap {"draft", "submit"} = {} => url = "none" /\ starts = 0
  /\ workload \cap PermissionKinds = {} => operation /\ assigned = {}
  /\ workload \cap (PermissionKinds \cup {"assignRole"}) = {} => groups = {}
  /\ "assignRole" \notin workload => grants = [p \in People |-> "none"]

SqlNext ==
  \/ RoutesNext /\ UNCHANGED <<submitVars, scheduleVars, permissionVars>>
  \/ SubmitNext /\ UNCHANGED <<routeVars, scheduleVars, permissionVars>>
  \/ ScheduleNext /\ UNCHANGED <<routeVars, submitVars, permissionVars>>
  \/ PermissionNext /\ UNCHANGED <<routeVars, submitVars, scheduleVars>>
  \/ (\E r \in Requests : Notify(r)) /\ UNCHANGED <<routeVars, submitVars, scheduleVars, permissionVars>>
  \/ Die({}) /\ UNCHANGED <<routeVars, submitVars, scheduleVars, permissionVars>>
  \/ RoutesDie /\ UNCHANGED <<submitVars, scheduleVars, permissionVars>>
  \/ SubmitDie /\ UNCHANGED <<routeVars, scheduleVars, permissionVars>>
  \/ ScheduleDie /\ UNCHANGED <<routeVars, submitVars, permissionVars>>

SqlSpec == SqlInit /\ [][SqlNext]_<<clientVars, routeVars, submitVars, scheduleVars, permissionVars>>

----------------------------------------------------------------------------
Queries == {"insertChat", "selectChat", "insertTask", "updateTask", "activityChat", "activityWarlog",
            "activityTasks", "insertDraft", "updateMessage", "getShift", "roster", "overlap", "write",
            "delete", "operation", "myAssign", "myRoles", "notify"}

\* Types; and a request waits in the client's queue, once, exactly while it waits
\* for a query.
SqlTypeOK ==
  /\ \A r \in Requests : req[r].at \in Queries \cup {"none", "fetch", "done", "lost"}
  /\ chat \in [Requests -> 0..now] /\ cursor \in 0..now
  /\ \A k \in Requests : tasks[k] = NoTask \/ tasks[k].status \in Statuses \cup {"open"}
  /\ messages \in [Requests -> {"none", "draft", "submitted"}]
  /\ shifts \in [Requests -> Shift \cup {NoShift}]
  /\ stored \in [{Lower(p) : p \in People} -> Ladder \cup {"none"}]
  /\ \A r \in Requests : Cardinality({n \in DOMAIN queue : queue[n] = r})
                           = IF req[r].at \in Queries THEN 1 ELSE 0
=============================================================================
