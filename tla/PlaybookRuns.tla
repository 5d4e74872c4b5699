---------------------------- MODULE PlaybookRuns ----------------------------
(***************************************************************************)
(* playbook-svc, routes.ts: playbooks of one incident, and their runs.     *)
(* Queries go through a pool, so those of two requests run in any order.   *)
(* A query that fails is a rejection nobody handles and ends the process.  *)
(* A playbook is named by the request that created it.  Names and texts    *)
(* are left out; so are the two GET routes, a read each.                   *)
(***************************************************************************)
EXTENDS Restarting

CONSTANTS PlaybookRequests, NoPlaybook

ASSUME PlaybookAssumption == NoPlaybook \notin PlaybookRequests

VARIABLES
  playbooks, runs,  \* the two tables: playbooks; runs by request
  notified,         \* the runs with a PLAYBOOK_NOTIFY that PostgreSQL accepted
  handler           \* of a request: at, and the playbook it is about

playbookVars == <<playbooks, runs, notified, handler>>

At(where, p) == [at |-> where, playbook |-> p]

PlaybookInit ==
  /\ playbooks = {} /\ runs = {} /\ notified = {}
  /\ handler = [r \in PlaybookRequests |-> At("none", NoPlaybook)]

Moves(r, from, to) == /\ handler[r].at = from
                      /\ handler' = [handler EXCEPT ![r].at = to]

\* canEditPlaybooks and CreateBody, or 403 and 400.
PostPlaybook(r) ==
  /\ Moves(r, "none", "insertPlaybook") \/ Moves(r, "none", "403") \/ Moves(r, "none", "400")
  /\ UNCHANGED <<playbooks, runs, notified, crashes>>

InsertPlaybook(r) ==
  /\ Moves(r, "insertPlaybook", "201")
  /\ playbooks' = playbooks \cup {r}
  /\ UNCHANGED <<runs, notified, crashes>>

RunPlaybook(r, p) ==
  /\ handler[r].at = "none"
  /\ \E at \in {"select", "403"} : handler' = [handler EXCEPT ![r] = At(at, p)]
  /\ UNCHANGED <<playbooks, runs, notified, crashes>>

\* The playbook, then the body.
SelectPlaybook(r) ==
  /\ IF handler[r].playbook \in playbooks THEN Moves(r, "select", "notify") \/ Moves(r, "select", "400")
     ELSE Moves(r, "select", "404")
  /\ UNCHANGED <<playbooks, runs, notified, crashes>>

\* Seeded fault: a NOTIFY that fails is ignored, as incident-svc does.
NotifyRunTried(r) ==
  /\ Moves(r, "notify", "insertRun")
  /\ notified' \in {notified, notified \cup {r}}
  /\ UNCHANGED <<playbooks, runs, crashes>>

NotifyRun(r) ==
  /\ Moves(r, "notify", "insertRun")
  /\ notified' = notified \cup {r}
  /\ UNCHANGED <<playbooks, runs, crashes>>

InsertRun(r) ==
  /\ Moves(r, "insertRun", "200")
  /\ runs' = runs \cup {r}
  /\ UNCHANGED <<playbooks, notified, crashes>>

Queries == {"insertPlaybook", "select", "notify", "insertRun"}

PlaybookCrash ==
  /\ Crash
  /\ handler' = [r \in PlaybookRequests |->
                   IF handler[r].at \in Queries THEN [handler[r] EXCEPT !.at = "lost"] ELSE handler[r]]
  /\ UNCHANGED <<playbooks, runs, notified>>

PlaybookNext ==
  \/ \E r \in PlaybookRequests :
       \/ PostPlaybook(r) \/ InsertPlaybook(r)
       \/ \E p \in playbooks \cup {r} : RunPlaybook(r, p)  \* r: no such playbook
       \/ SelectPlaybook(r) \/ NotifyRun(r) \/ InsertRun(r)
  \/ PlaybookCrash

----------------------------------------------------------------------------
\* A run on record was announced, and one that was answered is on record; nobody
\* hears of a refused one.  (A run that was announced may be on no record.)
RunsAccounted ==
  \A r \in PlaybookRequests :
    /\ r \in runs => r \in notified /\ handler[r].playbook \in playbooks
    /\ handler[r].at = "200" => r \in runs
    /\ r \in notified => handler[r].at \in {"insertRun", "200", "lost"}
=============================================================================
