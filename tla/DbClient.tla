------------------------------ MODULE DbClient ------------------------------
(***************************************************************************)
(* The one PostgreSQL client (dbClient) that all requests of an            *)
(* incident-svc process share.  It sends one query at a time, in the order *)
(* they were issued, and a result lets its handler run to its next await   *)
(* before the next query is sent: a handler is split at its queries and    *)
(* nowhere else.  A query that fails rejects; except around NOTIFY nothing *)
(* catches that and Node ends the process (Die).                           *)
(*                                                                         *)
(* A row is named by the request that inserted it (randomUUID).            *)
(***************************************************************************)
EXTENDS Naturals, Sequences, FiniteSets

CONSTANTS
  Requests,   \* bound: requests in all
  Workloads,  \* the mixes of requests looked at, as sets of kinds
  MaxDeaths,  \* bound: how often the process ends
  Nothing     \* no argument, no answer

ASSUME ClientAssumption == IsFiniteSet(Requests)

VARIABLES
  queue,    \* queries issued and not yet run, by their requests
  req,      \* req[r]: kind, the query it waits for, what it was given, its answer
  workload, \* the mix of this behaviour
  deaths,
  notices,  \* NOTIFY tactix_events, as PostgreSQL accepted them
  missed,   \* history: rows with a notice that was lost
  met       \* history: the requests that were in flight together

clientVars == <<queue, req, workload, deaths, notices, missed, met>>

Blank == [kind |-> "none", at |-> "none", arg |-> Nothing, ans |-> Nothing]

Code(n) == [code |-> n]

InFlight == {r \in Requests : req[r].at \notin {"none", "done", "lost"}}

ClientInit ==
  /\ queue = <<>>
  /\ req = [r \in Requests |-> Blank]
  /\ workload \in Workloads
  /\ deaths = 0
  /\ notices = <<>>
  /\ missed = {}
  /\ met = {}

\* A request of kind k arrives; its handler runs up to its first query.
Begin(r, k, first, arg) ==
  /\ req[r].kind = "none" /\ k \in workload
  /\ req' = [req EXCEPT ![r] = [kind |-> k, at |-> first, arg |-> arg, ans |-> Nothing]]
  /\ queue' = Append(queue, r)
  /\ met' = met \cup {{r, q} : q \in InFlight}
  /\ UNCHANGED <<workload, deaths, notices, missed>>

\* It is answered before any query.
Refuse(r, k, arg, ans) ==
  /\ req[r].kind = "none" /\ k \in workload
  /\ req' = [req EXCEPT ![r] = [kind |-> k, at |-> "done", arg |-> arg, ans |-> ans]]
  /\ UNCHANGED <<queue, workload, deaths, notices, missed, met>>

\* r's query of this name is the one PostgreSQL runs now.
Runs(r, query) == queue # <<>> /\ Head(queue) = r /\ req[r].at = query

\* Seeded fault: the query that ran stays in the queue.
ContinueKept(r, next, arg, ans) ==
  /\ req' = [req EXCEPT ![r].at = next, ![r].arg = arg, ![r].ans = ans]
  /\ queue' = Append(queue, r)
  /\ UNCHANGED <<workload, deaths, notices, missed, met>>

Continue(r, next, arg, ans) ==
  /\ req' = [req EXCEPT ![r].at = next, ![r].arg = arg, ![r].ans = ans]
  /\ queue' = Append(Tail(queue), r)
  /\ UNCHANGED <<workload, deaths, notices, missed, met>>

\* The handler goes on without the client, or answers.
Leave(r, next, ans) ==
  /\ req' = [req EXCEPT ![r].at = next, ![r].ans = ans]
  /\ queue' = Tail(queue)
  /\ UNCHANGED <<workload, deaths, notices, missed, met>>

Finish(r, ans) ==
  /\ req' = [req EXCEPT ![r].at = "done", ![r].arg = Nothing, ![r].ans = ans]
  /\ queue' = Tail(queue)
  /\ UNCHANGED <<workload, deaths, notices, missed, met>>

\* Answered, and its slot free for another request.
Release(r) ==
  /\ req' = [req EXCEPT ![r] = Blank]
  /\ queue' = Tail(queue)
  /\ UNCHANGED <<workload, deaths, notices, missed, met>>

\* The NOTIFY at the end of a write route: its failure is swallowed.
Notify(r) ==
  /\ Runs(r, "notify")
  /\ req' = [req EXCEPT ![r].at = "done", ![r].arg = Nothing, ![r].ans = Code(200)]
  /\ queue' = Tail(queue)
  /\ \/ notices' = Append(notices, req[r].ans) /\ UNCHANGED missed
     \/ missed' = missed \cup {req[r].ans.id} /\ UNCHANGED notices
  /\ UNCHANGED <<workload, deaths, met>>

\* The process ends, on a rejection nobody handles or otherwise.  The last query
\* sent may have been run; ids are the rows it changed.
Die(ids) ==
  /\ InFlight # {} /\ deaths < MaxDeaths
  /\ deaths' = deaths + 1
  /\ req' = [r \in Requests |-> IF r \in InFlight THEN [req[r] EXCEPT !.at = "lost", !.ans = Nothing]
                               ELSE req[r]]
  /\ queue' = <<>>
  /\ missed' = missed \cup ids \cup {req[r].ans.id : r \in {q \in InFlight : req[q].at = "notify"}}
  /\ UNCHANGED <<workload, notices, met>>

NoticesOf(id) == {n \in DOMAIN notices : notices[n].id = id}
\* What somebody who follows the notices believes of a row.
Believed(id) == notices[CHOOSE n \in NoticesOf(id) : \A m \in NoticesOf(id) : m <= n]
\* Every change of the row has been told.
Told(id) == /\ id \notin missed
            /\ \A r \in InFlight : req[r].at = "notify" => req[r].ans.id # id
=============================================================================
