-------------------------- MODULE IncidentLifecycle --------------------------
(***************************************************************************)
(* What the event-sourced incident service promises of an incident: it is  *)
(* created once as a draft, collects messages, and can be submitted from   *)
(* draft only, for good.  (services/incident/src/domain/Incident.ts)       *)
(***************************************************************************)
CONSTANTS Ids, Messages

VARIABLES
  status, \* status[i]: "none" before creation
  posted  \* posted[i]: messages of the incident

lifecycleVars == <<status, posted>>

LifecycleInit ==
  /\ status = [i \in Ids |-> "none"]
  /\ posted = [i \in Ids |-> {}]

Create(i) ==
  /\ status[i] = "none"
  /\ status' = [status EXCEPT ![i] = "Draft"]
  /\ UNCHANGED posted

Post(i, m) ==
  /\ status[i] # "none"
  /\ m \notin posted[i]
  /\ posted' = [posted EXCEPT ![i] = @ \cup {m}]
  /\ UNCHANGED status

Submit(i) ==
  /\ status[i] = "Draft"
  /\ status' = [status EXCEPT ![i] = "Submitted"]
  /\ UNCHANGED posted

LifecycleNext == \E i \in Ids : Create(i) \/ Submit(i) \/ \E m \in Messages : Post(i, m)

LifecycleSpec == LifecycleInit /\ [][LifecycleNext]_lifecycleVars
=============================================================================
