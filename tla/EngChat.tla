------------------------------ MODULE EngChat ------------------------------
(***************************************************************************)
(* eng-svc: instances of one organisation pass chat messages to each other *)
(* over NATS (external: at most once, in order from one connection to      *)
(* another) and keep them in a table they share.   A message is named by   *)
(* its number in the order of the POSTs; senders and texts are left out.   *)
(***************************************************************************)
EXTENDS Restarting, Sequences

CONSTANTS
  Instances,
  MaxPosts  \* bound

ASSUME EngAssumption == MaxPosts \in Nat

VARIABLES
  posted,  \* number of messages
  nats,    \* instances with a connection (nc)
  way,     \* way[i][j]: published by i, not yet taken from j's subscription
  socket,  \* wsClients of each instance: is there one
  live,    \* what the client of each instance saw, with the sender
  storing, \* INSERTs under way, by instance and message
  table    \* eng_messages

engVars == <<posted, nats, way, socket, live, storing, table>>

EngInit ==
  /\ posted = 0 /\ nats = {} /\ storing = {} /\ table = {}
  /\ way = [i \in Instances |-> [j \in Instances |-> <<>>]]
  /\ socket = [i \in Instances |-> FALSE]
  /\ live = [i \in Instances |-> <<>>]

ConnectNats(i) ==
  /\ i \notin nats
  /\ nats' = nats \cup {i}
  /\ UNCHANGED <<posted, way, socket, live, storing, table, crashes>>

OpenSocket(i) ==
  /\ ~socket[i]
  /\ socket' = [socket EXCEPT ![i] = TRUE]
  /\ UNCHANGED <<posted, nats, way, live, storing, table, crashes>>

CloseSocket(i) ==
  /\ socket[i]
  /\ socket' = [socket EXCEPT ![i] = FALSE]
  /\ UNCHANGED <<posted, nats, way, live, storing, table, crashes>>

\* Seeded fault: published again when it is stored.
InsertPublishing(i, m) ==
  /\ storing' = storing \ {<<i, m>>}
  /\ table' = table \cup {m}
  /\ way' = [way EXCEPT ![i] = [j \in Instances |-> IF {i, j} \subseteq nats THEN Append(@[j], m) ELSE @[j]]]
  /\ UNCHANGED <<posted, nats, socket, live, crashes>>

\* POST, past authenticate and messageSchema: published, if there is a connection;
\* then the INSERT is sent.
PostMessage(i) ==
  /\ posted < MaxPosts
  /\ posted' = posted + 1
  /\ way' = [way EXCEPT ![i] = [j \in Instances |->
               IF {i, j} \subseteq nats THEN Append(@[j], posted + 1) ELSE @[j]]]
  /\ storing' = storing \cup {<<i, posted + 1>>}
  /\ UNCHANGED <<nats, socket, live, table, crashes>>

\* The INSERT; a failure is swallowed.  Either way the answer is ok.
InsertMessage(i, m) ==
  /\ storing' = storing \ {<<i, m>>}
  /\ table' \in {table, table \cup {m}}
  /\ UNCHANGED <<posted, nats, way, socket, live, crashes>>

TakeMessage(i, j) ==
  /\ way[i][j] # <<>>
  /\ way' = [way EXCEPT ![i][j] = Tail(@)]
  /\ live' = IF socket[j] THEN [live EXCEPT ![j] = Append(@, <<i, Head(way[i][j])>>)] ELSE live
  /\ UNCHANGED <<posted, nats, socket, storing, table, crashes>>

\* The DELETE of every hour, of whatever is old by then.
Retain(old) ==
  /\ table' = table \ 1..old
  /\ UNCHANGED <<posted, nats, way, socket, live, storing, crashes>>

\* An instance ends, with its connection, its sockets and what was on the way to it.
EngCrash(i) ==
  /\ Crash
  /\ nats' = nats \ {i}
  /\ socket' = [socket EXCEPT ![i] = FALSE]
  /\ way' = [j \in Instances |-> [way[j] EXCEPT ![i] = <<>>]]
  /\ UNCHANGED <<posted, live, storing, table>>

EngNext ==
  \/ \E i \in Instances :
       \/ ConnectNats(i) \/ OpenSocket(i) \/ CloseSocket(i) \/ PostMessage(i) \/ EngCrash(i)
       \/ \E j \in Instances : TakeMessage(i, j)
  \/ \E s \in storing : InsertMessage(s[1], s[2])
  \/ \E old \in table : Retain(old)

----------------------------------------------------------------------------
\* Through reconnections and restarts, a client sees the messages of one instance in
\* the order they were posted, each once.
LiveInOrder ==
  \A j \in Instances : \A a, b \in DOMAIN live[j] :
    a < b /\ live[j][a][1] = live[j][b][1] => live[j][a][2] < live[j][b][2]
=============================================================================
