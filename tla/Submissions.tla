---------------------------- MODULE Submissions ----------------------------
(***************************************************************************)
(* Messages of an incident (incident-svc, incidents/messages.ts, warlog.ts)*)
(* and the war log they end up in (warlog-svc/index.js), a table with a    *)
(* search index beside it.  Authors and contents are left out, and so are  *)
(* the GETs of warlog-svc, which change nothing.                           *)
(***************************************************************************)
EXTENDS DbClient

CONSTANT MaxStarts \* bound: how often warlog-svc is started

VARIABLES
  messages, \* the table: status of each row, "none" where there is none
  url,      \* WARLOG_URL
  service,  \* warlog-svc: ended, or how far init() has come
  client,   \* osClient is not null
  starts,   \* how often warlog-svc will yet be started
  post,     \* post[r]: r's POST /entries at warlog-svc
  entries,  \* the table warlog
  index,    \* the rows in the search index
  blind     \* history: requests whose row came back when osClient was null

serviceVars == <<service, client, starts>>
submitVars == <<messages, url, serviceVars, post, entries, index, blind>>
warlogVars == <<url, serviceVars, post, entries, index, blind>>

SubmitInit ==
  /\ messages = [r \in Requests |-> "none"]
  /\ url \in {"none", "warlog"}
  /\ service = "ended" /\ client = FALSE /\ starts \in 0..MaxStarts
  /\ post = [r \in Requests |-> "none"]
  /\ entries = <<>>
  /\ index = {} /\ blind = {}

Draft(r) == Begin(r, "draft", "insertDraft", Nothing) /\ UNCHANGED submitVars

DraftRow(r) == Runs(r, "insertDraft") /\ messages' = [messages EXCEPT ![r] = "draft"]

SaveDraft(r) == DraftRow(r) /\ Finish(r, Code(201)) /\ UNCHANGED warlogVars

Submit(r, m) == Begin(r, "submit", "updateMessage", [msg |-> m]) /\ UNCHANGED submitVars

MessageRow(r) ==
  LET m == req[r].arg.msg IN
  /\ Runs(r, "updateMessage")
  /\ messages' = IF messages[m] = "none" THEN messages ELSE [messages EXCEPT ![m] = "submitted"]

\* Seeded fault: logged although no row was updated.
SubmitUnfound(r) ==
  /\ MessageRow(r)
  /\ IF url # "none"
     THEN Leave(r, "fetch", Code(200)) /\ post' = [post EXCEPT ![r] = "sent"]
     ELSE Finish(r, Code(200)) /\ UNCHANGED post
  /\ UNCHANGED <<url, serviceVars, entries, index, blind>>

\* submitMessage: whatever the status was; then logWarlog, if there is a row and a URL.
SubmitMessage(r) ==
  LET found == messages[req[r].arg.msg] # "none" IN
  /\ MessageRow(r)
  /\ IF found /\ url # "none"
     THEN Leave(r, "fetch", Code(200)) /\ post' = [post EXCEPT ![r] = "sent"]
     ELSE Finish(r, Code(IF found THEN 200 ELSE 404)) /\ UNCHANGED post
  /\ UNCHANGED <<url, serviceVars, entries, index, blind>>

\* The fetch settles: with an answer, of any status, or with an error; possibly
\* while warlog-svc is still at work.
FetchSettles(r) ==
  /\ req[r].at = "fetch"
  /\ req' = [req EXCEPT ![r].at = "done"]
  /\ UNCHANGED <<queue, workload, deaths, notices, missed, met, submitVars>>

----------------------------------------------------------------------------
\* warlog-svc listens at once; init() goes on beside it: CREATE TABLE, then the
\* client, which a failing ping or index creation takes away again.

ServiceStarts ==
  /\ service = "ended" /\ starts > 0
  /\ service' = "creating" /\ client' = FALSE /\ starts' = starts - 1
  /\ UNCHANGED <<clientVars, messages, url, post, entries, index, blind>>

TableReady ==
  /\ service = "creating"
  /\ service' = "reaching" /\ client' = TRUE
  /\ UNCHANGED <<clientVars, messages, url, starts, post, entries, index, blind>>

OpenSearchAnswers ==
  /\ service = "reaching"
  /\ service' = "ready" /\ client' \in BOOLEAN
  /\ UNCHANGED <<clientVars, messages, url, starts, post, entries, index, blind>>

EntryOf(r) == CHOOSE e \in DOMAIN entries : entries[e].by = r

\* process.exit when CREATE TABLE fails, or any other end.  Of the requests it was at
\* work on no answer comes; what it had sent to the index may still get there.
ServiceEnds ==
  /\ service # "ended"
  /\ service' = "ended" /\ client' = FALSE
  /\ post' = [r \in Requests |-> IF post[r] \in {"sent", "stored"} THEN "lost" ELSE post[r]]
  /\ \E late \in SUBSET {r \in Requests : post[r] = "stored"} :
       index' = index \cup {EntryOf(r) : r \in late}
  /\ UNCHANGED <<clientVars, messages, url, starts, entries, blind>>

----------------------------------------------------------------------------
\* POST /entries: the row, then the index.

Reached(r, phase) == post' = [post EXCEPT ![r] = phase]

\* It never gets there: the service is down, or the connection breaks.
Unreached(r) ==
  /\ post[r] = "sent" /\ Reached(r, "lost")
  /\ UNCHANGED <<clientVars, messages, url, serviceVars, entries, index, blind>>

\* osClient is looked at when the row is back.
StoreEntry(r) ==
  /\ post[r] = "sent" /\ service # "ended"
  /\ \/ /\ entries' = Append(entries, [by |-> r, msg |-> req[r].arg.msg])
        /\ Reached(r, IF client THEN "stored" ELSE "201")
        /\ blind' = IF client THEN blind ELSE blind \cup {r}
     \/ Reached(r, "500") /\ UNCHANGED <<entries, blind>>
  /\ UNCHANGED <<clientVars, messages, url, serviceVars, index>>

\* Seeded fault: a failure to index is not reported.
IndexUnchecked(r) ==
  /\ post[r] = "stored"
  /\ Reached(r, "201")
  /\ index' \in {index, index \cup {EntryOf(r)}}
  /\ UNCHANGED <<clientVars, messages, url, serviceVars, entries, blind>>

\* By the client it was given to, whatever init() has done since.
IndexEntry(r) ==
  /\ post[r] = "stored"
  /\ \/ index' = index \cup {EntryOf(r)} /\ Reached(r, "201")
     \/ Reached(r, "500") /\ index' \in {index, index \cup {EntryOf(r)}}
  /\ UNCHANGED <<clientVars, messages, url, serviceVars, entries, blind>>

----------------------------------------------------------------------------
SubmitNext ==
  \/ ServiceStarts \/ TableReady \/ OpenSearchAnswers \/ ServiceEnds
  \/ \E r \in Requests :
       \/ Draft(r) \/ SaveDraft(r) \/ SubmitMessage(r) \/ FetchSettles(r)
       \/ Unreached(r) \/ StoreEntry(r) \/ IndexEntry(r)
       \/ \E m \in {k \in Requests : messages[k] # "none"} \cup {r} : Submit(r, m)

SubmitDie ==
  \E r \in Requests : (DraftRow(r) \/ MessageRow(r)) /\ Die({}) /\ UNCHANGED warlogVars

----------------------------------------------------------------------------
\* The war log holds submitted messages only, whichever process died when.
WarlogOnlySubmitted == \A e \in DOMAIN entries : messages[entries[e].msg] = "submitted"

\* Nothing is logged twice or falls out of sight by itself.  A submit writes one row
\* of the war log at most; one that was answered 200 has its row, or its post is
\* still under way, was refused, or was lost.  A row that was acknowledged is in the
\* search index, unless warlog-svc had no client when the row came back: before
\* CREATE TABLE was done, or after OpenSearch had failed.  The index has only rows.
EntriesAccounted ==
  /\ \A e, f \in DOMAIN entries : entries[e].by = entries[f].by => e = f
  /\ \A r \in Requests :
       /\ req[r].kind = "submit" /\ req[r].at = "done" /\ req[r].ans = Code(200) /\ url # "none" =>
            post[r] \in {"sent", "500", "lost"} \/ \E e \in DOMAIN entries : entries[e].by = r
       /\ post[r] = "201" => \E e \in DOMAIN entries : entries[e].by = r /\ (e \in index \/ r \in blind)
  /\ index \subseteq DOMAIN entries
=============================================================================
