---------------------------- MODULE IncidentPage ----------------------------
(***************************************************************************)
(* ui, pages/IncidentPage.tsx (components/IncidentWorkspacePage.tsx does   *)
(* the same): the chat or the tasks of one incident on one page.  Every    *)
(* request is a fetch of its own and its answer is applied when it comes,  *)
(* in whatever order; of one that fails nothing comes.  The handlers of    *)
(* incident-svc appear by what their SELECT, INSERT or UPDATE does to the  *)
(* rows.  A row is named by the request that inserted it.  Nothing comes   *)
(* over the page's WebSocket: it never subscribes, and realtime-svc sends  *)
(* incident events to subscribers only.                                    *)
(***************************************************************************)
EXTENDS Naturals

CONSTANTS
  PageRequests,  \* bound: the requests after the first list
  PageStatuses   \* what a task is changed to

ASSUME PageAssumption == ({"list", "none"} \cap PageRequests) = {}

VARIABLES
  board,   \* which of the two lists: "chat" or "tasks"
  rows,    \* the table
  served,  \* the number of requests it has seen
  came,    \* the number of answers that came
  trip,    \* each fetch: kind, at, the row it is about, status, the answer; and when
           \* it was served and came, as numbers
  shown    \* the page's state: the items of the list, each with the fetch and the
           \* row that put it there; the order they are shown in is left out

pageVars == <<board, rows, served, came, trip, shown>>

Fetches == PageRequests \cup {"list"}
Row(id, status) == [id |-> id, status |-> status]
Junk == Row("none", "none")  \* what a body such as {error: ...} is as a row
Unasked == [kind |-> "none", at |-> "none", id |-> "none", status |-> "open", answer |-> {},
            serial |-> 0, came |-> 0]

\* useEffect has sent the GET.
PageInit ==
  /\ board \in {"chat", "tasks"}
  /\ rows = {} /\ served = 0 /\ came = 0 /\ shown = {}
  /\ trip = [r \in Fetches |-> IF r = "list" THEN [Unasked EXCEPT !.kind = "get", !.at = "asked"] ELSE Unasked]

Ask(r, kind, id, status) ==
  /\ trip[r].at = "none"
  /\ trip' = [trip EXCEPT ![r] = [@ EXCEPT !.kind = kind, !.at = "asked", !.id = id, !.status = status]]
  /\ UNCHANGED <<board, rows, served, came, shown>>

\* The page looks at no status code.  An error in place of the list breaks it for good
\* (tasks.map is no function).
Broken == trip["list"].at = "arrived" /\ trip["list"].answer = {Junk}

SendChat(r) == ~Broken /\ board = "chat" /\ Ask(r, "chat", r, "open")

CreateTask(r) == ~Broken /\ board = "tasks" /\ Ask(r, "task", r, "open")

\* A task can be changed when the page shows it.
ChangeStatus(r, item, status) == ~Broken /\ board = "tasks" /\ Ask(r, "patch", item.id, status)

\* Somebody else's page.
Elsewhere(r) ==
  \/ Ask(r, "other", r, "open")
  \/ board = "tasks" /\ \E row \in rows, status \in PageStatuses : Ask(r, "other", row.id, status)

----------------------------------------------------------------------------
Serve(r, table, answer) ==
  /\ trip[r].at = "asked"
  /\ rows' = table
  /\ served' = served + 1
  /\ trip' = [trip EXCEPT ![r] = [@ EXCEPT !.at = "served", !.serial = served + 1, !.answer = answer]]
  /\ UNCHANGED <<board, came, shown>>

ServeList(r) == trip[r].kind = "get" /\ Serve(r, rows, rows)

\* INSERT ... RETURNING *
InsertRow(r) ==
  LET row == Row(r, trip[r].status) IN
  /\ trip[r].id = r
  /\ Serve(r, rows \cup {row}, {row})

\* UPDATE ... RETURNING *
UpdateRow(r) ==
  LET row == Row(trip[r].id, trip[r].status) IN
  /\ row.id \in PageRequests \ {r}
  /\ Serve(r, {x \in rows : x.id # row.id} \cup {row}, {row})

\* 400, 401, 403 or 404.
RefuseFetch(r) == Serve(r, rows, {Junk})

----------------------------------------------------------------------------
Apply(r, kind, items) ==
  /\ ~Broken
  /\ trip[r].at = "served" /\ trip[r].kind = kind
  /\ came' = came + 1
  /\ trip' = [trip EXCEPT ![r] = [@ EXCEPT !.at = "arrived", !.came = came + 1]]
  /\ shown' = items
  /\ UNCHANGED <<board, rows, served>>

Item(r, of, row) == [from |-> <<r, of>>, id |-> row.id, status |-> row.status]

Items(r) == {Item(r, row.id, row) : row \in trip[r].answer}

\* Seeded fault: the list is added to what is there.
ShowListAdded(r) == Apply(r, "get", shown \cup Items(r))

ShowList(r) == Apply(r, "get", Items(r))

ShowChat(r) == Apply(r, "chat", shown \cup Items(r))

ShowTask(r) == Apply(r, "task", shown \cup Items(r))

\* Every item with the id that was asked for becomes the answer.
ShowStatus(r) ==
  \E task \in trip[r].answer :
    Apply(r, "patch", {IF x.id = trip[r].id THEN Item(x.from[1], x.from[2], task) ELSE x : x \in shown})

PageNext ==
  \E r \in Fetches :
    \/ SendChat(r) \/ CreateTask(r) \/ Elsewhere(r)
    \/ \E item \in shown, status \in PageStatuses : ChangeStatus(r, item, status)
    \/ ServeList(r) \/ InsertRow(r) \/ UpdateRow(r) \/ RefuseFetch(r)
    \/ ShowList(r) \/ ShowChat(r) \/ ShowTask(r) \/ ShowStatus(r)

----------------------------------------------------------------------------
\* Answers that came and say something of a row, if only that it is not there.
About(id) == {a \in Fetches : trip[a].at = "arrived" /\ (trip[a].kind = "get" \/ trip[a].id = id)}

\* None of them was an error, none overtook another.
Plain(id) ==
  \A a, b \in About(id) :
    /\ trip[a].answer # {Junk}
    /\ trip[a].came < trip[b].came => trip[a].serial < trip[b].serial

\* What the page shows of a row is what the last of them said, once, unless one was
\* an error or overtook another: answers about other rows, their errors, requests
\* that fail and what is done elsewhere do not spoil it.
PageFollows ==
  \A id \in PageRequests : \A a \in About(id) :
    Plain(id) /\ (\A b \in About(id) : trip[b].came <= trip[a].came) =>
      /\ \A x \in shown : x.id = id => Row(id, x.status) \in trip[a].answer
      /\ \A row \in trip[a].answer : row.id = id =>
           \E x \in shown : \A y \in shown : y.id = id <=> y = x
=============================================================================
