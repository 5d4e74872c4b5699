# A verification project for TACTIX

TACTIX is a set of Node services for incident management. This directory models
the parts of it whose correctness depends on the order in which things happen:
TLA+ modules translated from the source, TLC configurations that check them on
small instances, and proofs checked by TLAPS.

Paths below are relative to the repository. Run the tools in this directory:

    tlc -workers 2 -config fanout_pipeline.cfg FanOutMC.tla
    tlapm FanOutProofs.tla

## 1. Inventory

| Component (source) | State | Operations | Talks to |
|---|---|---|---|
| incident-svc, write path (`services/incident-svc/src/index.ts`) | `incidents`, `events`, attachment arrays and id counters in memory, one `dbClient` | POST incident, comment, status, attachment; GET one | `NOTIFY tactix_events` through `commitEvent` |
| incident-svc, SQL routes (same file, `routes/`, `incidents/`, `services/`, `repo/`) | tables operations, assignments, role_grants, messages, incident_tasks, incident_chat_messages, cp_shifts, cp_roster | assignments, roles, message draft and submit, chat, tasks, activity, schedule | PostgreSQL, warlog-svc |
| realtime-svc (`services/realtime-svc/index.js`) | per socket `{incidentId, queue, sending}`, LISTEN session | broadcast, enqueue, flush, subscribe, close | incident-svc over HTTP, clients over WebSocket |
| stream tools (`services/realtime-svc/stream-*.js`) | last id in a file | xRead loop, xAdd | Redis |
| playbook-svc (`services/playbook-svc/src`) | tables playbooks, playbook_runs | CRUD, run | `NOTIFY tactix_events` |
| event-sourced incident service (`services/incident/src`) | append-only table incidents_events | create, get, message, submit | PostgreSQL |
| zero-trust switch (`packages/feature-flags`, `packages/settings`, `apps/api/src`) | one row, one cache per process | resolve, bust, PUT, gate | PostgreSQL |
| warlog-svc (`services/warlog-svc/index.js`) | table warlog and a search index | add, list | PostgreSQL, OpenSearch |
| bootstrap-svc, discovery-svc, eng-svc | a config file; key files and a map of seen servers; messages and sockets | see their `src/index.ts` | files, mDNS, NATS |
| role evaluation (`rbac/effective.ts`, `services/rbac`, `packages/authz`) | none | effective, computeEffective, can | – |
| MCP agent (`src/mcp`) | task files, log file | process, log, archive | files |
| incident page (`ui/src/pages/IncidentPage.tsx`) | the lists it shows | fetch and apply the answer | incident-svc over HTTP |
| auth-service, gateway, orders-svc, tak-ingest-svc, the rest of ui, apps/web, tools | none worth a protocol | tokens, proxying, templates, a file cache, rendering, a static scan | – |

What is hard here. All services are single-threaded event loops, so the hard
behaviour sits at awaits and between services: a snapshot fetched over HTTP
while events flow past it; a bounded queue that is thrown away; notifications
nobody listens to; state that a restart forgets; read-decide-write against SQL
without transactions; a cache written after an await. `PROJECT.json` lists each
hazard at its line.

What makes each part correct:

* *event pipeline* – no event of a watched incident disappears without a known
  cause; events arrive in commit order, none twice; a snapshot contains what its
  label claims; a queue never stalls; every event is heard in the end.
* *event-sourced incidents* – the rows of an incident always amount to a legal
  life; answers show what was acknowledged before; messages keep their order.
* *zero-trust switch* – an answer is never older than the TTL; a PUT never
  answers with what it replaced.
* *SQL routes* – what notices, polls, the activity list and the war log say agrees
  with the tables; a shift that was checked is what gets written; the two role
  implementations allow the same.
* *stream consumer, MCP agent* – nothing is passed over across crashes, and repeats
  and losses come only of one. *playbook-svc, eng-svc* – published and stored accounts
  agree as far as the order of the two steps allows.
* *bootstrap, discovery* – a crash between two file operations leaves a state the
  next start can use, requests together leave a file whose state one of them explains,
  invites that were given out stay good, and the list of servers forgets in time.
* *incident page* – answers that come late do not spoil what is shown, unless one
  overtakes another.

## 2. Modules

Three groups, and the switch; each group is composed in one module.

**Event pipeline** (`FanOut`)

| Module | Models | State and how it corresponds |
|---|---|---|
| `IncidentStore` | incident-svc write path, its NOTIFYs | `content[i]` is `incidents`, by the stamps whose effect shows; `log` is `events` over all restarts, each with the `id` it was given, `base` where the running process began, `nextEventId` its counter; `outbox` the queries on `dbClient`; `chan` the notifications PostgreSQL holds for realtime-svc |
| `Realtime` | realtime-svc connections | `conn[c]` is the socket with its `clients` entry: `sub` = incidentId, `queue`, `sending`, the socket buffers `wire`, HTTP requests `fetch` with the `label` each was begun with; `heard`, `last` belong to the client |
| `FanOut` | the two composed with playbook-svc's notice, crashes and the network; the properties | |
| `IncidentLifecycle` | abstract: what an incident's life may be | `status`, `posted` |
| `IncidentEvents` | event-sourced service; refines `IncidentLifecycle` | `rows` the table, `req[r]` a handler between its awaits |

**SQL routes of incident-svc** (`SqlRoutes`)

| Module | Models | State and how it corresponds |
|---|---|---|
| `DbClient` | the one PostgreSQL client all requests of a process share | `queue` the queries issued, `req[r]` the handler of a request and the query it waits for, `notices` what NOTIFY sent, `missed` rows with a lost notice |
| `IncidentRoutes` | chat, tasks, activity of an incident | the tables `chat`, `tasks`; a polling client's `cursor` and `seen` |
| `Submissions` | message draft and submit, warlog-svc | `messages`; `service` how far `init` of warlog-svc has come, `client` whether `osClient` is set, `post[r]` a request at it, `entries` its table, `index` OpenSearch |
| `Schedule` | shifts: routes, service, repository | `shifts`; `writers` which requests wrote each |
| `Permissions` | `rbac/effective.ts`, `services/rbac`, the permission checks of the operation routes | grants and groups of people, `stored` the role map of `services/rbac` |

**Programs on their own** (`Restarts`), which share nothing: each behaviour looks at one

| Module | Models | State and how it corresponds |
|---|---|---|
| `Restarting` | a process that is ended and started again | `crashes` |
| `LogDelivery` | abstract: reading a log in order, passing over nothing | `length`, `given` |
| `StreamConsumer` | stream producer and consumer; refines `LogDelivery` | `saved`, `torn` the id file, `reader` the loop, `printed` |
| `BootstrapConfig` | bootstrap-svc's config file | names `tmp` and `config` lead to files with a `content`; `post[p]` a request |
| `Discovery` | discovery-svc's keys, invites, cache | `priv`, `pub` the key files, `keys` those in memory, `discovered`, `invites`; `time` the clock, `due` the next firing of `pruneInterval` |
| `PlaybookRuns` | playbook-svc | tables `playbooks`, `runs`; `notified` |
| `EngChat` | eng-svc | `way[i][j]` messages in NATS, `live` what a client saw, `table` |
| `McpAgent` | the task agent | directories `queued`, `archive`; `taskLog` the lines in order; `agent` the loop |
| `IncidentPage` | chat and tasks of one incident in the browser | `rows` the table, `trip[r]` a fetch, `shown` React's state |

`ZeroTrustFlag` is the switch, its cache and the requests on it: `row`, `cache[p]`,
`call[k]` a request between its awaits. Modules ending in `MC` give the constants of
an instance their values, those ending in `Proofs` hold theorems.

Actions are what runs between two awaits. In `commitEvent` the id allocation, the
change of the incident, the push and the queueing of NOTIFY have no await between
them, so a write route is one action. In realtime-svc the notification handler
with broadcast, enqueue and flush is one action (`Deliver`), a send callback
another (`SendDone`, `SendError`), and a snapshot has three: asked (inside
`Enqueue` or `SubscribeFromSeq`), served by incident-svc (`Answer`), arrived
(`SnapshotArrives`) – or lost (`SnapshotFails`). In `IncidentEvents` a handler is
split at every query into the moment it is sent, the moment the database runs it
and the moment its answer is handled; a query that fails may still be run later.
`IncidentEvents` and `PlaybookRuns` have a pool of connections. The SQL routes share
one client, which sends a query when the one before has been answered: a handler is
one action from the run of a query to the issue of its next, and requests interleave
only in the order of `queue`. A query that rejects, except around NOTIFY and in the
schedule router, is a rejection nobody handles, and the process ends (`Die`). File
writes are two steps, open (which empties) and write, so that a crash finds the
file empty in between.

Abstractions and what they leave out:

* The models name an event by its position in the log of all events (its stamp); its
  `event.id`, which starts at 1 again with the process, is a field of its own, and it
  is what notifications, labels and `subscribe` carry.
* A `writeFile` that fails has not written all of its text. A key file of discovery-svc
  that exists can be read (`initKeys` replaces both keys after any failure to read).
* Timers fire on time. The unit of `Discovery` is 15 seconds: a record expires after
  four, the timer fires every two from the start of the process on.
* mDNS may report a service, the server's own while it is announced included, at any
  time, or never again.
* The GETs of warlog-svc are left out, as they change nothing. (On a 2.x client, whose
  answers are `{body}`, `result.hits` is undefined and a search answers 500.)
* Handlers behind `packages/authz` are modelled as they behave once let through, as
  the tests expect. With its middleware `requireRole` throws on a raw
  `ServerResponse`, and `requireAuth`, a factory, is called as if it were the
  middleware; it also sets `user.upn` where the handlers read `user.sub`. The
  schedule router is mounted by its tests only.
* Tables are as the queries name them: no migration creates `incident_messages`, and
  015 refers to a column that does not exist.
* PostgreSQL takes no bind parameter in `NOTIFY channel, $1`. Where the failure is
  swallowed the models let each notice succeed or get lost; in playbook-svc, which
  swallows nothing, a failing NOTIFY ends the process.
* In the pipeline INCIDENT_* and SCHEDULE_* notices are left out: they have no
  `seq`, like PLAYBOOK_NOTIFY, which it has (`Notice`). What they say is checked
  against the tables in `SqlRoutes`.
* `MaxWire` stands for the socket's buffers; snapshots and event frames wait for
  room in it. In the code `ws.send` accepts any amount and the callback comes when
  the frame has been handed on, so the wait is what happens to the callback.
* The clock of `IncidentEvents` has moved on by the time a client acts on an
  answer. Requests under way together may carry equal stamps, in any order.
* Clients of the pipeline are written from what the service offers them: they
  connect, subscribe to an existing or a not yet created incident, and read. (The
  pages of `ui/` open a socket and subscribe to nothing; their incident lists come
  over HTTP, as `IncidentPage` has it.)
* `services/rbac` is imported by nothing; `Permissions` compares it with
  `effective.ts` as the second account of one table.

## 3. Runs

| Run | Question | Bounds | Result |
|---|---|---|---|
| `fanout_pipeline` | `TypeOK`, `NoGap`, `EventsInOrder`, `SnapshotCoversLabel`, `QueueDriven` | 1 incident, 3 events, queue of 1, 1 frame on the wire, 1 crash | holds, 1.1 M states |
| `fanout_resubscribe` | `NoGap`, `SnapshotCoversLabel` when switching incidents | 2 incidents, 3 events | holds, 0.9 M states |
| `fanout_liveness` | `EventuallyHeard` under fairness | 1 incident, 2 events, 1 notice | holds, 0.2 M states |
| `fanout_catchup` | `CatchUp` | 3 events with attachments | **violated** |
| `fanout_relabel` | `DeltaCatchUp` | 4 events, 1 crash | **violated** |
| `events_service` | `Reflects`, `MessagesInOrder`, `TwiceOnlyByRace`, refinement of `IncidentLifecycle` | 4 requests, 2 incidents | holds, 28 K states up to symmetry |
| `events_double_submit` | `SubmittedOnce` | 3 requests | **violated** |
| `flag_cache` | `TypeOK`, `FreshWithinTTL`, `PutSeesWrite`, `LaterSeesWrite` | 2 requests in flight, TTL 2, 3 instants | holds, 0.8 M states up to symmetry |
| `flag_bust` | `AfterBust` | 2 requests in flight | **violated** |
| `sql_routes` | `SqlTypeOK`; `TaskViewAgrees`, `PollComplete`, `ActivityComplete`; `WarlogOnlySubmitted`, `EntriesAccounted`; `OverlapOnlyByRace`, `ShiftsLegal`, `ScheduleViewAgrees`; `RolesAgree`, `HighestDecides` | 3 requests of one mix, 1 death, pages of 1, 2 instants a millisecond, 5 hours, 2 starts of warlog-svc | holds, 0.4 M states up to symmetry |
| `shift_overlap` | `NoOverlap` | 2 requests | **violated** |
| `restarts` | `ArchivedIsLogged`, `OneResult`; `AloneIsAtomic`, `ConfigAccounted`; `PairMatches`, `InvitesHonoured`, `CacheForgets`; `RunsAccounted`; `LiveInOrder`; `PageFollows`; refinement of `LogDelivery`, `RepeatsAccounted`, `EventuallyPrinted` | 2 crashes; 4 stream messages; 2 task files; 3 configurations; 3 key pairs, 8 instants, 1 invite; 3 runs; 2 instances with 2 posts; 4 fetches | holds, 0.3 M states |

Why the bounds are enough. With `MaxQueue = 1` the second event that waits
overflows, so three events reach every case: one in the send, one queued, one
that overflows, with a snapshot in flight. Connections do not affect each other
(the loop of `broadcast` treats each alone), so one client is enough; the proofs
hold for any number. Two incidents are needed only for a client that switches.
One crash lets a service lose its state with events before, during and after it.
Four requests allow create, two concurrent writers and a reader. The flag needs a
reader, a PUT, and time passing the TTL once; slots are used again, so the number
of requests is not bounded, only how many are in flight.

In `sql_routes` two requests make a race and a third observes it; `Workloads` names
the mixes that touch the same tables, since a request of another mix could only
delay them. A page of one row (`Limit`) is full as soon as two were made, and two
instants in a millisecond (`Grain`) are what the rounding of a `since` can confuse.
Shifts meet, touch, contain each other, are empty, too long or beyond the horizon.
One death comes at each query, run or not. Two starts of warlog-svc allow one without
and one with OpenSearch, and a request under way over the end of either. In `restarts` the
second crash comes during what the first made necessary; three stream messages would
already allow a batch before and one after it; of three configurations two can write
the file a third renames. The page has its list and three more fetches: a task made,
changed twice, here or elsewhere. Of the eight instants (`MaxTime`) six are the 90
seconds a record can last, and two let it come at any distance from the next firing; an invite (`MaxInvites`) is compared with the keys only, never with another.

Symmetry is used over requests, incident ids and call slots, which no definition
tells apart, and nowhere with liveness. `events_service`, `events_double_submit`,
`sql_routes` and `shift_overlap` do not check deadlock: a behaviour ends when every
request has been answered. Nor does `restarts`: programs may stop for good.

What the violations show:

* `fanout_catchup`: `AGENT.md` promises snapshot and delta catch-up, but an
  overflow that drops ATTACHMENT_ADDED is answered by a snapshot without
  attachments (`GET /incidents/:id` has none), and nothing else tells the client.
* `fanout_relabel`: a client that subscribes again with the seq it remembers gets a
  snapshot with that label, also when incident-svc has started anew since and counts
  from 1. Going by the label it takes the snapshot to show events it does not.
* `events_double_submit`: "Only draft incidents can be submitted" is checked on a
  history loaded earlier; two submissions both succeed. (`TwiceOnlyByRace` says there
  is no other way.)
* `flag_bust`: the test "after bust cache, new value" is true only when no lookup
  was under way; otherwise the old value comes back for up to a TTL. (`LaterSeesWrite`:
  only from a lookup that began no later than the PUT's own.)
* `shift_overlap`: the test "overlap detection returns 409 with conflictingShiftId"
  holds for requests one after another; two that look for a conflict before either
  inserts are both answered 201. (`OverlapOnlyByRace` says there is no other way.)

One more divergence is a theorem and needs no run: `docs/RBAC.md` and the test "imo can
assign" let an IMO assign, but the route hands `effective()` assignments, which have no
role, as grants and looks for an action among roles. Everybody is refused, whatever the
grants and groups (`NobodyPasses`).

Every property of a passing run is also run against a faulty version of one
definition (the operators marked "Seeded fault"), which must break it.

### What the properties concede

Several properties hold only with an exception; the exception is part of the result.

* `NoGap`: an event may be missing for an open connection if its NOTIFY was lost
  (`missed`: a failed query, no client, nobody listening, a crash of either
  service), the snapshot that stood for it failed, it left no trace in any snapshot
  (attachments), or it was committed before a subscription without `seq` (`excused`).
* `SnapshotCoversLabel`: only of a label that is an event of the running incident-svc.
* `TaskViewAgrees`, `ScheduleViewAgrees`: rows with a lost notice are left out.
* `PollComplete`: a poll that comes back full may have passed over older messages,
  for good: the next asks for what is newer than the newest.
* `ActivityComplete`: of the rows of one millisecond the cut may leave out a newer one;
  the sort is in milliseconds.
* `EntriesAccounted`: a submit may have no row if its post was lost or refused, and an
  acknowledged row may be missing from the index if `osClient` was null when the row
  came back: until `CREATE TABLE` is done, and from a failing ping to the next start.
* `ShiftsLegal`: the roster need not know the role if updates of one shift met.
* `OneResult`: a task is repeated if the agent was ended with it between log and archive.
  `RepeatsAccounted`: a crash repeats the batch that had not been saved.
  `EventuallyPrinted`: a crash between opening and writing the id file leaves it empty,
  Redis refuses an empty id, and no later start gets past that.
* `ArchivedIsLogged`: a log that cannot be read counts as empty and is written anew, and
  a rewrite that fails or is cut loses what was in it (`unlogged`).
* `ConfigAccounted`: three configurations posted together can leave an empty file
  without any kill: one opens the file, a second renames it, the third's missing file
  ends the process before the first has written.
* `PairMatches`: a crash between creating and writing the public key leaves an empty
  one that every later start accepts; invites it makes verify nowhere.
* `CacheForgets`: up to 90 seconds, as the timer is not set by the record. A server that
  announces itself is pruned from its own list like any other, although the announcement
  goes on: a further `POST /discovery/announce` returns at once, and only a browse that
  reports the server enters it again.
* `RunsAccounted`: an announced run may be on no record.
* `PageFollows`: an answer that overtakes one read later leaves a task missing, twice,
  or in an old status until the page is opened again; an error counts as a row.

### Fairness

`EventuallyHeard` assumes: the database answers (`DbConnected`/`DbConnectFails`,
`Notify`/`NotifyFails` weakly fair), the event loop takes notifications (`Deliver`),
each send ends in success or error, each snapshot request ends in one of its
outcomes, a connected client reads. These hold for an event loop, TCP with
keepalive and HTTP with timeouts. `Deliver` is strongly fair only because the
model bounds the snapshot requests in flight (`Slots`), which the code does not:
the bound switches `Deliver` off and on again. Nothing is assumed of users, of
crashes, of playbook runs, or of `Listen`, which the code tries only once.

`EventuallyPrinted` assumes that the consumer's loop goes on and that somebody starts
it again after a crash (weak fairness of `Consume`). Nothing is assumed of the
producer, of crashes, or of any other program in `restarts`.

## 4. Proofs

Every invariant, action property and refinement that a passing run checks is proved
as well; liveness is not.

`FanOutTypeProofs!TypeCorrect` and, in `FanOutProofs`, `NoGapCorrect`,
`QueueDrivenCorrect`, `SnapshotCorrect`, `OrderCorrect`: the invariants of
`fanout_pipeline`, for any number of clients, incidents, events, crashes and notices
and any queue bound. Assumptions are those on the constants in `IncidentStore`,
`Realtime` and `FanOut`.

The argument. `NoGap` is not inductive: that a snapshot makes up for dropped events
needs that the stored incidents show exactly their events (`ContentExact`), and
that an answered request shows every visible event it stands for, while those no
snapshot shows are excused from the moment the snapshot is asked for
(`OwedShown`). `SnapshotCoversLabel` is about numbers that start again, so it needs that
the running process numbered its events from 1 on without a gap (`ContentExact`) and that
every label is the number of the event it was taken from (`Labelled`). With `TypeOK`, `QueueDriven` and `SnapshotCoversLabel` these form
`IInv` (`Inductive`). Lemmas say what `Enqueue`, `Flush` and `AskSnapshot` do to what a
connection holds; each action then has a step of its own. In `Broadcast` the
overflow case moves the queue into the `owes` of a fresh slot and the rest into
`excused`; in `SnapshotFails` the `owes` move into `excused`.

`EventsInOrder` has an induction of its own (`OrderInv`): the numbers in each stage
rise, `notices` apart (`Rising`), and are below all those in the stages behind it
(`Ahead`). For one client this is `Line`, from the last frame it read over the wire to
the queue; `Flowing` says it of the notifications in `chan` and `outbox`, and `InLine` puts
one behind the other. A commit appends the length of the log plus one, which by
`TypeOK` is above every number there is; a step of a connection moves a number one
stage on, drops some, or puts one from `chan` at the end of the queue
(`ConnectionLine`, `DeliverOrder`); a crash empties stages.

`IncidentEventsProofs`. `ReflectsCorrect`, `OrderCorrect` and the refinement
`LifecycleRefined` come from one invariant about stamps, for any incident ids and any
finite number of requests (`EventsAssumption`: a behaviour of the server has answered
finitely many, and a load returns a sequence). A row is kept by the request that wrote
it (`Owned`); a request acts on an incident it created or one whose creation had been
acknowledged (`Created`); what was acknowledged before it was sent has a smaller stamp
than its row and is among the rows it loads (`Due`); what it loaded is sorted, and none
of it was sent after its answer (`Seen`). `Reflects` needs `Due` and, since a creation
read after a submission would undo it, that the creation's stamp is the smallest
(`CreationFirst`). `LoadsAgree` adds that the order in which the database returns equal
stamps never matters to the status. In the refinement an INSERT is a step of the
incident of its row, and only of that (`OneRow`); every other step is a stutter
(`RowsDecide`). `TwiceCorrect` (`TwiceOnlyByRace`) follows from `Due`: a submission
acknowledged before a request was sent is among the rows it loads (`LoadedSubmission`),
so that it is refused (`DecidesFirst`); and what a request owes is settled when it is
sent, so nothing later can undo it (`TwiceKept`).

`ZeroTrustFlagProofs!TypeCorrect`, `FreshCorrect`, `PutCorrect` and `LaterCorrect`: all invariants of
`flag_cache`, for any number of processes, requests in flight and instants, given a
process and a TTL above 0 (`FlagAssumption`; with a TTL of 0 a lookup's own answer
would already be too old). Neither safety property is inductive: the
strengthening (`IInv`) says that every cached entry was offered by the database
at or after its time stamp (`CacheGood`), that what a running lookup has read was
offered since it began, and that the row is among the values a PUT may answer from
its update to its read (`CallGood`). `CacheKept` and `CallKept` carry this over
any step that takes nothing back from the past; `Update`, which changes the row
under all calls, and `SettleStep`, which stores a lookup's result over whatever the
cache has become, are the two steps that need an argument. `LaterCorrect` (`LaterSeesWrite`) is
about values and where they come from: what a cache, a running lookup or an answer
tells of the row, with the instant the lookup began (`Told`), is only passed on,
dropped, or read from the row. So whatever was looked up after a PUT's own lookup began
is a value the row has had since that PUT's update (`LaterInv`); TLC sees this with one
process, the theorem with any number.

`SqlRoutesProofs`. `RolesCorrect` and `HighestCorrect` reduce both implementations to
what a set of roles allows per action (`MapMeaning`, `CanMeaning`); their invariant is
that grants are roles of the ladder. `NobodyPasses` needs no invariant: an assignment
row gives no role, and no role is called READ or ASSIGN. `WarlogCorrect` and
`EntriesCorrect` share `WarlogInv`: a draft waiting for its INSERT has no row yet
(`Asked`) and only a draft request ever has one (`Rows`), so that no INSERT takes a
status back; a request at warlog-svc is about a submitted message, whatever became of
its handler (`OnItsWay`), and a submit answered 200 has one (`Promised`); entries are of
such requests, one each (`Logged`); and a row on its way to the index, or acknowledged, is
in the table, an acknowledged one in the index unless there was no client when it came
back (`Indexed`). `ServiceKeeps` covers the starts and the end of warlog-svc. That a death of incident-svc leaves a
request at warlog-svc under way is why the invariant is on `post`, not on `req`. One
lemma per kind of client step (`ArrivalKeeps`, `QueryKeeps`, `DieKeeps`, ...) serves
all routes.

`SqlRowsProofs`. `OverlapCorrect`, `LegalCorrect`, `ScheduleViewCorrect` and
`TaskViewCorrect` come from one invariant, `RowsInv`, on top of `WarlogInv`. None of the
four is inductive. For the schedule, `Job` says what a handler that passed a check may
still rely on at its next query: the roster knows the duty, the row it read still has
the role it read, nothing conflicts, each unless somebody who was in flight with it
wrote the row (`Rival`), and `Meeting` says that whoever writes in between was. A write
(`WrittenIs`, `WriteRowRules`) then leaves the row that was checked or has a rival; a
row it would overlap was a conflict, which has one. For the notices, `View` says that the last
request in the queue with a notice of a row carries the row as it is, or the last
accepted notice does when none is queued; it rests on the queue being a queue
(`Queued`, `QueueKeeps`: whoever runs leaves the others in their order) and on a row
belonging to one table (`Tables`). `MoveKeepsRows`, `TellKeepsRows` and `DieKeepsRows`
are the three kinds of step; `JobsKept` says what others may do to a handler's checks.

`PollCorrect` and `ActivityCorrect`, in the same module, rest on `FeedInv`. A poll carries
a cursor its client had when everything up to it had been seen, and its answer is what
is newer, or is `cut`. For the activity list the danger is a row whose stamp goes back
between the three SELECTs, behind a limit that was already applied. It cannot: a stamp
is taken when its request arrives, requests wait in the order they arrived (`InTurn`),
so a stamp about to be written is later than all that are written (`Carries`). What was
there when the activity request came is therefore still there, as new or newer, when it
is read (`MergeAnswers`); rounding keeps the order of stamps (`MillisRise`), and what the
cut leaves out is in no later millisecond than any of the `Limit` items it keeps
(`CutIs`).
`SqlTypeCorrect` adds that a request awaiting a query is in the queue once
(`PlaceInQueue`). Both count, and need finitely many requests (`ClientAssumption`).

`RestartsProofs`. For the stream consumer, `StreamInductive` ties the position of the
loop, the file and what was printed together: everything up to the position is
printed, nothing past the end of the batch, and a file that holds an id holds one not
past the position. From it follow `RepeatsCorrect`, an action property, and
`DeliveryImplemented`, the refinement of `LogDelivery`: a message printed is a step
`Give`, a second print a stutter.

For the other programs, a theorem for each safety invariant of `restarts` but the
page's, from one inductive invariant per program. `BootInv`
says that without overlap the configured file is the last one renamed and no request has
it open (`Alone`), and that what is in any file comes of the requests that opened it:
`ConfigAccounted`, of every file and at every moment (`Explained`). `DiscoveryInv` says
that the files hold what the phase of `initKeys` has written, that every invite names the
pair on disk, and of the cache (`CacheInv`) that the timer is due within one period, that
what it left the last time was not older than 60 seconds then, and that what is in the
list no longer was last heard of more than 60 seconds ago; `PruneStepInv` is the step
both the timer and a request make. `McpInv` says that the lines of the log are in it,
with the agent, or written off, and that a file with a line in the log is in the archive,
about to go there, or was ended there;
`EngInv` that what is on the way from one instance to another, after what was seen,
rises. `PartStep` takes a step of the whole to a step of one program.

`IncidentPageProofs!PageFollowsCorrect`: `PageFollows` for any number of requests,
given that no request is named "list" or "none" (`PageAssumption`). It speaks of the
last answer only; `PageInv` adds what all answers and the table have in common: an
answer holds what was inserted before it was served, a list all of it (`Sound`), the
table one row per INSERT (`Table`), and an item on the page was in an answer that came
(`FromAnswers`). A POST's answer then cannot meet its own row on the page unless it
was overtaken, and a list served after an answer about a row has that row. Asking and
being served change nothing that came (`NothingCame`); `ApplyKeeps` says once what the
four ways to apply an answer must do to the items.

Only model-checked: `EventuallyHeard` and `EventuallyPrinted`, since liveness under
fairness is out of the prover's reach. The violated properties are false, so there is
nothing to prove of them.

## 5. Plan

Done: the pipeline, the event-sourced service, the switch; the SQL routes with
warlog-svc, schedule and roles; the programs on their own; the incident page. Left:

1. Proofs: what connects the parts beyond the checked properties, such as that a poll
   which is `cut` names messages its client will never see.
2. `GET org-units` and `GET /incidents` from the table, once a service writes what
   they read.
3. Two task agents on one queue directory, if the repository ever starts two.

## 6. Not modelled, and why

auth-service, `packages/auth`, `packages/authz`, gateway: stateless signing,
verification and proxying. (`ui/app.tsx` posts `refreshToken` and `username` where
auth-service reads `refresh` and `upn`; that needs no model to see.) orders-svc,
tak-ingest-svc: files read on request; a concurrent first load only repeats the same
work. Migrations: a linear script over fixed files, decided by their text. The rest of
ui, apps/web, tools: rendering, single requests and a static scan. The first-run page
is never shown, because `GET /bootstrap/config` answers a default with a mode, and
what it would post, `ConfigSchema` refuses. Of the components modelled in part:
`GET /incidents` and `GET org-units` are one SELECT each over tables no service
writes; of the incident page the activity tab and the title are left out.
`dist/` is a stale build.
