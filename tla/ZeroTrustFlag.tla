---------------------------- MODULE ZeroTrustFlag ----------------------------
(***************************************************************************)
(* The zero-trust switch: one row in security_settings, a cache of it in   *)
(* each API process (packages/feature-flags/src/zeroTrustFlag.ts), and the *)
(* requests that read and change it (apps/api/src).                        *)
(*                                                                         *)
(* A call is a slot for one request in flight; an API process serves many  *)
(* and interleaves them at every await.  The environment variables         *)
(* TACTIX_ZT_LOCKED and TACTIX_ZT_DEFAULT do not change while a process    *)
(* runs.  Roles, the audit event and the columns updated_at, updated_by    *)
(* are left out; the gate's choice of a chain is the answer it gets.       *)
(***************************************************************************)
EXTENDS Integers

CONSTANTS
  Instances, \* API processes, each with its cache
  Calls,     \* bound: requests in flight
  TTL,       \* TTL_MS
  MaxTime    \* bound: the clock stops there

ASSUME FlagAssumption == Instances # {} /\ TTL \in Nat \ {0} /\ MaxTime \in Nat

VARIABLES
  locked,   \* TACTIX_ZT_LOCKED is 'true'
  default,  \* TACTIX_ZT_DEFAULT: "on" or "off"
  now,      \* Date.now()
  row,      \* zero_trust_enabled of the row, "none" without a row
  cache,    \* cache[p]: the variable cache of process p
  call,     \* call[k]
  offered   \* history: offered[t], what a read at time t could come back with

vars == <<locked, default, now, row, cache, call, offered>>

Switch == {"on", "off"}
Times == 0..MaxTime
Nothing == "none"

Empty == [val |-> Nothing, ts |-> 0, source |-> Nothing]
Entry == [val : Switch, ts : Times, source : {"LOCKED", "DB", "DEFAULT"}]

\* begun is the variable now of resolveZeroTrust.  since and ended are history:
\* the values the row had since this call's own update, the time of the answer.
Call == [phase : {"free", "updating", "updated", "reading", "read", "answered", "lost"},
         at : Instances, want : Switch \cup {Nothing}, begun : Times, got : Switch \cup {Nothing},
         answer : Entry \cup {Empty}, since : SUBSET Switch, ended : Times]
Free(p) == [phase |-> "free", at |-> p, want |-> Nothing, begun |-> 0, got |-> Nothing,
            answer |-> Empty, since |-> {}, ended |-> 0]

Init ==
  /\ locked \in BOOLEAN
  /\ default \in Switch
  /\ now = 0
  /\ row \in Switch \cup {Nothing}
  /\ cache = [p \in Instances |-> Empty]
  /\ call = [k \in Calls |-> Free(CHOOSE p \in Instances : TRUE)]
  /\ offered = [t \in Times |-> IF t = 0 THEN {row} ELSE {}]

Idle(k) == call[k].phase \in {"free", "answered"}

\* cache && now - cache.ts < TTL_MS
Fresh(entry) == entry # Empty /\ now - entry.ts < TTL

\* got is dead after the answer.
Answer(c, entry) ==
  [c EXCEPT !.phase = "answered", !.got = Nothing, !.answer = entry, !.ended = now]

\* resolveZeroTrust up to its first await, by call k in state c.
Resolve(k, c) ==
  \/ /\ Fresh(cache[c.at])
     /\ call' = [call EXCEPT ![k] = Answer([c EXCEPT !.begun = now], cache[c.at])]
     /\ UNCHANGED cache
  \/ /\ ~Fresh(cache[c.at])
     /\ locked
     /\ LET entry == [val |-> "on", ts |-> now, source |-> "LOCKED"]
        IN /\ cache' = [cache EXCEPT ![c.at] = entry]
           /\ call' = [call EXCEPT ![k] = Answer([c EXCEPT !.begun = now], entry)]
  \/ /\ ~Fresh(cache[c.at])
     /\ ~locked
     /\ call' = [call EXCEPT ![k] = [c EXCEPT !.phase = "reading", !.begun = now]]
     /\ UNCHANGED cache

\* zeroTrustGate, or GET /zero-trust, at process p.
Ask(k, p) ==
  /\ Idle(k)
  /\ Resolve(k, Free(p))
  /\ UNCHANGED <<locked, default, now, row, offered>>

\* PUT /zero-trust at process p, unless locked: updateZeroTrustEnabled starts.
Put(k, p, v) ==
  /\ Idle(k)
  /\ ~locked
  /\ call' = [call EXCEPT ![k] = [Free(p) EXCEPT !.phase = "updating", !.want = v]]
  /\ UNCHANGED <<locked, default, now, row, cache, offered>>

\* The database runs the INSERT ... ON CONFLICT, perhaps for a request that is lost.
Update(k) ==
  /\ call[k].phase \in {"updating", "lost"}
  /\ row' = call[k].want
  /\ offered' = [offered EXCEPT ![now] = @ \cup {call[k].want}]
  /\ call' = [j \in Calls |->
       IF j # k THEN [call[j] EXCEPT !.since = IF @ = {} THEN {} ELSE @ \cup {call[k].want}]
       ELSE IF call[k].phase = "lost" THEN Free(call[k].at)
       ELSE [call[k] EXCEPT !.phase = "updated", !.since = {call[k].want}]]
  /\ UNCHANGED <<locked, default, now, cache>>

\* Seeded fault for Bust: bustZeroTrustCache is not called.
BustForgotten(k) ==
  /\ call[k].phase = "updated"
  /\ Resolve(k, call[k])
  /\ UNCHANGED <<locked, default, now, row, offered>>

\* The update returns: bustZeroTrustCache, then resolveZeroTrust, with no await
\* in between; the cache is empty and nothing is locked, so it reads.
Bust(k) ==
  /\ call[k].phase = "updated"
  /\ cache' = [cache EXCEPT ![call[k].at] = Empty]
  /\ call' = [call EXCEPT ![k].phase = "reading", ![k].begun = now]
  /\ UNCHANGED <<locked, default, now, row, offered>>

\* The update is rejected and nobody catches it, which ends the process; a new
\* one starts.  Updates under way may still reach the database.
UpdateFails(k) ==
  /\ call[k].phase \in {"updating", "updated"}
  /\ cache' = [cache EXCEPT ![call[k].at] = Empty]
  /\ call' = [j \in Calls |->
       IF call[j].at # call[k].at \/ call[j].phase = "lost" THEN call[j]
       ELSE IF call[j].phase = "updating" THEN [call[j] EXCEPT !.phase = "lost"]
       ELSE Free(call[j].at)]
  /\ UNCHANGED <<locked, default, now, row, offered>>

\* The database runs the SELECT of getSecuritySettings.
Read(k) ==
  /\ call[k].phase = "reading"
  /\ call' = [call EXCEPT ![k].phase = "read", ![k].got = row]
  /\ UNCHANGED <<locked, default, now, row, cache, offered>>

\* resolveZeroTrust stores its result, whatever happened to the cache meanwhile.
Settle(k, entry) ==
  /\ cache' = [cache EXCEPT ![call[k].at] = entry]
  /\ call' = [call EXCEPT ![k] = Answer(@, entry)]
  /\ UNCHANGED <<locked, default, now, row>>

\* Seeded fault for FromRow: the entry is stamped when it is stored.
StampedLate(k) == [val |-> call[k].got, ts |-> now, source |-> "DB"]

FromRow(k) == [val |-> call[k].got, ts |-> call[k].begun, source |-> "DB"]
ByDefault(k) == [val |-> default, ts |-> call[k].begun, source |-> "DEFAULT"]

\* Seeded fault for Found: the type of the row's value is not tested.
FoundUnchecked(k) ==
  /\ call[k].phase = "read"
  /\ Settle(k, FromRow(k))
  /\ UNCHANGED offered

Found(k) ==
  /\ call[k].phase = "read"
  /\ call[k].got # Nothing
  /\ Settle(k, FromRow(k))
  /\ UNCHANGED offered

NoRow(k) ==
  /\ call[k].phase = "read"
  /\ call[k].got = Nothing
  /\ Settle(k, ByDefault(k))
  /\ UNCHANGED offered

\* connect, query or end of the client throws.
LookupFails(k) ==
  /\ call[k].phase \in {"reading", "read"}
  /\ Settle(k, ByDefault(k))
  /\ offered' = [offered EXCEPT ![now] = @ \cup {Nothing}]

Tick ==
  /\ now < MaxTime
  /\ now' = now + 1
  /\ offered' = [offered EXCEPT ![now + 1] = {row}]
  /\ UNCHANGED <<locked, default, row, cache, call>>

Next ==
  \/ \E k \in Calls :
       \/ \E p \in Instances : Ask(k, p) \/ \E v \in Switch : Put(k, p, v)
       \/ Update(k) \/ Bust(k) \/ UpdateFails(k)
       \/ Read(k) \/ Found(k) \/ NoRow(k) \/ LookupFails(k)
  \/ Tick

Spec == Init /\ [][Next]_vars

-----------------------------------------------------------------------------
TypeOK ==
  /\ locked \in BOOLEAN
  /\ default \in Switch
  /\ now \in Times
  /\ row \in Switch \cup {Nothing}
  /\ cache \in [Instances -> Entry \cup {Empty}]
  /\ call \in [Calls -> Call]
  /\ offered \in [Times -> SUBSET (Switch \cup {Nothing})]

\* The database offered what entry e stands for at some time from a to b.
Justified(e, a, b) ==
  \/ e.source = "LOCKED" /\ locked /\ e.val = "on"
  \/ \E t \in Times : a <= t /\ t <= b /\
       \/ e.source = "DB" /\ e.val \in offered[t]
       \/ e.source = "DEFAULT" /\ e.val = default /\ Nothing \in offered[t]

(***************************************************************************)
(* No answer is older than the cache allows: it is what the database held, *)
(* or failed to tell, less than TTL before the call began or later, in     *)
(* every process, whatever the order of reads, updates and busts.          *)
(* (resolveZeroTrust takes now before the lookup and stores it as ts)      *)
(***************************************************************************)
FreshWithinTTL ==
  \A k \in Calls : call[k].phase = "answered" =>
    Justified(call[k].answer, call[k].begun - TTL + 1, call[k].ended)

Stored(k) == call[k].phase = "answered" /\ call[k].want # Nothing /\ call[k].answer.source = "DB"

(***************************************************************************)
(* The answer to a PUT does not come from before it: unless the lookup     *)
(* failed it is a value the row has had since this update was made.        *)
(* (updateZeroTrustEnabled, then bust, then resolve)                       *)
(***************************************************************************)
PutSeesWrite == \A k \in Calls : Stored(k) => call[k].answer.val \in call[k].since

\* The value is of a lookup that began after the one of PUT k.
Later(k, entry) == entry.source = "DB" /\ entry.ts > call[k].begun

(***************************************************************************)
(* Once a PUT has been answered, whoever looks later sees it: what a cache *)
(* or an answer has from an earlier row is of a lookup that began before,  *)
(* in every process, so that the TTL ends it.  (the PUT's own lookup, and  *)
(* ts, the time before the lookup; nothing else invalidates other caches)  *)
(***************************************************************************)
LaterSeesWrite ==
  \A k \in Calls : call[k].phase = "answered" /\ call[k].want # Nothing =>
    /\ \A p \in Instances : Later(k, cache[p]) => cache[p].val \in call[k].since
    /\ \A j \in Calls : call[j].phase = "answered" /\ Later(k, call[j].answer) =>
         call[j].answer.val \in call[k].since

(***************************************************************************)
(* After the bust, new value: once a PUT has been answered, and as long as *)
(* the row keeps what it wrote, the cache it busted holds nothing else     *)
(* from the database.  (feature-flags/test/zeroTrustFlag.test.js)          *)
(***************************************************************************)
AfterBust ==
  \A k \in Calls : Stored(k) /\ call[k].since = {call[k].want} =>
    LET entry == cache[call[k].at]
    IN Fresh(entry) /\ entry.source = "DB" => entry.val = call[k].want
=============================================================================
