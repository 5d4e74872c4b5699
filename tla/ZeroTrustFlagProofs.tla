------------------------- MODULE ZeroTrustFlagProofs -------------------------
(***************************************************************************)
(* Theorems of ZeroTrustFlag: for any number of processes, requests and    *)
(* instants and any TTL, an answer is never older than the TTL allows and  *)
(* a PUT is never answered with what it replaced.                          *)
(***************************************************************************)
EXTENDS ZeroTrustFlag, TLAPS

\* What a cached entry stands for was offered after the moment it is stamped with.
CacheGood(p) == cache[p] # Empty => Justified(cache[p], cache[p].ts, now)

\* What a call carries from one await to the next.
CallGood(k) ==
  LET c == call[k] IN
  /\ c.phase \in {"updating", "lost"} => c.want \in Switch
  /\ c.phase \in {"updated", "reading"} /\ c.want # Nothing => row \in c.since
  /\ c.phase \in {"reading", "read"} => c.begun <= now
  /\ c.phase = "read" =>
       /\ \E t \in Times : c.begun <= t /\ t <= now /\ c.got \in offered[t]
       /\ c.want # Nothing /\ c.got # Nothing => c.got \in c.since
  /\ c.phase = "answered" =>
       /\ c.ended <= now
       /\ Justified(c.answer, c.begun - TTL + 1, c.ended)
       /\ c.want # Nothing /\ c.answer.source = "DB" => c.answer.val \in c.since

IInv ==
  /\ TypeOK
  /\ row \in offered[now]
  /\ \A p \in Instances : CacheGood(p)
  /\ \A k \in Calls : CallGood(k)

\* The invariant is all the two properties say.
LEMMA Enough == IInv => FreshWithinTTL /\ PutSeesWrite
BY DEF IInv, CallGood, FreshWithinTTL, PutSeesWrite, Stored

-----------------------------------------------------------------------------
\* Steps that take nothing back from the past: the clock runs, the database may
\* offer more, the settings of the process stay.
Onwards ==
  /\ locked' = locked
  /\ default' = default
  /\ now' \in Times
  /\ now <= now'
  /\ \A t \in Times : t <= now => offered[t] \subseteq offered'[t]

\* An untouched cache stays good.
LEMMA CacheKept ==
  ASSUME FlagAssumption, TypeOK, Onwards, NEW p \in Instances, CacheGood(p), cache'[p] = cache[p]
  PROVE  CacheGood(p)'
<1>1. CASE cache[p] = Empty
  BY <1>1 DEF CacheGood
<1>2. CASE cache[p] # Empty
  <2>1. cache[p] \in Entry /\ now \in Times
    BY <1>2 DEF TypeOK
  <2>2. Justified(cache[p], cache[p].ts, now)
    BY <1>2 DEF CacheGood
  <2> QED
    BY <2>1, <2>2 DEF CacheGood, Justified, Onwards, Times, Entry, FlagAssumption
<1> QED BY <1>1, <1>2

\* So does a call, as long as a row it counts on is not replaced.
LEMMA CallKept ==
  ASSUME FlagAssumption, TypeOK, Onwards, row' = row,
         NEW k \in Calls, CallGood(k), call'[k] = call[k]
  PROVE  CallGood(k)'
<1>1. call[k] \in Call /\ now \in Times
  BY DEF TypeOK
<1>2. ASSUME call[k].phase = "answered"
      PROVE  /\ call[k].ended <= now'
             /\ Justified(call[k].answer, call[k].begun - TTL + 1, call[k].ended)'
  <2>1. /\ call[k].ended <= now
        /\ Justified(call[k].answer, call[k].begun - TTL + 1, call[k].ended)
    BY <1>2 DEF CallGood
  <2>2. call[k].ended \in Int /\ now \in Int /\ now' \in Int /\ call[k].begun \in Int /\ TTL \in Int
    BY <1>1 DEF Call, Times, Onwards, FlagAssumption
  <2> QED
    BY <2>1, <2>2 DEF Justified, Onwards, Times, FlagAssumption
<1>3. ASSUME call[k].phase = "read"
      PROVE  \E t \in Times : call[k].begun <= t /\ t <= now' /\ call[k].got \in offered'[t]
  BY <1>1, <1>3 DEF CallGood, Onwards, Times, FlagAssumption
<1>4. call[k].phase \in {"reading", "read"} => call[k].begun <= now'
  BY <1>1 DEF CallGood, Onwards, Times, Call, FlagAssumption
<1> QED
  BY <1>2, <1>3, <1>4 DEF CallGood

-----------------------------------------------------------------------------
LEMMA InitIInv == ASSUME FlagAssumption PROVE Init => IInv
<1> SUFFICES ASSUME Init PROVE IInv
  OBVIOUS
<1>1. (CHOOSE p \in Instances : TRUE) \in Instances
  BY DEF FlagAssumption
<1>2. 0 \in Times
  BY DEF Times, FlagAssumption
<1>3. TypeOK
  BY <1>1, <1>2 DEF Init, TypeOK, Call, Free, Empty, Entry
<1>4. row \in offered[now]
  BY <1>2 DEF Init
<1>5. ASSUME NEW p \in Instances PROVE CacheGood(p)
  BY DEF Init, CacheGood
<1>6. ASSUME NEW k \in Calls PROVE CallGood(k)
  BY DEF Init, CallGood, Free
<1> QED BY <1>3, <1>4, <1>5, <1>6 DEF IInv

\* The answer of the cache, as zeroTrustGate or GET takes it, and the locked answer.
LEMMA AskStep ==
  ASSUME FlagAssumption, IInv, NEW k \in Calls, NEW p \in Instances, Ask(k, p)
  PROVE  IInv'
<1> USE DEF IInv
<1>0. now \in Times /\ now \in Int /\ TTL \in Int /\ TTL > 0 /\ cache[p] \in Entry \cup {Empty}
  BY DEF TypeOK, Times, FlagAssumption
<1>a. Free(p).at = p /\ Free(p).want = Nothing /\ Free(p) \in Call
  BY DEF Free, Call, Times, Empty, FlagAssumption
<1>b. Onwards /\ row' = row /\ (row \in offered[now])'
  BY <1>0 DEF Ask, Onwards
<1>1. CASE Fresh(cache[p]) /\ cache' = cache
           /\ call' = [call EXCEPT ![k] = Answer([Free(p) EXCEPT !.begun = now], cache[p])]
  <2>1. cache[p] \in Entry /\ now - cache[p].ts < TTL
    BY <1>0, <1>1 DEF Fresh
  <2>2. /\ call'[k].phase = "answered" /\ call'[k].want = Nothing
        /\ call'[k].begun = now /\ call'[k].ended = now /\ call'[k].answer = cache[p]
    BY <1>1, <1>a DEF TypeOK, Answer, Free
  <2>3. TypeOK'
    BY <1>1, <1>0, <1>a, <2>1 DEF Ask, TypeOK, Answer, Call, Free
  <2>4. Justified(cache[p], now - TTL + 1, now)
    <3>1. Justified(cache[p], cache[p].ts, now)
      BY <2>1 DEF CacheGood, Fresh, Empty, Entry, Switch, Nothing
    <3>2. cache[p].ts \in Int /\ now - TTL + 1 <= cache[p].ts
      BY <2>1, <1>0 DEF Entry, Times, FlagAssumption
    <3> QED BY <3>1, <3>2, <1>0 DEF Justified, Times, FlagAssumption
  <2>5. CallGood(k)'
    BY <2>2, <2>4, <1>0 DEF CallGood, Justified, Ask
  <2>6. \A j \in Calls \ {k} : CallGood(j)'
    BY <1>1, <1>b, CallKept DEF TypeOK
  <2>7. \A q \in Instances : CacheGood(q)'
    BY <1>1, <1>b, CacheKept
  <2> QED BY <2>3, <2>5, <2>6, <2>7, <1>b
<1>2. CASE locked /\ \E entry \in {[val |-> "on", ts |-> now, source |-> "LOCKED"]} :
             /\ cache' = [cache EXCEPT ![p] = entry]
             /\ call' = [call EXCEPT ![k] = Answer([Free(p) EXCEPT !.begun = now], entry)]
  <2> DEFINE entry == [val |-> "on", ts |-> now, source |-> "LOCKED"]
  <2>1. /\ locked /\ entry \in Entry
        /\ cache' = [cache EXCEPT ![p] = entry]
        /\ call' = [call EXCEPT ![k] = Answer([Free(p) EXCEPT !.begun = now], entry)]
    BY <1>2, <1>0 DEF Entry, Switch
  <2>2. /\ call'[k].phase = "answered" /\ call'[k].want = Nothing
        /\ call'[k].ended = now /\ call'[k].answer = entry /\ cache'[p] = entry
    BY <2>1, <1>a DEF TypeOK, Answer, Free
  <2>3. TypeOK'
    BY <2>1, <1>0, <1>a DEF Ask, TypeOK, Answer, Call, Free
  <2>5. CallGood(k)'
    BY <2>1, <2>2, <1>0, <1>b DEF CallGood, Justified, Ask
  <2>6. \A j \in Calls \ {k} : CallGood(j)'
    BY <2>1, <1>b, CallKept DEF TypeOK
  <2>7. CacheGood(p)'
    BY <2>1, <2>2, <1>b DEF CacheGood, Justified, Onwards
  <2>8. \A q \in Instances \ {p} : CacheGood(q)'
    BY <2>1, <1>b, CacheKept DEF TypeOK
  <2> QED BY <2>3, <2>5, <2>6, <2>7, <2>8, <1>b
<1>3. CASE cache' = cache
           /\ call' = [call EXCEPT ![k] = [Free(p) EXCEPT !.phase = "reading", !.begun = now]]
  <2>2. call'[k].phase = "reading" /\ call'[k].want = Nothing /\ call'[k].begun = now
    BY <1>3 DEF TypeOK, Free
  <2>3. TypeOK'
    BY <1>3, <1>0, <1>a DEF Ask, TypeOK, Call, Free
  <2>5. CallGood(k)'
    BY <2>2, <1>0 DEF CallGood, Ask
  <2>6. \A j \in Calls \ {k} : CallGood(j)'
    BY <1>3, <1>b, CallKept DEF TypeOK
  <2>7. \A q \in Instances : CacheGood(q)'
    BY <1>3, <1>b, CacheKept
  <2> QED BY <2>3, <2>5, <2>6, <2>7, <1>b
<1> QED BY <1>1, <1>2, <1>3, <1>a DEF Ask, Resolve

LEMMA PutStep ==
  ASSUME FlagAssumption, IInv, NEW k \in Calls, NEW p \in Instances, NEW v \in Switch, Put(k, p, v)
  PROVE  IInv'
<1> USE DEF IInv
<1>0. Free(p) \in Call /\ now \in Int
  BY DEF Free, Call, Times, Empty, FlagAssumption, TypeOK
<1>1. call'[k] = [Free(p) EXCEPT !.phase = "updating", !.want = v]
  BY DEF Put, TypeOK
<1>2. TypeOK'
  BY <1>0 DEF Put, TypeOK, Call, Free
<1>3. Onwards /\ row' = row /\ (row \in offered[now])'
  BY <1>0 DEF Put, Onwards, TypeOK
<1>4. CallGood(k)'
  BY <1>1 DEF CallGood, Free
<1>5. \A j \in Calls \ {k} : CallGood(j)'
  BY <1>3, CallKept DEF Put, TypeOK
<1>6. \A q \in Instances : CacheGood(q)'
  BY <1>3, CacheKept DEF Put
<1> QED BY <1>2, <1>3, <1>4, <1>5, <1>6

\* The row changes under every call: those that count on it have the new value
\* added to what they may answer.
LEMMA UpdateStep ==
  ASSUME FlagAssumption, IInv, NEW k \in Calls, Update(k)
  PROVE  IInv'
<1> USE DEF IInv
<1> DEFINE want == call[k].want
<1>0. want \in Switch /\ now \in Times /\ now \in Int /\ call[k] \in Call
  BY DEF Update, CallGood, TypeOK, Times, FlagAssumption
<1>1. Onwards /\ row' = want /\ (row \in offered[now])'
  BY <1>0 DEF Update, Onwards, TypeOK
<1>2. \A j \in Calls \ {k} :
        call'[j] = [call[j] EXCEPT !.since =
          IF call[j].since = {} THEN {} ELSE call[j].since \cup {want}]
  BY DEF Update
<1>3. call'[k] = IF call[k].phase = "lost" THEN Free(call[k].at)
                 ELSE [call[k] EXCEPT !.phase = "updated", !.since = {want}]
  BY DEF Update
<1>4. \A j \in Calls : call'[j] \in Call
  <2>1. call'[k] \in Call
    <3>1. CASE call[k].phase = "lost"
      BY <1>0, <1>3, <3>1 DEF Call, Free, Times, Empty, FlagAssumption
    <3>2. CASE call[k].phase # "lost"
      <4> DEFINE since == {want}
      <4>1. since \in SUBSET Switch /\ call'[k] = [call[k] EXCEPT !.phase = "updated", !.since = since]
        BY <1>0, <1>3, <3>2
      <4> HIDE DEF since
      <4> QED BY <1>0, <4>1 DEF Call
    <3> QED BY <3>1, <3>2
  <2>2. ASSUME NEW j \in Calls \ {k} PROVE call'[j] \in Call
    <3> DEFINE since == IF call[j].since = {} THEN {} ELSE call[j].since \cup {want}
    <3>1. call[j] \in Call
      BY DEF TypeOK
    <3>2. since \in SUBSET Switch
      BY <3>1, <1>0 DEF Call
    <3>3. call'[j] = [call[j] EXCEPT !.since = since]
      BY <1>2
    <3> HIDE DEF since
    <3> QED BY <3>1, <3>2, <3>3 DEF Call
  <2> QED BY <2>1, <2>2
<1>5. TypeOK'
  BY <1>0, <1>4 DEF Update, TypeOK, Onwards
<1>6. CallGood(k)'
  BY <1>0, <1>1, <1>3 DEF CallGood, Free, Update
<1>7. ASSUME NEW j \in Calls \ {k} PROVE CallGood(j)'
  <2>1. /\ call'[j].phase = call[j].phase /\ call'[j].want = call[j].want
        /\ call'[j].begun = call[j].begun /\ call'[j].got = call[j].got
        /\ call'[j].answer = call[j].answer /\ call'[j].ended = call[j].ended
        /\ call'[j].since = IF call[j].since = {} THEN {} ELSE call[j].since \cup {want}
    <3> DEFINE since == IF call[j].since = {} THEN {} ELSE call[j].since \cup {want}
    <3>1. call[j] \in Call /\ call'[j] = [call[j] EXCEPT !.since = since]
      BY <1>2 DEF TypeOK
    <3> HIDE DEF since
    <3>2. /\ call'[j].phase = call[j].phase /\ call'[j].want = call[j].want
          /\ call'[j].begun = call[j].begun /\ call'[j].got = call[j].got
          /\ call'[j].answer = call[j].answer /\ call'[j].ended = call[j].ended
          /\ call'[j].since = since
      BY <3>1 DEF Call
    <3> QED BY <3>2 DEF since
  <2>2. CallGood(j) /\ now' = now /\ call[j] \in Call
    BY DEF Update, TypeOK
  <2>3. call[j].phase = "answered" =>
          Justified(call[j].answer, call[j].begun - TTL + 1, call[j].ended)'
    <3>1. call[j].ended \in Int /\ call[j].begun \in Int /\ TTL \in Int
      BY <2>2 DEF Call, Times, FlagAssumption
    <3> QED BY <2>1, <2>2, <3>1, <1>0, <1>1 DEF CallGood, Justified, Onwards, Times
  <2>4. call[j].phase = "read" =>
          \E t \in Times : call[j].begun <= t /\ t <= now /\ call[j].got \in offered'[t]
    BY <2>2, <1>1 DEF CallGood, Onwards
  <2> QED BY <2>1, <2>2, <2>3, <2>4, <1>1 DEF CallGood
<1>8. \A q \in Instances : CacheGood(q)'
  BY <1>1, CacheKept DEF Update
<1> QED BY <1>1, <1>5, <1>6, <1>7, <1>8

LEMMA BustStep ==
  ASSUME FlagAssumption, IInv, NEW k \in Calls, Bust(k)
  PROVE  IInv'
<1> USE DEF IInv
<1>0. now \in Times /\ now \in Int /\ call[k] \in Call
  BY DEF TypeOK, Times, FlagAssumption
<1>1. call'[k] = [call[k] EXCEPT !.phase = "reading", !.begun = now]
  BY DEF Bust, TypeOK
<1>2. TypeOK'
  BY <1>0 DEF Bust, TypeOK, Call
<1>3. Onwards /\ row' = row /\ (row \in offered[now])'
  BY <1>0 DEF Bust, Onwards
<1>4. CallGood(k)'
  <2>1. /\ call'[k].phase = "reading" /\ call'[k].begun = now
        /\ call'[k].want = call[k].want /\ call'[k].since = call[k].since
    BY <1>0, <1>1 DEF Call
  <2>2. call[k].want # Nothing => row \in call[k].since
    BY DEF Bust, CallGood
  <2> QED BY <1>0, <1>3, <2>1, <2>2 DEF CallGood, Bust
<1>5. \A j \in Calls \ {k} : CallGood(j)'
  BY <1>3, CallKept DEF Bust, TypeOK
<1>6. ASSUME NEW q \in Instances PROVE CacheGood(q)'
  <2>1. CASE q = call[k].at
    BY <2>1 DEF Bust, CacheGood, TypeOK
  <2>2. CASE q # call[k].at
    BY <2>2, <1>3, CacheKept DEF Bust, TypeOK
  <2> QED BY <2>1, <2>2
<1> QED BY <1>2, <1>3, <1>4, <1>5, <1>6

LEMMA UpdateFailsStep ==
  ASSUME FlagAssumption, IInv, NEW k \in Calls, UpdateFails(k)
  PROVE  IInv'
<1> USE DEF IInv
<1>0. now \in Times /\ now \in Int
  BY DEF TypeOK, Times, FlagAssumption
<1>1. Onwards /\ row' = row /\ (row \in offered[now])'
  BY <1>0 DEF UpdateFails, Onwards
<1>2. ASSUME NEW j \in Calls PROVE call'[j] \in Call /\ CallGood(j)'
  <2>0. call[j] \in Call
    BY DEF TypeOK
  <2>1. CASE call'[j] = call[j]
    BY <2>0, <2>1, <1>1, CallKept
  <2>2. CASE call[j].phase = "updating" /\ call'[j] = [call[j] EXCEPT !.phase = "lost"]
    <3>1. call'[j].phase = "lost" /\ call'[j].want = call[j].want /\ call'[j] \in Call
      BY <2>0, <2>2 DEF Call
    <3> QED BY <2>2, <3>1 DEF CallGood
  <2>3. CASE call'[j] = Free(call[j].at)
    <3>1. call'[j].phase = "free"
      BY <2>3 DEF Free
    <3>2. call'[j] \in Call
      BY <2>0, <2>3 DEF Free, Call, Times, Empty, FlagAssumption
    <3> QED BY <3>1, <3>2 DEF CallGood
  <2> QED BY <2>1, <2>2, <2>3 DEF UpdateFails
<1>3. TypeOK'
  BY <1>2 DEF UpdateFails, TypeOK
<1>4. ASSUME NEW q \in Instances PROVE CacheGood(q)'
  <2>1. CASE q = call[k].at
    BY <2>1 DEF UpdateFails, CacheGood, TypeOK
  <2>2. CASE q # call[k].at
    BY <2>2, <1>1, CacheKept DEF UpdateFails, TypeOK
  <2> QED BY <2>1, <2>2
<1> QED BY <1>1, <1>2, <1>3, <1>4

LEMMA ReadStep ==
  ASSUME FlagAssumption, IInv, NEW k \in Calls, Read(k)
  PROVE  IInv'
<1> USE DEF IInv
<1>0. now \in Times /\ now \in Int /\ call[k] \in Call
  BY DEF TypeOK, Times, FlagAssumption
<1>1. call'[k] = [call[k] EXCEPT !.phase = "read", !.got = row]
  BY DEF Read, TypeOK
<1>2. TypeOK'
  BY <1>0 DEF Read, TypeOK, Call
<1>3. Onwards /\ row' = row /\ (row \in offered[now])'
  BY <1>0 DEF Read, Onwards
<1>4. CallGood(k)'
  <2>1. /\ call'[k].phase = "read" /\ call'[k].begun = call[k].begun /\ call'[k].got = row
        /\ call'[k].want = call[k].want /\ call'[k].since = call[k].since
    BY <1>0, <1>1 DEF Call
  <2>2. call[k].begun <= now /\ (call[k].want # Nothing => row \in call[k].since)
    BY DEF Read, CallGood
  <2>3. \E t \in Times : call[k].begun <= t /\ t <= now /\ row \in offered[t]
    BY <1>0, <2>2
  <2> QED BY <2>1, <2>2, <2>3 DEF CallGood, Read
<1>5. \A j \in Calls \ {k} : CallGood(j)'
  BY <1>3, CallKept DEF Read, TypeOK
<1>6. \A q \in Instances : CacheGood(q)'
  BY <1>3, CacheKept DEF Read
<1> QED BY <1>2, <1>3, <1>4, <1>5, <1>6

\* A lookup that comes back with something the database offered since it began.
LEMMA SettleStep ==
  ASSUME FlagAssumption, IInv, NEW k \in Calls, call[k].phase \in {"reading", "read"},
         NEW val \in Switch, NEW source \in {"DB", "DEFAULT"},
         Settle(k, [val |-> val, ts |-> call[k].begun, source |-> source]),
         offered' \in [Times -> SUBSET (Switch \cup {Nothing})],
         \A t \in Times : offered[t] \subseteq offered'[t],
         \E t \in Times : call[k].begun <= t /\ t <= now /\
           \/ source = "DB" /\ val \in offered'[t]
           \/ source = "DEFAULT" /\ val = default /\ Nothing \in offered'[t],
         source = "DB" /\ call[k].want # Nothing => val \in call[k].since
  PROVE  IInv'
<1> USE DEF IInv
<1> DEFINE entry == [val |-> val, ts |-> call[k].begun, source |-> source]
<1>0. /\ now \in Times /\ now \in Int /\ TTL \in Int /\ TTL > 0 /\ call[k] \in Call
      /\ call[k].begun \in Times /\ call[k].begun \in Int /\ call[k].begun <= now
  BY DEF TypeOK, Times, Call, CallGood, FlagAssumption
<1>1. entry \in Entry /\ entry.ts = call[k].begun /\ entry.val = val /\ entry.source = source
  BY <1>0 DEF Entry
<1> HIDE DEF entry
<1>2. Settle(k, entry)
  BY DEF entry
<1>3. /\ call'[k].phase = "answered" /\ call'[k].ended = now /\ call'[k].answer = entry
      /\ call'[k].begun = call[k].begun /\ call'[k].want = call[k].want
      /\ call'[k].since = call[k].since /\ call'[k] \in Call
  <2>1. call'[k] = [call[k] EXCEPT !.phase = "answered", !.got = Nothing, !.answer = entry, !.ended = now]
    BY <1>2 DEF Settle, Answer, TypeOK
  <2> QED BY <1>0, <1>1, <2>1 DEF Call
<1>4. TypeOK'
  BY <1>1, <1>2, <1>3 DEF Settle, TypeOK, Call
<1>5. Onwards /\ row' = row /\ (row \in offered[now])'
  BY <1>0, <1>2 DEF Settle, Onwards
<1>6. PICK t \in Times : call[k].begun <= t /\ t <= now /\
         \/ source = "DB" /\ val \in offered'[t]
         \/ source = "DEFAULT" /\ val = default' /\ Nothing \in offered'[t]
  BY <1>5 DEF Onwards
<1>7. Justified(call[k].answer, call[k].begun - TTL + 1, call[k].ended)'
  <2>1. call[k].begun - TTL + 1 <= t
    BY <1>0, <1>6 DEF Times, FlagAssumption
  <2> QED BY <1>1, <1>3, <1>6, <2>1 DEF Justified
<1>8. CallGood(k)'
  <2>1. now' = now
    BY <1>2 DEF Settle
  <2> QED BY <1>0, <1>1, <1>3, <1>7, <2>1 DEF CallGood
<1>9. \A j \in Calls \ {k} : CallGood(j)'
  BY <1>2, <1>5, CallKept DEF Settle, TypeOK
<1>10. ASSUME NEW q \in Instances PROVE CacheGood(q)'
  <2>1. CASE q = call[k].at
    <3>1. cache'[q] = entry /\ now' = now
      BY <2>1, <1>2 DEF Settle, TypeOK
    <3> QED BY <1>1, <1>6, <3>1 DEF CacheGood, Justified
  <2>2. CASE q # call[k].at
    BY <2>2, <1>2, <1>5, CacheKept DEF Settle, TypeOK
  <2> QED BY <2>1, <2>2
<1> QED BY <1>4, <1>5, <1>8, <1>9, <1>10

LEMMA FoundStep ==
  ASSUME FlagAssumption, IInv, NEW k \in Calls, Found(k)
  PROVE  IInv'
<1>1. /\ call[k].got \in Switch
      /\ \E t \in Times : call[k].begun <= t /\ t <= now /\ call[k].got \in offered[t]
      /\ call[k].want # Nothing => call[k].got \in call[k].since
  BY DEF Found, IInv, CallGood, TypeOK, Call
<1>2. Settle(k, [val |-> call[k].got, ts |-> call[k].begun, source |-> "DB"]) /\ offered' = offered
  BY DEF Found, FromRow
<1> QED BY <1>1, <1>2, SettleStep DEF Found, IInv, TypeOK

LEMMA NoRowStep ==
  ASSUME FlagAssumption, IInv, NEW k \in Calls, NoRow(k)
  PROVE  IInv'
<1>1. /\ default \in Switch
      /\ \E t \in Times : call[k].begun <= t /\ t <= now /\ Nothing \in offered[t]
  BY DEF NoRow, IInv, CallGood, TypeOK
<1>2. Settle(k, [val |-> default, ts |-> call[k].begun, source |-> "DEFAULT"]) /\ offered' = offered
  BY DEF NoRow, ByDefault
<1> QED BY <1>1, <1>2, SettleStep DEF NoRow, IInv, TypeOK

LEMMA LookupFailsStep ==
  ASSUME FlagAssumption, IInv, NEW k \in Calls, LookupFails(k)
  PROVE  IInv'
<1>1. default \in Switch /\ now \in Times /\ now <= now /\ call[k].begun <= now
  BY DEF LookupFails, IInv, CallGood, TypeOK, Times, FlagAssumption
<1>2. /\ offered' \in [Times -> SUBSET (Switch \cup {Nothing})]
      /\ \A t \in Times : offered[t] \subseteq offered'[t]
      /\ Nothing \in offered'[now]
  BY <1>1 DEF LookupFails, IInv, TypeOK
<1>3. Settle(k, [val |-> default, ts |-> call[k].begun, source |-> "DEFAULT"])
  BY DEF LookupFails, ByDefault
<1> QED BY <1>1, <1>2, <1>3, SettleStep DEF LookupFails

LEMMA TickStep ==
  ASSUME FlagAssumption, IInv, Tick
  PROVE  IInv'
<1> USE DEF IInv
<1>1. now \in Times /\ now \in Int /\ now + 1 \in Times
  BY DEF TypeOK, Times, FlagAssumption, Tick
<1>2. TypeOK'
  BY <1>1 DEF Tick, TypeOK
<1>3. Onwards /\ row' = row /\ (row \in offered[now])'
  BY <1>1 DEF Tick, TypeOK, Onwards, Times
<1>4. \A j \in Calls : CallGood(j)'
  BY <1>3, CallKept DEF Tick
<1>5. \A q \in Instances : CacheGood(q)'
  BY <1>3, CacheKept DEF Tick
<1> QED BY <1>2, <1>3, <1>4, <1>5

LEMMA StepIInv == ASSUME FlagAssumption, IInv, [Next]_vars PROVE IInv'
<1>1. CASE UNCHANGED vars
  BY <1>1 DEF vars, IInv, TypeOK, CacheGood, CallGood, Justified
<1>2. CASE Tick
  BY <1>2, TickStep
<1>3. ASSUME NEW k \in Calls,
             \/ \E p \in Instances : Ask(k, p) \/ \E v \in Switch : Put(k, p, v)
             \/ Update(k) \/ Bust(k) \/ UpdateFails(k)
             \/ Read(k) \/ Found(k) \/ NoRow(k) \/ LookupFails(k)
      PROVE  IInv'
  BY <1>3, AskStep, PutStep, UpdateStep, BustStep, UpdateFailsStep, ReadStep, FoundStep,
     NoRowStep, LookupFailsStep
<1> QED BY <1>1, <1>2, <1>3 DEF Next

-----------------------------------------------------------------------------
(***************************************************************************)
(* The inductive invariant: cached values and running lookups are          *)
(* justified by what the database offered since their time stamp.          *)
(***************************************************************************)
THEOREM Inductive == Spec => []IInv
BY FlagAssumption, InitIInv, StepIInv, PTL DEF Spec

(***************************************************************************)
(* Every variable keeps its type: no cached entry is without a value.      *)
(***************************************************************************)
THEOREM TypeCorrect == Spec => []TypeOK
BY Inductive, PTL DEF IInv

(***************************************************************************)
(* resolveZeroTrust never answers with a value older than TTL_MS: it takes *)
(* now before the lookup, and a bust or a restart only empties the cache.  *)
(***************************************************************************)
THEOREM FreshCorrect == Spec => []FreshWithinTTL
BY Inductive, Enough, PTL

(***************************************************************************)
(* PUT /zero-trust never answers with a row from before its own update.    *)
(***************************************************************************)
THEOREM PutCorrect == Spec => []PutSeesWrite
BY Inductive, Enough, PTL

-----------------------------------------------------------------------------
(***************************************************************************)
(* Who looks later.  The process holds values of the row with the times    *)
(* their lookups began: in caches, in lookups that have read and in        *)
(* answers.  A step moves them on, drops them or reads the row.            *)
(***************************************************************************)
CacheTells(p, v, t) == cache[p].source = "DB" /\ v = cache[p].val /\ t = cache[p].ts
CallTells(j, v, t) ==
  \/ call[j].phase = "read" /\ v = call[j].got /\ v # Nothing /\ t = call[j].begun
  \/ call[j].phase = "answered" /\ call[j].answer.source = "DB"
       /\ v = call[j].answer.val /\ t = call[j].answer.ts

Told(v, t) == (\E p \in Instances : CacheTells(p, v, t)) \/ \E j \in Calls : CallTells(j, v, t)

\* A PUT whose update was made, and one whose own lookup has begun.
Written(k) == call[k].phase \in {"updated", "reading", "read", "answered"} /\ call[k].want # Nothing
Looked(k) == call[k].phase \in {"reading", "read", "answered"} /\ call[k].want # Nothing

LaterInv ==
  /\ \A v, t : Told(v, t) => t \in Int /\ t <= now
  /\ \A k \in Calls : Written(k) => row \in call[k].since
  /\ \A k \in Calls : Looked(k) => \A v, t : Told(v, t) /\ t > call[k].begun => v \in call[k].since

LEMMA LaterEnough == LaterInv => LaterSeesWrite
<1> SUFFICES ASSUME LaterInv, NEW k \in Calls, call[k].phase = "answered", call[k].want # Nothing
             PROVE  /\ \A p \in Instances : Later(k, cache[p]) => cache[p].val \in call[k].since
                    /\ \A j \in Calls : call[j].phase = "answered" /\ Later(k, call[j].answer) =>
                         call[j].answer.val \in call[k].since
  BY DEF LaterSeesWrite
<1>1. \A v, t : Told(v, t) /\ t > call[k].begun => v \in call[k].since
  BY DEF LaterInv, Looked
<1>2. ASSUME NEW p \in Instances, Later(k, cache[p]) PROVE cache[p].val \in call[k].since
  <2>1. Told(cache[p].val, cache[p].ts)
    BY <1>2 DEF Told, CacheTells, Later
  <2> QED BY <1>1, <1>2, <2>1 DEF Later
<1>3. ASSUME NEW j \in Calls, call[j].phase = "answered", Later(k, call[j].answer)
      PROVE  call[j].answer.val \in call[k].since
  <2>1. Told(call[j].answer.val, call[j].answer.ts)
    BY <1>3 DEF Told, CallTells, Later
  <2> QED BY <1>1, <1>3, <2>1 DEF Later
<1> QED BY <1>2, <1>3

\* What holders of values do: cache p and call j have what they had, nothing, or what
\* somebody else had, or the row.
Passes(v, t) == Told(v, t) \/ (v = row /\ t \in Int /\ t <= now)
CachePasses(p) == \A v, t : CacheTells(p, v, t)' => Passes(v, t)
CallPasses(j) == \A v, t : CallTells(j, v, t)' => Passes(v, t)

\* What a PUT does: it goes on, or begins its lookup now.
PutKeeps(k) ==
  /\ Written(k)' => row' \in call'[k].since
  /\ Looked(k)' => \/ Looked(k) /\ call'[k].begun = call[k].begun /\ call[k].since \subseteq call'[k].since
                   \/ call'[k].begun = now

LEMMA LaterKept ==
  ASSUME IInv, LaterInv, now' \in Int, now <= now', \A p \in Instances : CachePasses(p),
         \A j \in Calls : CallPasses(j) /\ PutKeeps(j)
  PROVE  LaterInv'
<1>0. now \in Int
  BY DEF IInv, TypeOK, Times
<1>1. ASSUME NEW v, NEW t, Told(v, t)' PROVE Passes(v, t) /\ t \in Int /\ t <= now
  <2>1. Passes(v, t)
    BY <1>1 DEF Told, CachePasses, CallPasses
  <2> QED BY <2>1 DEF Passes, LaterInv
<1>2. \A v, t : Told(v, t)' => t \in Int /\ t <= now'
  BY <1>0, <1>1
<1>3. ASSUME NEW k \in Calls, Looked(k)', NEW v, NEW t, Told(v, t)', t > call'[k].begun
      PROVE  v \in call'[k].since
  <2>1. ~(call'[k].begun = now)
    BY <1>0, <1>1, <1>3
  <2>2. Looked(k) /\ call'[k].begun = call[k].begun /\ call[k].since \subseteq call'[k].since
    BY <1>3, <2>1 DEF PutKeeps
  <2>3. row \in call[k].since
    BY <2>2 DEF LaterInv, Looked, Written
  <2>4. CASE Told(v, t)
    BY <1>3, <2>2, <2>4 DEF LaterInv
  <2>5. CASE v = row
    BY <2>2, <2>3, <2>5
  <2> QED BY <1>1, <1>3, <2>4, <2>5 DEF Passes
<1>4. \A k \in Calls : Written(k)' => row' \in call'[k].since
  BY DEF PutKeeps
<1> QED BY <1>2, <1>3, <1>4 DEF LaterInv

\* An untouched cache, and an untouched call while the row stays.
LEMMA Untouched ==
  /\ \A p \in Instances : cache'[p] = cache[p] \/ cache'[p] = Empty => CachePasses(p)
  /\ \A j \in Calls : call'[j] = call[j] => CallPasses(j)
  /\ LaterInv => \A j \in Calls : call'[j] = call[j] /\ row' = row => PutKeeps(j)
<1>1. ASSUME NEW p \in Instances, cache'[p] = cache[p] \/ cache'[p] = Empty PROVE CachePasses(p)
  BY <1>1 DEF CachePasses, CacheTells, Passes, Told, Empty, Nothing
<1>2. ASSUME NEW j \in Calls, call'[j] = call[j] PROVE CallPasses(j)
  BY <1>2 DEF CallPasses, CallTells, Passes, Told
<1>3. ASSUME LaterInv, NEW j \in Calls, call'[j] = call[j], row' = row PROVE PutKeeps(j)
  BY <1>3 DEF PutKeeps, LaterInv, Written, Looked
<1> QED BY <1>1, <1>2, <1>3
\* Asking takes the cache's answer, the locked one, or begins a lookup.
LEMMA AskLater ==
  ASSUME IInv, LaterInv, NEW k \in Calls, NEW p \in Instances, Ask(k, p) PROVE LaterInv'
<1>0. now' = now /\ row' = row /\ now \in Int /\ call \in [Calls -> Call] /\ cache \in [Instances -> Entry \cup {Empty}]
  BY DEF Ask, IInv, TypeOK, Times
<1>1. PICK c : c = call'[k]
  OBVIOUS
<1>2. Free(p).want = Nothing /\ Free(p).at = p
  BY DEF Free
<1>3. /\ c.want = Nothing /\ \A j \in Calls \ {k} : call'[j] = call[j]
      /\ \/ c.phase = "reading" /\ cache' = cache
         \/ c.phase = "answered" /\ c.answer = cache[p] /\ cache' = cache
         \/ /\ c.phase = "answered" /\ c.answer.source = "LOCKED"
            /\ \A q \in Instances : cache'[q] = cache[q] \/ cache'[q].source = "LOCKED"
  <2>1. CASE call' = [call EXCEPT ![k] = Answer([Free(p) EXCEPT !.begun = now], cache[p])] /\ cache' = cache
    BY <1>0, <1>1, <2>1 DEF Answer, Free
  <2>2. ASSUME NEW entry, entry.source = "LOCKED", cache' = [cache EXCEPT ![p] = entry],
               call' = [call EXCEPT ![k] = Answer([Free(p) EXCEPT !.begun = now], entry)]
        PROVE  /\ c.want = Nothing /\ \A j \in Calls \ {k} : call'[j] = call[j]
               /\ c.phase = "answered" /\ c.answer.source = "LOCKED"
               /\ \A q \in Instances : cache'[q] = cache[q] \/ cache'[q].source = "LOCKED"
    <3>1. c = Answer([Free(p) EXCEPT !.begun = now], entry) /\ \A j \in Calls \ {k} : call'[j] = call[j]
      BY <1>0, <1>1, <2>2
    <3>2. c.want = Nothing /\ c.phase = "answered" /\ c.answer = entry
      BY <3>1 DEF Answer, Free
    <3>3. \A q \in Instances : cache'[q] = cache[q] \/ cache'[q] = entry
      BY <1>0, <2>2
    <3> QED BY <2>2, <3>1, <3>2, <3>3
  <2>3. CASE call' = [call EXCEPT ![k] = [Free(p) EXCEPT !.phase = "reading", !.begun = now]] /\ cache' = cache
    BY <1>0, <1>1, <2>3 DEF Free
  <2>4. \/ call' = [call EXCEPT ![k] = Answer([Free(p) EXCEPT !.begun = now], cache[p])] /\ cache' = cache
        \/ call' = [call EXCEPT ![k] = [Free(p) EXCEPT !.phase = "reading", !.begun = now]] /\ cache' = cache
        \/ \E entry : /\ entry = [val |-> "on", ts |-> now, source |-> "LOCKED"]
                      /\ cache' = [cache EXCEPT ![p] = entry]
                      /\ call' = [call EXCEPT ![k] = Answer([Free(p) EXCEPT !.begun = now], entry)]
    BY <1>2 DEF Ask, Resolve
  <2>5. \A entry : entry = [val |-> "on", ts |-> now, source |-> "LOCKED"] => entry.source = "LOCKED"
    OBVIOUS
  <2> QED BY <2>1, <2>2, <2>3, <2>4, <2>5
<1>4. \A q \in Instances : CachePasses(q)
  <2>1. \A q \in Instances : cache'[q].source = "LOCKED" => CachePasses(q)
    BY DEF CachePasses, CacheTells
  <2> QED BY <1>3, <2>1, Untouched
<1>5. CallPasses(k) /\ PutKeeps(k)
  <2>1. PutKeeps(k)
    BY <1>1, <1>3 DEF PutKeeps, Written, Looked
  <2>2. ASSUME NEW v, NEW t, CallTells(k, v, t)' PROVE CacheTells(p, v, t)
    BY <1>1, <1>3, <2>2 DEF CallTells, CacheTells
  <2>3. CallPasses(k)
    BY <2>2 DEF CallPasses, Passes, Told
  <2> QED BY <2>1, <2>3
<1>6. \A j \in Calls \ {k} : CallPasses(j) /\ PutKeeps(j)
  BY <1>0, <1>3, Untouched
<1> QED BY <1>0, <1>4, <1>5, <1>6, LaterKept

LEMMA PutLater ==
  ASSUME IInv, LaterInv, NEW k \in Calls, NEW p \in Instances, NEW v \in Switch, Put(k, p, v) PROVE LaterInv'
<1>0. now' = now /\ row' = row /\ now \in Int /\ call \in [Calls -> Call] /\ cache' = cache
  BY DEF Put, IInv, TypeOK, Times
<1>1. call'[k].phase = "updating" /\ \A j \in Calls \ {k} : call'[j] = call[j]
  BY <1>0 DEF Put, Free
<1>2. CallPasses(k) /\ PutKeeps(k)
  BY <1>1 DEF CallPasses, CallTells, PutKeeps, Written, Looked
<1> QED BY <1>0, <1>1, <1>2, Untouched, LaterKept

\* The row changes; every PUT that was written has the new value among its own.
LEMMA UpdateLater ==
  ASSUME IInv, LaterInv, NEW k \in Calls, Update(k) PROVE LaterInv'
<1>0. now' = now /\ now \in Int /\ call \in [Calls -> Call] /\ cache' = cache
  BY DEF Update, IInv, TypeOK, Times
<1>1. PICK w : w = call[k].want
  OBVIOUS
<1>2. /\ row' = w
      /\ \A j \in Calls \ {k} :
           call'[j] = [call[j] EXCEPT !.since = IF call[j].since = {} THEN {} ELSE call[j].since \cup {w}]
      /\ call'[k] = IF call[k].phase = "lost" THEN Free(call[k].at)
                    ELSE [call[k] EXCEPT !.phase = "updated", !.since = {w}]
  BY <1>1 DEF Update
<1>3. ASSUME NEW j \in Calls \ {k} PROVE CallPasses(j) /\ PutKeeps(j)
  <2> DEFINE since == IF call[j].since = {} THEN {} ELSE call[j].since \cup {w}
  <2>1. call[j] \in Call /\ call'[j] = [call[j] EXCEPT !.since = since]
    BY <1>0, <1>2
  <2> HIDE DEF since
  <2>2. /\ call'[j].phase = call[j].phase /\ call'[j].want = call[j].want
        /\ call'[j].begun = call[j].begun /\ call'[j].got = call[j].got
        /\ call'[j].answer = call[j].answer /\ call'[j].since = since
    BY <2>1 DEF Call
  <2>3. \A v, t : CallTells(j, v, t)' => CallTells(j, v, t)
    BY <2>2 DEF CallTells
  <2>4. CallPasses(j)
    BY <2>3 DEF CallPasses, Passes, Told
  <2>5. Written(j)' => row \in call[j].since
    BY <2>2 DEF LaterInv, Written
  <2>6. Written(j)' => row' \in since
    BY <1>2, <2>5 DEF since
  <2>7. call[j].since \subseteq since
    BY DEF since
  <2> QED BY <2>2, <2>4, <2>6, <2>7 DEF PutKeeps, Looked
<1>4. CallPasses(k) /\ PutKeeps(k)
  <2>1. CASE call[k].phase = "lost"
    <3>1. call'[k].phase = "free"
      BY <1>2, <2>1 DEF Free
    <3> QED BY <3>1 DEF CallPasses, CallTells, PutKeeps, Written, Looked
  <2>2. CASE call[k].phase # "lost"
    <3>1. call[k] \in Call /\ call'[k] = [call[k] EXCEPT !.phase = "updated", !.since = {w}]
      BY <1>0, <1>2, <2>2
    <3>2. call'[k].phase = "updated" /\ call'[k].since = {w}
      BY <3>1 DEF Call
    <3> QED BY <1>2, <3>2 DEF CallPasses, CallTells, PutKeeps, Written, Looked
  <2> QED BY <2>1, <2>2
<1> QED BY <1>0, <1>3, <1>4, Untouched, LaterKept

\* The PUT's lookup begins: nobody has a later one.
LEMMA BustLater ==
  ASSUME IInv, LaterInv, NEW k \in Calls, Bust(k) PROVE LaterInv'
<1>0. now' = now /\ row' = row /\ now \in Int /\ call \in [Calls -> Call] /\ cache \in [Instances -> Entry \cup {Empty}]
  BY DEF Bust, IInv, TypeOK, Times
<1>1. /\ \A q \in Instances : cache'[q] = cache[q] \/ cache'[q] = Empty
      /\ \A j \in Calls \ {k} : call'[j] = call[j]
      /\ call[k].phase = "updated" /\ call'[k] = [call[k] EXCEPT !.phase = "reading", !.begun = now]
  BY <1>0 DEF Bust
<1>2. /\ call'[k].phase = "reading" /\ call'[k].begun = now
      /\ call'[k].want = call[k].want /\ call'[k].since = call[k].since
  BY <1>0, <1>1 DEF Call
<1>3. CallPasses(k) /\ PutKeeps(k)
  BY <1>0, <1>1, <1>2 DEF CallPasses, CallTells, PutKeeps, LaterInv, Written
<1> QED BY <1>0, <1>1, <1>3, Untouched, LaterKept

LEMMA UpdateFailsLater ==
  ASSUME IInv, LaterInv, NEW k \in Calls, UpdateFails(k) PROVE LaterInv'
<1>0. now' = now /\ row' = row /\ now \in Int /\ call \in [Calls -> Call] /\ cache \in [Instances -> Entry \cup {Empty}]
  BY DEF UpdateFails, IInv, TypeOK, Times
<1>1. \A q \in Instances : cache'[q] = cache[q] \/ cache'[q] = Empty
  BY <1>0 DEF UpdateFails
<1>2. ASSUME NEW j \in Calls PROVE call'[j] = call[j] \/ call'[j].phase \in {"lost", "free"}
  <2>1. \/ call'[j] = call[j] \/ call'[j] = Free(call[j].at)
        \/ call'[j] = [call[j] EXCEPT !.phase = "lost"]
    BY DEF UpdateFails
  <2>2. PICK c \in Call : c = call[j]
    BY <1>0
  <2>3. [c EXCEPT !.phase = "lost"].phase = "lost"
    BY <2>2 DEF Call
  <2>4. Free(call[j].at).phase = "free"
    BY DEF Free
  <2> QED BY <2>1, <2>2, <2>3, <2>4
<1>3. \A j \in Calls : call'[j].phase \in {"lost", "free"} => CallPasses(j) /\ PutKeeps(j)
  BY DEF CallPasses, CallTells, PutKeeps, Written, Looked
<1> QED BY <1>0, <1>1, <1>2, <1>3, Untouched, LaterKept

\* A lookup reads the row, which every PUT before it knows.
LEMMA ReadLater ==
  ASSUME IInv, LaterInv, NEW k \in Calls, Read(k) PROVE LaterInv'
<1>0. now' = now /\ row' = row /\ now \in Int /\ call \in [Calls -> Call] /\ cache' = cache
  BY DEF Read, IInv, TypeOK, Times
<1>1. /\ \A j \in Calls \ {k} : call'[j] = call[j]
      /\ call[k].phase = "reading" /\ call'[k] = [call[k] EXCEPT !.phase = "read", !.got = row]
  BY <1>0 DEF Read
<1>2. /\ call'[k].phase = "read" /\ call'[k].begun = call[k].begun /\ call'[k].got = row
      /\ call'[k].want = call[k].want /\ call'[k].since = call[k].since
  BY <1>0, <1>1 DEF Call
<1>3. call[k].begun \in Int /\ call[k].begun <= now
  BY <1>0, <1>1 DEF IInv, CallGood, Call, Times
<1>4. CallPasses(k)
  BY <1>2, <1>3 DEF CallPasses, CallTells, Passes
<1>5. PutKeeps(k)
  BY <1>0, <1>1, <1>2 DEF PutKeeps, LaterInv, Written, Looked
<1> QED BY <1>0, <1>1, <1>4, <1>5, Untouched, LaterKept

\* A lookup stores what it read with the time it began, or the default.
LEMMA SettleLater ==
  ASSUME IInv, LaterInv, NEW k \in Calls, call[k].phase \in {"reading", "read"}, NEW entry, Settle(k, entry),
         \/ entry.source = "DEFAULT"
         \/ call[k].phase = "read" /\ entry.val = call[k].got /\ entry.val # Nothing /\ entry.ts = call[k].begun
  PROVE  LaterInv'
<1>0. now' = now /\ row' = row /\ now \in Int /\ call \in [Calls -> Call] /\ cache \in [Instances -> Entry \cup {Empty}]
  BY DEF Settle, IInv, TypeOK, Times
<1>1. /\ \A q \in Instances : cache'[q] = cache[q] \/ cache'[q] = entry
      /\ \A j \in Calls \ {k} : call'[j] = call[j]
      /\ call'[k] = [call[k] EXCEPT !.phase = "answered", !.got = Nothing, !.answer = entry, !.ended = now]
  BY <1>0 DEF Settle, Answer
<1>2. /\ call'[k].phase = "answered" /\ call'[k].answer = entry /\ call'[k].begun = call[k].begun
      /\ call'[k].want = call[k].want /\ call'[k].since = call[k].since
  BY <1>0, <1>1 DEF Call
<1>3. ASSUME entry.source = "DB" PROVE CallTells(k, entry.val, entry.ts)
  BY <1>3 DEF CallTells
<1>4. \A q \in Instances : CachePasses(q)
  <2>1. \A q \in Instances : cache'[q] = entry => CachePasses(q)
    BY <1>3 DEF CachePasses, CacheTells, Passes, Told
  <2> QED BY <1>1, <2>1, Untouched
<1>5. CallPasses(k)
  <2>1. \A v, t : CallTells(k, v, t)' => CallTells(k, v, t)
    BY <1>2, <1>3 DEF CallTells
  <2> QED BY <2>1 DEF CallPasses, Passes, Told
<1>6. PutKeeps(k)
  BY <1>0, <1>2 DEF PutKeeps, LaterInv, Written, Looked
<1> QED BY <1>0, <1>1, <1>4, <1>5, <1>6, Untouched, LaterKept

LEMMA StepLater == ASSUME FlagAssumption, IInv, LaterInv, [Next]_vars PROVE LaterInv'
<1>1. CASE UNCHANGED vars
  BY <1>1 DEF vars, LaterInv, Told, CacheTells, CallTells, Written, Looked
<1>2. CASE Tick
  <2>1. cache' = cache /\ call' = call /\ row' = row /\ now' = now + 1 /\ now \in Int
    BY <1>2 DEF Tick, IInv, TypeOK, Times
  <2> QED BY <2>1, Untouched, LaterKept
<1>3. ASSUME NEW k \in Calls, Found(k) \/ NoRow(k) \/ LookupFails(k) PROVE LaterInv'
  <2>1. CASE Found(k)
    <3>1. PICK entry : entry = FromRow(k)
      OBVIOUS
    <3>2. entry.val = call[k].got /\ entry.ts = call[k].begun
      BY <3>1 DEF FromRow
    <3> QED BY <2>1, <3>1, <3>2, SettleLater DEF Found
  <2>2. CASE NoRow(k) \/ LookupFails(k)
    <3>1. PICK entry : entry = ByDefault(k)
      OBVIOUS
    <3>2. entry.source = "DEFAULT"
      BY <3>1 DEF ByDefault
    <3> QED BY <2>2, <3>1, <3>2, SettleLater DEF NoRow, LookupFails
  <2> QED BY <1>3, <2>1, <2>2
<1>4. ASSUME NEW k \in Calls,
             \/ \E p \in Instances : Ask(k, p) \/ \E v \in Switch : Put(k, p, v)
             \/ Update(k) \/ Bust(k) \/ UpdateFails(k) \/ Read(k)
      PROVE  LaterInv'
  BY <1>4, AskLater, PutLater, UpdateLater, BustLater, UpdateFailsLater, ReadLater
<1> QED BY <1>1, <1>2, <1>3, <1>4 DEF Next

(***************************************************************************)
(* Whoever looks after a PUT's own lookup began gets what the row held     *)
(* since that PUT, in every process and whatever other lookups store; what *)
(* is older in a cache was looked up before, and lasts a TTL at most.      *)
(***************************************************************************)
THEOREM LaterCorrect == Spec => []LaterSeesWrite
<1>1. Init => LaterInv
  <2> SUFFICES ASSUME Init PROVE LaterInv
    OBVIOUS
  <2>1. \A p \in Instances : cache[p].source = "none"
    BY DEF Init, Empty, Nothing
  <2>2. \A k \in Calls : call[k].phase = "free"
    BY DEF Init, Free
  <2>3. ~ \E v, t : Told(v, t)
    BY <2>1, <2>2 DEF Told, CacheTells, CallTells
  <2> QED BY <2>2, <2>3 DEF LaterInv, Written, Looked
<1>2. IInv /\ LaterInv /\ [Next]_vars => LaterInv'
  BY FlagAssumption, StepLater
<1> QED BY <1>1, <1>2, Inductive, LaterEnough, PTL DEF Spec

=============================================================================
