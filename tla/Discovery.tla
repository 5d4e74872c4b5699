----------------------------- MODULE Discovery -----------------------------
(***************************************************************************)
(* discovery-svc: the key files a server's identity is made of, invites    *)
(* signed with them, announcements, and the cache of servers seen.         *)
(*                                                                         *)
(* Keys are numbered as they are generated; 0 is an empty file, and key k  *)
(* verifies what key k signed.  serverId and fingerprint are hashes of the *)
(* public key.  A file that exists can be read: any failure to read makes  *)
(* initKeys replace both.  Time passes in steps of 15 seconds, and the     *)
(* timer of prune fires when it is due.                                    *)
(***************************************************************************)
EXTENDS Restarting, FiniteSets

CONSTANTS
  Peers,     \* other servers, by the id they announce
  Self,      \* this one
  MaxKeys, MaxTime, MaxInvites, \* bounds: keys generated, instants, invites
  Ttl        \* DISCOVERY_INVITE_TTL_HOURS, in steps

ASSUME DiscoveryAssumption ==
  /\ Self \notin Peers /\ MaxKeys \in Nat /\ MaxTime \in Nat
  /\ MaxInvites \in Nat /\ Ttl \in Nat

VARIABLES
  priv, pub,    \* the two files, as sets: no file is {}, a file with key k is {k}
  fresh,        \* keys generated
  phase,        \* of the process: down, the steps of initKeys, up
  keys,         \* in memory: private, public
  advertised,   \* ad
  discovered,   \* lastSeen of each server, 0 if it is not in the map
  time,
  due,          \* when pruneInterval fires next, 0 without a process
  invites,      \* those given out
  heard         \* history: when this process last heard of each server, 0 if never

discoveryVars == <<priv, pub, fresh, phase, keys, advertised, discovered, time, due, invites, heard>>

Period == 2  \* 30 seconds, between two firings
Expiry == 4  \* 60 seconds

NoKeys == [private |-> 0, public |-> 0]
Nobody == [s \in Peers \cup {Self} |-> 0]

DiscoveryInit ==
  /\ priv = {} /\ pub = {} /\ fresh = 0
  /\ phase = "down" /\ keys = NoKeys
  /\ advertised = FALSE /\ discovered = Nobody
  /\ time = 1 /\ due = 0 /\ invites = {}
  /\ heard = Nobody

CacheUnchanged == UNCHANGED <<advertised, discovered, time, invites, heard, crashes>>

\* A process starts: its module sets the timer, and initKeys reads both files, or makes
\* both.
LoadKeys ==
  /\ phase = "down" /\ priv # {} /\ pub # {}
  /\ \E k \in priv, q \in pub : keys' = [private |-> k, public |-> q]
  /\ phase' = "up"
  /\ due' = time + Period
  /\ UNCHANGED <<priv, pub, fresh>> /\ CacheUnchanged

\* Seeded fault: keys are made at every start.
GenerateAnew ==
  /\ phase = "down"
  /\ fresh < MaxKeys
  /\ fresh' = fresh + 1
  /\ phase' = "makePriv"
  /\ due' = time + Period
  /\ UNCHANGED <<priv, pub, keys>> /\ CacheUnchanged

GenerateKeys ==
  /\ phase = "down" /\ (priv = {} \/ pub = {})
  /\ fresh < MaxKeys
  /\ fresh' = fresh + 1
  /\ phase' = "makePriv"
  /\ due' = time + Period
  /\ UNCHANGED <<priv, pub, keys>> /\ CacheUnchanged

\* Seeded fault: the public key is written first.
WritePubFirst ==
  /\ \/ phase = "makePriv" /\ pub' = {0} /\ phase' = "privOpen" /\ UNCHANGED priv
     \/ phase = "privOpen" /\ pub' = {fresh} /\ phase' = "makePub" /\ UNCHANGED priv
     \/ phase = "makePub" /\ priv' = {0} /\ phase' = "pubOpen" /\ UNCHANGED pub
     \/ phase = "pubOpen" /\ priv' = {fresh} /\ phase' = "made" /\ UNCHANGED pub
  /\ UNCHANGED <<fresh, keys, due>> /\ CacheUnchanged

\* Each file is opened, empty, and then written; the private key first.
WriteKeys ==
  /\ \/ phase = "makePriv" /\ priv' = {0} /\ phase' = "privOpen" /\ UNCHANGED pub
     \/ phase = "privOpen" /\ priv' = {fresh} /\ phase' = "makePub" /\ UNCHANGED pub
     \/ phase = "makePub" /\ pub' = {0} /\ phase' = "pubOpen" /\ UNCHANGED priv
     \/ phase = "pubOpen" /\ pub' = {fresh} /\ phase' = "made" /\ UNCHANGED priv
  /\ UNCHANGED <<fresh, keys, due>> /\ CacheUnchanged

UseKeys ==
  /\ phase = "made"
  /\ keys' = [private |-> fresh, public |-> fresh]
  /\ phase' = "up"
  /\ UNCHANGED <<priv, pub, fresh, due>> /\ CacheUnchanged

DiscoveryCrash ==
  /\ phase # "down" /\ Crash
  /\ phase' = "down" /\ keys' = NoKeys
  /\ advertised' = FALSE /\ discovered' = Nobody /\ due' = 0
  /\ heard' = Nobody
  /\ UNCHANGED <<priv, pub, fresh, time, invites>>

----------------------------------------------------------------------------
KeysUnchanged == UNCHANGED <<priv, pub, fresh, phase, keys, crashes>>

\* An announcement is heard (startBrowse): a peer's, or one's own.
Hear(s) ==
  /\ phase = "up" /\ (s = Self => advertised)
  /\ discovered' = [discovered EXCEPT ![s] = time]
  /\ heard' = [heard EXCEPT ![s] = time]
  /\ UNCHANGED <<advertised, time, due, invites>> /\ KeysUnchanged

\* prune: what was seen more than 60 seconds ago goes.
Pruned == [s \in DOMAIN discovered |-> IF time - discovered[s] > Expiry THEN 0 ELSE discovered[s]]

PruneUnchanged == UNCHANGED <<advertised, time, invites, heard>> /\ KeysUnchanged

\* Seeded fault: the timer is set once, as by setTimeout.
PruneTimerOnce ==
  /\ phase # "down" /\ time = due
  /\ discovered' = Pruned
  /\ due' = MaxTime + 1
  /\ PruneUnchanged

\* pruneInterval fires.
PruneTimer ==
  /\ phase # "down" /\ time = due
  /\ discovered' = Pruned
  /\ due' = time + Period
  /\ PruneUnchanged

\* GET /discovery/servers prunes before it answers.
GetServers ==
  /\ phase = "up"
  /\ discovered' = Pruned
  /\ UNCHANGED due /\ PruneUnchanged

\* 15 seconds pass; the timer, if it is set, is not late.
Tick ==
  /\ time < MaxTime
  /\ phase # "down" => time < due
  /\ time' = time + 1
  /\ UNCHANGED <<advertised, discovered, due, invites, heard>> /\ KeysUnchanged

\* POST /discovery/announce.  A server that is announced already changes nothing.
Announce ==
  /\ phase = "up" /\ ~advertised
  /\ advertised' = TRUE
  /\ discovered' = [discovered EXCEPT ![Self] = time]
  /\ heard' = [heard EXCEPT ![Self] = time]
  /\ UNCHANGED <<time, due, invites>> /\ KeysUnchanged

StopAnnounce ==
  /\ phase = "up" /\ advertised
  /\ advertised' = FALSE
  /\ UNCHANGED <<discovered, time, due, invites, heard>> /\ KeysUnchanged

\* An invite names the server by its public key and is signed by the private one.
CreateInvite ==
  /\ phase = "up" /\ keys.private # 0 /\ Cardinality(invites) < MaxInvites
  /\ invites' = invites \cup {[signer |-> keys.private, server |-> keys.public, exp |-> time + Ttl]}
  /\ UNCHANGED <<advertised, discovered, time, due, heard>> /\ KeysUnchanged

\* verify-invite.  An empty public key makes verify throw.
Verify(i) ==
  IF keys.public = 0 THEN "invalid-invite"
  ELSE IF i.signer # keys.public THEN "invalid-signature"
  ELSE IF time > i.exp THEN "expired" ELSE "ok"

DiscoveryNext ==
  \/ LoadKeys \/ GenerateKeys \/ WriteKeys \/ UseKeys \/ DiscoveryCrash
  \/ (\E s \in Peers \cup {Self} : Hear(s)) \/ PruneTimer \/ GetServers \/ Tick
  \/ Announce \/ StopAnnounce \/ CreateInvite

----------------------------------------------------------------------------
\* The two keys in use belong together; or a crash left an empty public key, which
\* every later start accepts.  Two halves of different pairs never meet - as long as a
\* key file that exists can be read: initKeys replaces both after any failure to read.
PairMatches == phase = "up" => keys.private # 0 /\ keys.public \in {0, keys.private}

\* An invite is honoured until it expires by whatever start of the server it meets -
\* as long, again, as a key file that exists can be read.
InvitesHonoured ==
  phase = "up" => \A i \in invites :
    /\ i.server = keys.public
    /\ i.server # 0 /\ time <= i.exp => Verify(i) = "ok"

\* "Records older than 60 seconds are pruned" (docs/discovery.md): whatever requests
\* come when, a record goes at the first firing after its 60 seconds, so within 90,
\* never before they are over, and none outlives the process.  The server itself is in
\* its own list for that time after it is announced, and not for as long as it is.
CacheForgets ==
  /\ advertised => heard[Self] # 0
  /\ \A s \in Peers \cup {Self} :
       /\ discovered[s] # 0 => phase = "up" /\ time - discovered[s] <= Expiry + Period
       /\ heard[s] # 0 /\ time - heard[s] <= Expiry => discovered[s] = heard[s]
=============================================================================
