--------------------------- MODULE RestartsProofs ---------------------------
(***************************************************************************)
(* Theorems of Restarts, for any number of requests, files, keys, instants *)
(* and crashes: the configuration of bootstrap-svc, the identity, invites  *)
(* and cache of discovery-svc, the runs of playbook-svc, the log of the    *)
(* task agent, the chat of eng-svc, the stream consumer.                   *)
(***************************************************************************)
EXTENDS Restarts, TLAPS

\* A step of the whole is a step of one program.
LEMMA PartStep ==
  ASSUME RestartNext
  PROVE  /\ BootNext \/ UNCHANGED bootVars
         /\ DiscoveryNext \/ UNCHANGED discoveryVars
         /\ PlaybookNext \/ UNCHANGED playbookVars
         /\ McpNext \/ UNCHANGED mcpVars
BY DEF RestartNext

-----------------------------------------------------------------------------
\* PlaybookRuns

PlaybookInv ==
  /\ handler \in [PlaybookRequests -> [at : {"none", "insertPlaybook", "select", "notify", "insertRun",
                                             "200", "201", "400", "403", "404", "lost"},
                                       playbook : PlaybookRequests \cup {NoPlaybook}]]
  /\ playbooks \subseteq PlaybookRequests
  /\ \A r \in PlaybookRequests :
       /\ handler[r].at \in {"notify", "insertRun", "200"} => handler[r].playbook \in playbooks
       /\ handler[r].at = "insertRun" => r \in notified
       /\ r \in notified => handler[r].at \in {"insertRun", "200", "lost"}
       /\ handler[r].at = "200" => r \in runs
       /\ r \in runs => /\ r \in notified /\ handler[r].at \in {"200", "lost"}
                        /\ handler[r].playbook \in playbooks

LEMMA PlaybookInitInv == PlaybookInit => PlaybookInv
BY DEF PlaybookInit, PlaybookInv, At

LEMMA PlaybookNextInv ==
  ASSUME PlaybookInv, PlaybookNext
  PROVE  PlaybookInv'
<1>1. ASSUME NEW r \in PlaybookRequests, PostPlaybook(r) PROVE PlaybookInv'
  BY <1>1 DEF PostPlaybook, Moves, PlaybookInv
<1>2. ASSUME NEW r \in PlaybookRequests, InsertPlaybook(r) PROVE PlaybookInv'
  BY <1>2 DEF InsertPlaybook, Moves, PlaybookInv
<1>3. ASSUME NEW r \in PlaybookRequests, NEW p \in playbooks \cup {r}, RunPlaybook(r, p) PROVE PlaybookInv'
  BY <1>3 DEF RunPlaybook, At, PlaybookInv
<1>4. ASSUME NEW r \in PlaybookRequests, SelectPlaybook(r) PROVE PlaybookInv'
  BY <1>4 DEF SelectPlaybook, Moves, PlaybookInv
<1>5. ASSUME NEW r \in PlaybookRequests, NotifyRun(r) PROVE PlaybookInv'
  BY <1>5 DEF NotifyRun, Moves, PlaybookInv
<1>6. ASSUME NEW r \in PlaybookRequests, InsertRun(r) PROVE PlaybookInv'
  BY <1>6 DEF InsertRun, Moves, PlaybookInv
<1>7. ASSUME PlaybookCrash PROVE PlaybookInv'
  BY <1>7 DEF PlaybookCrash, Queries, PlaybookInv
<1> QED BY <1>1, <1>2, <1>3, <1>4, <1>5, <1>6, <1>7 DEF PlaybookNext

\* A run that is on record was announced, one that was answered is on record, and
\* nobody hears of a refused one (routes.ts of playbook-svc: SELECT, NOTIFY, INSERT).
THEOREM RunsCorrect == RestartSpec => []RunsAccounted
<1>1. RestartInit => PlaybookInv
  BY PlaybookInitInv DEF RestartInit
<1>2. PlaybookInv /\ [RestartNext]_restartVars => PlaybookInv'
  <2>1. PlaybookInv /\ UNCHANGED playbookVars => PlaybookInv'
    BY DEF playbookVars, PlaybookInv
  <2> QED BY <2>1, PlaybookNextInv, PartStep DEF restartVars
<1>3. PlaybookInv => RunsAccounted
  BY DEF PlaybookInv, RunsAccounted
<1> QED BY <1>1, <1>2, <1>3, PTL DEF RestartSpec

-----------------------------------------------------------------------------
\* BootstrapConfig.  The two names lead to different files, each of a request that
\* opened it; as long as no two requests were under way together, the one that is has
\* the temporary file open, with its own text in it once it has written.  Whatever is in
\* a file comes of the requests that opened it (Explained).

BootTypes ==
  /\ tmp \in Posts \cup {NoFile} /\ config \in Posts \cup {NoFile} /\ applied \in Posts \cup {NoFile}
  /\ content \in [Posts -> Posts \cup {"empty", "mixed"}]
  /\ post \in [Posts -> {"none", "opened", "written", "applied", "cut", "lost"}]
  /\ file \in [Posts -> Posts \cup {NoFile}]
  /\ \A p \in Posts : post[p] = "none" <=> file[p] = NoFile
  /\ tmp # NoFile => post[tmp] # "none"
  /\ config # NoFile => post[config] # "none" /\ config # tmp
  /\ applied = NoFile <=> config = NoFile

Alone ==
  /\ \A p, q \in Under : p = q
  /\ \A p \in Under : file[p] = tmp
  /\ \A p \in Posts : post[p] = "opened" => content[file[p]] = "empty"
  /\ \A p \in Posts : post[p] = "written" => content[file[p]] = p
  /\ config # NoFile => content[config] = applied

Opened(f) == \E p \in Posts : file[p] = f

Explained ==
  \A f \in Posts :
    /\ content[f] = "empty" /\ Opened(f) => \E p \in Posts : Emptied(p, f)
    /\ content[f] = "mixed" => \E p, q \in Posts : p # q /\ Wrote(p, f) /\ Wrote(q, f)
    /\ \A p \in Posts : content[f] = p => Wrote(p, f)

BootInv ==
  /\ BootTypes
  /\ ~overlapped => Alone
  /\ \A f \in {tmp, config} \ {NoFile} : Opened(f)
  /\ Explained

LEMMA BootInitInv == BootInit => BootInv
<1> SUFFICES ASSUME BootInit PROVE BootInv
  OBVIOUS
<1>1. Under = {}
  BY DEF BootInit, Under
<1>2. BootTypes
  BY <1>1 DEF BootInit, BootTypes
<1>3. Alone /\ Explained
  BY <1>1, BootstrapAssumption DEF BootInit, Alone, Explained, Opened
<1> QED BY <1>2, <1>3 DEF BootInit, BootInv

LEMMA BootOpen ==
  ASSUME BootInv, NEW p \in Posts, OpenTmp(p)
  PROVE  BootInv'
<1> DEFINE f == IF tmp = NoFile THEN p ELSE tmp
<1>1. /\ f \in Posts /\ post[p] = "none" /\ tmp' = f /\ file' = [file EXCEPT ![p] = f]
      /\ content' = [content EXCEPT ![f] = "empty"] /\ post' = [post EXCEPT ![p] = "opened"]
      /\ overlapped' = (overlapped \/ Under # {}) /\ UNCHANGED <<config, applied>>
  BY DEF OpenTmp, BootInv, BootTypes
<1>2. f # config
  BY <1>1, BootstrapAssumption DEF BootInv, BootTypes
<1> HIDE DEF f
<1>3. Under' = Under \cup {p}
  BY <1>1 DEF Under, BootInv, BootTypes
<1>4. BootTypes'
  <2>1. /\ content' \in [Posts -> Posts \cup {"empty", "mixed"}]
        /\ post' \in [Posts -> {"none", "opened", "written", "applied", "cut", "lost"}]
        /\ file' \in [Posts -> Posts \cup {NoFile}]
    BY <1>1 DEF BootInv, BootTypes
  <2>3. post'[f] # "none" /\ f # NoFile
    BY <1>1, BootstrapAssumption DEF BootInv, BootTypes, f
  <2>2. \A q \in Posts : post'[q] = "none" <=> file'[q] = NoFile
    BY <1>1, <2>3 DEF BootInv, BootTypes
  <2>4. config # NoFile => post'[config] # "none"
    BY <1>1 DEF BootInv, BootTypes
  <2> QED BY <1>1, <1>2, <2>1, <2>2, <2>3, <2>4 DEF BootInv, BootTypes
<1>5. ~overlapped' => Alone'
  <2>1. SUFFICES ASSUME ~overlapped, Under = {} PROVE Alone'
    BY <1>1
  <2> QED BY <1>1, <1>2, <1>3, <2>1, BootstrapAssumption DEF Alone, BootInv, BootTypes, Under
<1>6. Explained'
  <2> SUFFICES ASSUME NEW g \in Posts
               PROVE  /\ content'[g] = "empty" /\ Opened(g)' => \E q \in Posts : Emptied(q, g)'
                      /\ content'[g] = "mixed" => \E q, s \in Posts : q # s /\ Wrote(q, g)' /\ Wrote(s, g)'
                      /\ \A q \in Posts : content'[g] = q => Wrote(q, g)'
    BY DEF Explained
  <2>1. \A q \in Posts \ {p} : post'[q] = post[q] /\ file'[q] = file[q]
    BY <1>1 DEF BootInv, BootTypes
  <2>2. post'[p] = "opened" /\ file'[p] = f
    BY <1>1 DEF BootInv, BootTypes
  <2>3. \A q \in Posts : Wrote(q, g) => Wrote(q, g)'
    BY <1>1, <2>1 DEF Wrote
  <2>4. CASE g = f
    <3>1. content'[g] = "empty" /\ Emptied(p, g)'
      BY <1>1, <2>2, <2>4 DEF BootInv, BootTypes, Emptied
    <3> QED BY <3>1, BootstrapAssumption
  <2>5. CASE g # f
    <3>1. content'[g] = content[g] /\ (Opened(g)' => Opened(g))
      BY <1>1, <2>1, <2>2, <2>5 DEF BootInv, BootTypes, Opened
    <3>2. \A q \in Posts : Emptied(q, g) => Emptied(q, g)'
      BY <1>1, <2>1 DEF Emptied
    <3> QED BY <2>3, <3>1, <3>2 DEF BootInv, Explained
  <2> QED BY <2>4, <2>5
<1>7. \A g \in {tmp', config'} \ {NoFile} : Opened(g)'
  <2>1. file'[p] = f /\ \A q \in Posts \ {p} : file'[q] = file[q]
    BY <1>1 DEF BootInv, BootTypes
  <2>2. config # NoFile => \E q \in Posts : file[q] = config /\ q # p
    <3>1. file[p] = NoFile
      BY <1>1 DEF BootInv, BootTypes
    <3> QED BY <3>1 DEF BootInv, Opened
  <2> QED BY <1>1, <2>1, <2>2 DEF Opened
<1> QED BY <1>1, <1>4, <1>5, <1>6, <1>7 DEF BootInv

LEMMA BootWrite ==
  ASSUME BootInv, NEW p \in Posts, WriteTmp(p)
  PROVE  BootInv'
<1>1. PICK c \in {p, "mixed"} :
        /\ c # p => content[file[p]] # "empty"
        /\ content' = [content EXCEPT ![file[p]] = c]
  BY DEF WriteTmp
<1>2. /\ post[p] = "opened" /\ post' = [post EXCEPT ![p] = "written"]
      /\ UNCHANGED <<tmp, config, file, applied, overlapped>>
  BY DEF WriteTmp
<1>3. file[p] \in Posts /\ Under' = Under
  BY <1>2 DEF BootInv, BootTypes, Under
<1>4. BootTypes'
  BY <1>1, <1>2, <1>3 DEF BootInv, BootTypes
<1>5. ~overlapped' => Alone'
  <2>1. SUFFICES ASSUME ~overlapped PROVE Alone'
    BY <1>2
  <2>2. content' = [content EXCEPT ![file[p]] = p] /\ p \in Under
    BY <1>1, <1>2, <2>1 DEF BootInv, Alone, Under
  <2>3. file[p] = tmp /\ config # tmp
    BY <2>1, <2>2, <1>3, BootstrapAssumption DEF BootInv, BootTypes, Alone
  <2> QED BY <1>2, <1>3, <2>1, <2>2, <2>3 DEF BootInv, BootTypes, Alone, Under
<1>6. Explained'
  <2> SUFFICES ASSUME NEW g \in Posts
               PROVE  /\ content'[g] = "empty" /\ Opened(g)' => \E q \in Posts : Emptied(q, g)'
                      /\ content'[g] = "mixed" => \E q, s \in Posts : q # s /\ Wrote(q, g)' /\ Wrote(s, g)'
                      /\ \A q \in Posts : content'[g] = q => Wrote(q, g)'
    BY DEF Explained
  <2>1. \A q \in Posts \ {p} : post'[q] = post[q]
    BY <1>2 DEF BootInv, BootTypes
  <2>2. post'[p] = "written"
    BY <1>2 DEF BootInv, BootTypes
  <2>3. \A q \in Posts : Wrote(q, g) => Wrote(q, g)' /\ q # p
    BY <1>2, <2>1 DEF Wrote
  <2>4. CASE g = file[p]
    <3>1. content'[g] = c /\ Wrote(p, g)'
      BY <1>1, <1>2, <1>3, <2>2, <2>4 DEF BootInv, BootTypes, Wrote
    <3>2. ASSUME c # p PROVE c = "mixed" /\ \E q \in Posts : Wrote(q, g)
      <4>1. content[g] # "empty" /\ content[g] \in Posts \cup {"empty", "mixed"} /\ c = "mixed"
        BY <1>1, <2>4, <3>2 DEF BootInv, BootTypes
      <4>2. content[g] \in Posts => Wrote(content[g], g)
        BY DEF BootInv, Explained
      <4>3. content[g] = "mixed" => \E q \in Posts : Wrote(q, g)
        BY DEF BootInv, Explained
      <4> QED BY <4>1, <4>2, <4>3
    <3>3. CASE c = p
      BY <2>3, <3>1, <3>3, BootstrapAssumption
    <3>4. CASE c # p
      <4>1. PICK q \in Posts : Wrote(q, g)
        BY <3>2, <3>4
      <4>2. q # p /\ Wrote(q, g)' /\ content'[g] = "mixed"
        BY <2>3, <3>1, <3>2, <3>4, <4>1
      <4> QED BY <3>1, <4>2, BootstrapAssumption
    <3> QED BY <3>3, <3>4
  <2>5. CASE g # file[p]
    <3>1. content'[g] = content[g] /\ (Opened(g)' => Opened(g))
      BY <1>1, <1>2, <1>3, <2>5 DEF BootInv, BootTypes, Opened
    <3>2. \A q \in Posts : Emptied(q, g) => Emptied(q, g)'
      BY <1>2, <2>1, <2>5 DEF Emptied
    <3>3. /\ content[g] = "empty" /\ Opened(g) => \E q \in Posts : Emptied(q, g)
          /\ content[g] = "mixed" => \E q, s \in Posts : q # s /\ Wrote(q, g) /\ Wrote(s, g)
          /\ \A q \in Posts : content[g] = q => Wrote(q, g)
      BY DEF BootInv, Explained
    <3> QED BY <2>3, <3>1, <3>2, <3>3
  <2> QED BY <2>4, <2>5
<1>7. \A g \in {tmp', config'} \ {NoFile} : Opened(g)'
  BY <1>2 DEF BootInv, Opened
<1> QED BY <1>2, <1>4, <1>5, <1>6, <1>7 DEF BootInv

LEMMA BootRename ==
  ASSUME BootInv, NEW p \in Posts, Rename(p)
  PROVE  BootInv'
<1>1. /\ post[p] = "written" /\ tmp # NoFile /\ config' = tmp /\ tmp' = NoFile
      /\ post' = [post EXCEPT ![p] = "applied"] /\ applied' = p
      /\ UNCHANGED <<content, file, overlapped>>
  BY DEF Rename
<1>2. Under' = Under \ {p} /\ p \in Under
  BY <1>1 DEF Under, BootInv, BootTypes
<1>3. BootTypes'
  BY <1>1, <1>2, BootstrapAssumption DEF BootInv, BootTypes
<1>4. ~overlapped' => Alone'
  BY <1>1, <1>2, BootstrapAssumption DEF BootInv, BootTypes, Alone, Under
<1>5. \A q, g \in Posts : (Wrote(q, g) => Wrote(q, g)') /\ (Emptied(q, g) => Emptied(q, g)')
  BY <1>1 DEF BootInv, BootTypes, Wrote, Emptied
<1>6. Explained'
  BY <1>1, <1>5 DEF BootInv, Explained, Opened
<1>7. \A g \in {tmp', config'} \ {NoFile} : Opened(g)'
  BY <1>1 DEF BootInv, Opened
<1> QED BY <1>1, <1>3, <1>4, <1>6, <1>7 DEF BootInv

LEMMA BootEnds ==
  ASSUME BootInv, BootCrash
  PROVE  BootInv'
<1>1. /\ post' = [p \in Posts |-> CASE post[p] = "opened" -> "cut"
                                [] post[p] = "written" -> "lost" [] OTHER -> post[p]]
      /\ UNCHANGED <<tmp, config, content, file, applied, overlapped>>
  BY DEF BootCrash, Crash
<1>2. \A p \in Posts : /\ post[p] = "opened" => post'[p] = "cut"
                       /\ post[p] = "written" => post'[p] = "lost"
                       /\ post[p] \notin {"opened", "written"} => post'[p] = post[p]
  BY <1>1
<1>3. Under' = {} /\ post' \in [Posts -> {"none", "opened", "written", "applied", "cut", "lost"}]
  BY <1>1, <1>2 DEF Under, BootInv, BootTypes
<1>4. BootTypes'
  BY <1>1, <1>2, <1>3 DEF BootInv, BootTypes
<1>5. ~overlapped' => Alone'
  BY <1>1, <1>3 DEF BootInv, BootTypes, Alone, Under
<1>6. \A q, g \in Posts : (Wrote(q, g) => Wrote(q, g)') /\ (Emptied(q, g) => Emptied(q, g)')
  BY <1>1, <1>2 DEF Wrote, Emptied
<1>7. Explained' /\ \A g \in {tmp', config'} \ {NoFile} : Opened(g)'
  BY <1>1, <1>6 DEF BootInv, Explained, Opened
<1> QED BY <1>4, <1>5, <1>7 DEF BootInv

LEMMA BootStep == BootInv /\ [RestartNext]_restartVars => BootInv'
<1>1. ASSUME BootInv, BootNext PROVE BootInv'
  BY <1>1, BootOpen, BootWrite, BootRename, BootEnds DEF BootNext, RenameFails
<1>2. ASSUME BootInv, UNCHANGED bootVars PROVE BootInv'
  BY <1>2 DEF bootVars, BootInv, BootTypes, Alone, Explained, Opened, Emptied, Wrote, Under
<1> QED BY <1>1, <1>2, PartStep DEF restartVars

LEMMA BootInductive == RestartSpec => []BootInv
<1>1. RestartInit => BootInv
  BY BootInitInv DEF RestartInit
<1> QED BY <1>1, BootStep, PTL DEF RestartSpec

\* Configurations posted one after the other: GET answers the last one that was
\* applied, whole, whatever was killed when (writeConfig of bootstrap-svc).
THEOREM AloneCorrect == RestartSpec => []AloneIsAtomic
<1>1. BootInv => AloneIsAtomic
  BY BootstrapAssumption DEF BootInv, BootTypes, Alone, AloneIsAtomic, ReadConfig
<1> QED BY <1>1, BootInductive, PTL

\* Configurations posted together, and processes killed: the one under the name that is
\* read is empty or mixed only by requests that shared the temporary file, one of which
\* is about to write it or was ended there, and otherwise it is whole.
THEOREM ConfigCorrect == RestartSpec => []ConfigAccounted
<1>1. BootInv => ConfigAccounted
  BY BootstrapAssumption DEF BootInv, BootTypes, Explained, ConfigAccounted
<1> QED BY <1>1, BootInductive, PTL

-----------------------------------------------------------------------------
\* Discovery.  Once there is a public key file, the two files hold one pair, or its
\* private key and nothing, and are never replaced: every invite was signed by them.

FilesPair ==
  pub # {} => \E k \in Nat \ {0} : priv = {k} /\ pub \in {{0}, {k}}

KeysInv ==
  /\ fresh \in Nat
  /\ FilesPair
  /\ phase \in {"down", "makePriv", "privOpen", "makePub", "pubOpen", "made", "up"}
  /\ phase \in {"makePriv", "privOpen", "makePub"} => pub = {}
  /\ phase \notin {"down", "up"} => fresh > 0
  /\ phase \in {"makePub", "pubOpen", "made"} => priv = {fresh}
  /\ phase = "made" => pub = {fresh}
  /\ phase = "up" => pub # {} /\ priv = {keys.private} /\ pub = {keys.public}

InvitesInv ==
  /\ \A i \in invites : pub = {i.server} /\ priv = {i.signer} /\ i.exp \in Nat
  /\ phase = "pubOpen" => invites = {}

\* While there is a process the timer is due within one period, and what the last
\* firing left was not older than 60 seconds then; what is no longer in the list, or
\* never was, was last heard of more than 60 seconds ago.
CacheInv ==
  /\ time \in Nat \ {0} /\ due \in Nat
  /\ discovered \in [Peers \cup {Self} -> Nat]
  /\ heard \in [Peers \cup {Self} -> Nat]
  /\ phase # "up" => discovered = Nobody /\ heard = Nobody
  /\ advertised => phase = "up" /\ heard[Self] # 0
  /\ phase # "down" => time <= due /\ due <= time + Period
  /\ \A s \in Peers \cup {Self} :
       /\ discovered[s] \in {0, heard[s]}
       /\ heard[s] <= time
       /\ discovered[s] # 0 => due <= discovered[s] + Expiry + Period
       /\ heard[s] # discovered[s] => heard[s] + Expiry < time

\* The steps on the cache and on invites touch neither files nor keys.
CacheStep ==
  \/ PruneTimer \/ GetServers \/ Tick \/ Announce \/ StopAnnounce \/ CreateInvite
  \/ \E s \in Peers \cup {Self} : Hear(s)

LEMMA CacheStepFrame == CacheStep => KeysUnchanged
BY DEF CacheStep, PruneTimer, GetServers, PruneUnchanged, Tick, Announce, StopAnnounce, CreateInvite, Hear

LEMMA KeysStep ==
  ASSUME KeysInv, DiscoveryNext
  PROVE  KeysInv'
<1>1. CASE LoadKeys
  BY <1>1 DEF LoadKeys, KeysInv, FilesPair
<1>2. CASE GenerateKeys
  BY <1>2 DEF GenerateKeys, KeysInv, FilesPair
<1>3. CASE WriteKeys
  <2>1. CASE phase = "makePriv"
    BY <1>3, <2>1 DEF WriteKeys, KeysInv, FilesPair
  <2>2. CASE phase = "privOpen"
    BY <1>3, <2>2 DEF WriteKeys, KeysInv, FilesPair
  <2>3. CASE phase = "makePub"
    BY <1>3, <2>3 DEF WriteKeys, KeysInv, FilesPair
  <2>4. CASE phase = "pubOpen"
    BY <1>3, <2>4 DEF WriteKeys, KeysInv, FilesPair
  <2> QED BY <1>3, <2>1, <2>2, <2>3, <2>4 DEF WriteKeys
<1>4. CASE UseKeys
  BY <1>4 DEF UseKeys, KeysInv, FilesPair
<1>5. CASE DiscoveryCrash
  BY <1>5 DEF DiscoveryCrash, KeysInv, FilesPair
<1>6. CASE CacheStep
  BY <1>6, CacheStepFrame DEF KeysUnchanged, KeysInv, FilesPair
<1> QED BY <1>1, <1>2, <1>3, <1>4, <1>5, <1>6 DEF DiscoveryNext, CacheStep

LEMMA InvitesStep ==
  ASSUME KeysInv, InvitesInv, time \in Nat, DiscoveryNext
  PROVE  InvitesInv'
<1>1. CASE CreateInvite
  <2>1. /\ invites' = invites \cup {[signer |-> keys.private, server |-> keys.public, exp |-> time + Ttl]}
        /\ UNCHANGED <<priv, pub>>
    BY <1>1 DEF CreateInvite, KeysUnchanged
  <2>2. priv = {keys.private} /\ pub = {keys.public} /\ phase' = "up"
    BY <1>1 DEF CreateInvite, KeysInv, KeysUnchanged
  <2>3. time + Ttl \in Nat
    BY DiscoveryAssumption
  <2> QED BY <2>1, <2>2, <2>3 DEF InvitesInv
<1>2. CASE CacheStep /\ ~CreateInvite
  BY <1>2 DEF CacheStep, PruneTimer, GetServers, PruneUnchanged, Tick, Announce, StopAnnounce, Hear,
              KeysUnchanged, InvitesInv
<1>3. CASE LoadKeys \/ UseKeys \/ DiscoveryCrash \/ GenerateKeys
  BY <1>3 DEF LoadKeys, UseKeys, DiscoveryCrash, GenerateKeys, CacheUnchanged, InvitesInv
<1>4. CASE WriteKeys
  <2>1. pub = {} \/ phase = "pubOpen"
    BY <1>4 DEF WriteKeys, KeysInv
  <2>2. invites = {} /\ UNCHANGED invites
    BY <1>4, <2>1 DEF WriteKeys, CacheUnchanged, InvitesInv
  <2> QED BY <2>2 DEF InvitesInv
<1> QED BY <1>1, <1>2, <1>3, <1>4 DEF DiscoveryNext, CacheStep

\* A prune takes away only what has been in the list for more than 60 seconds.
LEMMA PruneStepInv ==
  ASSUME CacheInv, phase # "down", discovered' = Pruned, PruneUnchanged,
         due' = due \/ (time = due /\ due' = time + Period)
  PROVE  CacheInv'
<1>1. /\ UNCHANGED <<time, heard, phase>> /\ time \in Nat \ {0} /\ due \in Nat /\ due' \in Nat
      /\ time <= due' /\ due' <= time + Period
  BY DEF CacheInv, PruneUnchanged, KeysUnchanged, Period
<1>2. discovered' = [s \in Peers \cup {Self} |->
                       IF time - discovered[s] > Expiry THEN 0 ELSE discovered[s]]
  BY DEF Pruned, CacheInv
<1>3. phase # "up" => discovered' = Nobody /\ heard' = Nobody
  <2>1. phase # "up" => \A s \in Peers \cup {Self} : discovered[s] = 0
    BY DEF CacheInv, Nobody
  <2> QED BY <1>1, <1>2, <2>1 DEF CacheInv, Nobody
<1>4. ASSUME NEW s \in Peers \cup {Self}
      PROVE  /\ discovered'[s] \in Nat /\ discovered'[s] \in {0, heard[s]}
             /\ heard[s] <= time
             /\ discovered'[s] # 0 => due' <= discovered'[s] + Expiry + Period
             /\ heard[s] # discovered'[s] => heard[s] + Expiry < time
  <2>1. /\ discovered[s] \in Nat /\ heard[s] \in Nat /\ discovered[s] \in {0, heard[s]}
        /\ heard[s] <= time
        /\ discovered[s] # 0 => due <= discovered[s] + Expiry + Period
        /\ heard[s] # discovered[s] => heard[s] + Expiry < time
    BY DEF CacheInv
  <2>2. discovered'[s] = IF time - discovered[s] > Expiry THEN 0 ELSE discovered[s]
    BY <1>2
  <2> QED BY <1>1, <2>1, <2>2 DEF Expiry, Period
<1>5. discovered' \in [Peers \cup {Self} -> Nat]
  BY <1>2, <1>4
<1>6. advertised' => phase' = "up" /\ heard'[Self] # 0
  BY <1>1 DEF PruneUnchanged, CacheInv
<1> QED BY <1>1, <1>3, <1>4, <1>5, <1>6 DEF CacheInv

\* Whoever is heard of is entered at the instant it is heard.
LEMMA HeardStepInv ==
  ASSUME CacheInv, NEW s \in Peers \cup {Self}, phase = "up",
         discovered' = [discovered EXCEPT ![s] = time], heard' = [heard EXCEPT ![s] = time],
         UNCHANGED <<time, due, phase>>, advertised' = advertised \/ s = Self
  PROVE  CacheInv'
<1>1. advertised' => phase' = "up" /\ heard'[Self] # 0
  BY DEF CacheInv
<1> QED BY <1>1 DEF CacheInv, Expiry, Period

LEMMA CacheStepInv ==
  ASSUME CacheInv, DiscoveryNext
  PROVE  CacheInv'
<1>1. CASE DiscoveryCrash
  BY <1>1 DEF DiscoveryCrash, CacheInv, Nobody
<1>2. CASE LoadKeys \/ GenerateKeys \/ WriteKeys \/ UseKeys
  <2>1. phase # "up" /\ UNCHANGED <<time, discovered, heard, advertised>>
    BY <1>2 DEF LoadKeys, GenerateKeys, WriteKeys, UseKeys, CacheUnchanged
  <2>2. phase' # "down" /\ (due' = time + Period \/ (phase # "down" /\ due' = due))
    BY <1>2 DEF LoadKeys, GenerateKeys, WriteKeys, UseKeys
  <2>3. /\ time \in Nat \ {0} /\ due \in Nat
        /\ phase # "down" => time <= due /\ due <= time + Period
    BY DEF CacheInv
  <2>4. discovered = Nobody /\ heard = Nobody /\ (advertised => FALSE)
    BY <2>1 DEF CacheInv
  <2>5. due' \in Nat /\ time <= due' /\ due' <= time + Period
    BY <2>2, <2>3 DEF Period
  <2>6. UNCHANGED time /\ (advertised' => FALSE) /\ discovered' = Nobody /\ heard' = Nobody
    BY <2>1, <2>4
  <2>7. /\ discovered' \in [Peers \cup {Self} -> Nat]
        /\ \A s \in Peers \cup {Self} : discovered'[s] = 0 /\ heard'[s] = 0
    BY <2>6 DEF Nobody
  <2> QED BY <2>3, <2>5, <2>6, <2>7 DEF CacheInv
<1>3. CASE Tick
  <2>1. time' = time + 1 /\ UNCHANGED <<discovered, heard, due, phase, advertised>>
    BY <1>3 DEF Tick, KeysUnchanged
  <2>2. phase # "down" => time < due
    BY <1>3 DEF Tick
  <2>3. /\ time \in Nat \ {0} /\ due \in Nat
        /\ discovered \in [Peers \cup {Self} -> Nat] /\ heard \in [Peers \cup {Self} -> Nat]
        /\ phase # "up" => discovered = Nobody /\ heard = Nobody
        /\ advertised => phase = "up" /\ heard[Self] # 0
        /\ phase # "down" => time <= due /\ due <= time + Period
    BY DEF CacheInv
  <2>4. phase' # "down" => time' <= due' /\ due' <= time' + Period
    BY <2>1, <2>2, <2>3 DEF Period
  <2>5. ASSUME NEW s \in Peers \cup {Self}
        PROVE  /\ discovered'[s] \in {0, heard'[s]}
               /\ heard'[s] <= time'
               /\ discovered'[s] # 0 => due' <= discovered'[s] + Expiry + Period
               /\ heard'[s] # discovered'[s] => heard'[s] + Expiry < time'
    <3>1. /\ discovered[s] \in {0, heard[s]} /\ discovered[s] \in Nat /\ heard[s] \in Nat
          /\ heard[s] <= time
          /\ discovered[s] # 0 => due <= discovered[s] + Expiry + Period
          /\ heard[s] # discovered[s] => heard[s] + Expiry < time
      BY DEF CacheInv
    <3> QED BY <2>1, <2>3, <3>1 DEF Expiry
  <2> QED BY <2>1, <2>3, <2>4, <2>5 DEF CacheInv, Nobody
<1>4. ASSUME NEW s \in Peers \cup {Self}, Hear(s) PROVE CacheInv'
  BY <1>4, HeardStepInv DEF Hear, KeysUnchanged
<1>5. CASE Announce
  BY <1>5, HeardStepInv DEF Announce, KeysUnchanged
<1>6. CASE StopAnnounce \/ CreateInvite
  BY <1>6 DEF StopAnnounce, CreateInvite, KeysUnchanged, CacheInv
<1>7. CASE PruneTimer \/ GetServers
  <2>1. phase # "down" /\ discovered' = Pruned /\ PruneUnchanged
    BY <1>7 DEF PruneTimer, GetServers
  <2>2. due' = due \/ (time = due /\ due' = time + Period)
    BY <1>7 DEF PruneTimer, GetServers
  <2> QED BY <2>1, <2>2, PruneStepInv
<1> QED BY <1>1, <1>2, <1>3, <1>4, <1>5, <1>6, <1>7 DEF DiscoveryNext

DiscoveryInv == KeysInv /\ InvitesInv /\ CacheInv

LEMMA DiscoveryInductive == RestartSpec => []DiscoveryInv
<1>1. RestartInit => DiscoveryInv
  BY DEF RestartInit, DiscoveryInit, DiscoveryInv, KeysInv, FilesPair, InvitesInv, CacheInv, Nobody
<1>2. DiscoveryInv /\ [RestartNext]_restartVars => DiscoveryInv'
  <2>1. DiscoveryInv /\ UNCHANGED discoveryVars => DiscoveryInv'
    BY DEF discoveryVars, DiscoveryInv, KeysInv, FilesPair, InvitesInv, CacheInv
  <2>2. DiscoveryInv /\ DiscoveryNext => DiscoveryInv'
    BY KeysStep, InvitesStep, CacheStepInv DEF DiscoveryInv, CacheInv
  <2> QED BY <2>1, <2>2, PartStep DEF restartVars
<1> QED BY <1>1, <1>2, PTL DEF RestartSpec

\* The key files of a server hold one pair whenever it is up, or an empty public key
\* that a crash left (initKeys of discovery-svc).
THEOREM PairCorrect == RestartSpec => []PairMatches
<1>1. DiscoveryInv => PairMatches
  BY DEF DiscoveryInv, KeysInv, FilesPair, PairMatches
<1> QED BY <1>1, DiscoveryInductive, PTL

\* An invite is honoured by every later start of the server until it expires: an
\* identity that signed something is never replaced.
THEOREM InvitesCorrect == RestartSpec => []InvitesHonoured
<1>1. ASSUME DiscoveryInv, phase = "up", NEW i \in invites
      PROVE  i.server = keys.public /\ (i.server # 0 /\ time <= i.exp => Verify(i) = "ok")
  <2>1. i.server = keys.public /\ i.signer = keys.private
    BY <1>1 DEF DiscoveryInv, KeysInv, InvitesInv
  <2>2. i.server # 0 => i.signer = keys.public
    BY <1>1, <2>1 DEF DiscoveryInv, KeysInv, FilesPair
  <2>3. time \in Nat /\ i.exp \in Nat
    BY <1>1 DEF DiscoveryInv, CacheInv, InvitesInv
  <2> QED BY <2>1, <2>2, <2>3 DEF Verify
<1>2. DiscoveryInv => InvitesHonoured
  BY <1>1 DEF InvitesHonoured
<1> QED BY <1>2, DiscoveryInductive, PTL

\* Whatever is asked of the server when, a record leaves its list between 60 and 90
\* seconds after the server was last heard of, at a firing of the timer or before.
THEOREM CacheCorrect == RestartSpec => []CacheForgets
<1>1. ASSUME DiscoveryInv, NEW s \in Peers \cup {Self}
      PROVE  /\ discovered[s] # 0 => phase = "up" /\ time - discovered[s] <= Expiry + Period
             /\ heard[s] # 0 /\ time - heard[s] <= Expiry => discovered[s] = heard[s]
  <2>1. /\ time \in Nat /\ due \in Nat /\ discovered[s] \in Nat /\ heard[s] \in Nat
        /\ discovered[s] # 0 => phase = "up"
        /\ phase = "up" => time <= due
        /\ discovered[s] # 0 => due <= discovered[s] + Expiry + Period
        /\ heard[s] # discovered[s] => heard[s] + Expiry < time
    BY <1>1 DEF DiscoveryInv, CacheInv, Nobody
  <2> QED BY <2>1 DEF Expiry, Period
<1>2. DiscoveryInv => CacheForgets
  BY <1>1 DEF CacheForgets, DiscoveryInv, CacheInv
<1> QED BY <1>2, DiscoveryInductive, PTL

-----------------------------------------------------------------------------
\* McpAgent.  What the log loses while it is rewritten is with the agent or counted as
\* unlogged (LogKept).  A file whose result is logged is in the archive, on its way there,
\* or was left halfway, so no second result can follow but of the last (LoggedOnce).

McpTypes ==
  /\ queued \subseteq Files /\ archive \subseteq Files
  /\ taskLog \in Seq(Lines)
  /\ agent \in [at : {"down", "idle", "log", "open", "write", "archive"}, todo : SUBSET Files,
                file : Files \cup {"none"}, result : {"none", "success", "failed"}, lines : Seq(Lines)]
  /\ agent.at \notin {"open", "write"} => agent.lines = <<>>
  /\ agent.at \in {"log", "open", "write", "archive"} => agent.file \in Files /\ agent.result # "none"

Somewhere == LinesIn(taskLog) \cup LinesIn(agent.lines) \cup unlogged

HasLine(f) == \E l \in Lines : l.file = f /\ l \in Somewhere

LogKept ==
  /\ \A f \in archive : HasLine(f)
  /\ agent.at = "archive" => HasLine(agent.file)
  /\ agent.at \in {"open", "write"} => LinesIn(taskLog) \subseteq LinesIn(agent.lines) \cup unlogged

Single(log) == \A i, j \in DOMAIN log : log[i].file = log[j].file => i = j \/ log[i].file \in halfway

Settled(log) ==
  \A l \in LinesIn(log) : l.file \in archive \cup halfway \/ (agent.at = "archive" /\ l.file = agent.file)

LoggedOnce ==
  /\ queued \cap archive = {}
  /\ agent.todo \subseteq queued
  /\ agent.at \in {"log", "open", "write", "archive"} => agent.file \in queued \ agent.todo
  /\ Single(taskLog) /\ Single(agent.lines)
  /\ Settled(taskLog) /\ Settled(agent.lines)

McpInv == McpTypes /\ LogKept /\ LoggedOnce

LEMMA NoLines == LinesIn(<<>>) = {} /\ <<>> \in Seq(Lines)
BY DEF LinesIn

LEMMA OneMore ==
  ASSUME NEW log \in Seq(Lines), NEW line \in Lines
  PROVE  /\ LinesIn(Append(log, line)) = LinesIn(log) \cup {line}
         /\ Append(log, line) \in Seq(Lines)
         /\ DOMAIN Append(log, line) = DOMAIN log \cup {Len(log) + 1}
         /\ Append(log, line)[Len(log) + 1] = line
         /\ \A i \in DOMAIN log : Append(log, line)[i] = log[i]
<1>1. /\ Append(log, line) \in Seq(Lines)
      /\ DOMAIN Append(log, line) = DOMAIN log \cup {Len(log) + 1}
      /\ Append(log, line)[Len(log) + 1] = line
      /\ \A i \in DOMAIN log : Append(log, line)[i] = log[i]
  OBVIOUS
<1> QED BY <1>1 DEF LinesIn

LEMMA McpInitInv == McpInit => McpInv
<1> SUFFICES ASSUME McpInit PROVE McpInv
  OBVIOUS
<1>1. /\ queued = {} /\ archive = {} /\ taskLog = <<>> /\ unlogged = {}
      /\ agent = [at |-> "down", todo |-> {}, file |-> "none", result |-> "none", lines |-> <<>>]
  BY DEF McpInit, Resting
<1>2. McpTypes
  BY <1>1 DEF McpTypes
<1>3. LogKept /\ LoggedOnce
  BY <1>1, NoLines DEF LogKept, LoggedOnce, Single, Settled
<1> QED BY <1>2, <1>3 DEF McpInv

\* Lines that nothing takes away.
LEMMA ArchivedKept ==
  ASSUME LogKept, archive' = archive, Somewhere \subseteq Somewhere'
  PROVE  \A f \in archive' : HasLine(f)'
BY DEF LogKept, HasLine

\* Steps that leave the log and what was read of it.
LEMMA Unwritten ==
  ASSUME LogKept, UNCHANGED <<archive, taskLog, unlogged>>, agent'.lines = agent.lines,
         agent'.at \notin {"open", "write", "archive"}
  PROVE  LogKept'
<1>1. Somewhere' = Somewhere
  BY DEF Somewhere
<1> QED BY <1>1, ArchivedKept DEF LogKept

LEMMA McpPlace ==
  ASSUME McpInv, NEW f \in Files, Place(f)
  PROVE  McpInv'
<1>1. /\ f \notin queued \cup archive /\ queued' = queued \cup {f}
      /\ UNCHANGED <<archive, taskLog, unlogged, halfway, agent>>
  BY DEF Place
<1>2. McpTypes' /\ LogKept'
  BY <1>1 DEF McpInv, McpTypes, LogKept, HasLine, Somewhere
<1>3. LoggedOnce'
  BY <1>1 DEF McpInv, LoggedOnce, Single, Settled
<1> QED BY <1>2, <1>3 DEF McpInv

LEMMA McpList ==
  ASSUME McpInv, List
  PROVE  McpInv'
<1>1. /\ agent.at = "down"
      /\ agent' = [at |-> "idle", todo |-> queued, file |-> "none", result |-> "none", lines |-> <<>>]
      /\ UNCHANGED <<queued, archive, taskLog, unlogged, halfway>>
  BY DEF List, Resting
<1>2. agent.lines = <<>> /\ agent'.lines = agent.lines /\ agent'.at = "idle" /\ agent'.todo = queued
  BY <1>1 DEF McpInv, McpTypes
<1>3. McpTypes'
  BY <1>1 DEF McpInv, McpTypes
<1>4. LogKept'
  BY <1>1, <1>2, Unwritten DEF McpInv
<1>5. LoggedOnce'
  BY <1>1, <1>2 DEF McpInv, LoggedOnce, Single, Settled
<1> QED BY <1>3, <1>4, <1>5 DEF McpInv

LEMMA McpProcess ==
  ASSUME McpInv, NEW f \in Files, ProcessTask(f)
  PROVE  McpInv'
<1>1. PICK result \in {"success", "failed"} :
        agent' = [agent EXCEPT !.at = "log", !.todo = @ \ {f}, !.file = f, !.result = result]
  BY DEF ProcessTask, Outcomes
<1>2. agent.at = "idle" /\ f \in agent.todo /\ UNCHANGED <<queued, archive, taskLog, unlogged, halfway>>
  BY DEF ProcessTask, Outcomes
<1>3. /\ agent'.at = "log" /\ agent'.todo = agent.todo \ {f} /\ agent'.file = f
      /\ agent'.lines = agent.lines /\ agent.lines = <<>>
  BY <1>1, <1>2 DEF McpInv, McpTypes
<1>4. McpTypes'
  BY <1>1, <1>2, <1>3 DEF McpInv, McpTypes
<1>5. LogKept'
  BY <1>2, <1>3, Unwritten DEF McpInv
<1>6. LoggedOnce'
  BY <1>2, <1>3 DEF McpInv, LoggedOnce, Single, Settled
<1> QED BY <1>4, <1>5, <1>6 DEF McpInv

LEMMA McpReadLog ==
  ASSUME McpInv, ReadLog
  PROVE  McpInv'
<1>1. PICK lines \in {taskLog, <<>>} :
        /\ agent' = [agent EXCEPT !.at = "open", !.lines = lines]
        /\ unlogged' = unlogged \cup (LinesIn(taskLog) \ LinesIn(lines))
  BY DEF ReadLog
<1>2. agent.at = "log" /\ UNCHANGED <<queued, archive, taskLog, halfway>>
  BY DEF ReadLog
<1>3. /\ agent'.at = "open" /\ agent'.todo = agent.todo /\ agent'.file = agent.file
      /\ agent'.lines = lines /\ agent.lines = <<>>
  BY <1>1, <1>2 DEF McpInv, McpTypes
<1>4. McpTypes'
  <2>1. lines \in Seq(Lines)
    BY <1>1, NoLines DEF McpInv, McpTypes
  <2> QED BY <1>1, <1>2, <1>3, <2>1 DEF McpInv, McpTypes
<1>5. LogKept'
  <2>1. Somewhere \subseteq Somewhere'
    BY <1>1, <1>2, <1>3, NoLines DEF Somewhere
  <2>2. \A f \in archive' : HasLine(f)'
    BY <1>2, <2>1, ArchivedKept DEF McpInv
  <2> QED BY <1>1, <1>2, <1>3, <2>2 DEF LogKept
<1>6. LoggedOnce'
  <2>1. Single(taskLog)' /\ Settled(taskLog)'
    BY <1>2, <1>3 DEF McpInv, LoggedOnce, Single, Settled
  <2>2. Single(agent.lines)' /\ Settled(agent.lines)'
    BY <1>1, <1>3, <2>1, <1>2, NoLines DEF Single, Settled
  <2> QED BY <1>2, <1>3, <2>1, <2>2 DEF McpInv, LoggedOnce
<1> QED BY <1>4, <1>5, <1>6 DEF McpInv

LEMMA McpOpenLog ==
  ASSUME McpInv, OpenLog
  PROVE  McpInv'
<1>1. /\ agent.at = "open" /\ agent' = [agent EXCEPT !.at = "write"] /\ taskLog' = <<>>
      /\ UNCHANGED <<queued, archive, unlogged, halfway>>
  BY DEF OpenLog
<1>2. /\ agent'.at = "write" /\ agent'.todo = agent.todo /\ agent'.file = agent.file
      /\ agent'.lines = agent.lines
  BY <1>1 DEF McpInv, McpTypes
<1>3. McpTypes'
  BY <1>1, <1>2 DEF McpInv, McpTypes
<1>4. LogKept'
  <2>1. LinesIn(taskLog) \subseteq LinesIn(agent.lines) \cup unlogged
    BY <1>1 DEF McpInv, LogKept
  <2>2. Somewhere \subseteq Somewhere'
    BY <1>1, <1>2, <2>1 DEF Somewhere
  <2>3. \A f \in archive' : HasLine(f)'
    BY <1>1, <2>2, ArchivedKept DEF McpInv
  <2> QED BY <1>1, <1>2, <2>3, NoLines DEF LogKept
<1>5. LoggedOnce'
  BY <1>1, <1>2, NoLines DEF McpInv, LoggedOnce, Single, Settled
<1> QED BY <1>3, <1>4, <1>5 DEF McpInv

LEMMA McpWriteLog ==
  ASSUME McpInv, WriteLog
  PROVE  McpInv'
<1> DEFINE line == Line(agent.file, agent.result)
<1>1. /\ agent.at = "write" /\ taskLog' = Append(agent.lines, line)
      /\ agent' = [agent EXCEPT !.at = "archive", !.lines = <<>>]
      /\ UNCHANGED <<queued, archive, unlogged, halfway>>
  BY DEF WriteLog
<1>2. /\ agent'.at = "archive" /\ agent'.todo = agent.todo /\ agent'.file = agent.file
      /\ agent'.lines = <<>> /\ agent.lines \in Seq(Lines)
  BY <1>1 DEF McpInv, McpTypes
<1>3. line \in Lines /\ line.file = agent.file
  BY <1>1 DEF McpInv, McpTypes, Lines, Line
<1> HIDE DEF line
<1>4. /\ LinesIn(taskLog') = LinesIn(agent.lines) \cup {line} /\ taskLog' \in Seq(Lines)
      /\ DOMAIN taskLog' = DOMAIN agent.lines \cup {Len(agent.lines) + 1}
      /\ taskLog'[Len(agent.lines) + 1] = line
      /\ \A i \in DOMAIN agent.lines : taskLog'[i] = agent.lines[i]
  BY <1>1, <1>2, <1>3, OneMore
<1>5. McpTypes'
  <2>1. agent' \in [at : {"archive"}, todo : SUBSET Files, file : Files, result : {"success", "failed"},
                    lines : Seq(Lines)]
    BY <1>1, NoLines DEF McpInv, McpTypes
  <2> QED BY <1>1, <1>2, <1>4, <2>1 DEF McpInv, McpTypes
<1>6. LinesIn(taskLog)' = LinesIn(taskLog')
  BY DEF LinesIn
<1>7. LogKept'
  <2>1. LinesIn(taskLog) \subseteq LinesIn(agent.lines) \cup unlogged
    BY <1>1 DEF McpInv, LogKept
  <2>2. Somewhere \subseteq Somewhere'
    BY <1>1, <1>4, <1>6, <2>1 DEF Somewhere
  <2>3. \A f \in archive' : HasLine(f)'
    BY <1>1, <2>2, ArchivedKept DEF McpInv
  <2>4. HasLine(agent.file)'
    BY <1>2, <1>3, <1>4, <1>6 DEF HasLine, Somewhere
  <2> QED BY <1>2, <2>3, <2>4 DEF LogKept
<1>8. LoggedOnce'
  <2>1. agent.file \notin archive
    BY <1>1 DEF McpInv, LoggedOnce
  <2>2. \A i \in DOMAIN agent.lines : agent.lines[i].file = agent.file => agent.file \in halfway
    BY <1>1, <2>1 DEF McpInv, LoggedOnce, Settled, LinesIn
  <2>3. Single(taskLog)'
    <3> SUFFICES ASSUME NEW i \in DOMAIN taskLog', NEW j \in DOMAIN taskLog',
                        taskLog'[i].file = taskLog'[j].file, i # j
                 PROVE  taskLog'[i].file \in halfway
      BY <1>1 DEF Single
    <3>1. CASE i \in DOMAIN agent.lines /\ j \in DOMAIN agent.lines
      BY <1>4, <3>1 DEF McpInv, LoggedOnce, Single
    <3>2. CASE i \notin DOMAIN agent.lines \/ j \notin DOMAIN agent.lines
      BY <1>3, <1>4, <2>2, <3>2
    <3> QED BY <3>1, <3>2
  <2>4. Settled(taskLog)'
    BY <1>1, <1>2, <1>3, <1>4, <1>6 DEF McpInv, LoggedOnce, Settled
  <2>5. Single(agent.lines)' /\ Settled(agent.lines)'
    BY <1>2, NoLines DEF Single, Settled
  <2> QED BY <1>1, <1>2, <2>3, <2>4, <2>5 DEF McpInv, LoggedOnce
<1> QED BY <1>5, <1>7, <1>8 DEF McpInv

LEMMA McpWriteFails ==
  ASSUME McpInv, WriteLogFails
  PROVE  McpInv'
<1> DEFINE line == Line(agent.file, agent.result)
           lost == LinesIn(agent.lines) \cup {line}
<1>1. /\ agent.at \in {"open", "write"} /\ unlogged' = unlogged \cup (lost \ LinesIn(taskLog))
      /\ UNCHANGED <<queued, archive, taskLog, halfway>>
  BY DEF WriteLogFails
<1>2. line \in Lines /\ line.file = agent.file
  BY <1>1 DEF McpInv, McpTypes, Lines, Line
<1>3. \/ agent' = [agent EXCEPT !.at = "log", !.result = "failed", !.lines = <<>>]
      \/ agent' = [agent EXCEPT !.at = "archive", !.todo = {}, !.lines = <<>>]
  BY DEF WriteLogFails
<1> HIDE DEF line
<1>4. /\ agent'.at \in {"log", "archive"} /\ agent'.todo \in {agent.todo, {}} /\ agent'.file = agent.file
      /\ agent'.lines = <<>> /\ McpTypes'
  BY <1>1, <1>3, NoLines DEF McpInv, McpTypes
<1>5. LogKept'
  <2>1. Somewhere \subseteq Somewhere'
    BY <1>1, <1>4 DEF Somewhere
  <2>2. \A f \in archive' : HasLine(f)'
    BY <1>1, <2>1, ArchivedKept DEF McpInv
  <2>3. line \in Somewhere'
    BY <1>1 DEF Somewhere
  <2>4. HasLine(agent.file)'
    BY <1>2, <1>4, <2>3 DEF HasLine
  <2> QED BY <1>4, <2>2, <2>4 DEF LogKept
<1>6. LoggedOnce'
  <2>1. Single(taskLog)' /\ Settled(taskLog)'
    BY <1>1, <1>4 DEF McpInv, LoggedOnce, Single, Settled
  <2>2. Single(agent.lines)' /\ Settled(agent.lines)'
    BY <1>4, NoLines DEF Single, Settled
  <2> QED BY <1>1, <1>4, <2>1, <2>2 DEF McpInv, LoggedOnce
<1> QED BY <1>4, <1>5, <1>6 DEF McpInv

LEMMA McpArchive ==
  ASSUME McpInv, ArchiveTask
  PROVE  McpInv'
<1>1. /\ agent.at = "archive" /\ queued' = queued \ {agent.file} /\ archive' = archive \cup {agent.file}
      /\ agent' = [agent EXCEPT !.at = "idle", !.file = "none", !.result = "none"]
      /\ UNCHANGED <<taskLog, unlogged, halfway>>
  BY DEF ArchiveTask
<1>2. agent'.at = "idle" /\ agent'.todo = agent.todo /\ agent'.lines = agent.lines /\ agent.lines = <<>>
  BY <1>1 DEF McpInv, McpTypes
<1>3. McpTypes'
  BY <1>1, <1>2 DEF McpInv, McpTypes
<1>4. LogKept'
  <2>1. Somewhere' = Somewhere
    BY <1>1, <1>2 DEF Somewhere
  <2> QED BY <1>1, <1>2, <2>1 DEF McpInv, LogKept, HasLine
<1>5. LoggedOnce'
  BY <1>1, <1>2 DEF McpInv, LoggedOnce, Single, Settled
<1> QED BY <1>3, <1>4, <1>5 DEF McpInv

LEMMA McpRest ==
  ASSUME McpInv, AllProcessed \/ McpCrash
  PROVE  McpInv'
<1>1. /\ agent' = [at |-> "down", todo |-> {}, file |-> "none", result |-> "none", lines |-> <<>>]
      /\ UNCHANGED <<queued, archive, taskLog>>
  BY DEF AllProcessed, McpCrash, Resting
<1>2. agent'.at = "down" /\ agent'.lines = <<>> /\ agent'.todo = {}
  BY <1>1
<1>3. McpTypes'
  BY <1>1 DEF McpInv, McpTypes
<1>4. Somewhere \subseteq Somewhere'
  BY <1>1, <1>2, NoLines DEF AllProcessed, McpCrash, McpInv, McpTypes, Somewhere
<1>5. LogKept'
  BY <1>1, <1>2, <1>4, ArchivedKept DEF LogKept, McpInv
<1>6. halfway \subseteq halfway' /\ (agent.at = "archive" => agent.file \in halfway')
  BY DEF AllProcessed, McpCrash
<1>7. LoggedOnce'
  <2>1. Single(taskLog)' /\ Settled(taskLog)'
    BY <1>1, <1>2, <1>6 DEF McpInv, LoggedOnce, Single, Settled
  <2>2. Single(agent.lines)' /\ Settled(agent.lines)'
    BY <1>2, NoLines DEF Single, Settled
  <2> QED BY <1>1, <1>2, <2>1, <2>2 DEF McpInv, LoggedOnce
<1> QED BY <1>3, <1>5, <1>7 DEF McpInv

LEMMA McpInductive == RestartSpec => []McpInv
<1>1. RestartInit => McpInv
  BY McpInitInv DEF RestartInit
<1>2. McpInv /\ [RestartNext]_restartVars => McpInv'
  <2>1. ASSUME McpInv, McpNext PROVE McpInv'
    BY <2>1, McpPlace, McpList, McpProcess, McpReadLog, McpOpenLog, McpWriteLog, McpWriteFails,
       McpArchive, McpRest DEF McpNext
  <2>2. ASSUME McpInv, UNCHANGED mcpVars PROVE McpInv'
    BY <2>2 DEF mcpVars, McpInv, McpTypes, LogKept, HasLine, Somewhere, LoggedOnce, Single, Settled
  <2> QED BY <2>1, <2>2, PartStep DEF restartVars
<1> QED BY <1>1, <1>2, PTL DEF RestartSpec

\* A task in the archive has its result in the log, or a rewrite of the log that was
\* cut short lost it (logTaskResult and archiveTask of mcp_agent.ts).
THEOREM ArchivedCorrect == RestartSpec => []ArchivedIsLogged
<1>1. McpInv => ArchivedIsLogged
  BY DEF McpInv, LogKept, HasLine, Somewhere, ArchivedIsLogged
<1> QED BY <1>1, McpInductive, PTL

\* A task has one line in the log, for any files, failures and ends of the agent, unless
\* the agent was ended with it between logTaskResult and archiveTask.
THEOREM OneResultCorrect == RestartSpec => []OneResult
<1>1. McpInv => OneResult
  BY DEF McpInv, LoggedOnce, Single, OneResult
<1> QED BY <1>1, McpInductive, PTL

-----------------------------------------------------------------------------
\* EngChat.  What is on the way from one instance to another rises, and everything the
\* other's client saw from it is older.

EngTypes ==
  /\ posted \in Nat
  /\ way \in [Instances -> [Instances -> Seq(Nat)]]
  /\ live \in [Instances -> Seq(Instances \X Nat)]

Rising(q) == \A m, n \in DOMAIN q : m < n => q[m] < q[n]

OnTheWay ==
  \A i, j \in Instances :
    /\ Rising(way[i][j])
    /\ \A n \in DOMAIN way[i][j] : way[i][j][n] <= posted

SeenBefore ==
  \A j \in Instances : \A a \in DOMAIN live[j] :
    /\ live[j][a][2] <= posted
    /\ \A n \in DOMAIN way[live[j][a][1]][j] : live[j][a][2] < way[live[j][a][1]][j][n]

EngInv == EngTypes /\ OnTheWay /\ SeenBefore /\ LiveInOrder

\* What appending does to a sequence, and what taking its head does.
LEMMA Appended ==
  ASSUME NEW S, NEW q \in Seq(S), NEW x \in S
  PROVE  /\ Append(q, x) \in Seq(S)
         /\ \A n \in DOMAIN Append(q, x) :
              (n \in DOMAIN q /\ Append(q, x)[n] = q[n]) \/ (n = Len(q) + 1 /\ Append(q, x)[n] = x)
         /\ \A n \in DOMAIN q : n \in Nat /\ n <= Len(q)
<1>1. Len(q) \in Nat /\ DOMAIN q = 1..Len(q)
  OBVIOUS
<1>2. /\ Append(q, x) \in Seq(S) /\ Len(Append(q, x)) = Len(q) + 1
      /\ DOMAIN Append(q, x) = 1..(Len(q) + 1)
  OBVIOUS
<1>3. \A n \in 1..Len(q) : Append(q, x)[n] = q[n]
  OBVIOUS
<1>4. Append(q, x)[Len(q) + 1] = x
  OBVIOUS
<1>5. \A n \in 1..(Len(q) + 1) : n \in 1..Len(q) \/ n = Len(q) + 1
  BY <1>1
<1>6. \A n \in DOMAIN Append(q, x) :
        (n \in DOMAIN q /\ Append(q, x)[n] = q[n]) \/ (n = Len(q) + 1 /\ Append(q, x)[n] = x)
  <2> SUFFICES ASSUME NEW n \in DOMAIN Append(q, x)
               PROVE  (n \in DOMAIN q /\ Append(q, x)[n] = q[n]) \/ (n = Len(q) + 1 /\ Append(q, x)[n] = x)
    OBVIOUS
  <2>1. n \in 1..Len(q) \/ n = Len(q) + 1
    BY <1>2, <1>5
  <2>2. CASE n \in 1..Len(q)
    BY <1>1, <1>3, <2>2
  <2>3. CASE n = Len(q) + 1
    BY <1>4, <2>3
  <2> QED BY <2>1, <2>2, <2>3
<1>7. \A n \in DOMAIN q : n \in Nat /\ n <= Len(q)
  BY <1>1
<1> QED BY <1>2, <1>6, <1>7

LEMMA AppendRises ==
  ASSUME NEW q \in Seq(Nat), NEW x \in Nat, Rising(q), \A n \in DOMAIN q : q[n] < x
  PROVE  Rising(Append(q, x))
<1> DEFINE s == Append(q, x)
<1> SUFFICES ASSUME NEW m \in DOMAIN s, NEW n \in DOMAIN s, m < n
             PROVE  s[m] < s[n]
  BY DEF Rising
<1>1. (m \in DOMAIN q /\ s[m] = q[m]) \/ m = Len(q) + 1
  BY Appended
<1>2. (n \in DOMAIN q /\ s[n] = q[n]) \/ (n = Len(q) + 1 /\ s[n] = x)
  BY Appended
<1>3. m \in DOMAIN q
  BY <1>1, <1>2
<1>4. s[m] = q[m]
  BY <1>1, <1>3
<1> HIDE DEF s
<1> QED BY <1>2, <1>3, <1>4 DEF Rising

LEMMA Taken ==
  ASSUME NEW q \in Seq(Nat), q # <<>>
  PROVE  /\ Tail(q) \in Seq(Nat) /\ Head(q) \in Nat /\ Head(q) = q[1] /\ 1 \in DOMAIN q
         /\ \A n \in DOMAIN q : n \in Nat /\ q[n] \in Nat
         /\ \A n \in DOMAIN Tail(q) : n \in Nat \ {0} /\ n + 1 \in DOMAIN q /\ Tail(q)[n] = q[n + 1]
OBVIOUS

LEMMA Seen ==
  ASSUME EngTypes, SeenBefore, NEW k \in Instances, NEW a \in DOMAIN live[k]
  PROVE  /\ live[k][a][1] \in Instances /\ live[k][a][2] \in Nat /\ live[k][a][2] <= posted
         /\ \A n \in DOMAIN way[live[k][a][1]][k] : live[k][a][2] < way[live[k][a][1]][k][n]
<1>1. live[k] \in Seq(Instances \X Nat)
  BY DEF EngTypes
<1>2. live[k][a] \in Instances \X Nat
  BY <1>1
<1> QED BY <1>2 DEF SeenBefore

LEMMA EngPost ==
  ASSUME EngInv, NEW i \in Instances, PostMessage(i)
  PROVE  EngInv'
<1>1. /\ posted' = posted + 1 /\ live' = live
      /\ way' = [way EXCEPT ![i] = [j \in Instances |->
                   IF {i, j} \subseteq nats THEN Append(@[j], posted + 1) ELSE @[j]]]
  BY DEF PostMessage
<1>2. /\ posted \in Nat /\ posted + 1 \in Nat
      /\ \A j, k \in Instances : way[j][k] \in Seq(Nat)
  BY DEF EngInv, EngTypes
<1>3. \A j, k \in Instances :
        way'[j][k] = IF j = i /\ {i, k} \subseteq nats THEN Append(way[i][k], posted + 1) ELSE way[j][k]
  BY <1>1 DEF EngInv, EngTypes
<1>4. EngTypes'
  BY <1>1, <1>2 DEF EngInv, EngTypes
<1>5. ASSUME NEW j \in Instances, NEW k \in Instances
      PROVE  /\ Rising(way'[j][k])
             /\ \A n \in DOMAIN way'[j][k] : way'[j][k][n] <= posted'
             /\ \A n \in DOMAIN way'[j][k] : (n \in DOMAIN way[j][k] /\ way'[j][k][n] = way[j][k][n])
                                              \/ way'[j][k][n] = posted + 1
  <2>1. CASE j = i /\ {i, k} \subseteq nats
    <3>1. way'[j][k] = Append(way[j][k], posted + 1)
      BY <1>3, <2>1
    <3>2. Rising(way[j][k]) /\ \A n \in DOMAIN way[j][k] : way[j][k][n] <= posted /\ way[j][k][n] \in Nat
      BY <1>2 DEF EngInv, OnTheWay
    <3>3. \A n \in DOMAIN way[j][k] : way[j][k][n] < posted + 1
      BY <1>2, <3>2
    <3>4. Rising(way'[j][k])
      BY <1>2, <3>1, <3>2, <3>3, AppendRises
    <3>5. \A n \in DOMAIN way'[j][k] : (n \in DOMAIN way[j][k] /\ way'[j][k][n] = way[j][k][n])
                                        \/ way'[j][k][n] = posted + 1
      BY <1>2, <3>1, Appended
    <3> QED BY <1>1, <1>2, <3>2, <3>3, <3>4, <3>5
  <2>2. CASE ~(j = i /\ {i, k} \subseteq nats)
    <3>1. way'[j][k] = way[j][k]
      BY <1>3, <2>2
    <3>2. Rising(way[j][k]) /\ \A n \in DOMAIN way[j][k] : way[j][k][n] <= posted /\ way[j][k][n] \in Nat
      BY <1>2 DEF EngInv, OnTheWay
    <3>3. \A n \in DOMAIN way[j][k] : way[j][k][n] <= posted'
      BY <1>1, <1>2, <3>2
    <3> QED BY <3>1, <3>2, <3>3
  <2> QED BY <2>1, <2>2
<1>6. OnTheWay'
  BY <1>5 DEF OnTheWay
<1>7. SeenBefore'
  <2> SUFFICES ASSUME NEW j \in Instances, NEW a \in DOMAIN live[j]
               PROVE  /\ live[j][a][2] <= posted'
                      /\ \A n \in DOMAIN way'[live[j][a][1]][j] : live[j][a][2] < way'[live[j][a][1]][j][n]
    BY <1>1 DEF SeenBefore
  <2> DEFINE i0 == live[j][a][1]
             m0 == live[j][a][2]
  <2>1. /\ i0 \in Instances /\ m0 \in Nat /\ m0 <= posted
        /\ \A n \in DOMAIN way[i0][j] : m0 < way[i0][j][n]
    BY Seen DEF EngInv
  <2> HIDE DEF i0, m0
  <2>2. \A n \in DOMAIN way'[i0][j] : (n \in DOMAIN way[i0][j] /\ way'[i0][j][n] = way[i0][j][n])
                                      \/ way'[i0][j][n] = posted + 1
    BY <1>5, <2>1
  <2>3. m0 <= posted' /\ \A n \in DOMAIN way'[i0][j] : m0 < way'[i0][j][n]
    BY <1>1, <1>2, <2>1, <2>2
  <2> QED BY <2>3 DEF i0, m0
<1>8. LiveInOrder'
  BY <1>1 DEF EngInv, LiveInOrder
<1> QED BY <1>4, <1>6, <1>7, <1>8 DEF EngInv

LEMMA EngTake ==
  ASSUME EngInv, NEW i \in Instances, NEW j \in Instances, TakeMessage(i, j)
  PROVE  EngInv'
<1> DEFINE q == way[i][j]
           saw == <<i, Head(q)>>
<1>1. /\ q # <<>> /\ way' = [way EXCEPT ![i][j] = Tail(@)] /\ posted' = posted
      /\ live' = IF socket[j] THEN [live EXCEPT ![j] = Append(@, saw)] ELSE live
  BY DEF TakeMessage
<1>2. /\ q \in Seq(Nat) /\ Head(q) \in Nat /\ Tail(q) \in Seq(Nat) /\ Head(q) = q[1] /\ 1 \in DOMAIN q
      /\ \A n \in DOMAIN Tail(q) : n + 1 \in DOMAIN q /\ Tail(q)[n] = q[n + 1] /\ n \in Nat \ {0}
      /\ posted \in Nat
  <2>1. q \in Seq(Nat) /\ posted \in Nat
    BY DEF EngInv, EngTypes
  <2> QED BY <1>1, <2>1, Taken
<1>3. \A k, l \in Instances : way'[k][l] = IF k = i /\ l = j THEN Tail(q) ELSE way[k][l]
  BY <1>1 DEF EngInv, EngTypes
<1>4. EngTypes'
  BY <1>1, <1>2 DEF EngInv, EngTypes
<1>5. Rising(q) /\ \A n \in DOMAIN q : q[n] <= posted /\ q[n] \in Nat /\ n \in Nat
  BY <1>1, <1>2, Taken DEF EngInv, OnTheWay
<1>6. Rising(Tail(q)) /\ \A n \in DOMAIN Tail(q) : Tail(q)[n] <= posted /\ Head(q) < Tail(q)[n]
  <2> HIDE DEF q
  <2>1. \A m, n \in DOMAIN Tail(q) : m < n => m + 1 < n + 1
    BY <1>2
  <2>2. \A n \in DOMAIN Tail(q) : 1 < n + 1
    BY <1>2
  <2> QED BY <1>2, <1>5, <2>1, <2>2 DEF Rising
<1>7. OnTheWay'
  BY <1>1, <1>3, <1>6 DEF EngInv, OnTheWay
<1>8. ASSUME NEW k \in Instances, NEW a \in DOMAIN live[k]
      PROVE  /\ live[k][a][1] \in Instances /\ live[k][a][2] \in Nat /\ live[k][a][2] <= posted
             /\ \A n \in DOMAIN way'[live[k][a][1]][k] : live[k][a][2] < way'[live[k][a][1]][k][n]
             /\ k = j /\ live[k][a][1] = i => live[k][a][2] < Head(q)
  <2> DEFINE i0 == live[k][a][1]
             m0 == live[k][a][2]
  <2>1. /\ i0 \in Instances /\ m0 \in Nat /\ m0 <= posted
        /\ \A n \in DOMAIN way[i0][k] : m0 < way[i0][k][n]
    BY Seen DEF EngInv
  <2> HIDE DEF q, i0, m0
  <2>2. CASE i0 = i /\ k = j
    <3>1. \A n \in DOMAIN q : m0 < q[n]
      BY <2>1, <2>2 DEF q
    <3>2. way'[i0][k] = Tail(q)
      BY <1>3, <2>1, <2>2
    <3> QED BY <1>2, <2>1, <3>1, <3>2 DEF i0, m0
  <2>3. CASE ~(i0 = i /\ k = j)
    <3>1. way'[i0][k] = way[i0][k]
      BY <1>3, <2>1, <2>3
    <3> QED BY <2>1, <2>3, <3>1 DEF i0, m0
  <2> QED BY <2>2, <2>3
<1>9. CASE ~socket[j]
  <2>1. live' = live
    BY <1>1, <1>9
  <2>2. SeenBefore'
    BY <1>1, <1>8, <2>1 DEF SeenBefore
  <2> QED BY <1>4, <1>7, <2>1, <2>2 DEF EngInv, LiveInOrder
<1>10. CASE socket[j]
  <2> HIDE DEF q, saw
  <2>1. \A k \in Instances : live'[k] = IF k = j THEN Append(live[j], saw) ELSE live[k]
    BY <1>1, <1>10 DEF EngInv, EngTypes
  <2>2. live[j] \in Seq(Instances \X Nat)
    BY DEF EngInv, EngTypes
  <2>3. saw[1] = i /\ saw[2] = Head(q)
    BY DEF saw
  <2>4. ASSUME NEW k \in Instances, NEW a \in DOMAIN live'[k]
        PROVE  \/ a \in DOMAIN live[k] /\ live'[k][a] = live[k][a]
               \/ k = j /\ a = Len(live[j]) + 1 /\ live'[k][a] = saw
    <3>1. saw \in Instances \X Nat
      BY <1>2 DEF saw
    <3>2. CASE k = j
      <4>1. live'[k] = Append(live[j], saw)
        BY <2>1, <3>2
      <4> QED BY <2>2, <3>1, <3>2, <4>1, Appended
    <3>3. CASE k # j
      BY <2>1, <3>3
    <3> QED BY <3>2, <3>3
  <2>5. SeenBefore'
    <3> SUFFICES ASSUME NEW k \in Instances, NEW a \in DOMAIN live'[k]
                 PROVE  /\ live'[k][a][2] <= posted
                        /\ \A n \in DOMAIN way'[live'[k][a][1]][k] : live'[k][a][2] < way'[live'[k][a][1]][k][n]
      BY <1>1 DEF SeenBefore
    <3>1. CASE a \in DOMAIN live[k] /\ live'[k][a] = live[k][a]
      BY <1>8, <3>1
    <3>2. CASE k = j /\ live'[k][a] = saw
      <4>1. live'[k][a][1] = i /\ live'[k][a][2] = Head(q)
        BY <2>3, <3>2
      <4>2. way'[i][k] = Tail(q)
        BY <1>3, <3>2
      <4>3. Head(q) <= posted
        BY <1>2, <1>5
      <4> QED BY <1>6, <4>1, <4>2, <4>3
    <3> QED BY <2>4, <3>1, <3>2
  <2>6. LiveInOrder'
    <3> SUFFICES ASSUME NEW k \in Instances, NEW a \in DOMAIN live'[k], NEW b \in DOMAIN live'[k],
                        a < b, live'[k][a][1] = live'[k][b][1]
                 PROVE  live'[k][a][2] < live'[k][b][2]
      BY DEF LiveInOrder
    <3>1. CASE b \in DOMAIN live[k] /\ live'[k][b] = live[k][b]
      <4>1. a \in DOMAIN live[k] /\ live'[k][a] = live[k][a]
        BY <2>1, <2>2, <2>4, <3>1
      <4> QED BY <3>1, <4>1 DEF EngInv, LiveInOrder
    <3>2. CASE k = j /\ b = Len(live[j]) + 1 /\ live'[k][b] = saw
      <4>1. a \in DOMAIN live[k] /\ live'[k][a] = live[k][a]
        BY <2>2, <2>4, <3>2
      <4> QED BY <1>8, <2>3, <3>2, <4>1
    <3> QED BY <2>4, <3>1, <3>2
  <2> QED BY <1>4, <1>7, <2>5, <2>6 DEF EngInv
<1> QED BY <1>9, <1>10

LEMMA EngEnds ==
  ASSUME EngInv, NEW i \in Instances, EngCrash(i)
  PROVE  EngInv'
<1>1. /\ way' = [j \in Instances |-> [way[j] EXCEPT ![i] = <<>>]] /\ UNCHANGED <<posted, live>>
  BY DEF EngCrash
<1>2. \A j, k \in Instances : way'[j][k] = IF k = i THEN <<>> ELSE way[j][k]
  BY <1>1 DEF EngInv, EngTypes
<1>3. EngTypes'
  BY <1>1 DEF EngInv, EngTypes
<1>4. OnTheWay'
  BY <1>1, <1>2 DEF EngInv, OnTheWay, Rising
<1>5. SeenBefore'
  <2> SUFFICES ASSUME NEW j \in Instances, NEW a \in DOMAIN live[j]
               PROVE  /\ live[j][a][2] <= posted
                      /\ \A n \in DOMAIN way'[live[j][a][1]][j] : live[j][a][2] < way'[live[j][a][1]][j][n]
    BY <1>1 DEF SeenBefore
  <2>1. /\ live[j][a][1] \in Instances /\ live[j][a][2] <= posted
        /\ \A n \in DOMAIN way[live[j][a][1]][j] : live[j][a][2] < way[live[j][a][1]][j][n]
    BY Seen DEF EngInv
  <2> QED BY <1>2, <2>1
<1> QED BY <1>1, <1>3, <1>4, <1>5 DEF EngInv, LiveInOrder

LEMMA EngInductive == RestartSpec => []EngInv
<1>1. RestartInit => EngInv
  BY DEF RestartInit, EngInit, EngInv, EngTypes, OnTheWay, Rising, SeenBefore, LiveInOrder
<1>2. EngInv /\ [RestartNext]_restartVars => EngInv'
  <2>1. ASSUME EngInv, EngNext PROVE EngInv' \/ UNCHANGED <<posted, way, live>>
    BY <2>1, EngPost, EngTake, EngEnds DEF EngNext, ConnectNats, OpenSocket, CloseSocket, InsertMessage, Retain
  <2>2. ASSUME EngInv, UNCHANGED <<posted, way, live>> PROVE EngInv'
    BY <2>2 DEF EngInv, EngTypes, OnTheWay, Rising, SeenBefore, LiveInOrder
  <2>3. RestartNext => EngNext \/ UNCHANGED engVars
    BY DEF RestartNext
  <2> QED BY <2>1, <2>2, <2>3 DEF restartVars, engVars
<1> QED BY <1>1, <1>2, PTL DEF RestartSpec

\* A client of eng-svc sees the messages of one instance in the order of their POSTs,
\* each once, through reconnections and restarts.
THEOREM LiveCorrect == RestartSpec => []LiveInOrder
<1>1. EngInv => LiveInOrder
  BY DEF EngInv
<1> QED BY <1>1, EngInductive, PTL
-----------------------------------------------------------------------------
\* StreamConsumer.  What was printed is a prefix of the stream; it reaches at least to
\* the id saved and to where the running reader is (Prefix).  A message was printed at
\* most once more than there were crashes, and what the reader has still before it at
\* most once per crash (Counted).

Positions ==
  /\ added \in Nat /\ saved \in Nat /\ crashes \in Nat
  /\ printed \in [1..MaxMessages -> Nat]
  /\ reader \in [at : {"down", "reading", "printing", "saving"}, pos : Nat, upto : Nat]
  /\ saved <= added /\ added <= MaxMessages
  /\ reader.at # "down" => saved <= reader.pos /\ reader.pos <= reader.upto /\ reader.upto <= added
  /\ reader.at = "reading" => reader.pos = saved

Prefix ==
  /\ \A i \in 1..MaxMessages : printed[i] > 0 => i <= added /\ \A j \in 1..i : printed[j] > 0
  /\ \A i \in 1..MaxMessages : i <= saved => printed[i] > 0
  /\ reader.at # "down" => \A i \in 1..MaxMessages : i <= reader.pos => printed[i] > 0

Counted ==
  \A i \in 1..MaxMessages :
    i > saved => /\ printed[i] <= crashes + 1
                 /\ reader.at = "down" \/ i > reader.pos => printed[i] <= crashes

StreamInv == Positions /\ Prefix /\ Counted

LEMMA StreamInitInv == crashes = 0 /\ StreamInit => StreamInv
<1> SUFFICES ASSUME crashes = 0, StreamInit PROVE StreamInv
  OBVIOUS
<1>1. Positions
  <2>1. printed \in [1..MaxMessages -> Nat]
    BY DEF StreamInit
  <2>2. reader = [at |-> "down", pos |-> 0, upto |-> 0]
    BY DEF StreamInit, Down
  <2>3. added = 0 /\ saved = 0 /\ torn = FALSE
    BY DEF StreamInit
  <2> QED BY <2>1, <2>2, <2>3, StreamAssumption DEF Positions
<1>2. \A i \in 1..MaxMessages : printed[i] = 0
  BY DEF StreamInit
<1>3. reader.at = "down" /\ saved = 0 /\ crashes = 0
  BY DEF StreamInit, Down
<1>4. Prefix /\ Counted
  BY <1>2, <1>3 DEF Prefix, Counted
<1> QED BY <1>1, <1>4 DEF StreamInv

\* A printed message: only the count of the next one changes.
LEMMA PrintStep ==
  ASSUME StreamInv, PrintMessage
  PROVE  /\ StreamInv'
         /\ reader.pos + 1 \in 1..MaxMessages
         /\ printed' = [printed EXCEPT ![reader.pos + 1] = @ + 1]
<1> DEFINE next == reader.pos + 1
<1>1. /\ next \in 1..MaxMessages /\ next <= added /\ next > saved
      /\ printed' = [printed EXCEPT ![next] = @ + 1]
      /\ reader' = [reader EXCEPT !.pos = next] /\ reader.at = "printing"
      /\ added' = added /\ saved' = saved /\ torn' = torn /\ crashes' = crashes
  BY StreamAssumption DEF PrintMessage, StreamInv, Positions
<1>2. Positions'
  BY <1>1 DEF PrintMessage, StreamInv, Positions
<1>3. \A i \in 1..MaxMessages : printed'[i] = IF i = next THEN printed[i] + 1 ELSE printed[i]
  BY <1>1 DEF StreamInv, Positions
<1>4. reader'.pos = next /\ reader'.at = "printing"
  BY <1>1 DEF StreamInv, Positions
<1>5. Prefix'
  <2>1. \A i \in 1..MaxMessages : i <= next => printed'[i] > 0
    BY <1>1, <1>3 DEF StreamInv, Positions, Prefix
  <2>2. \A i \in 1..MaxMessages : i > next => printed'[i] = printed[i]
    BY <1>3
  <2>3. ASSUME NEW i \in 1..MaxMessages, printed'[i] > 0
        PROVE  i <= added /\ \A j \in 1..i : printed'[j] > 0
    <3>1. CASE i <= next
      <4>1. \A j \in 1..i : j \in 1..MaxMessages /\ j <= next
        BY <1>1, <3>1, StreamAssumption DEF StreamInv, Positions
      <4>2. added \in Nat /\ next \in Nat
        BY <1>1 DEF StreamInv, Positions
      <4> QED BY <1>1, <2>1, <3>1, <4>1, <4>2
    <3>2. CASE i > next
      BY <1>1, <1>3, <2>3, <3>2 DEF StreamInv, Positions, Prefix
    <3> QED BY <1>1, <3>1, <3>2 DEF StreamInv, Positions
  <2>4. saved < next /\ saved \in Nat /\ next \in Nat
    BY <1>1 DEF StreamInv, Positions
  <2> QED BY <1>1, <1>4, <2>1, <2>3, <2>4 DEF Prefix
<1>6. Counted'
  BY <1>1, <1>3, <1>4 DEF StreamInv, Positions, Counted
<1> QED BY <1>1, <1>2, <1>5, <1>6 DEF StreamInv

\* Every other step leaves the counts alone.
LEMMA QuietStep ==
  ASSUME StreamInv, Produce \/ Start \/ Read \/ OpenFile \/ WriteFile \/ StreamCrash
  PROVE  StreamInv' /\ printed' = printed
<1>1. CASE Produce
  BY <1>1, StreamAssumption DEF Produce, StreamInv, Positions, Prefix, Counted
<1>2. CASE Start
  BY <1>2 DEF Start, StreamInv, Positions, Prefix, Counted
<1>3. CASE Read
  <2>1. reader.at = "reading" /\ UNCHANGED <<added, saved, torn, printed, crashes>>
    BY <1>3 DEF Read
  <2>2. CASE reader' = Down
    <3>1. reader' = [at |-> "down", pos |-> 0, upto |-> 0] /\ reader'.at = "down"
      BY <2>2 DEF Down
    <3>2. reader.pos = saved
      BY <2>1 DEF StreamInv, Positions
    <3>3. Positions'
      BY <2>1, <3>1 DEF StreamInv, Positions
    <3>4. Prefix'
      BY <2>1, <3>1 DEF StreamInv, Prefix
    <3>5. Counted'
      BY <2>1, <3>1, <3>2 DEF StreamInv, Counted
    <3> QED BY <2>1, <3>3, <3>4, <3>5 DEF StreamInv
  <2>3. CASE reader.pos < added /\ reader' = [reader EXCEPT !.at = "printing", !.upto = added]
    <3>1. reader'.at = "printing" /\ reader'.pos = reader.pos /\ reader'.upto = added
      BY <2>3 DEF StreamInv, Positions
    <3>2. Positions'
      <4>1. reader' \in [at : {"down", "reading", "printing", "saving"}, pos : Nat, upto : Nat]
        BY <2>3 DEF StreamInv, Positions
      <4>2. /\ added \in Nat /\ saved \in Nat /\ reader.pos \in Nat
            /\ saved <= reader.pos /\ reader.pos <= added
        BY <2>1, <2>3 DEF StreamInv, Positions
      <4> QED BY <2>1, <3>1, <4>1, <4>2 DEF StreamInv, Positions
    <3>3. Prefix'
      BY <2>1, <3>1 DEF StreamInv, Prefix
    <3>4. Counted'
      BY <2>1, <3>1 DEF StreamInv, Counted
    <3> QED BY <2>1, <3>2, <3>3, <3>4 DEF StreamInv
  <2> QED BY <1>3, <2>2, <2>3 DEF Read
<1>4. CASE OpenFile
  <2>1. /\ reader' = [reader EXCEPT !.at = "saving"] /\ torn' = TRUE /\ reader.at = "printing"
        /\ UNCHANGED <<added, saved, printed, crashes>>
    BY <1>4 DEF OpenFile
  <2>2. reader'.at = "saving" /\ reader'.pos = reader.pos /\ Positions'
    BY <2>1 DEF StreamInv, Positions
  <2> QED BY <2>1, <2>2 DEF StreamInv, Prefix, Counted
<1>5. CASE WriteFile
  <2>1. /\ reader' = [reader EXCEPT !.at = "reading"] /\ torn' = FALSE /\ saved' = reader.pos
        /\ reader.at = "saving" /\ UNCHANGED <<added, printed, crashes>>
    BY <1>5 DEF WriteFile
  <2>2. /\ reader'.at = "reading" /\ reader'.pos = reader.pos /\ saved <= reader.pos
        /\ saved \in Nat /\ reader.pos \in Nat /\ Positions'
    BY <2>1 DEF StreamInv, Positions
  <2>3. Prefix'
    BY <2>1, <2>2 DEF StreamInv, Prefix
  <2>4. Counted'
    BY <2>1, <2>2 DEF StreamInv, Counted
  <2> QED BY <2>1, <2>2, <2>3, <2>4 DEF StreamInv
<1>6. CASE StreamCrash
  <2>1. /\ reader' = [at |-> "down", pos |-> 0, upto |-> 0] /\ crashes' = crashes + 1
        /\ UNCHANGED <<added, saved, torn, printed>>
    BY <1>6 DEF StreamCrash, Crash, Down
  <2>2. reader'.at = "down" /\ Positions'
    BY <2>1 DEF StreamInv, Positions
  <2>3. Prefix'
    BY <2>1, <2>2 DEF StreamInv, Prefix
  <2>4. Counted'
    BY <2>1, <2>2 DEF StreamInv, Positions, Counted
  <2> QED BY <2>1, <2>2, <2>3, <2>4 DEF StreamInv
<1> QED BY <1>1, <1>2, <1>3, <1>4, <1>5, <1>6

LEMMA StreamNextInv == StreamInv /\ [StreamNext]_<<streamVars, crashes>> => StreamInv'
<1>1. ASSUME StreamInv, StreamNext PROVE StreamInv'
  BY <1>1, PrintStep, QuietStep DEF StreamNext, Consume
<1>2. ASSUME StreamInv, UNCHANGED <<streamVars, crashes>> PROVE StreamInv'
  BY <1>2 DEF streamVars, StreamInv, Positions, Prefix, Counted
<1> QED BY <1>1, <1>2

\* The reader stands where the stream and the file let it: every state is an StreamInv state.
THEOREM StreamInductive == StreamSpec => []StreamInv
BY StreamInitInv, StreamNextInv, PTL DEF StreamSpec

----------------------------------------------------------------------------
\* A message is printed again only if the consumer was ended in between, at most once
\* for each time, and never after its batch was saved: the loop of stream-consumer.js
\* and its last-id file.
THEOREM RepeatsCorrect == StreamSpec => RepeatsAccounted
<1>1. ASSUME StreamInv, [StreamNext]_<<streamVars, crashes>>
      PROVE  [\A i \in 1..MaxMessages : printed'[i] # printed[i] =>
                i > saved /\ printed[i] <= crashes]_<<streamVars, crashes>>
  <2>1. CASE PrintMessage
    <3>1. printed' = [printed EXCEPT ![reader.pos + 1] = @ + 1]
      BY <1>1, <2>1, PrintStep
    <3>2. reader.at = "printing" /\ saved <= reader.pos /\ reader.pos \in Nat /\ saved \in Nat
      BY <1>1, <2>1 DEF PrintMessage, StreamInv, Positions
    <3>3. \A i \in 1..MaxMessages : printed'[i] # printed[i] => i = reader.pos + 1
      BY <1>1, <3>1 DEF StreamInv, Positions
    <3> QED BY <1>1, <3>2, <3>3 DEF StreamInv, Counted
  <2>2. CASE StreamNext /\ ~PrintMessage
    BY <1>1, <2>2, QuietStep DEF StreamNext, Consume
  <2>3. CASE UNCHANGED <<streamVars, crashes>>
    BY <2>3 DEF streamVars
  <2> QED BY <1>1, <2>1, <2>2, <2>3
<1> QED BY <1>1, StreamInductive, PTL DEF StreamSpec, RepeatsAccounted

----------------------------------------------------------------------------
Printed == {i \in 1..MaxMessages : printed[i] > 0}

\* A step of the consumer hands over one entry of the log, or is a stutter.
LEMMA DeliveryStep ==
  ASSUME StreamInv, [StreamNext]_<<streamVars, crashes>>
  PROVE  [Delivery!LogNext]_<<added, Printed>>
<1>1. CASE PrintMessage
  <2> DEFINE next == reader.pos + 1
  <2>1. next \in 1..MaxMessages /\ printed' = [printed EXCEPT ![next] = @ + 1]
    BY <1>1, PrintStep
  <2>2. /\ printed \in [1..MaxMessages -> Nat] /\ next \in 1..added
        /\ \A i \in 1..MaxMessages : i < next => printed[i] > 0
    BY <1>1, <2>1 DEF PrintMessage, StreamInv, Positions, Prefix
  <2>3. Printed' = Printed \cup {next}
    BY <2>1, <2>2 DEF Printed
  <2>4. 1..(next - 1) \subseteq Printed
    <3>1. \A i \in 1..(next - 1) : i \in 1..MaxMessages /\ i < next
      BY <2>1, StreamAssumption
    <3> QED BY <2>2, <3>1 DEF Printed
  <2>5. added' = added
    BY <1>1 DEF PrintMessage
  <2>6. \E i \in 1..added : /\ i <= added
                            /\ 1..(i - 1) \subseteq Printed
                            /\ Printed' = Printed \cup {i}
                            /\ added' = added
    BY <2>2, <2>3, <2>4, <2>5
  <2> QED BY <2>6 DEF Delivery!LogNext, Delivery!Give, Printed
<1>2. CASE Produce
  <2>1. added' = added + 1 /\ Printed' = Printed
    BY <1>2 DEF Produce, Printed
  <2> QED BY <2>1 DEF Delivery!LogNext, Delivery!Append1, Printed
<1>3. CASE Start \/ Read \/ OpenFile \/ WriteFile \/ StreamCrash
  BY <1>3 DEF Start, Read, OpenFile, WriteFile, StreamCrash, Printed
<1>4. CASE UNCHANGED <<streamVars, crashes>>
  BY <1>4 DEF streamVars, Printed
<1> QED BY <1>1, <1>2, <1>3, <1>4 DEF StreamNext, Consume

\* stream-consumer.js passes over no entry of the stream - none is printed before those
\* that precede it - whatever crashes there are: it implements LogDelivery.
THEOREM DeliveryImplemented == StreamSpec => ImplementsDelivery
<1>1. crashes = 0 /\ StreamInit => Delivery!LogInit
  BY DEF StreamInit, Delivery!LogInit
<1>2. ASSUME StreamInv, [StreamNext]_<<streamVars, crashes>>
      PROVE  [Delivery!LogNext]_<<added, {i \in 1..MaxMessages : printed[i] > 0}>>
  BY <1>2, DeliveryStep DEF Printed
<1> QED BY <1>1, <1>2, StreamInductive, PTL DEF StreamSpec, ImplementsDelivery, Delivery!LogSpec

=============================================================================
