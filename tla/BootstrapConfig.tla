-------------------------- MODULE BootstrapConfig --------------------------
(***************************************************************************)
(* bootstrap-svc: GET and POST /bootstrap/config on one file.  writeConfig *)
(* writes CONFIG_PATH.tmp and renames it; all requests use the same name.  *)
(* A file is named by the request whose open created it; names lead to     *)
(* files, and an open file stays the same file when it is renamed.         *)
(*                                                                         *)
(* A rename that fails, and a body ConfigSchema refuses, is a rejection    *)
(* nobody handles: it ends the process.                                    *)
(***************************************************************************)
EXTENDS Restarting, FiniteSets

CONSTANTS
  Posts,   \* the requests, each with a configuration of its own
  NoFile

ASSUME BootstrapAssumption == ({NoFile, "empty", "mixed", "default"} \cap Posts) = {}

VARIABLES
  tmp, config,  \* the files the two names lead to
  content,      \* of each file: empty, mixed, or the request whose text it is
  post,         \* where each request is; cut: ended between its open and its write
  file,         \* the file it opened
  applied,      \* history: the requests whose rename succeeded, the last one
  overlapped    \* history: two requests were under way together

bootVars == <<tmp, config, content, post, file, applied, overlapped>>

Under == {p \in Posts : post[p] \in {"opened", "written"}}

BootInit ==
  /\ tmp = NoFile /\ config = NoFile
  /\ content = [f \in Posts |-> "empty"]
  /\ post = [p \in Posts |-> "none"]
  /\ file = [p \in Posts |-> NoFile]
  /\ applied = NoFile
  /\ overlapped = FALSE

\* readConfig: whatever cannot be read and parsed is the default.
ReadConfig == IF config = NoFile \/ content[config] \in {"empty", "mixed"} THEN "default" ELSE content[config]

\* Seeded fault: without the temporary file.
OpenConfig(p) ==
  /\ post[p] = "none"
  /\ LET f == IF config = NoFile THEN p ELSE config IN
     /\ tmp' = f
     /\ file' = [file EXCEPT ![p] = f]
     /\ content' = [content EXCEPT ![f] = "empty"]
  /\ post' = [post EXCEPT ![p] = "opened"]
  /\ overlapped' = (overlapped \/ Under # {})
  /\ UNCHANGED <<config, applied, crashes>>

\* fs.writeFile: opened, created or emptied, ...
OpenTmp(p) ==
  /\ post[p] = "none"
  /\ LET f == IF tmp = NoFile THEN p ELSE tmp IN
     /\ tmp' = f
     /\ file' = [file EXCEPT ![p] = f]
     /\ content' = [content EXCEPT ![f] = "empty"]
  /\ post' = [post EXCEPT ![p] = "opened"]
  /\ overlapped' = (overlapped \/ Under # {})
  /\ UNCHANGED <<config, applied, crashes>>

\* ... and written from its beginning: over a longer text, the end of that stays.
WriteTmp(p) ==
  /\ post[p] = "opened"
  /\ content' \in {[content EXCEPT ![file[p]] = c] :
                     c \in {p} \cup (IF content[file[p]] = "empty" THEN {} ELSE {"mixed"})}
  /\ post' = [post EXCEPT ![p] = "written"]
  /\ UNCHANGED <<tmp, config, file, applied, overlapped, crashes>>

\* Seeded fault: renamed before it is written.
RenameEarly(p) ==
  /\ post[p] \in {"opened", "written"} /\ tmp # NoFile
  /\ config' = tmp /\ tmp' = NoFile
  /\ post' = [post EXCEPT ![p] = "applied"]
  /\ applied' = p
  /\ UNCHANGED <<content, file, overlapped, crashes>>

Rename(p) ==
  /\ post[p] = "written" /\ tmp # NoFile
  /\ config' = tmp /\ tmp' = NoFile
  /\ post' = [post EXCEPT ![p] = "applied"]
  /\ applied' = p
  /\ UNCHANGED <<content, file, overlapped, crashes>>

\* The process ends: killed, or by a rejection.  The files stay as they are.
BootCrash ==
  /\ Crash
  /\ post' = [p \in Posts |-> CASE post[p] = "opened" -> "cut"
                               [] post[p] = "written" -> "lost" [] OTHER -> post[p]]
  /\ UNCHANGED <<tmp, config, content, file, applied, overlapped>>

\* The file another request renamed away: ENOENT.
RenameFails(p) == post[p] = "written" /\ tmp = NoFile /\ BootCrash

BootNext ==
  \/ \E p \in Posts : OpenTmp(p) \/ WriteTmp(p) \/ Rename(p) \/ RenameFails(p)
  \/ BootCrash

----------------------------------------------------------------------------
\* Requests one at a time: what GET answers is the last configuration applied,
\* whole, whatever was killed when.
AloneIsAtomic ==
  ~overlapped => ReadConfig = IF applied = NoFile THEN "default" ELSE applied

Emptied(p, f) == file[p] = f /\ post[p] \in {"opened", "cut"}
Wrote(p, f) == file[p] = f /\ post[p] \in {"written", "applied", "lost"}

\* Requests together, and kills: once one was applied there is a configuration.  It
\* is empty only as long as a request has emptied it and not yet written it, or if
\* one was ended there; mixed only if two wrote the same file; and else it is whole.
ConfigAccounted ==
  applied # NoFile =>
    /\ config # NoFile
    /\ content[config] = "empty" => \E p \in Posts : Emptied(p, config)
    /\ content[config] = "mixed" => \E p, q \in Posts : p # q /\ Wrote(p, config) /\ Wrote(q, config)
    /\ content[config] \in Posts => Wrote(content[config], config)
=============================================================================
