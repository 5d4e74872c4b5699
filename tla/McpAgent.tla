------------------------------ MODULE McpAgent ------------------------------
(***************************************************************************)
(* The task agent, src/mcp/mcp_agent.ts and dispatcher.ts: it lists the    *)
(* files of a queue directory, runs each task, adds a line to a log by     *)
(* reading and rewriting all of it, and moves the file to the archive.     *)
(* One agent at a time; whoever starts it may start it again.  The only    *)
(* handler is a placeholder (src/handlers/sitrep.ts) that returns at once. *)
(***************************************************************************)
EXTENDS Restarting, Sequences

CONSTANTS
  Files,  \* names of task files
  Good    \* those with a task that can be parsed, is complete and of a known type

ASSUME McpAssumption == Good \subseteq Files

VARIABLES
  queued, archive,  \* the files in the two directories
  taskLog,          \* the log, a line for each result
  unlogged,         \* history: lines that a cut or unfinished rewrite of the log lost
  halfway,          \* history: files with which the agent was ended between log and archive
  agent             \* at; todo: files listed and not begun; file; result; lines: the log as read

mcpVars == <<queued, archive, taskLog, unlogged, halfway, agent>>

Resting == [at |-> "down", todo |-> {}, file |-> "none", result |-> "none", lines |-> <<>>]
Line(f, result) == [file |-> f, result |-> result]
Lines == [file : Files, result : {"success", "failed"}]
LinesIn(log) == {log[i] : i \in DOMAIN log}

McpInit ==
  /\ queued = {} /\ archive = {} /\ taskLog = <<>> /\ unlogged = {} /\ halfway = {}
  /\ agent = Resting

Place(f) ==
  /\ f \notin queued \cup archive
  /\ queued' = queued \cup {f}
  /\ UNCHANGED <<archive, taskLog, unlogged, halfway, agent, crashes>>

List ==
  /\ agent.at = "down"
  /\ agent' = [Resting EXCEPT !.at = "idle", !.todo = queued]
  /\ UNCHANGED <<queued, archive, taskLog, unlogged, halfway, crashes>>

\* dispatchTask: "success", or whatever goes wrong, "failed".
Outcomes(f) == {"failed"} \cup {result \in {"success"} : f \in Good}

\* The file is read and its task run.
ProcessTask(f) ==
  /\ agent.at = "idle" /\ f \in agent.todo
  /\ \E result \in Outcomes(f) :
       agent' = [agent EXCEPT !.at = "log", !.todo = @ \ {f}, !.file = f, !.result = result]
  /\ UNCHANGED <<queued, archive, taskLog, unlogged, halfway, crashes>>

\* logTaskResult: a log that cannot be read counts as empty.
ReadLog ==
  /\ agent.at = "log"
  /\ \E lines \in {taskLog, <<>>} :
       /\ agent' = [agent EXCEPT !.at = "open", !.lines = lines]
       /\ unlogged' = unlogged \cup (LinesIn(taskLog) \ LinesIn(lines))
  /\ UNCHANGED <<queued, archive, taskLog, halfway, crashes>>

OpenLog ==
  /\ agent.at = "open"
  /\ agent' = [agent EXCEPT !.at = "write"]
  /\ taskLog' = <<>>
  /\ UNCHANGED <<queued, archive, unlogged, halfway, crashes>>

\* Seeded fault: the failure path logs the result again.
WriteLogTwice ==
  LET line == Line(agent.file, agent.result) IN
  /\ agent.at = "write"
  /\ taskLog' = agent.lines \o <<line, line>>
  /\ agent' = [agent EXCEPT !.at = "archive", !.lines = <<>>]
  /\ UNCHANGED <<queued, archive, unlogged, halfway, crashes>>

\* Seeded fault: the new line is written without the old ones.
WriteLogAlone ==
  /\ agent.at = "write"
  /\ taskLog' = <<Line(agent.file, agent.result)>>
  /\ agent' = [agent EXCEPT !.at = "archive", !.lines = <<>>]
  /\ UNCHANGED <<queued, archive, unlogged, halfway, crashes>>

WriteLog ==
  /\ agent.at = "write"
  /\ taskLog' = Append(agent.lines, Line(agent.file, agent.result))
  /\ agent' = [agent EXCEPT !.at = "archive", !.lines = <<>>]
  /\ UNCHANGED <<queued, archive, unlogged, halfway, crashes>>

\* The rewrite fails, before or after the file was emptied.  After a success the
\* catch logs a failure; a failure that cannot be logged is archived (finally) and
\* ends the agent.  (A rewrite that fails has not written all of its text.)
WriteLogFails ==
  LET lost == LinesIn(agent.lines) \cup {Line(agent.file, agent.result)} IN
  /\ agent.at \in {"open", "write"}
  /\ unlogged' = unlogged \cup (lost \ LinesIn(taskLog))
  /\ agent' = IF agent.result = "success"
              THEN [agent EXCEPT !.at = "log", !.result = "failed", !.lines = <<>>]
              ELSE [agent EXCEPT !.at = "archive", !.todo = {}, !.lines = <<>>]
  /\ UNCHANGED <<queued, archive, taskLog, halfway, crashes>>

ArchiveTask ==
  /\ agent.at = "archive"
  /\ queued' = queued \ {agent.file}
  /\ archive' = archive \cup {agent.file}
  /\ agent' = [agent EXCEPT !.at = "idle", !.file = "none", !.result = "none"]
  /\ UNCHANGED <<taskLog, unlogged, halfway, crashes>>

\* main ends.
AllProcessed ==
  /\ agent.at = "idle" /\ agent.todo = {}
  /\ agent' = Resting
  /\ UNCHANGED <<queued, archive, taskLog, unlogged, halfway, crashes>>

\* Ended, or by the rename that fails.
McpCrash ==
  /\ agent.at # "down" /\ Crash
  /\ unlogged' = unlogged \cup (LinesIn(agent.lines) \ LinesIn(taskLog))
  /\ halfway' = IF agent.at = "archive" THEN halfway \cup {agent.file} ELSE halfway
  /\ agent' = Resting
  /\ UNCHANGED <<queued, archive, taskLog>>

McpNext ==
  \/ \E f \in Files : Place(f) \/ ProcessTask(f)
  \/ List \/ ReadLog \/ OpenLog \/ WriteLog \/ WriteLogFails \/ ArchiveTask
  \/ AllProcessed \/ McpCrash

----------------------------------------------------------------------------
\* A task in the archive has its result in the log, unless a rewrite of the log
\* lost it; while a rewrite is under way, the old lines are with the agent.
ArchivedIsLogged ==
  \A f \in archive : \E l \in Lines :
    l.file = f /\ l \in LinesIn(taskLog) \cup LinesIn(agent.lines) \cup unlogged

\* A task has one line in the log, whatever fails and whenever the agent is ended,
\* unless it was ended with this very task between its log and its archive.
OneResult ==
  \A i, j \in DOMAIN taskLog : taskLog[i].file = taskLog[j].file => i = j \/ taskLog[i].file \in halfway
=============================================================================
