------------------------------ MODULE Restarts ------------------------------
(***************************************************************************)
(* The programs that keep their state in files, or publish what they then  *)
(* store, and the page of an incident.  They share nothing, so each        *)
(* behaviour looks at one of them, the part; crashes is what the programs  *)
(* have in common.                                                         *)
(***************************************************************************)
EXTENDS StreamConsumer, McpAgent, BootstrapConfig, Discovery, PlaybookRuns, EngChat, IncidentPage

VARIABLE part

restartVars == <<crashes, part, streamVars, mcpVars, bootVars, discoveryVars, playbookVars, engVars, pageVars>>

RestartInit ==
  /\ part \in {"stream", "mcp", "bootstrap", "discovery", "playbook", "eng", "page"}
  /\ crashes = 0
  /\ StreamInit /\ McpInit /\ BootInit /\ DiscoveryInit /\ PlaybookInit /\ EngInit /\ PageInit
  /\ part # "page" => board = "chat"

RestartNext ==
  /\ UNCHANGED part
  /\ \/ part = "stream" /\ StreamNext
        /\ UNCHANGED <<mcpVars, bootVars, discoveryVars, playbookVars, engVars, pageVars>>
     \/ part = "mcp" /\ McpNext
        /\ UNCHANGED <<streamVars, bootVars, discoveryVars, playbookVars, engVars, pageVars>>
     \/ part = "bootstrap" /\ BootNext
        /\ UNCHANGED <<streamVars, mcpVars, discoveryVars, playbookVars, engVars, pageVars>>
     \/ part = "discovery" /\ DiscoveryNext
        /\ UNCHANGED <<streamVars, mcpVars, bootVars, playbookVars, engVars, pageVars>>
     \/ part = "playbook" /\ PlaybookNext
        /\ UNCHANGED <<streamVars, mcpVars, bootVars, discoveryVars, engVars, pageVars>>
     \/ part = "eng" /\ EngNext
        /\ UNCHANGED <<streamVars, mcpVars, bootVars, discoveryVars, playbookVars, pageVars>>
     \/ part = "page" /\ PageNext
        /\ UNCHANGED <<crashes, streamVars, mcpVars, bootVars, discoveryVars, playbookVars, engVars>>

\* The consumer's loop goes on, and somebody starts it again; nothing else is promised.
Fairness == WF_restartVars(part = "stream" /\ Consume
                           /\ UNCHANGED <<part, mcpVars, bootVars, discoveryVars, playbookVars, engVars, pageVars>>)

RestartSpec == RestartInit /\ [][RestartNext]_restartVars /\ Fairness
=============================================================================
