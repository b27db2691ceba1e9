---------------------------- MODULE LocalPlanes ----------------------------
(***************************************************************************)
(* The parts of one application that stand beside the v1 runtime: the      *)
(* settings control plane, the v3 loopback bridge, browser sessions, the   *)
(* frozen v0.1 runtime, the resource leases of workspace writes, and local *)
(* MCP sessions.  They run in the same process and share no state: no step *)
(* of one reads or writes what another keeps, and each may lose its memory *)
(* at any moment.                                                          *)
(* What one of them does among the others is what it does by itself, so a  *)
(* behaviour here moves the surface chosen at its start and leaves the     *)
(* others at rest.                                                         *)
(***************************************************************************)
EXTENDS LocalSettings, LoopbackBridge, LoopbackSessions, LegacyQuests, WorkspaceWrites,
        McpSessions

VARIABLE plane

vars == <<plane, settingsVars, bridgeVars, sessionVars, legacyVars, writesVars, mcpVars>>

Init ==
    /\ plane \in {"settings", "bridge", "sessions", "legacy", "writes", "mcp"}
    /\ SettingsInit /\ BridgeInit /\ SessionInit /\ LegacyInit /\ WritesInit /\ McpInit
    /\ plane # "settings" => mode = "native" /\ provFile = NoFile

Settings ==
    /\ plane = "settings" /\ SettingsNext
    /\ UNCHANGED <<plane, bridgeVars, sessionVars, legacyVars, writesVars, mcpVars>>
Bridge ==
    /\ plane = "bridge" /\ BridgeNext
    /\ UNCHANGED <<plane, settingsVars, sessionVars, legacyVars, writesVars, mcpVars>>
Browser ==
    /\ plane = "sessions" /\ SessionNext
    /\ UNCHANGED <<plane, settingsVars, bridgeVars, legacyVars, writesVars, mcpVars>>
Legacy ==
    /\ plane = "legacy" /\ LegacyNext
    /\ UNCHANGED <<plane, settingsVars, bridgeVars, sessionVars, writesVars, mcpVars>>
Writes ==
    /\ plane = "writes" /\ WritesNext
    /\ UNCHANGED <<plane, settingsVars, bridgeVars, sessionVars, legacyVars, mcpVars>>
Mcp ==
    /\ plane = "mcp" /\ McpNext
    /\ UNCHANGED <<plane, settingsVars, bridgeVars, sessionVars, legacyVars, writesVars>>

Next == Settings \/ Bridge \/ Browser \/ Legacy \/ Writes \/ Mcp

\* A process, a request or a worker that was begun goes on, a process that stopped
\* is started again, and time passes; no request, person or crash is sure to come.
Fairness ==
    /\ \A s \in Servers : WF_vars(Settings /\ ServerStep(s))
    /\ WF_vars(Browser /\ Tick)
    /\ WF_vars(Legacy /\ LegacyProgress)
    /\ \A c \in Everyone : WF_vars(Mcp /\ CallStep(c))
    /\ WF_vars(Mcp /\ ShutdownStep)

Spec == Init /\ [][Next]_vars /\ Fairness

\* The settings control plane always comes up again after shutdowns and crashes
\* (LocalSettingsService.start), unless the provider file cannot be read or a
\* left-over token is in the way.
StartsAgain ==
    []<>(\/ plane # "settings"
         \/ \E s \in Servers : At(s, "up")
         \/ LeftBehind \/ ~ReadableFile(provFile))
=============================================================================
