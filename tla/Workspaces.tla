------------------------------ MODULE Workspaces ------------------------------
(***************************************************************************)
(* The working directory and the private MCP servers of one invocation,     *)
(* across its drives and the daemon's restarts: run_loop_for, the head of   *)
(* resume and reclaim_if_terminal (worker/reducer/runner.rs), the providers *)
(* of worker/workspace.rs, boot.rs's choice of one, and the startup prune   *)
(* (fq-daemon daemon.rs, recovery.rs).                                      *)
(*                                                                          *)
(* The operator may change the [workspace] settings between two lives of    *)
(* the daemon.  What the loop does between two row writes is one step.      *)
(***************************************************************************)
EXTENDS Naturals

CONSTANT MaxRestarts  \* bound: lives of the daemon after the first

Providers == {"none", "static", "per_invocation"}

VARIABLES wsProvider, \* boot::workspace_provider for this life
          wsDaemon,   \* "down", "recovering" (resumes spawned, not pruned) or "up"
          wsKeep,     \* the invocation is in this boot's in_flight_ids
          wsRow,      \* invocation_state: "none", "open" or "ended"
          wsRef,      \* its workspace_ref: the provider that bound it
          wsDir,      \* the invocation's own directory exists
          wsAt,       \* the drive
          wsBound,    \* what the drive bound: a provider
          wsServers,  \* the drive's own MCP servers run
          wsOwed,     \* the log holds a failure whose terminal was lost
          wsEnd,      \* how the drive ended
          wsRestarts,
          wsChanged,  \* history: the settings changed while the invocation lived
          wsStuck,    \* history: a resume failed on its directory
          wsLeak      \* history: a removal that the next prune must make up for

workspaceVars == <<wsProvider, wsDaemon, wsKeep, wsRow, wsRef, wsDir, wsAt, wsBound, wsServers,
                   wsOwed, wsEnd, wsRestarts, wsChanged, wsStuck, wsLeak>>

daemonVars == <<wsProvider, wsDaemon, wsKeep, wsRestarts, wsChanged>>
rowKept    == <<wsRow, wsRef, wsOwed>>

WorkspacesInit ==
    /\ wsProvider \in Providers
    /\ wsDaemon = "up" /\ wsKeep = FALSE
    /\ wsRow = "none" /\ wsRef = "none" /\ wsDir = FALSE
    /\ wsAt = "unborn" /\ wsBound = "none" /\ wsServers = FALSE
    /\ wsOwed = FALSE /\ wsEnd = "none" /\ wsRestarts = 0
    /\ wsChanged = FALSE /\ wsStuck = FALSE /\ wsLeak = FALSE

-----------------------------------------------------------------------------
(* run_loop_for.  A trigger reaches it once the daemon hosts; an agent      *)
(* whose shared servers are down is refused before anything is made.        *)
TriggeredEarly ==
    /\ wsDaemon \in {"recovering", "up"} /\ wsAt = "unborn"
    /\ \/ wsAt' = "over"
       \/ wsAt' = "provisioning"
    /\ UNCHANGED <<daemonVars, rowKept, wsDir, wsBound, wsServers, wsEnd, wsStuck, wsLeak>>

Triggered ==
    /\ wsDaemon = "up" /\ wsAt = "unborn"
    /\ \/ wsAt' = "over"
       \/ wsAt' = "provisioning"
    /\ UNCHANGED <<daemonVars, rowKept, wsDir, wsBound, wsServers, wsEnd, wsStuck, wsLeak>>

(* PerInvocationWorkspace::provision refuses a path that exists.            *)
provision ==
    /\ wsAt = "provisioning"
    /\ wsBound' = wsProvider
    /\ wsDir' = (wsDir \/ wsProvider = "per_invocation")
    /\ wsAt' = IF wsProvider = "per_invocation" /\ wsDir THEN "over" ELSE "binding"
    /\ wsStuck' = (wsStuck \/ (wsProvider = "per_invocation" /\ wsDir))
    /\ UNCHANGED <<daemonVars, rowKept, wsServers, wsEnd, wsLeak>>

(* to_tool_sandbox fails for an agent that names the workspace token when   *)
(* there is none; then the grant servers start.                             *)
to_tool_sandbox ==
    /\ wsAt = "binding"
    /\ \/ /\ wsBound = "none"
          /\ wsAt' = IF wsRow = "none" THEN "ending" ELSE "over"
          /\ wsEnd' = "error" /\ UNCHANGED wsServers
       \/ /\ wsAt' = IF wsRow = "none" THEN "announcing" ELSE "looping"
          /\ wsServers' = (wsRow = "none") /\ UNCHANGED wsEnd
    /\ UNCHANGED <<daemonVars, rowKept, wsDir, wsBound, wsStuck, wsLeak>>

(* invocation.triggered; a failed publish stops the servers and reclaims.   *)
PublishTriggeredAndLeave ==
    /\ wsAt = "announcing"
    /\ \/ wsAt' = "looping" /\ UNCHANGED <<wsEnd, wsServers>>
       \/ wsAt' = "over" /\ wsEnd' = "error" /\ UNCHANGED wsServers
    /\ UNCHANGED <<daemonVars, rowKept, wsDir, wsBound, wsStuck, wsLeak>>

PublishTriggered ==
    /\ wsAt = "announcing"
    /\ \/ wsAt' = "looping" /\ UNCHANGED <<wsEnd, wsServers>>
       \/ wsAt' = "ending" /\ wsEnd' = "error" /\ wsServers' = FALSE
    /\ UNCHANGED <<daemonVars, rowKept, wsDir, wsBound, wsStuck, wsLeak>>

-----------------------------------------------------------------------------
(* run_loop_inner, as far as it concerns the row: each step upserts it with *)
(* the bound workspace; a terminal action ends it before the outcome is     *)
(* published.  A bus or store error ends the drive where it stands.         *)
UpsertUnbound ==
    /\ wsAt = "looping"
    /\ wsRow' = "open" /\ wsRef' = "none"
    /\ UNCHANGED <<daemonVars, wsOwed, wsDir, wsAt, wsBound, wsServers, wsEnd, wsStuck, wsLeak>>

RowWritten ==
    /\ wsAt = "looping"
    /\ wsRow' = "open" /\ wsRef' = wsBound
    /\ UNCHANGED <<daemonVars, wsOwed, wsDir, wsAt, wsBound, wsServers, wsEnd, wsStuck, wsLeak>>

LoopEnds ==
    /\ wsAt = "looping"
    /\ wsAt' = "ending"
    /\ \/ /\ wsEnd' \in {"completed", "budget", "error"}
          /\ wsRow' = "ended" /\ wsRef' = wsBound /\ UNCHANGED wsOwed
       \/ /\ wsEnd' = "error"
          /\ wsOwed' \in {wsOwed, wsRow = "open"} /\ UNCHANGED <<wsRow, wsRef>>
       \/ /\ wsRow = "open" /\ wsEnd' = "deferred" /\ UNCHANGED rowKept
       \/ /\ wsEnd' = "suspended" /\ UNCHANGED rowKept
    /\ UNCHANGED <<daemonVars, wsDir, wsBound, wsServers, wsStuck, wsLeak>>

(* reclaim_if_terminal, after the manager's shutdown.  An error is judged   *)
(* by the row, and a row that cannot be read keeps the directory.           *)
terminalOnError == wsEnd # "suspended" /\ wsEnd # "deferred"
terminal ==
    \/ wsEnd \in {"completed", "budget"}
    \/ wsEnd = "error" /\ wsRow \in {"none", "ended"}

(* PerInvocationWorkspace::reclaim; a failure is logged.                    *)
reclaim ==
    \/ wsDir' = FALSE /\ UNCHANGED wsLeak
    \/ wsLeak' = TRUE /\ UNCHANGED wsDir

reclaim_if_terminal ==
    /\ wsAt = "ending"
    /\ wsServers' = FALSE
    /\ wsAt' = IF wsEnd = "deferred" THEN "deferred" ELSE "over"
    /\ IF terminal /\ wsBound = "per_invocation" THEN reclaim ELSE UNCHANGED <<wsDir, wsLeak>>
    /\ UNCHANGED <<daemonVars, rowKept, wsBound, wsEnd, wsStuck>>

-----------------------------------------------------------------------------
(* reattach insists on the directory the row names.                         *)
reattach ==
    LET NoTree == wsRef = "per_invocation" /\ ~wsDir
    IN  /\ wsBound' = wsRef
        /\ wsAt' = IF NoTree THEN "over" ELSE "binding"
        /\ wsStuck' = (wsStuck \/ NoTree)

(* resume: after a boot that classified the invocation, or when its         *)
(* deferral is due.  A lost failure is reproduced before the workspace is   *)
(* looked at, and nothing reclaims it.                                      *)
resume ==
    /\ wsDaemon # "down" /\ wsRow = "open"
    /\ wsAt \in {"spawned", "deferred"}
    /\ IF wsOwed
         THEN /\ wsRow' = "ended" /\ wsAt' = "over" /\ wsLeak' = TRUE
              /\ UNCHANGED <<wsBound, wsStuck>>
         ELSE /\ UNCHANGED <<wsRow, wsLeak>>
              /\ IF wsProvider = "none"
                   THEN wsAt' = "binding" /\ wsBound' = "none" /\ UNCHANGED wsStuck
                 ELSE IF wsRef = "none"
                   THEN wsAt' = "provisioning" /\ UNCHANGED <<wsBound, wsStuck>>
                 ELSE reattach
    /\ UNCHANGED <<daemonVars, wsRef, wsOwed, wsDir, wsServers, wsEnd>>

-----------------------------------------------------------------------------
(* The process dies, at any point; MCP servers are its children.            *)
DaemonDies ==
    /\ wsDaemon # "down" /\ wsRestarts < MaxRestarts
    /\ wsDaemon' = "down" /\ wsServers' = FALSE /\ wsEnd' = "none" /\ wsBound' = "none"
    /\ wsAt' = IF wsAt = "unborn" THEN "unborn" ELSE "over"
    /\ wsOwed' \in {wsOwed, wsOwed \/ (wsAt = "looping" /\ wsRow = "open")}
    /\ UNCHANGED <<wsProvider, wsKeep, wsRestarts, wsChanged, wsRow, wsRef, wsDir, wsStuck, wsLeak>>

(* Boot: the in-flight rows are read, the safe ones' resumes are spawned    *)
(* (an ambiguous one waits for its operator), then the prune runs.          *)
classify_in_flight(p) ==
    /\ wsDaemon = "down"
    /\ wsDaemon' = "recovering" /\ wsRestarts' = wsRestarts + 1
    /\ wsProvider' = p
    /\ wsChanged' = (wsChanged \/ (p # wsProvider /\ wsAt # "unborn"))
    /\ wsKeep' = (wsRow = "open")
    /\ wsAt' \in IF wsRow = "open" THEN {"spawned", "over"} ELSE {wsAt}
    /\ UNCHANGED <<rowKept, wsDir, wsBound, wsServers, wsEnd, wsStuck, wsLeak>>

prune ==
    /\ wsDaemon = "recovering"
    /\ wsDaemon' = "up"
    /\ wsDir' = (wsDir /\ ~(wsProvider = "per_invocation" /\ ~wsKeep))
    /\ wsLeak' = (wsLeak /\ wsDir')
    /\ UNCHANGED <<wsProvider, wsKeep, wsRestarts, wsChanged, rowKept, wsAt, wsBound,
                   wsServers, wsEnd, wsStuck>>

WorkspacesNext ==
    \/ Triggered \/ provision \/ to_tool_sandbox \/ PublishTriggered
    \/ RowWritten \/ LoopEnds \/ reclaim_if_terminal \/ resume
    \/ DaemonDies \/ prune
    \/ \E p \in Providers : classify_in_flight(p)

WorkspacesSpec == WorkspacesInit /\ [][WorkspacesNext]_workspaceVars

-----------------------------------------------------------------------------
(* A drive at work, and every invocation that may be resumed, keeps the     *)
(* directory it recorded: neither reclaim_if_terminal nor the startup prune *)
(* takes it from under them.                                                *)
WorkspaceHeld ==
    /\ wsRow = "open" /\ wsRef = "per_invocation" => wsDir
    /\ wsAt \in {"binding", "announcing", "looping"} /\ wsBound = "per_invocation" => wsDir

(* With the [workspace] settings left alone, no resume ever fails on its    *)
(* directory, missing or already there (WorkspaceProvider::reattach and     *)
(* provision).                                                              *)
NoStuckResume == wsStuck => wsChanged

(* Once a drive is over and the invocation cannot be resumed, its directory *)
(* is gone, except where a removal failed, a lost failure was reproduced,   *)
(* a halt or a drain came before the first row, or the settings changed:    *)
(* those wait for the next prune.                                           *)
NothingLeftBehind ==
    wsDaemon = "up" /\ wsAt = "over" /\ wsRow # "open" /\ wsDir
        => wsLeak \/ wsChanged \/ wsEnd = "suspended"

(* An invocation's private MCP servers never outlive its drive.             *)
ServersStopped == wsServers => wsAt \in {"announcing", "looping", "ending"}
=============================================================================
