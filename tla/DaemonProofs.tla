------------------------------ MODULE DaemonProofs ------------------------------
(***************************************************************************)
(* Proofs about one daemon: the life of the process and its worker row, the *)
(* working directory of an invocation across restarts, and the wait for an  *)
(* `exec` call, for any number of signals, requests, restarts and            *)
(* servicings and for any validated settings.                               *)
(***************************************************************************)
EXTENDS DaemonLife, Workspaces, ExecCall, TLAPS

--------------------------------------------------------------------------------
\* The life of the process.

Stages == {"booting", "assembling", "select", "draining", "hurrying", "joining", "settling",
           "leaving", "exited", "panicked"}
BeforeStop == {"booting", "assembling", "select"}
Stopping   == {"draining", "hurrying", "joining", "settling", "panicked"}
Stops == [reason : {"none", "sigterm", "ctrl_c", "down", "down_now", "task_failed"},
          clean : BOOLEAN, failed : DaemonTasks \cup {"none"},
          ended : {"none", "suspended", "deadline", "sigterm", "ctrl_c", "down_now"}]

LifeTypeOK ==
    /\ lfStage \in Stages
    /\ lfRow \in {"none", "alive", "shutdown"}
    /\ lfOwed \in BOOLEAN
    /\ lfPending \subseteq {"sigterm", "ctrl_c"}
    /\ lfGot \in Nat /\ lfDraining \in BOOLEAN
    /\ lfTask \in [DaemonTasks -> {"off", "running", "ended"}]
    /\ lfTaken \subseteq DaemonTasks
    /\ lfStop \in Stops

\* What the row and the registration say at each stage: the row is owed its
\* mark from the registration to the settling, a failed stop gives the mark up,
\* and a boot that went wrong leaves it to settle_unclaimed.
RowInv ==
    /\ lfStage = "booting" => lfRow = "none" /\ ~lfOwed
    /\ lfStage \in {"assembling", "select"} \cup Stopping => lfRow = "alive" /\ lfOwed
    /\ lfStage = "leaving" =>
          \/ lfOwed /\ lfRow = "alive" /\ lfStop = NoStop
          \/ ~lfOwed /\ lfStop.failed = "none" /\ lfRow = "shutdown"
          \/ ~lfOwed /\ lfStop.failed # "none" /\ lfRow = "alive"
    /\ lfStage = "exited" => (lfRow = "shutdown" <=> lfStop.failed = "none")

\* The stop: one is recorded when the select ends, it is clean unless a task
\* failed, and a handle other than the dispatcher's was taken only if its task
\* is the one that failed.
StopInv ==
    /\ lfStage \in BeforeStop => lfStop = NoStop /\ lfTaken = {}
    /\ lfStage \in Stopping => (lfStop.clean <=> lfStop.failed = "none")
    /\ \A t \in lfTaken : t = "dispatcher" \/ t = lfStop.failed
    /\ lfStage = "panicked" => lfStop.failed = "heartbeat"

\* The tasks: one that ended was told to or broke, and only the dispatcher is
\* told while the others are hosted.
TaskInv ==
    /\ lfStage \in {"booting", "assembling"} => \A t \in DaemonTasks : lfTask[t] = "off"
    /\ Hosting => \A t \in DaemonTasks : lfTask[t] # "off"
    /\ \A t \in DaemonTasks \ {"dispatcher"} : lfTask[t] = "ended" => t \in lfBroke
    /\ lfStage = "select" /\ ~lfDraining /\ lfTask["dispatcher"] = "ended" => "dispatcher" \in lfBroke
    /\ lfStop.failed # "none" => lfStop.failed \in lfBroke

\* A signal that came before the stop is still to be read.
SignalInv == lfStage \in BeforeStop /\ lfGot > 0 => lfPending # {}

LifeInv == LifeTypeOK /\ RowInv /\ StopInv /\ TaskInv /\ SignalInv

\* Every stage before the stop has no stop, every stop is of a known kind.
LEMMA StopTyped == NoStop \in Stops /\ NoStop.failed = "none" /\ ~NoStop.clean
  BY Zenon DEF NoStop, Stops, DaemonTasks

\* Nothing is owed and nothing runs before the registration.
LEMMA LifeStart == LifeInit => LifeInv
<1>. SUFFICES ASSUME LifeInit PROVE LifeInv
  BY Zenon
<1>1. lfTask \in [DaemonTasks -> {"off", "running", "ended"}] /\ \A t \in DaemonTasks : lfTask[t] = "off"
  BY Zenon DEF LifeInit
<1>2. LifeTypeOK
  BY Zenon, <1>1, StopTyped DEF LifeInit, LifeTypeOK, Stages
<1>3. RowInv /\ StopInv /\ SignalInv
  BY DEF LifeInit, RowInv, StopInv, SignalInv, BeforeStop, Stopping
<1>4. TaskInv
  BY Zenon, <1>1, StopTyped DEF LifeInit, TaskInv, Hosting
<1>. QED
  BY Zenon, <1>2, <1>3, <1>4 DEF LifeInv

\* One step per action; a step of the main task moves the stage, and each
\* other one leaves the row and the stop alone.
LEMMA LifeStep == LifeInv /\ [LifeNext]_lifeVars => LifeInv'
<1>. SUFFICES ASSUME LifeInv, [LifeNext]_lifeVars PROVE LifeInv'
  BY Zenon
<1>. USE DEF LifeInv, LifeTypeOK, RowInv, StopInv, TaskInv, SignalInv, Stages, BeforeStop,
             Stopping, Hosting, lifeVars, signalVars, downVars, rowVars, workVars
<1>1. CASE UNCHANGED lifeVars
  BY <1>1 DEF lifeVars
<1>2. ASSUME NEW s \in {"sigterm", "ctrl_c"}, Signal(s) PROVE LifeInv'
  BY <1>2 DEF Signal, SignalsHeard
<1>3. CASE register
  BY Zenon, <1>3 DEF register
<1>4. CASE AssembleFails
  BY Zenon, <1>4 DEF AssembleFails
<1>5. CASE BootSignalled
  BY Zenon, <1>5 DEF BootSignalled
<1>6. CASE Assembled
  <2>1. lfTask' \in [DaemonTasks -> {"off", "running", "ended"}] /\ \A t \in DaemonTasks : lfTask'[t] = "running"
    BY Zenon, <1>6 DEF Assembled
  <2>2. lfStop.failed = "none" /\ "dispatcher" \in DaemonTasks
    BY Zenon, <1>6, StopTyped DEF Assembled, DaemonTasks
  <2>. QED
    BY Zenon, <1>6, <2>1, <2>2 DEF Assembled
<1>7. CASE DownPlain
  BY Zenon, <1>7 DEF DownPlain
<1>8. CASE DownSent
  BY Zenon, <1>8 DEF DownSent
<1>9. CASE DownNow
  BY Zenon, <1>9 DEF DownNow
<1>10. CASE WorkSuspends
  BY Zenon, <1>10 DEF WorkSuspends
<1>11. ASSUME NEW t \in DaemonTasks, TaskEnds(t) PROVE LifeInv'
  BY Zenon, <1>11 DEF TaskEnds, Told, DaemonTasks
<1>12. ASSUME NEW t \in DaemonTasks, SelectTask(t) PROVE LifeInv'
  BY Zenon, <1>12 DEF SelectTask, StopsFor, NoStop, Stops, DaemonTasks
<1>13. CASE SelectSignal
  BY ZenonT(60), <1>13 DEF SelectSignal, StopsFor, NoStop, Stops, DaemonTasks
<1>14. CASE SelectDown
  BY Zenon, <1>14 DEF SelectDown, StopsFor, NoStop, Stops, DaemonTasks
<1>15. CASE SelectDispatcher
  <2>1. CASE lfDraining
    <3>1. /\ lfStop' = [reason |-> "down", clean |-> TRUE, failed |-> "none", ended |-> "none"]
          /\ lfStage' = "draining" /\ lfTaken' = lfTaken \cup {"dispatcher"}
          /\ UNCHANGED <<signalVars, downVars, rowVars, workVars>>
      BY Zenon, <1>15, <2>1 DEF SelectDispatcher, StopsFor, NoStop
    <3>2. lfTaken = {} /\ lfStage = "select"
      BY Zenon, <1>15 DEF SelectDispatcher
    <3>3. lfStop' \in Stops /\ lfTaken' \subseteq DaemonTasks
      BY Zenon, <3>1, <3>2 DEF Stops, DaemonTasks
    <3>. QED
      BY Zenon, <3>1, <3>2, <3>3
  <2>2. CASE ~lfDraining
    <3>1. /\ lfStop' = [reason |-> "task_failed", clean |-> FALSE, failed |-> "dispatcher", ended |-> "none"]
          /\ lfStage' = "hurrying" /\ lfTaken' = lfTaken \cup {"dispatcher"}
          /\ UNCHANGED <<signalVars, downVars, rowVars, workVars>>
      BY Zenon, <1>15, <2>2 DEF SelectDispatcher, StopsFor, NoStop
    <3>2. "dispatcher" \in lfBroke /\ lfTaken = {} /\ lfStage = "select"
      BY Zenon, <1>15, <2>2 DEF SelectDispatcher
    <3>3. lfStop' \in Stops /\ lfTaken' \subseteq DaemonTasks
      BY Zenon, <3>1, <3>2 DEF Stops, DaemonTasks
    <3>. QED
      BY Zenon, <3>1, <3>2, <3>3
  <2>. QED
    BY Zenon, <2>1, <2>2
<1>16. CASE wait_for_drain
  BY <1>16 DEF wait_for_drain, DrainOver, Stops, DaemonTasks
<1>17. CASE join_dispatcher
  BY Zenon, <1>17 DEF join_dispatcher, DaemonTasks
<1>18. CASE JoinOthers
  BY Zenon, <1>18 DEF JoinOthers, JoinedAgain, DaemonTasks
<1>19. CASE settle
  BY ZenonT(60), <1>19 DEF settle, DaemonTasks, Stops
<1>20. CASE settle_unclaimed
  <2>1. lfRow' \in {"alive", "shutdown"} /\ (lfRow' = "shutdown" <=> lfStop.failed = "none")
    BY <1>20, StopTyped DEF settle_unclaimed
  <2>2. lfStage' = "exited" /\ lfOwed' = FALSE
        /\ UNCHANGED <<signalVars, downVars, workVars, lfTaken, lfStop>>
    BY Zenon, <1>20 DEF settle_unclaimed
  <2>. QED
    BY Zenon, <2>1, <2>2
<1>. QED
  BY Zenon, <1>1, <1>2, <1>3, <1>4, <1>5, <1>6, <1>7, <1>8, <1>9, <1>10, <1>11, <1>12, <1>13,
     <1>14, <1>15, <1>16, <1>17, <1>18, <1>19, <1>20 DEF LifeNext

\* The row of a finished process says how it ended: `shutdown` after a clean
\* stop or a boot that failed, `alive`, for the stale sweep to find, after a
\* failed task or a panic.
THEOREM RowIsTrue == LifeSpec => []RowTellsTheTruth
<1>1. LifeInv => RowTellsTheTruth
  BY Zenon DEF LifeInv, RowInv, StopInv, RowTellsTheTruth, ProcessGone, Stopping
<1>. QED
  BY <1>1, LifeStart, LifeStep, PTL DEF LifeSpec

\* A signal delivered during the boot is there for the select, a drain is never
\* reported as a failed task, only a task without a `taken` flag ends the
\* teardown in a panic, and the heartbeat runs for as long as the drain.
THEOREM TeardownIsOrderly ==
    LifeSpec => [](SignalSurvivesBoot /\ DrainIsNoFailure /\ PanicOnlyUnflagged
                     /\ HeartbeatOutlivesDrain)
<1>1. LifeInv => SignalSurvivesBoot /\ DrainIsNoFailure /\ PanicOnlyUnflagged
  BY Zenon DEF LifeInv, SignalInv, StopInv, TaskInv, SignalSurvivesBoot, DrainIsNoFailure,
         PanicOnlyUnflagged, BeforeStop
<1>2. LifeInv => HeartbeatOutlivesDrain
  BY Zenon DEF LifeInv, LifeTypeOK, TaskInv, HeartbeatOutlivesDrain, Hosting
<1>. QED
  BY <1>1, <1>2, LifeStart, LifeStep, PTL DEF LifeSpec

--------------------------------------------------------------------------------
\* The working directory of an invocation.

DriveStages == {"unborn", "provisioning", "binding", "announcing", "looping", "ending", "spawned",
                "deferred", "over"}
AtItsDirectory == {"binding", "announcing", "looping"}

WorkspaceTypeOK ==
    /\ wsProvider \in Providers /\ wsRef \in Providers /\ wsBound \in Providers
    /\ wsDaemon \in {"down", "recovering", "up"}
    /\ wsRow \in {"none", "open", "ended"}
    /\ wsAt \in DriveStages
    /\ wsEnd \in {"none", "completed", "budget", "error", "deferred", "suspended"}
    /\ {wsKeep, wsDir, wsServers, wsOwed, wsChanged, wsStuck, wsLeak} \subseteq BOOLEAN

\* What makes the directory safe: the prune spares a row that is open, no drive
\* is at work while the daemon is down or has nothing to resume, and a drive
\* that ended its invocation has ended the row.
HoldInv ==
    /\ WorkspaceHeld
    /\ wsDaemon = "down" => wsAt \in {"unborn", "over"}
    /\ wsDaemon = "recovering" /\ ~wsKeep => wsAt \in {"unborn", "over"} /\ wsRow # "open"
    /\ wsAt = "unborn" => wsRow = "none" /\ ~wsDir
    /\ wsAt = "ending" /\ wsEnd \in {"completed", "budget"} => wsRow = "ended"
    /\ wsAt = "ending" /\ wsEnd = "deferred" => wsRow = "open"
    /\ wsAt = "ending" => wsEnd # "none"
    /\ wsAt \in {"spawned", "deferred"} => wsRow = "open"
    /\ wsAt \in AtItsDirectory \cup {"provisioning"} => wsRow # "ended"
    /\ ServersStopped

\* While the settings are what they were: the row and the drive are bound to the
\* provider in force, and what is provisioned was not there.
SteadyInv ==
    ~wsChanged =>
        /\ wsRow # "none" => wsRef = wsProvider
        /\ wsAt \in AtItsDirectory \cup {"ending"} => wsBound = wsProvider
        /\ wsAt = "provisioning" => ~wsDir /\ wsRow = "none"
        /\ wsDir => wsProvider = "per_invocation"
        /\ ~wsStuck

\* A directory nobody needs: it goes with the drive, or in the prune.
TidyInv ==
    (/\ ~wsChanged /\ ~wsLeak /\ wsDir /\ wsRow # "open" /\ wsAt = "over"
     /\ wsDaemon = "up" \/ (wsDaemon = "recovering" /\ wsKeep))
        => wsEnd = "suspended"

WorkspaceInv == WorkspaceTypeOK /\ HoldInv /\ SteadyInv /\ TidyInv
\* Nothing exists before the first trigger.
LEMMA WorkspaceStart == WorkspacesInit => WorkspaceInv
  BY Zenon DEF WorkspacesInit, WorkspaceInv, WorkspaceTypeOK, HoldInv, SteadyInv, TidyInv,
     WorkspaceHeld,
         ServersStopped, DriveStages, AtItsDirectory, Providers

\* One step per action.
LEMMA WorkspaceStep == WorkspaceInv /\ [WorkspacesNext]_workspaceVars => WorkspaceInv'
<1>. SUFFICES ASSUME WorkspaceInv, [WorkspacesNext]_workspaceVars PROVE WorkspaceInv'
  BY Zenon
<1>. USE DEF WorkspaceInv, WorkspaceTypeOK, HoldInv, SteadyInv, TidyInv, WorkspaceHeld,
             ServersStopped, DriveStages, AtItsDirectory, Providers, daemonVars, rowKept
<1>1. CASE UNCHANGED workspaceVars
  BY <1>1 DEF workspaceVars
<1>2. CASE Triggered
  BY <1>2 DEF Triggered
<1>3. CASE provision
  <2>1. WorkspaceTypeOK'
    BY <1>3 DEF provision
  <2>2. HoldInv'
    BY Zenon, <1>3 DEF provision
  <2>3. SteadyInv'
    BY Zenon, <1>3 DEF provision
  <2>4. TidyInv'
    BY Zenon, <1>3 DEF provision
  <2>. QED
    BY Zenon, <2>1, <2>2, <2>3, <2>4
<1>4. CASE to_tool_sandbox
  <2>1. WorkspaceTypeOK'
    BY Zenon, <1>4 DEF to_tool_sandbox
  <2>2. HoldInv'
    BY <1>4 DEF to_tool_sandbox
  <2>3. SteadyInv'
    BY Zenon, <1>4 DEF to_tool_sandbox
  <2>4. TidyInv'
    BY Zenon, <1>4 DEF to_tool_sandbox
  <2>. QED
    BY Zenon, <2>1, <2>2, <2>3, <2>4
<1>5. CASE PublishTriggered
  BY ZenonT(60), <1>5 DEF PublishTriggered
<1>6. CASE RowWritten
  BY <1>6 DEF RowWritten
<1>7. CASE LoopEnds
  BY ZenonT(60), <1>7 DEF LoopEnds
<1>8. CASE reclaim_if_terminal
  <2>1. WorkspaceTypeOK'
    BY ZenonT(60), <1>8 DEF reclaim_if_terminal, reclaim, terminal
  <2>2. HoldInv'
    BY Zenon, <1>8 DEF reclaim_if_terminal, reclaim, terminal
  <2>3. SteadyInv'
    BY Zenon, <1>8 DEF reclaim_if_terminal, reclaim, terminal
  <2>4. TidyInv'
    BY Zenon, <1>8 DEF reclaim_if_terminal, reclaim, terminal
  <2>. QED
    BY Zenon, <2>1, <2>2, <2>3, <2>4
<1>9. CASE resume
  BY ZenonT(60), <1>9 DEF resume, reattach
<1>10. CASE DaemonDies
  <2>1. wsOwed' \in BOOLEAN
    BY <1>10, Zenon DEF DaemonDies
  <2>2. WorkspaceTypeOK'
    BY Zenon, <1>10, <2>1 DEF DaemonDies
  <2>3. HoldInv' /\ SteadyInv' /\ TidyInv'
    BY Zenon, <1>10 DEF DaemonDies
  <2>. QED
    BY Zenon, <2>2, <2>3
<1>11. CASE prune
  BY <1>11 DEF prune
<1>12. ASSUME NEW p \in Providers, classify_in_flight(p) PROVE WorkspaceInv'
  <2>1. WorkspaceTypeOK'
    BY <1>12 DEF classify_in_flight
  <2>2. HoldInv'
    BY Zenon, <1>12 DEF classify_in_flight
  <2>3. SteadyInv'
    <3>. SUFFICES ASSUME ~wsChanged' PROVE SteadyInv'
      BY Zenon
    <3>1. ~wsChanged /\ (p = wsProvider \/ wsAt = "unborn")
      BY <1>12, Zenon DEF classify_in_flight
    <3>2. /\ wsProvider' = p
          /\ wsAt' \in {"spawned", "over", wsAt}
          /\ UNCHANGED <<wsRow, wsRef, wsDir, wsBound, wsStuck>>
          /\ wsDaemon = "down"
          /\ wsAt' = "spawned" => wsRow = "open"
      BY Zenon, <1>12 DEF classify_in_flight
    <3>. QED
      BY Zenon, <3>1, <3>2
  <2>4. TidyInv'
    BY Zenon, <1>12 DEF classify_in_flight
  <2>. QED
    BY Zenon, <2>1, <2>2, <2>3, <2>4
<1>. QED
  BY Zenon, <1>1, <1>2, <1>3, <1>4, <1>5, <1>6, <1>7, <1>8, <1>9, <1>10, <1>11,
     <1>12 DEF WorkspacesNext

\* The directory of an invocation that works or may be resumed is never taken
\* from it, by its own drive's end or by the startup prune, over any number of
\* restarts and changes of the [workspace] settings.
THEOREM DirectoryIsHeld == WorkspacesSpec => []WorkspaceHeld
<1>1. WorkspaceInv => WorkspaceHeld
  BY Zenon DEF WorkspaceInv, HoldInv
<1>. QED
  BY <1>1, WorkspaceStart, WorkspaceStep, PTL DEF WorkspacesSpec

\* While the settings are left alone no resume fails on its directory and none
\* is left behind but for the cases the code leaves to the next prune; and the
\* private MCP servers end with their drive.
THEOREM DirectoryIsTidied ==
    WorkspacesSpec => [](NoStuckResume /\ NothingLeftBehind /\ ServersStopped)
<1>1. WorkspaceInv => NoStuckResume /\ NothingLeftBehind /\ ServersStopped
  BY Zenon DEF WorkspaceInv, WorkspaceTypeOK, HoldInv, SteadyInv, TidyInv, NoStuckResume,
         NothingLeftBehind
<1>. QED
  BY <1>1, WorkspaceStart, WorkspaceStep, PTL DEF WorkspacesSpec

--------------------------------------------------------------------------------
\* The wait for an `exec` call.

\* A spawn is over within the backstop's grace.
SpawnIsQuick == SpawnMax <= BackstopGrace

\* A spawn and the teardown of any validated configuration fit in that grace.
TeardownFits ==
    \A c \in ToolSettings : validate(c) => SpawnMax + c.kill + c.drain <= BackstopGrace

ExecTypeOK ==
    /\ xCfg \in ToolSettings /\ validate(xCfg)
    /\ xNow \in Nat /\ xDue \in Nat /\ xLimit \in Nat /\ xSince \in Nat /\ xServed \in Nat
    /\ xPhase \in {"spawn", "run", "term", "drain", "drain_late", "over"}
    /\ xHost \in {"polling", "busy", "last"}
    /\ CallOpen => xPhase # "over"
    /\ CallOpen /\ xPhase = "spawn" => xNow = 0 /\ xHost = "polling"

\* Where the clock stands against the limit: under the armed one until a
\* servicing outlives it, then under one more grace.
LimitInv ==
    CallOpen =>
        /\ xHost = "polling" => xLimit = Armed /\ xNow <= xLimit
        /\ xHost = "busy" => /\ xLimit = Armed /\ xSince < xLimit
                             /\ xSince <= xNow /\ xNow <= xSince + MaxServicing
        /\ xHost = "last" => xLimit <= Armed + MaxServicing + BackstopGrace /\ xNow <= xLimit

\* Where a call that was never serviced stands against its own timers.
UnservicedInv ==
    /\ UnservicedAnswers
    /\ CallOpen /\ xServed = 0 =>
          /\ xHost = "polling" /\ xLimit = Armed
          /\ xPhase # "spawn" => xNow <= xDue
          /\ xPhase = "run" => xDue <= SpawnMax + call_timeout
          /\ xPhase = "term" => xDue <= SpawnMax + call_timeout + xCfg.kill
          /\ xPhase \in {"drain", "drain_late"} =>
                xDue <= SpawnMax + call_timeout + xCfg.kill + xCfg.drain

\* The group after a kill.
GroupInv == GroupIsGone /\ (xPhase = "drain_late" => ~group_alive)

\* What the settings give: a timeout within the backstop.
LEMMA TimerNumbers ==
    ASSUME xCfg \in ToolSettings, validate(xCfg)
    PROVE  /\ call_timeout \in Nat /\ Armed \in Nat
           /\ xCfg.kill \in Nat /\ xCfg.drain \in Nat
           /\ Armed = call_timeout + BackstopGrace
<1>1. xCfg \in Settings /\ BackstopGrace \in Nat /\ Requested \in Nat
  BY Zenon, ExecAssumption
<1>. QED
  BY <1>1 DEF Settings, validate, call_timeout, Armed, Lesser

\* The settings do not change during a call.
LEMMA TimersKept == ASSUME xCfg' = xCfg PROVE call_timeout' = call_timeout /\ Armed' = Armed
  BY Zenon DEF call_timeout, Armed, Lesser
\* The timers stay numbers and the phases in order.
LEMMA ExecTypeStep ==
    ASSUME ExecTypeOK, [ExecNext]_execVars PROVE ExecTypeOK'
<1>0. UNCHANGED <<xCfg, xDeaf>> /\ SpawnMax \in Nat /\ BackstopGrace \in Nat /\ MaxServicing \in Nat
  BY ExecAssumption, Zenon DEF ExecNext, ToolStep, LeaderExits, LeaderForks, DescendantMoves,
     SpawnChild, ExitSeen, TimeoutFires, KillGroup, Drained, Service, Serviced, DropCall, Tick,
     ExecEnvVars, execVars
<1>. USE <1>0, TimerNumbers DEF ExecTypeOK, CallOpen, ExecEnvVars, HostVars
<1>1. CASE UNCHANGED execVars
  BY Zenon, <1>1 DEF execVars
<1>2. CASE LeaderExits
  BY Zenon, <1>2 DEF LeaderExits
<1>3. CASE LeaderForks
  BY Zenon, <1>3 DEF LeaderForks
<1>4. CASE DescendantMoves
  BY Zenon, <1>4 DEF DescendantMoves
<1>5. CASE SpawnChild
  BY <1>5 DEF SpawnChild, Polled
<1>6. CASE ExitSeen
  BY <1>6 DEF ExitSeen, Polled
<1>7. CASE TimeoutFires
  BY <1>7 DEF TimeoutFires, Polled
<1>8. CASE KillGroup
  BY <1>8 DEF KillGroup, Polled
<1>9. ASSUME NEW cut \in BOOLEAN, Drained(cut) PROVE ExecTypeOK'
  BY Zenon, <1>9 DEF Drained, Polled, TimersDropped
<1>10. CASE Service
  BY <1>10 DEF Service, Polled, ToolAtRest
<1>11. CASE Serviced
  BY <1>11 DEF Serviced
<1>12. CASE DropCall
  BY Zenon, <1>12 DEF DropCall, Polled, TimersDropped
<1>13. CASE Tick
  BY <1>13 DEF Tick, ToolAtRest
<1>. QED
  BY Zenon, <1>1, <1>2, <1>3, <1>4, <1>5, <1>6, <1>7, <1>8, <1>9, <1>10, <1>11, <1>12,
     <1>13 DEF ExecNext, ToolStep

\* The limit moves once.
LEMMA LimitStep ==
    ASSUME SpawnIsQuick, ExecTypeOK, LimitInv, [ExecNext]_execVars PROVE LimitInv'
<1>0. UNCHANGED <<xCfg, xDeaf>> /\ SpawnMax \in Nat /\ BackstopGrace \in Nat /\ MaxServicing \in Nat
  BY ExecAssumption, Zenon DEF ExecNext, ToolStep, LeaderExits, LeaderForks, DescendantMoves,
     SpawnChild, ExitSeen, TimeoutFires, KillGroup, Drained, Service, Serviced, DropCall, Tick,
     ExecEnvVars, execVars
<1>. USE <1>0, TimerNumbers, TimersKept DEF ExecTypeOK, CallOpen, ExecEnvVars, HostVars,
   LimitInv, SpawnIsQuick
<1>1. CASE UNCHANGED execVars
  BY Zenon, <1>1 DEF execVars
<1>2. CASE LeaderExits
  BY Zenon, <1>2 DEF LeaderExits
<1>3. CASE LeaderForks
  BY Zenon, <1>3 DEF LeaderForks
<1>4. CASE DescendantMoves
  BY Zenon, <1>4 DEF DescendantMoves
<1>5. CASE SpawnChild
  BY <1>5 DEF SpawnChild, Polled
<1>6. CASE ExitSeen
  BY Zenon, <1>6 DEF ExitSeen, Polled
<1>7. CASE TimeoutFires
  BY Zenon, <1>7 DEF TimeoutFires, Polled
<1>8. CASE KillGroup
  BY Zenon, <1>8 DEF KillGroup, Polled
<1>9. ASSUME NEW cut \in BOOLEAN, Drained(cut) PROVE LimitInv'
  BY Zenon, <1>9 DEF Drained, Polled, TimersDropped
<1>10. CASE Service
  BY <1>10 DEF Service, Polled
<1>11. CASE Serviced
  BY <1>11 DEF Serviced
<1>12. CASE DropCall
  BY Zenon, <1>12 DEF DropCall, Polled, TimersDropped
<1>13. CASE Tick
  BY <1>13 DEF Tick
<1>. QED
  BY Zenon, <1>1, <1>2, <1>3, <1>4, <1>5, <1>6, <1>7, <1>8, <1>9, <1>10, <1>11, <1>12,
     <1>13 DEF ExecNext, ToolStep

\* Each phase of the teardown starts when the one before is due at the latest.
LEMMA UnservicedStep ==
    ASSUME TeardownFits, ExecTypeOK, UnservicedInv, [ExecNext]_execVars PROVE UnservicedInv'
<1>0. UNCHANGED <<xCfg, xDeaf>> /\ SpawnMax \in Nat /\ BackstopGrace \in Nat /\ MaxServicing \in Nat
  BY ExecAssumption, Zenon DEF ExecNext, ToolStep, LeaderExits, LeaderForks, DescendantMoves,
     SpawnChild, ExitSeen, TimeoutFires, KillGroup, Drained, Service, Serviced, DropCall, Tick,
     ExecEnvVars, execVars
<1>. USE <1>0, TimerNumbers, TimersKept DEF ExecTypeOK, CallOpen, ExecEnvVars, HostVars,
   UnservicedInv, UnservicedAnswers, TeardownFits
<1>1. CASE UNCHANGED execVars
  BY Zenon, <1>1 DEF execVars
<1>2. CASE LeaderExits
  BY Zenon, <1>2 DEF LeaderExits
<1>3. CASE LeaderForks
  BY Zenon, <1>3 DEF LeaderForks
<1>4. CASE DescendantMoves
  BY Zenon, <1>4 DEF DescendantMoves
<1>5. CASE SpawnChild
  BY <1>5 DEF SpawnChild, Polled
<1>6. CASE ExitSeen
  BY <1>6 DEF ExitSeen, Polled
<1>7. CASE TimeoutFires
  BY <1>7 DEF TimeoutFires, Polled
<1>8. CASE KillGroup
  BY <1>8 DEF KillGroup, Polled
<1>9. ASSUME NEW cut \in BOOLEAN, Drained(cut) PROVE UnservicedInv'
  BY Zenon, <1>9 DEF Drained, Polled, TimersDropped
<1>10. CASE Service
  BY <1>10 DEF Service, Polled
<1>11. CASE Serviced
  BY Zenon, <1>11 DEF Serviced
<1>12. CASE DropCall
  BY <1>12 DEF DropCall, Polled, TimersDropped, ToolAtRest
<1>13. CASE Tick
  BY <1>13 DEF Tick, ToolAtRest
<1>. QED
  BY Zenon, <1>1, <1>2, <1>3, <1>4, <1>5, <1>6, <1>7, <1>8, <1>9, <1>10, <1>11, <1>12,
     <1>13 DEF ExecNext, ToolStep

\* Nothing forks after the kill.
LEMMA GroupStep ==
    ASSUME ExecTypeOK, GroupInv, [ExecNext]_execVars PROVE GroupInv'
<1>0. UNCHANGED <<xCfg, xDeaf>> /\ SpawnMax \in Nat /\ BackstopGrace \in Nat /\ MaxServicing \in Nat
  BY ExecAssumption, Zenon DEF ExecNext, ToolStep, LeaderExits, LeaderForks, DescendantMoves,
     SpawnChild, ExitSeen, TimeoutFires, KillGroup, Drained, Service, Serviced, DropCall, Tick,
     ExecEnvVars, execVars
<1>. USE <1>0 DEF ExecTypeOK, CallOpen, ExecEnvVars, HostVars, GroupInv, GroupIsGone,
   group_alive
<1>1. CASE UNCHANGED execVars
  BY Zenon, <1>1 DEF execVars
<1>2. CASE LeaderExits
  BY Zenon, <1>2 DEF LeaderExits
<1>3. CASE LeaderForks
  BY Zenon, <1>3 DEF LeaderForks
<1>4. CASE DescendantMoves
  BY Zenon, <1>4 DEF DescendantMoves
<1>5. CASE SpawnChild
  BY Zenon, <1>5 DEF SpawnChild, Polled
<1>6. CASE ExitSeen
  BY Zenon, <1>6 DEF ExitSeen, Polled
<1>7. CASE TimeoutFires
  BY Zenon, <1>7 DEF TimeoutFires, Polled, SigTerm
<1>8. CASE KillGroup
  BY Zenon, <1>8 DEF KillGroup, Polled, SigKill
<1>9. ASSUME NEW cut \in BOOLEAN, Drained(cut) PROVE GroupInv'
  BY Zenon, <1>9 DEF Drained, Polled, TimersDropped
<1>10. CASE Service
  BY Zenon, <1>10 DEF Service, Polled
<1>11. CASE Serviced
  BY Zenon, <1>11 DEF Serviced
<1>12. CASE DropCall
  BY Zenon, <1>12 DEF DropCall, Polled, TimersDropped, SigKill, ToolAtRest
<1>13. CASE Tick
  BY Zenon, <1>13 DEF Tick
<1>. QED
  BY Zenon, <1>1, <1>2, <1>3, <1>4, <1>5, <1>6, <1>7, <1>8, <1>9, <1>10, <1>11, <1>12,
     <1>13 DEF ExecNext, ToolStep

\* A call starts at rest, its timers unarmed but for the host's.
LEMMA ExecStart == ExecInit => ExecTypeOK /\ LimitInv /\ UnservicedInv /\ GroupInv
<1>. SUFFICES ASSUME ExecInit PROVE ExecTypeOK /\ LimitInv /\ UnservicedInv /\ GroupInv
  BY Zenon
<1>1. xCfg \in ToolSettings /\ validate(xCfg)
  BY Zenon DEF ExecInit
<1>. QED
  BY <1>1, TimerNumbers DEF ExecInit, ExecTypeOK, LimitInv, UnservicedInv, UnservicedAnswers,
     GroupInv, GroupIsGone, CallOpen

\* The whole wait for a call is bounded by the backstop, one servicing and one
\* grace, for any settings and any number of servicings, as long as the spawn
\* itself does not block the poll for longer than the grace.
THEOREM WaitBounded == SpawnIsQuick => (ExecSpec => []WaitIsBounded)
<1>. SUFFICES ASSUME SpawnIsQuick PROVE ExecSpec => []WaitIsBounded
  BY Zenon
<1>. DEFINE Inv == ExecTypeOK /\ LimitInv
<1>1. ExecInit => Inv
  BY Zenon, ExecStart
<1>2. Inv /\ [ExecNext]_execVars => Inv'
  BY Zenon, ExecTypeStep, LimitStep
<1>3. Inv => WaitIsBounded
  BY ExecAssumption, TimerNumbers DEF ExecTypeOK, LimitInv, WaitIsBounded
<1>. HIDE DEF Inv
<1>. QED
  BY <1>1, <1>2, <1>3, PTL DEF ExecSpec

\* A call that ran out of time leaves no process of its group behind, whether
\* the tool killed it or the host dropped the future halfway.
THEOREM GroupGone == ExecSpec => []GroupIsGone
<1>. DEFINE Inv == ExecTypeOK /\ GroupInv
<1>1. ExecInit => Inv
  BY Zenon, ExecStart
<1>2. Inv /\ [ExecNext]_execVars => Inv'
  BY Zenon, ExecTypeStep, GroupStep
<1>3. Inv => GroupIsGone
  BY Zenon DEF GroupInv
<1>. HIDE DEF Inv
<1>. QED
  BY <1>1, <1>2, <1>3, PTL DEF ExecSpec

\* With nothing serviced in between, the tool itself always answers before the
\* backstop: what validate() checks of the settings is enough when the spawn
\* fits in the slack it leaves.
THEOREM ToolAnswersFirst == TeardownFits => (ExecSpec => []UnservicedAnswers)
<1>. SUFFICES ASSUME TeardownFits PROVE ExecSpec => []UnservicedAnswers
  BY Zenon
<1>. DEFINE Inv == ExecTypeOK /\ UnservicedInv
<1>1. ExecInit => Inv
  BY Zenon, ExecStart
<1>2. Inv /\ [ExecNext]_execVars => Inv'
  BY Zenon, ExecTypeStep, UnservicedStep
<1>3. Inv => UnservicedAnswers
  BY Zenon DEF UnservicedInv
<1>. HIDE DEF Inv
<1>. QED
  BY <1>1, <1>2, <1>3, PTL DEF ExecSpec
================================================================================
