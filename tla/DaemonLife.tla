------------------------------ MODULE DaemonLife ------------------------------
(***************************************************************************)
(* One life of the daemon process, from its registration to its exit        *)
(* (fq-daemon daemon.rs, hosted.rs, hosted/teardown.rs, signals.rs,         *)
(* worker_registration.rs and the `down` command of control_commands.rs).   *)
(*                                                                          *)
(* The hosted tasks are the dispatcher, the summariser and one that stands  *)
(* for the heartbeat producer, the other consumers and the sweepers.  The   *)
(* main task waits for a signal, a `down` request or the end of any of      *)
(* them, then stops the rest.  A JoinHandle that was already awaited to its *)
(* end panics when it is polled again.                                      *)
(***************************************************************************)
EXTENDS Naturals, FiniteSets

CONSTANTS MaxSignals,  \* bound: signals the process receives
          MaxDowns     \* bound: `down` requests

DaemonTasks == {"dispatcher", "summary", "heartbeat"}

VARIABLES lfStage,    \* where the main task is
          lfRow,      \* the worker row: "none", "alive" or "shutdown"
          lfOwed,     \* WorkerRegistration.outstanding
          lfPending,  \* signals the run's own streams hold
          lfAtBoot,   \* signals the assembly's streams hold
          lfGot,      \* how many signals were delivered
          lfDown,     \* the watch channel: "none", "drain" or "now"
          lfAsked,    \* a `down` between its request_drain and its send; how many
          lfDraining, \* the worker's drain state
          lfTask,     \* each hosted task: "off", "running" or "ended"
          lfTaken,    \* handles awaited to their end
          lfWork,     \* the in-flight invocation: "running" or "still"
          lfBroke,    \* tasks that ended with nobody asking
          lfStop      \* how the stop came about: reason, clean, failed task, end of the drain

lifeVars == <<lfStage, lfRow, lfOwed, lfPending, lfAtBoot, lfGot, lfDown, lfAsked,
              lfDraining, lfTask, lfTaken, lfWork, lfBroke, lfStop>>

signalVars == <<lfPending, lfAtBoot, lfGot>>
downVars == <<lfDown, lfAsked, lfDraining>>
rowVars == <<lfRow, lfOwed>>
workVars == <<lfTask, lfWork, lfBroke>>

NoStop == [reason |-> "none", clean |-> FALSE, failed |-> "none", ended |-> "none"]

(* The row is written, then the rest of the assembly begins; the run's      *)
(* signal streams were installed before either.                             *)
LifeInit ==
    /\ lfStage = "booting"
    /\ lfRow = "none" /\ lfOwed = FALSE
    /\ lfPending = {} /\ lfAtBoot = {} /\ lfGot = 0
    /\ lfDown = "none" /\ lfAsked = [open |-> FALSE, n |-> 0] /\ lfDraining = FALSE
    /\ lfTask = [t \in DaemonTasks |-> "off"]
    /\ lfTaken = {} /\ lfWork = "still" /\ lfBroke = {}
    /\ lfStop = NoStop

ProcessGone == lfStage \in {"exited", "panicked"}
Hosting == lfStage \in {"select", "draining", "hurrying"}

(* What is read no more once the drain wait is over.                        *)
SignalsHeard == Hosting \/ lfStage \in {"booting", "assembling"}

-----------------------------------------------------------------------------
(* A signal reaches every stream that is installed.                         *)
SignalUnheard(s) ==
    /\ SignalsHeard /\ lfGot < MaxSignals
    /\ lfGot' = lfGot + 1
    /\ lfPending' = IF Hosting THEN lfPending \cup {s} ELSE lfPending
    /\ lfAtBoot' = IF lfStage = "assembling" THEN lfAtBoot \cup {s} ELSE lfAtBoot
    /\ UNCHANGED <<lfStage, rowVars, downVars, workVars, lfTaken, lfStop>>

Signal(s) ==
    /\ SignalsHeard /\ lfGot < MaxSignals
    /\ lfGot' = lfGot + 1
    /\ lfPending' = lfPending \cup {s}
    /\ lfAtBoot' = IF lfStage = "assembling" THEN lfAtBoot \cup {s} ELSE lfAtBoot
    /\ UNCHANGED <<lfStage, rowVars, downVars, workVars, lfTaken, lfStop>>

(* WorkerRegistration::register; the boot's own streams are installed.      *)
register ==
    /\ lfStage = "booting"
    /\ lfStage' = "assembling"
    /\ lfRow' = "alive" /\ lfOwed' = TRUE
    /\ UNCHANGED <<signalVars, downVars, workVars, lfTaken, lfStop>>

(* assemble and the fallible head of run_hosted: an error, or a signal read *)
(* by the boot's streams, leaves for settle_unclaimed.                      *)
AssembleFails ==
    /\ lfStage = "assembling"
    /\ lfStage' = "leaving"
    /\ UNCHANGED <<rowVars, signalVars, downVars, workVars, lfTaken, lfStop>>

BootSignalled ==
    /\ lfStage = "assembling" /\ lfAtBoot # {}
    /\ lfStage' = "leaving"
    /\ UNCHANGED <<rowVars, signalVars, downVars, workVars, lfTaken, lfStop>>

(* Every task is spawned (the resume tasks too), and the select begins.     *)
Assembled ==
    /\ lfStage = "assembling"
    /\ lfStage' = "select"
    /\ lfTask' = [t \in DaemonTasks |-> "running"]
    /\ lfWork' = "running"
    /\ UNCHANGED <<rowVars, signalVars, downVars, lfTaken, lfBroke, lfStop>>

-----------------------------------------------------------------------------
(* The `down` command: a plain one first asks the worker to drain, then     *)
(* raises the mode.  DownSignal::request only ever raises it.               *)
DownPlain ==
    /\ Hosting /\ ~lfAsked.open /\ lfAsked.n < MaxDowns
    /\ lfDraining' = TRUE
    /\ lfAsked' = [open |-> TRUE, n |-> lfAsked.n + 1]
    /\ UNCHANGED <<lfDown, lfStage, rowVars, signalVars, workVars, lfTaken, lfStop>>

DownSent ==
    /\ Hosting /\ lfAsked.open
    /\ lfAsked' = [lfAsked EXCEPT !.open = FALSE]
    /\ lfDown' = IF lfDown = "none" THEN "drain" ELSE lfDown
    /\ UNCHANGED <<lfDraining, lfStage, rowVars, signalVars, workVars, lfTaken, lfStop>>

DownNow ==
    /\ Hosting /\ lfAsked.n < MaxDowns
    /\ lfAsked' = [lfAsked EXCEPT !.n = @ + 1]
    /\ lfDown' = "now"
    /\ UNCHANGED <<lfDraining, lfStage, rowVars, signalVars, workVars, lfTaken, lfStop>>

(* Work and tasks.  A draining worker suspends its invocation; the          *)
(* dispatcher stops once its drain is over or it was told to; a task may    *)
(* break at any time.  The others are told to stop after the drain wait.    *)
WorkSuspends ==
    /\ Hosting /\ lfWork = "running"
    /\ lfWork' = "still"
    /\ UNCHANGED <<lfTask, lfBroke, lfStage, rowVars, signalVars, downVars, lfTaken, lfStop>>

ToldTooSoon(t) == lfStage # "select" \/ (t = "dispatcher" /\ lfDraining)
Told(t) ==
    t = "dispatcher" /\ (lfStage # "select" \/ lfDraining)

TaskEnds(t) ==
    /\ Hosting /\ lfTask[t] = "running"
    /\ Told(t) \/ lfBroke = {}
    /\ Told(t) /\ t = "dispatcher" /\ lfDraining => lfWork = "still"
    /\ lfTask' = [lfTask EXCEPT ![t] = "ended"]
    /\ lfBroke' = IF Told(t) THEN lfBroke ELSE lfBroke \cup {t}
    /\ UNCHANGED <<lfWork, lfStage, rowVars, signalVars, downVars, lfTaken, lfStop>>

-----------------------------------------------------------------------------
(* run_hosted's select, one action for each kind of arm.                    *)
StopsFor(reason, clean, failed) ==
    /\ lfStop' = [NoStop EXCEPT !.reason = reason, !.clean = clean, !.failed = failed]
    /\ lfStage' = IF reason \in {"sigterm", "down"} THEN "draining" ELSE "hurrying"

SelectSignal ==
    /\ lfStage = "select"
    /\ \E s \in lfPending :
         /\ lfPending' = lfPending \ {s}
         /\ lfDraining' = (lfDraining \/ s = "sigterm")
         /\ StopsFor(s, TRUE, "none")
    /\ UNCHANGED <<lfAtBoot, lfGot, lfDown, lfAsked, rowVars, workVars, lfTaken>>

SelectDown ==
    /\ lfStage = "select" /\ lfDown # "none"
    /\ StopsFor(IF lfDown = "now" THEN "down_now" ELSE "down", TRUE, "none")
    /\ UNCHANGED <<signalVars, downVars, rowVars, workVars, lfTaken>>

SelectTask(t) ==
    /\ lfStage = "select" /\ lfTask[t] = "ended" /\ t # "dispatcher"
    /\ lfTaken' = lfTaken \cup {t}
    /\ StopsFor("task_failed", FALSE, t)
    /\ UNCHANGED <<signalVars, downVars, rowVars, workVars>>

SelectDispatcherFails ==
    /\ lfStage = "select" /\ lfTask["dispatcher"] = "ended"
    /\ lfTaken' = lfTaken \cup {"dispatcher"}
    /\ StopsFor("task_failed", FALSE, "dispatcher")
    /\ UNCHANGED <<signalVars, downVars, rowVars, workVars>>

SelectDispatcher ==
    /\ lfStage = "select" /\ lfTask["dispatcher"] = "ended"
    /\ lfTaken' = lfTaken \cup {"dispatcher"}
    /\ IF lfDraining THEN StopsFor("down", TRUE, "none")
                     ELSE StopsFor("task_failed", FALSE, "dispatcher")
    /\ UNCHANGED <<signalVars, downVars, rowVars, workVars>>

-----------------------------------------------------------------------------
(* wait_for_drain: the dispatcher (unless its handle is gone) and the       *)
(* resume tasks, the deadline, a second signal or `down --now`.             *)
DrainOver(how) ==
    /\ lfStage' = "joining"
    /\ lfStop' = [lfStop EXCEPT !.ended = how]
    /\ lfPending' = {}

wait_for_drain ==
    /\ lfStage = "draining"
    /\ \/ /\ lfTask["dispatcher"] = "ended" /\ lfWork = "still"
          /\ lfTaken' = lfTaken \cup {"dispatcher"}
          /\ DrainOver("suspended")
       \/ DrainOver("deadline") /\ UNCHANGED lfTaken
       \/ \E s \in lfPending : DrainOver(s) /\ UNCHANGED lfTaken
       \/ lfDown = "now" /\ DrainOver("down_now") /\ UNCHANGED lfTaken
    /\ UNCHANGED <<lfAtBoot, lfGot, downVars, rowVars, workVars>>

(* join_dispatcher, bounded, when nothing is drained.                       *)
join_dispatcher ==
    /\ lfStage = "hurrying"
    /\ lfStage' = "joining"
    /\ lfTaken' = IF lfTask["dispatcher"] = "ended" THEN lfTaken \cup {"dispatcher"} ELSE lfTaken
    /\ UNCHANGED <<signalVars, downVars, rowVars, workVars, lfStop>>

(* The bounded joins of the other tasks run concurrently.  The summariser's *)
(* handle is skipped when the select took it; the others are not, and a     *)
(* handle that was taken panics.                                            *)
JoinedAgainAny == lfTaken \ {"dispatcher"}
JoinedAgain == lfTaken \ {"dispatcher", "summary"}

JoinOthers ==
    /\ lfStage = "joining"
    /\ IF JoinedAgain # {}
       THEN lfStage' = "panicked" /\ UNCHANGED rowVars
       ELSE lfStage' = "settling" /\ UNCHANGED rowVars
    /\ UNCHANGED <<signalVars, downVars, workVars, lfTaken, lfStop>>

(* registration.settle(clean): the row is claimed whatever the verdict,     *)
(* and marked only on a clean stop; then system.shutdown is published.      *)
settle_unclaiming ==
    /\ lfStage = "settling"
    /\ lfStage' = "leaving"
    /\ lfOwed' = (lfOwed /\ ~lfStop.clean)
    /\ lfRow' = IF lfOwed /\ lfStop.clean THEN "shutdown" ELSE lfRow
    /\ UNCHANGED <<signalVars, downVars, workVars, lfTaken, lfStop>>

settle ==
    /\ lfStage = "settling"
    /\ lfStage' = "leaving"
    /\ lfOwed' = FALSE
    /\ lfRow' = IF lfOwed /\ lfStop.clean THEN "shutdown" ELSE lfRow
    /\ UNCHANGED <<signalVars, downVars, workVars, lfTaken, lfStop>>

(* run_daemon's last line: settle_unclaimed.                                *)
settle_unclaimed ==
    /\ lfStage = "leaving"
    /\ lfStage' = "exited"
    /\ lfOwed' = FALSE
    /\ lfRow' = IF lfOwed THEN "shutdown" ELSE lfRow
    /\ UNCHANGED <<signalVars, downVars, workVars, lfTaken, lfStop>>

LifeNext ==
    \/ \E s \in {"sigterm", "ctrl_c"} : Signal(s)
    \/ register \/ AssembleFails \/ BootSignalled \/ Assembled
    \/ DownPlain \/ DownSent \/ DownNow \/ WorkSuspends
    \/ \E t \in DaemonTasks : TaskEnds(t) \/ SelectTask(t)
    \/ SelectSignal \/ SelectDown \/ SelectDispatcher
    \/ wait_for_drain \/ join_dispatcher \/ JoinOthers
    \/ settle \/ settle_unclaimed

LifeSpec == LifeInit /\ [][LifeNext]_lifeVars

-----------------------------------------------------------------------------
(* The row says what the process did: it reads `shutdown` after a clean     *)
(* stop and after a boot that failed or was interrupted, and is left to the *)
(* stale sweep after a failed task (settle and settle_unclaimed).           *)
RowTellsTheTruth ==
    ProcessGone => (lfRow = "shutdown") = (lfStage = "exited" /\ lfStop.failed = "none")

(* A signal delivered at any moment of the boot still stops the daemon: it  *)
(* is there to be read when the select begins (run_registered: "nothing is  *)
(* lost either way the race goes").                                         *)
SignalSurvivesBoot == lfStage = "select" /\ lfGot > 0 => lfPending # {}

(* A drain is never reported as a failure: the dispatcher that stopped      *)
(* because `fq down` asked the worker to drain, before the request itself   *)
(* was seen, is not a failed task.                                          *)
DrainIsNoFailure == lfStop.failed # "none" => lfStop.failed \in lfBroke

(* The main task never polls the dispatcher's or the summariser's handle    *)
(* twice: only the failure of one of the other tasks ends it in a panic.    *)
PanicOnlyUnflagged == lfStage = "panicked" => lfStop.failed = "heartbeat"

(* The worker keeps its heartbeat while it still executes steps: until a    *)
(* drain has ended every other task runs, unless it broke by itself.        *)
HeartbeatOutlivesDrain ==
    lfStage \in {"select", "draining"} => \A t \in DaemonTasks \ {"dispatcher"} :
        lfTask[t] = "running" \/ t \in lfBroke
=============================================================================
