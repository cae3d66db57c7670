------------------------------- MODULE ExecCall -------------------------------
(***************************************************************************)
(* One call of the `exec` tool, from the host's deadline to the last        *)
(* process of the command (fq-tools builtin/exec.rs and exec/reap.rs, the   *)
(* host side in fq-runtime tools.rs and runner/deadline.rs).                *)
(*                                                                          *)
(* The child leads a process group of its own.  It may start a descendant,  *)
(* which may leave the group (setsid) or close the output pipe; each of the *)
(* two may ignore SIGTERM.  The tool waits for the child under a timeout,   *)
(* kills the whole group when that passes, and then drains the pipe for a   *)
(* bounded grace.  Around it the host arms a later backstop; while the host *)
(* services a server-initiated request the tool is not polled at all.       *)
(*                                                                          *)
(* Time is a counter of ticks since the host armed its timer.  A tick       *)
(* passes only when whatever is due has been done, except while the host is *)
(* busy.                                                                    *)
(***************************************************************************)
EXTENDS Naturals

CONSTANTS Requested,         \* timeout_secs of the call, 0 when it names none
          BackstopGrace,     \* ToolCallLimits::BACKSTOP_GRACE
          ToolSettings,      \* candidate [tools] and [tools.exec] sections
          SpawnMax,          \* the longest a spawn blocks the poll
          MaxServicing,      \* the longest one servicing takes
          MaxServicings      \* bound: servicings during the call

Settings == [default : Nat, max : Nat, kill : Nat, drain : Nat, tools_max : Nat]

ASSUME ExecAssumption ==
    /\ {Requested, BackstopGrace, SpawnMax, MaxServicing, MaxServicings} \subseteq Nat
    /\ ToolSettings \subseteq Settings

VARIABLES xCfg,      \* the settings in force: default, max, kill, drain; tools_max
          xNow,      \* ticks since the host's clock started
          xPhase,    \* where execute() is
          xDue,      \* when the timer of this phase fires
          xLead,     \* the child: "running", "exited" or "killed"
          xDesc,     \* the descendant: "none", "in", "out" (of the group), "gone"
          xDeaf,     \* which of the two ignore SIGTERM
          xPipe,     \* does the descendant hold the output pipe?
          xHost,     \* "polling", "busy" or "last" (one grace, no more servicings)
          xLimit,    \* when the host gives up
          xServed,   \* servicings so far
          xSince,    \* when the servicing in progress began
          xResult    \* how the call ended

execVars == <<xCfg, xNow, xPhase, xDue, xLead, xDesc, xDeaf, xPipe, xHost,
              xLimit, xServed, xSince, xResult>>

ExecEnvVars == <<xCfg, xDeaf>>
HostVars == <<xHost, xLimit, xServed, xSince>>

Lesser(a, b) == IF a < b THEN a ELSE b

(* ToolsConfig::validate: the host's ceiling is no lower than exec's, the   *)
(* default no higher than the maximum, and the teardown that follows the    *)
(* deadline fits inside the backstop.                                       *)
validate_loosely(c) ==
    /\ c.tools_max >= c.max
    /\ c.default <= c.max
    /\ c.kill + c.drain <= BackstopGrace
validate(c) ==
    /\ c.tools_max >= c.max
    /\ c.default <= c.max
    /\ c.kill + c.drain < BackstopGrace

(* ExecTool::call_timeout: what the call asks for, clamped.                 *)
call_timeout == Lesser(IF Requested = 0 THEN xCfg.default ELSE Requested, xCfg.max)

(* ToolCallLimits::for_call: the host's own timer, later than the deadline. *)
Armed == Lesser(call_timeout, xCfg.tools_max) + BackstopGrace

-----------------------------------------------------------------------------
(* The group, as killpg sees it.                                            *)
group_alive == xLead = "running" \/ xDesc = "in"

(* signal_group(pgid, SIGTERM): those that do not ignore it leave.          *)
SigTerm ==
    /\ xLead' = IF xLead = "running" /\ "lead" \notin xDeaf THEN "killed" ELSE xLead
    /\ xDesc' = IF xDesc = "in" /\ "desc" \notin xDeaf THEN "gone" ELSE xDesc

(* signal_group(pgid, SIGKILL).                                             *)
SigKill ==
    /\ xLead' = IF xLead = "running" THEN "killed" ELSE xLead
    /\ xDesc' = IF xDesc = "in" THEN "gone" ELSE xDesc

PipeHeld == xLead = "running" \/ (xDesc \in {"in", "out"} /\ xPipe)

-----------------------------------------------------------------------------
ExecInit ==
    /\ xCfg \in {c \in ToolSettings : validate(c)}
    /\ xNow = 0
    /\ xPhase = "spawn"
    /\ xDue = 0
    /\ xLead = "running"
    /\ xDesc = "none"
    /\ xDeaf \in SUBSET {"lead", "desc"}
    /\ xPipe = TRUE
    /\ xHost = "polling"
    /\ xLimit = Armed
    /\ xServed = 0
    /\ xSince = 0
    /\ xResult = "none"

CallOpen == xResult = "none"

(* The call is over: its timers are no longer of interest.                  *)
TimersDropped == xNow' = 0 /\ xDue' = 0 /\ xLimit' = 0

(* What the command's own processes do, whenever they like.                 *)
LeaderExits ==
    /\ CallOpen /\ xPhase # "spawn" /\ xLead = "running"
    /\ xLead' = "exited"
    /\ UNCHANGED <<ExecEnvVars, HostVars, xNow, xPhase, xDue, xDesc, xPipe, xResult>>

LeaderForks ==
    /\ CallOpen /\ xPhase = "run" /\ xLead = "running" /\ xDesc = "none"
    /\ xDesc' = "in"
    /\ xPipe' \in BOOLEAN
    /\ UNCHANGED <<ExecEnvVars, HostVars, xNow, xPhase, xDue, xLead, xResult>>

DescendantMoves ==
    /\ CallOpen /\ xDesc \in {"in", "out"}
    /\ \/ xDesc = "in" /\ xDesc' = "out"
       \/ xDesc' = "gone"
    /\ UNCHANGED <<ExecEnvVars, HostVars, xNow, xPhase, xDue, xLead, xPipe, xResult>>

-----------------------------------------------------------------------------
(* The tool future, when the host polls it.                                 *)
Polled == CallOpen /\ xHost # "busy"

(* The spawn blocks the poll for a while; the tool's clock starts after it. *)
SpawnChild ==
    /\ Polled /\ xPhase = "spawn"
    /\ \E d \in 0..SpawnMax : xNow' = xNow + d /\ xDue' = xNow + d + call_timeout
    /\ xPhase' = "run"
    /\ UNCHANGED <<ExecEnvVars, HostVars, xLead, xDesc, xPipe, xResult>>

(* child.wait() answers first, even when the timeout is due too.  The guard *)
(* is disarmed: descendants of a command that exited are left alone.        *)
ExitSeen ==
    /\ Polled /\ xPhase = "run" /\ xLead = "exited"
    /\ xPhase' = "drain"
    /\ xDue' = xNow + xCfg.drain
    /\ UNCHANGED <<ExecEnvVars, HostVars, xNow, xLead, xDesc, xPipe, xResult>>

(* The timeout fires: kill_group starts with SIGTERM to the group.          *)
TimeoutFires ==
    /\ Polled /\ xPhase = "run" /\ xLead = "running" /\ xNow >= xDue
    /\ SigTerm
    /\ xPhase' = "term"
    /\ xDue' = xNow + xCfg.kill
    /\ UNCHANGED <<ExecEnvVars, HostVars, xNow, xPipe, xResult>>

(* kill_group's wait and polling: it returns as soon as the group is empty, *)
(* and at the end of the grace sends SIGKILL to whatever is left.           *)
KillGroupLeaderOnly ==
    /\ Polled /\ xPhase = "term"
    /\ xLead # "running" \/ xNow >= xDue
    /\ xLead' = IF xLead = "running" THEN "killed" ELSE xLead
    /\ xPhase' = "drain_late"
    /\ xDue' = xNow + xCfg.drain
    /\ UNCHANGED <<ExecEnvVars, HostVars, xNow, xDesc, xPipe, xResult>>

KillGroup ==
    /\ Polled /\ xPhase = "term"
    /\ ~group_alive \/ xNow >= xDue
    /\ SigKill
    /\ xPhase' = "drain_late"
    /\ xDue' = xNow + xCfg.drain
    /\ UNCHANGED <<ExecEnvVars, HostVars, xNow, xPipe, xResult>>

(* capture_stream: the readers end at end-of-file, or are stopped when the  *)
(* drain grace is over; then the tool answers.                              *)
Drained(cut) ==
    /\ Polled /\ xPhase \in {"drain", "drain_late"}
    /\ IF cut THEN xNow >= xDue ELSE ~PipeHeld
    /\ xResult' = IF xPhase = "drain_late" THEN "timed_out"
                  ELSE IF cut THEN "exit_cut" ELSE "exit"
    /\ xPhase' = "over"
    /\ TimersDropped
    /\ UNCHANGED <<ExecEnvVars, xHost, xServed, xSince, xLead, xDesc, xPipe>>

ToolStep ==
    \/ SpawnChild \/ ExitSeen \/ TimeoutFires \/ KillGroup
    \/ \E cut \in BOOLEAN : Drained(cut)

(* Nothing in the tool is due: the poll has come to rest.                   *)
ToolAtRest ==
    /\ xPhase # "spawn"
    /\ xPhase = "run" => (xLead = "running" /\ xNow < xDue)
    /\ xPhase = "term" => (group_alive /\ xNow < xDue)
    /\ xPhase \in {"drain", "drain_late"} => (PipeHeld /\ xNow < xDue)

-----------------------------------------------------------------------------
(* await_tool_under_deadline: the select of tool, expiry and requests, in   *)
(* that order, so a request is taken only when neither of the others is     *)
(* ready.                                                                   *)
Service ==
    /\ Polled /\ xHost = "polling" /\ ToolAtRest /\ xNow < xLimit
    /\ xServed < MaxServicings
    /\ xHost' = "busy"
    /\ xServed' = xServed + 1
    /\ xSince' = xNow
    /\ UNCHANGED <<ExecEnvVars, xLimit, xNow, xPhase, xDue, xLead, xDesc, xPipe, xResult>>

(* A servicing that outlived the expiry gives the tool one grace from now   *)
(* and is the last one; otherwise the loop goes on under the old expiry.    *)
ServicedAndRearmed ==
    /\ CallOpen /\ xHost = "busy"
    /\ xHost' = "polling"
    /\ xLimit' = IF xNow >= xLimit THEN xNow + BackstopGrace ELSE xLimit
    /\ xSince' = 0
    /\ UNCHANGED <<ExecEnvVars, xServed, xNow, xPhase, xDue, xLead, xDesc, xPipe, xResult>>

Serviced ==
    /\ CallOpen /\ xHost = "busy"
    /\ IF xNow >= xLimit
       THEN xHost' = "last" /\ xLimit' = xNow + BackstopGrace
       ELSE xHost' = "polling" /\ xLimit' = xLimit
    /\ xSince' = 0
    /\ UNCHANGED <<ExecEnvVars, xServed, xNow, xPhase, xDue, xLead, xDesc, xPipe, xResult>>

(* The backstop: the future is dropped.  GroupGuard kills the group unless  *)
(* the child has been reaped and the guard disarmed.                        *)
DropUnguarded ==
    /\ Polled /\ ToolAtRest /\ xNow >= xLimit
    /\ xResult' = "abandoned"
    /\ xLead' = IF xLead = "running" THEN "killed" ELSE xLead
    /\ TimersDropped
    /\ UNCHANGED <<ExecEnvVars, xHost, xServed, xSince, xPhase, xDesc, xPipe>>

DropCall ==
    /\ Polled /\ ToolAtRest /\ xNow >= xLimit
    /\ xResult' = "abandoned"
    /\ IF xPhase \in {"run", "term"} THEN SigKill ELSE UNCHANGED <<xLead, xDesc>>
    /\ TimersDropped
    /\ UNCHANGED <<ExecEnvVars, xHost, xServed, xSince, xPhase, xPipe>>

Tick ==
    /\ CallOpen
    /\ IF xHost = "busy" THEN xNow < xSince + MaxServicing
                         ELSE ToolAtRest /\ xNow < xLimit
    /\ xNow' = xNow + 1
    /\ UNCHANGED <<ExecEnvVars, HostVars, xPhase, xDue, xLead, xDesc, xPipe, xResult>>

ExecNext ==
    \/ LeaderExits \/ LeaderForks \/ DescendantMoves
    \/ ToolStep
    \/ Service \/ Serviced \/ DropCall \/ Tick

ExecSpec == ExecInit /\ [][ExecNext]_execVars

-----------------------------------------------------------------------------
(* A call that ended because time ran out leaves no process of the group    *)
(* behind, whether the tool killed it or the host dropped the future in the *)
(* middle of the kill (reap.rs: "Ending only the direct child leaves the    *)
(* rest running").  A command that exited by itself is the one exception.   *)
GroupIsGone ==
    /\ xResult = "timed_out" => ~group_alive
    /\ xResult = "abandoned" /\ xPhase # "drain" => ~group_alive

(* A call on which the host serviced nothing is always answered by the tool *)
(* itself: the kill and the drain of a validated configuration end before   *)
(* the backstop, so the captured output is never lost to a bare timeout.    *)
UnservicedAnswers == xServed = 0 => xResult # "abandoned"

(* The whole wait is bounded by the backstop, one servicing and one grace,  *)
(* whatever the processes do with the pipe and however many requests are    *)
(* queued (deadline.rs, await_tool_under_deadline).                         *)
WaitIsBounded == CallOpen => xNow <= Armed + MaxServicing + BackstopGrace
=============================================================================
