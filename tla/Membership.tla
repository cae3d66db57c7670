------------------------------- MODULE Membership -------------------------------
(***************************************************************************)
(* The coordination_worker table (control_plane/store.rs) and who writes   *)
(* it: the daemon registering and settling its own row                     *)
(* (fq-daemon/src/worker_registration.rs), the heartbeat producer and      *)
(* consumer, and the stale-worker sweep of the coordination consumer.      *)
(*                                                                         *)
(* A worker id is a runtime id, fresh for each process, so a worker is the *)
(* number of a boot.  Time is an age: a timestamp is "fresh", older than   *)
(* the stale threshold ("lapsed") or older than the retention window       *)
(* ("aged"); TimePasses moves every timestamp on.                          *)
(***************************************************************************)
EXTENDS Naturals, FiniteSets

CONSTANTS MaxBoots,  \* bound: processes started
          MaxBeats,  \* bound: heartbeats one process publishes
          MaxTicks   \* bound: how often time passes

ASSUME MembershipBounds == MaxBoots \in Nat /\ MaxBeats \in Nat /\ MaxTicks \in Nat

Workers == 1 .. MaxBoots

VARIABLES
    boot,     \* the running or last process, and its worker id
    life,     \* "down", "boot", "reconciled", "up", or "leaving" (tasks told to stop)
    worker,   \* coordination_worker, by worker id
    beats,    \* heartbeats the fq-heartbeat durable has not acked
    sent,     \* heartbeats this process published
    stale,    \* the sweep's list, not yet worked off
    ticks,
    clean,    \* history: workers whose exit was settled as clean
    revived,  \* history: how often a heartbeat was applied after a lapse or an exit
    late,     \* history: workers a heartbeat was applied to after their exit
    orphaned  \* history: worker.orphaned events published

memberVars == <<boot, life, worker, beats, sent, stale, ticks, clean, revived, late, orphaned>>

Ages     == {"fresh", "lapsed", "aged"}
Older(a) == IF a = "fresh" THEN "lapsed" ELSE "aged"
NoWorker == [status |-> "absent", age |-> "fresh"]
Alive(a) == [status |-> "alive", age |-> a]

MembershipInit ==
    /\ boot = 0 /\ life = "down"
    /\ worker = [w \in Workers |-> NoWorker]
    /\ beats = {} /\ sent = 0 /\ stale = {} /\ ticks = 0
    /\ clean = {} /\ late = {}
    /\ revived = [w \in Workers |-> 0]
    /\ orphaned = [w \in Workers |-> 0]

\* run_daemon up to the registration of its worker row.
Register ==
    /\ life = "down" /\ boot < MaxBoots
    /\ boot' = boot + 1 /\ life' = "boot" /\ sent' = 0
    /\ worker' = [worker EXCEPT ![boot + 1] = Alive("fresh")]
    /\ UNCHANGED <<beats, stale, ticks, clean, revived, late, orphaned>>

\* The hosted tasks run until the teardown has joined them.
Hosted == life \in {"up", "leaving"}

\* HeartbeatProducer::emit_one; a failed publish is a beat not sent.
EmitBeat ==
    /\ Hosted /\ sent < MaxBeats
    /\ sent' = sent + 1
    /\ beats' = beats \cup {[worker |-> boot, age |-> "fresh", again |-> FALSE]}
    /\ UNCHANGED <<boot, life, worker, stale, ticks, clean, revived, late, orphaned>>

\* heartbeat_worker: the row is alive again, as of the time on the event;
\* no row, no effect.
HeartbeatWorker(b) ==
    worker' = [worker EXCEPT ![b.worker] = IF @.status = "absent" THEN @ ELSE Alive(b.age)]

\* HeartbeatConsumer::handle_event for any unacked beat; the durable is
\* not in strict order.  A lost ack has the beat delivered again (bound: once).
HandleBeat(b) ==
    /\ Hosted
    /\ HeartbeatWorker(b)
    /\ \/ beats' = beats \ {b}
       \/ ~b.again /\ beats' = (beats \ {b}) \cup {[b EXCEPT !.again = TRUE]}
    /\ LET was == worker[b.worker].status
       IN  /\ revived' = [revived EXCEPT ![b.worker] =
                             IF was \in {"stale", "shutdown"} THEN @ + 1 ELSE @]
           /\ late' = IF was = "shutdown" THEN late \cup {b.worker} ELSE late
    /\ UNCHANGED <<boot, life, sent, stale, ticks, clean, orphaned>>

\* Mutant: the sweep does not leave out its own worker.
ListStaleAll ==
    {w \in Workers : worker[w].status = "alive" /\ worker[w].age # "fresh"}

\* list_stale_workers less the sweeping worker itself and what is not alive.
ListStale ==
    {w \in Workers : worker[w].status = "alive" /\ worker[w].age # "fresh" /\ w # boot}

SweepList ==
    /\ Hosted /\ stale = {} /\ ListStale # {}
    /\ stale' = ListStale
    /\ UNCHANGED <<boot, life, worker, beats, sent, ticks, clean, revived, late, orphaned>>

\* Mutant: the transition is reported but not written.
MarkNothing(w) == worker' = worker

\* mark_worker_stale, conditional on the row being alive.
MarkStale(w) == worker' = [worker EXCEPT ![w].status = "stale"]

\* One worker of the list: the sweep that flips the row publishes
\* worker.orphaned, once; a failed publish is not retried.
SweepOne(w) ==
    /\ Hosted
    /\ stale' = stale \ {w}
    /\ \/ /\ worker[w].status = "alive"
          /\ MarkStale(w)
          /\ \E published \in {0, 1} : orphaned' = [orphaned EXCEPT ![w] = @ + published]
       \/ /\ worker[w].status # "alive"
          /\ UNCHANGED <<worker, orphaned>>
    /\ UNCHANGED <<boot, life, beats, sent, ticks, clean, revived, late>>

\* A store error abandons the rest of the list until the next tick.
SweepFails ==
    /\ Hosted /\ stale # {}
    /\ stale' = {}
    /\ UNCHANGED <<boot, life, worker, beats, sent, ticks, clean, revived, late, orphaned>>

\* Mutant: the exit is not recorded.
StaysAlive == worker

\* mark_worker_shutdown.
MarkShutdown == [worker EXCEPT ![boot].status = "shutdown"]

\* settle after a teardown, and settle_unclaimed on a way out before one:
\* the row is marked, unless the write fails.
Settle ==
    /\ life \in {"boot", "reconciled", "leaving"}
    /\ \/ worker' = MarkShutdown /\ clean' = clean \cup {boot}
       \/ UNCHANGED <<worker, clean>>
    /\ life' = "down" /\ stale' = {}
    /\ UNCHANGED <<boot, beats, sent, ticks, revived, late, orphaned>>

\* The process dies, or a hosted task failed and the row is left to the sweep.
Die ==
    /\ life # "down"
    /\ life' = "down" /\ stale' = {}
    /\ UNCHANGED <<boot, worker, beats, sent, ticks, clean, revived, late, orphaned>>

TimePasses ==
    /\ ticks < MaxTicks
    /\ ticks' = ticks + 1
    /\ worker' = [w \in Workers |-> IF worker[w] = NoWorker THEN NoWorker
                                    ELSE [worker[w] EXCEPT !.age = Older(@)]]
    /\ beats' = {[b EXCEPT !.age = Older(@)] : b \in beats}
    /\ UNCHANGED <<boot, life, sent, stale, clean, revived, late, orphaned>>

--------------------------------------------------------------------------------
\* The roster's part of the type invariant.
MembershipTypeOK ==
    /\ boot \in 0 .. MaxBoots /\ life \in {"down", "boot", "reconciled", "up", "leaving"}
    /\ worker \in [Workers -> [status : {"absent", "alive", "stale", "shutdown"}, age : Ages]]
    /\ beats \subseteq [worker : Workers, age : Ages, again : BOOLEAN]
    /\ sent \in 0 .. MaxBeats /\ ticks \in 0 .. MaxTicks
    /\ stale \subseteq Workers /\ clean \subseteq Workers /\ late \subseteq Workers
    /\ revived \in [Workers -> Nat] /\ orphaned \in [Workers -> Nat]

\* A process that has registered and not yet settled finds its own row in
\* the table, alive, however late its heartbeats are applied: the sweep
\* passes over its own worker and retention collects stale rows only.
RosterHoldsTheLiving == life # "down" => worker[boot].status = "alive"

\* worker.orphaned is published once for a transition, not once for a tick:
\* two reports of one worker have a heartbeat between them that revived it.
OrphanedOncePerLapse == \A w \in Workers : orphaned[w] <= 1 + revived[w]

\* A daemon that deregistered is not reported as orphaned, unless one of its
\* heartbeats was still undelivered when it left.
CleanExitNotOrphaned == \A w \in clean \ late : orphaned[w] = 0
================================================================================
