---------------------------- MODULE TriggerDispatch ----------------------------
(***************************************************************************)
(* The path of a trigger from the JetStream work queue to an invocation's  *)
(* first WAL write: control_plane/dispatcher.rs with dispatcher/claim.rs,  *)
(* dispatcher/admission.rs, dispatcher/agent_cap.rs, dispatcher/           *)
(* dead_letter.rs and the claim rows of control_plane/store/               *)
(* trigger_claim.rs.  One task is spawned per delivery, so a task is named *)
(* by the stream sequence and the delivery attempt, <<s, a>>; every await  *)
(* of `handle` that reads or writes shared state ends a step.              *)
(*                                                                         *)
(* The broker (`msg`, `deliv`, `advisory`) is external: a delivered        *)
(* message stays pending until it is acked, NAKed or its ack window ends,  *)
(* and one delivered MaxDeliver times without an ack raises a              *)
(* MAX_DELIVERIES advisory instead of a redelivery.                        *)
(*                                                                         *)
(* Whether an agent slot or a worker permit is free is the business of the *)
(* Admission module; here those waits end when they please.                *)
(***************************************************************************)
EXTENDS Naturals, FiniteSets

CONSTANTS Triggers,     \* the logical triggers producers publish, one message each
          NoTrigger,    \* the name of a sequence that holds no message yet
          MaxSeq,       \* bound: messages the trigger stream ever holds
          MaxDeliver,   \* TRIGGER_MAX_DELIVER
          MaxBoots,     \* bound: process starts
          MaxCrashes,   \* bound: process starts that follow a crash
          MaxFaults,    \* bound: store errors and lost or failed publishes
          MaxSlips      \* bound: ack windows that end under a live task

ASSUME TriggerAssumption == NoTrigger \notin Triggers

ASSUME BoundsAssumption ==
    /\ MaxSeq \in Nat /\ MaxDeliver \in Nat \ {0} /\ MaxBoots \in Nat \ {0}
    /\ MaxCrashes \in Nat /\ MaxFaults \in Nat /\ MaxSlips \in Nat

Seqs     == 1 .. MaxSeq
Attempts == 1 .. MaxDeliver
Tasks    == Seqs \X Attempts
Boots    == 1 .. MaxBoots        \* the worker id of each process start (runtime_id)

VARIABLES
    msg,       \* broker: "absent", "queued", "pending", "acked" or "exhausted", by sequence
    name,      \* the trigger a message carries (Fq-Trigger-Id); copies share it
    deliv,     \* broker: deliveries of each message so far
    advisory,  \* broker: sequences a MAX_DELIVERIES advisory was raised for
    claim,     \* trigger_claim rows: [st, by, inv]
    pc,        \* where each delivery's task is in `handle`
    saw,       \* the claimant a task's SELECT returned
    wal,       \* tasks whose invocation made its first WAL write
    boot,      \* the running process
    loop,      \* consume loop: "pulling", "dropped" (stream dropped), "stopping"
    draining,  \* the worker's drain flag
    crashes, faults, slips,
    orphan,    \* history: invocations in `wal` whose claim row was never marked
    fate,      \* history: why messages were given up, by sequence
    pulledBy   \* history: the process each delivery went to

brokerVars == <<msg, name, deliv, advisory, pulledBy>>
procVars   == <<boot, loop, draining, crashes>>
vars == <<brokerVars, claim, pc, saw, wal, procVars, faults, slips, orphan, fate>>

NoClaim == [st |-> "none", by |-> 0, inv |-> 0]

(***************************************************************************)
(* The tasks that own their delivery: between winning the claim and        *)
(* releasing or completing it.                                             *)
(***************************************************************************)
OwnerPCs == {"route", "pause", "slot", "requeue", "run", "deadletter",
             "wal", "relack", "relnak"}
PCs == OwnerPCs \cup {"idle", "insert", "select", "takeover", "ack", "nak", "done"}

Live(s, a) == pc[<<s, a>>] \notin {"idle", "done"}
Stopping   == draining \/ loop = "stopping"

Init ==
    /\ msg = [s \in Seqs |-> "absent"]
    /\ name = [s \in Seqs |-> NoTrigger]
    /\ deliv = [s \in Seqs |-> 0]
    /\ advisory = {}
    /\ claim = [s \in Seqs |-> NoClaim]
    /\ pc = [t \in Tasks |-> "idle"]
    /\ saw = [t \in Tasks |-> 0]
    /\ wal = {}
    /\ boot = 1 /\ loop = "pulling" /\ draining = FALSE
    /\ crashes = 0 /\ faults = 0 /\ slips = 0
    /\ orphan = {}
    /\ fate = [s \in Seqs |-> {}]
    /\ pulledBy = [t \in Tasks |-> 0]

--------------------------------------------------------------------------------
(***************************************************************************)
(* The broker and the producers.                                           *)
(***************************************************************************)

\* A message is stored at the first sequence that is still absent.
StreamAppend(t) ==
    \E s \in Seqs :
        /\ msg[s] = "absent"
        /\ \A r \in Seqs : r < s => msg[r] # "absent"
        /\ msg' = [msg EXCEPT ![s] = "queued"]
        /\ name' = [name EXCEPT ![s] = t]
        /\ UNCHANGED <<deliv, advisory, pulledBy>>

Publish(t) ==
    /\ \A s \in Seqs : name[s] # t
    /\ StreamAppend(t)
    /\ UNCHANGED <<claim, pc, saw, wal, procVars, faults, slips, orphan, fate>>

\* Redelivery after a NAK or an ended ack window; past MaxDeliver, the advisory.
Requeued(s) ==
    IF deliv[s] < MaxDeliver
      THEN msg' = [msg EXCEPT ![s] = "queued"] /\ UNCHANGED advisory
      ELSE /\ msg' = [msg EXCEPT ![s] = "exhausted"]
           /\ advisory' = advisory \cup {s}

\* The ack window ends.  Under a live task this is a keepalive that slipped, or a
\* set-up longer than the window (nothing keeps a delivery alive during set-up).
AckWaitExpires(s) ==
    /\ msg[s] = "pending"
    /\ IF \E a \in Attempts : Live(s, a)
         THEN slips < MaxSlips /\ slips' = slips + 1
         ELSE UNCHANGED slips
    /\ Requeued(s)
    /\ UNCHANGED <<name, deliv, pulledBy, claim, pc, saw, wal, procVars,
                   faults, orphan, fate>>

--------------------------------------------------------------------------------
(***************************************************************************)
(* The consume loop and the process.                                       *)
(***************************************************************************)

\* run_on_consumer's `messages.next()` arm: spawn dispatch_pulled.  A pull request
\* already at the server is served even when the drain flag is up; the check at the
\* loop's top then ends the loop.
Pull(s) ==
    /\ loop = "pulling" /\ msg[s] = "queued"
    /\ LET a == deliv[s] + 1 IN
         /\ msg' = [msg EXCEPT ![s] = "pending"]
         /\ deliv' = [deliv EXCEPT ![s] = a]
         /\ pc' = [pc EXCEPT ![<<s, a>>] = "insert"]
         /\ pulledBy' = [pulledBy EXCEPT ![<<s, a>>] = boot]
    /\ loop' = IF draining THEN "dropped" ELSE loop
    /\ UNCHANGED <<name, advisory, claim, saw, wal, boot, draining, crashes,
                   faults, slips, orphan, fate>>

\* The worker's drain flag is raised (DrainSignal is monotonic).
RequestDrain ==
    /\ ~draining /\ boot < MaxBoots
    /\ draining' = TRUE
    /\ UNCHANGED <<brokerVars, claim, pc, saw, wal, boot, loop, crashes, faults, slips,
                   orphan, fate>>

\* The loop sees the drain at its top, or the shutdown signal: drop(messages).
LeaveLoop ==
    /\ loop = "pulling" /\ boot < MaxBoots
    /\ loop' = "dropped"
    /\ UNCHANGED <<brokerVars, claim, pc, saw, wal, boot, draining, crashes, faults,
                   slips, orphan, fate>>

\* `stopping.store(true)` once the stream is dropped.
SetStopping ==
    /\ loop = "dropped"
    /\ loop' = "stopping"
    /\ UNCHANGED <<brokerVars, claim, pc, saw, wal, boot, draining, crashes, faults,
                   slips, orphan, fate>>

\* The next process start: a fresh worker id, a fresh loop, and none of the old tasks.
NextProcess ==
    /\ boot < MaxBoots
    /\ boot' = boot + 1
    /\ loop' = "pulling" /\ draining' = FALSE
    /\ pc' = [t \in Tasks |-> IF pc[t] = "idle" THEN "idle" ELSE "done"]
    /\ UNCHANGED <<brokerVars, claim, saw, wal, faults, slips, fate>>

\* A stop that joined every in-flight task, then the next start.
Restart ==
    /\ loop = "stopping" /\ \A s \in Seqs, a \in Attempts : ~Live(s, a)
    /\ NextProcess
    /\ UNCHANGED <<crashes, orphan>>

\* A crash takes the live tasks with it; an invocation whose row is written but whose
\* claim is not yet marked is then known only to the WAL.
Crash ==
    /\ crashes < MaxCrashes
    /\ NextProcess
    /\ crashes' = crashes + 1
    /\ orphan' = orphan \cup {t \in Tasks : pc[t] = "wal"}

--------------------------------------------------------------------------------
(***************************************************************************)
(* handle, first part: claim_delivery.                                     *)
(***************************************************************************)

Goto(s, a, to) == pc' = [pc EXCEPT ![<<s, a>>] = to]

\* One bounded store error, failed publish or lost reply.
Fault == faults < MaxFaults /\ faults' = faults + 1

\* Mutant: INSERT OR REPLACE.
ClaimInsertReplaces(s, a) ==
    /\ pc[<<s, a>>] = "insert"
    /\ claim' = [claim EXCEPT ![s] = [st |-> "claimed", by |-> boot, inv |-> 0]]
    /\ Goto(s, a, "route")
    /\ UNCHANGED <<brokerVars, saw, wal, procVars, faults, slips, orphan, fate>>

\* claim_trigger's INSERT ... ON CONFLICT DO NOTHING.
ClaimInsert(s, a) ==
    /\ pc[<<s, a>>] = "insert"
    /\ IF claim[s].st = "none"
         THEN /\ claim' = [claim EXCEPT ![s] = [st |-> "claimed", by |-> boot, inv |-> 0]]
              /\ Goto(s, a, "route")
         ELSE Goto(s, a, "select") /\ UNCHANGED claim
    /\ UNCHANGED <<brokerVars, saw, wal, procVars, faults, slips, orphan, fate>>

\* The verdicts of the SELECT, with what a claim held by this process and one held by
\* another lead to.
SelectVerdict(s, a, mine, other) ==
    /\ pc[<<s, a>>] = "select"
    /\ saw' = [saw EXCEPT ![<<s, a>>] = claim[s].by]
    /\ Goto(s, a, CASE claim[s].st = "none" -> "done"
                    [] claim[s].st = "started" -> "ack"
                    [] claim[s].by = boot -> mine
                    [] OTHER -> other)
    /\ UNCHANGED <<brokerVars, claim, wal, procVars, faults, slips, orphan, fate>>

\* Mutants: the duplicate of a live task acks; a dead process's claim is left alone;
\* a dead process's claim is taken for a finished one.
ClaimSelectAcksMine(s, a) == SelectVerdict(s, a, "ack", "takeover")
ClaimSelectNeverAdopts(s, a) == SelectVerdict(s, a, "done", "done")
ClaimSelectAcksOther(s, a) == SelectVerdict(s, a, "done", "ack")

\* claim_trigger's SELECT, a statement of its own: the row may be gone by now
\* (fetch_one fails, Stop), started (ack the duplicate), held by this process
\* (Stop, no reply) or held by another.
ClaimSelect(s, a) == SelectVerdict(s, a, "done", "takeover")

\* take_over_trigger_claim: compare-and-set on the claimant that was read.
TakeOver(s, a) ==
    /\ pc[<<s, a>>] = "takeover"
    /\ IF claim[s].st = "claimed" /\ claim[s].by = saw[<<s, a>>]
         THEN claim' = [claim EXCEPT ![s].by = boot] /\ Goto(s, a, "route")
         ELSE Goto(s, a, "done") /\ UNCHANGED claim
    /\ UNCHANGED <<brokerVars, saw, wal, procVars, faults, slips, orphan, fate>>

\* A store error in any statement of claim_delivery: Stop, no reply.
ClaimError(s, a) ==
    /\ pc[<<s, a>>] \in {"insert", "select", "takeover"}
    /\ Fault
    /\ Goto(s, a, "done")
    /\ UNCHANGED <<brokerVars, claim, saw, wal, procVars, slips, orphan, fate>>

--------------------------------------------------------------------------------
(***************************************************************************)
(* handle, second part: drain check, routing, the holds.                   *)
(***************************************************************************)

\* Give the message up for a reason and go to self.ack.
GiveUp(s, a, why) ==
    /\ fate' = [fate EXCEPT ![s] = @ \cup {why}]
    /\ Goto(s, a, "relack")
    /\ UNCHANGED <<brokerVars, claim, saw, wal, procVars, faults, slips, orphan>>

\* The drain check leaves the delivery un-acked; a bad subject or an unknown agent is
\* acked and dropped.
Route(s, a) ==
    /\ pc[<<s, a>>] = "route"
    /\ \/ /\ Goto(s, a, IF draining THEN "done" ELSE "pause")
          /\ UNCHANGED <<brokerVars, claim, saw, wal, procVars, faults, slips, orphan, fate>>
       \/ ~draining /\ GiveUp(s, a, "refused")

\* admit + parse_payload: an unpaused model starts at once; a hold interrupted by a
\* stop leaves the delivery un-acked; an invalid payload is acked and dropped.
LeavePause(s, a) ==
    /\ pc[<<s, a>>] = "pause"
    /\ \/ /\ \/ Goto(s, a, "slot")
             \/ Stopping /\ Goto(s, a, "done")
          /\ UNCHANGED <<brokerVars, claim, saw, wal, procVars, faults, slips, orphan, fate>>
       \/ GiveUp(s, a, "refused")

\* admit_agent_slot, then acquire_run_permit.  Both answer a stop with requeue_held
\* (the permit wait checks `stopping` again when it is handed a permit); a reload that
\* removed the agent is acked and dropped.
LeaveSlot(s, a) ==
    /\ pc[<<s, a>>] = "slot"
    /\ \/ /\ Goto(s, a, IF Stopping THEN "requeue" ELSE "run")
          /\ UNCHANGED <<brokerVars, claim, saw, wal, procVars, faults, slips, orphan, fate>>
       \/ GiveUp(s, a, "refused")

\* Mutant: the original is not acked.
RequeueHeldUnacked(s, a) ==
    /\ pc[<<s, a>>] = "requeue"
    /\ StreamAppend(name[s])
    /\ fate' = [fate EXCEPT ![s] = @ \cup {"requeued"}]
    /\ Goto(s, a, "done")
    /\ UNCHANGED <<claim, saw, wal, procVars, faults, slips, orphan>>

\* requeue_held: publish a copy under the same trigger id, then ack the original.
RequeueHeld(s, a) ==
    /\ pc[<<s, a>>] = "requeue"
    /\ StreamAppend(name[s])
    /\ fate' = [fate EXCEPT ![s] = @ \cup {"requeued"}]
    /\ Goto(s, a, "relack")
    /\ UNCHANGED <<claim, saw, wal, procVars, faults, slips, orphan>>

\* The publish failed, or the copy was stored and only its acknowledgement was lost:
\* either way the delivery stays un-acked.
RequeueFails(s, a) ==
    /\ pc[<<s, a>>] = "requeue"
    /\ Fault
    /\ UNCHANGED brokerVars \/ StreamAppend(name[s])
    /\ Goto(s, a, "done")
    /\ UNCHANGED <<claim, saw, wal, procVars, slips, orphan, fate>>

--------------------------------------------------------------------------------
(***************************************************************************)
(* handle, third part: the invocation up to its first WAL write, and the   *)
(* trigger's fate.                                                         *)
(***************************************************************************)

\* trigger_retry_exhausted
RetryExhausted(a) == a >= MaxDeliver

\* run_loop_inner's first upsert_invocation_state: the invocation is durable, and the
\* durable-start signal fires.
FirstWalWrite(s, a) ==
    /\ pc[<<s, a>>] = "run"
    /\ wal' = wal \cup {<<s, a>>}
    /\ Goto(s, a, "wal")
    /\ UNCHANGED <<brokerVars, claim, saw, procVars, faults, slips, orphan, fate>>

\* run_invocation returns a transient error before any WAL write: trigger_fate is
\* Retry with deliveries left and DeadLetter on the last one.
TransientFailure(s, a) ==
    /\ pc[<<s, a>>] = "run"
    /\ Goto(s, a, IF RetryExhausted(a) THEN "deadletter" ELSE "relnak")
    /\ UNCHANGED <<brokerVars, claim, saw, wal, procVars, faults, slips, orphan, fate>>

\* run_invocation returns a permanent error (its `failed` event is out): Consume.
PermanentFailure(s, a) ==
    /\ pc[<<s, a>>] = "run"
    /\ GiveUp(s, a, "failed")

\* A drain raised while the invocation sets up: run_loop_inner suspends at its first
\* step boundary, before the first WAL write, and returns Ok(Suspended): Consume.
SuspendedAtStart(s, a) ==
    /\ pc[<<s, a>>] = "run" /\ draining
    /\ GiveUp(s, a, "suspended")

\* Mutant: the exhausted trigger is NAKed.
DeadLetterNaks(s, a) ==
    /\ pc[<<s, a>>] = "deadletter"
    /\ fate' = [fate EXCEPT ![s] = @ \cup {"deadletter"}]
    /\ Goto(s, a, "relnak")
    /\ UNCHANGED <<brokerVars, claim, saw, wal, procVars, faults, slips, orphan>>

\* dead_letter_exhausted: the terminal event; a failed publish is only logged.
DeadLetter(s, a) ==
    /\ pc[<<s, a>>] = "deadletter"
    /\ \/ fate' = [fate EXCEPT ![s] = @ \cup {"deadletter"}] /\ UNCHANGED faults
       \/ Fault /\ UNCHANGED fate
    /\ Goto(s, a, "relack")
    /\ UNCHANGED <<brokerVars, claim, saw, wal, procVars, slips, orphan>>

\* Mutant: the row names the delivery after the one that runs.
MarkStartedNext(s, a) ==
    /\ pc[<<s, a>>] = "wal"
    /\ claim' = [claim EXCEPT ![s].st = "started", ![s].inv = a + 1]
    /\ Goto(s, a, "relack")
    /\ UNCHANGED <<brokerVars, saw, wal, procVars, faults, slips, orphan, fate>>

\* mark_durable_started: mark_trigger_started is an UPDATE by key that does not ask
\* how many rows it changed; then self.ack.
MarkStarted(s, a) ==
    /\ pc[<<s, a>>] = "wal"
    /\ claim' = IF claim[s].st = "none" THEN claim
                ELSE [claim EXCEPT ![s].st = "started", ![s].inv = a]
    /\ Goto(s, a, "relack")
    /\ UNCHANGED <<brokerVars, saw, wal, procVars, faults, slips, orphan, fate>>

\* The UPDATE failed: nothing is acked, the row stays claimed by this process.
MarkFails(s, a) ==
    /\ pc[<<s, a>>] = "wal"
    /\ Fault
    /\ orphan' = orphan \cup {<<s, a>>}
    /\ Goto(s, a, "done")
    /\ UNCHANGED <<brokerVars, claim, saw, wal, procVars, slips, fate>>

--------------------------------------------------------------------------------
(***************************************************************************)
(* ack and nak: release the unfinished claim first, then reply.            *)
(***************************************************************************)

\* Mutant: the state guard is dropped.
ReleasedAny(s) == [claim EXCEPT ![s] = NoClaim]

\* release_trigger_claim: DELETE ... AND state = 'claimed'.
Released(s) == IF claim[s].st = "claimed" THEN [claim EXCEPT ![s] = NoClaim] ELSE claim

\* release_unstarted_claim; a store error is only logged.
ReleaseClaim(s, a) ==
    /\ pc[<<s, a>>] \in {"relack", "relnak"}
    /\ \/ claim' = Released(s) /\ UNCHANGED faults
       \/ Fault /\ UNCHANGED claim
    /\ Goto(s, a, IF pc[<<s, a>>] = "relack" THEN "ack" ELSE "nak")
    /\ UNCHANGED <<brokerVars, saw, wal, procVars, slips, orphan, fate>>

\* msg.ack(): whatever copy it comes from, it settles the message.
Ack(s, a) ==
    /\ pc[<<s, a>>] = "ack"
    /\ \/ msg' = [msg EXCEPT ![s] = "acked"] /\ UNCHANGED faults
       \/ Fault /\ UNCHANGED msg
    /\ Goto(s, a, "done")
    /\ UNCHANGED <<name, deliv, advisory, pulledBy, claim, saw, wal, procVars,
                   slips, orphan, fate>>

\* ack_with(Nak(delay))
Nak(s, a) ==
    /\ pc[<<s, a>>] = "nak"
    /\ \/ /\ IF msg[s] = "pending" THEN Requeued(s) ELSE UNCHANGED <<msg, advisory>>
          /\ UNCHANGED faults
       \/ Fault /\ UNCHANGED <<msg, advisory>>
    /\ Goto(s, a, "done")
    /\ UNCHANGED <<name, deliv, pulledBy, claim, saw, wal, procVars, slips,
                   orphan, fate>>

--------------------------------------------------------------------------------
TaskStep(s, a) ==
    \/ ClaimInsert(s, a) \/ ClaimSelect(s, a) \/ TakeOver(s, a) \/ ClaimError(s, a)
    \/ Route(s, a) \/ LeavePause(s, a) \/ LeaveSlot(s, a)
    \/ RequeueHeld(s, a) \/ RequeueFails(s, a)
    \/ FirstWalWrite(s, a) \/ TransientFailure(s, a) \/ PermanentFailure(s, a)
    \/ SuspendedAtStart(s, a) \/ DeadLetter(s, a) \/ MarkStarted(s, a) \/ MarkFails(s, a)
    \/ ReleaseClaim(s, a) \/ Ack(s, a) \/ Nak(s, a)

Next ==
    \/ \E t \in Triggers : Publish(t)
    \/ \E s \in Seqs : AckWaitExpires(s) \/ Pull(s)
    \/ RequestDrain \/ LeaveLoop \/ SetStopping \/ Restart \/ Crash
    \/ \E s \in Seqs, a \in Attempts : TaskStep(s, a)

Spec == Init /\ [][Next]_vars

(***************************************************************************)
(* Fairness: tokio keeps polling a spawned task, JetStream keeps serving a *)
(* pull and ends every ack window, a loop that left goes on to its end and *)
(* a stopped daemon is started again by its supervisor.                    *)
(***************************************************************************)
Fairness ==
    /\ \A s \in Seqs : WF_vars(AckWaitExpires(s)) /\ WF_vars(Pull(s))
    /\ \A s \in Seqs, a \in Attempts : WF_vars(TaskStep(s, a))
    /\ WF_vars(draining /\ LeaveLoop) /\ WF_vars(SetStopping) /\ WF_vars(Restart)

FairSpec == Spec /\ Fairness

--------------------------------------------------------------------------------
(***************************************************************************)
(* Properties.                                                             *)
(***************************************************************************)

\* Every variable has its type.
TypeOK ==
    /\ msg \in [Seqs -> {"absent", "queued", "pending", "acked", "exhausted"}]
    /\ name \in [Seqs -> Triggers \cup {NoTrigger}]
    /\ deliv \in [Seqs -> 0 .. MaxDeliver]
    /\ advisory \subseteq Seqs
    /\ claim \in [Seqs -> [st : {"none", "claimed", "started"},
                          by : 0 .. MaxBoots, inv : 0 .. MaxDeliver]]
    /\ pc \in [Tasks -> PCs]
    /\ saw \in [Tasks -> 0 .. MaxBoots]
    /\ wal \subseteq Tasks /\ orphan \subseteq Tasks
    /\ boot \in Boots /\ loop \in {"pulling", "dropped", "stopping"}
    /\ draining \in BOOLEAN
    /\ crashes \in Nat /\ faults \in Nat /\ slips \in Nat
    /\ fate \in [Seqs -> SUBSET {"refused", "requeued", "failed", "suspended", "deadletter"}]
    /\ pulledBy \in [Tasks -> 0 .. MaxBoots] 

\* However deliveries, redeliveries, crashes and store errors interleave, a message
\* starts at most one invocation besides those that died between their first WAL write
\* and the claim row's mark (claim_delivery, mark_durable_started).
OneMarkedRun ==
    \A s \in Seqs, a, b \in Attempts :
        {<<s, a>>, <<s, b>>} \subseteq wal \ orphan => a = b

\* Two tasks never work on the same message at once: the claim row is a lock, even
\* across its hand-over from a dead process (claim_trigger, take_over_trigger_claim).
OneOwner ==
    \A s \in Seqs, a, b \in Attempts :
        pc[<<s, a>>] \in OwnerPCs /\ pc[<<s, b>>] \in OwnerPCs => a = b

\* A message is acked only once something else stands for it: a WAL row, a copy, or a
\* recorded reason (handle's ack sites), as long as no publish has failed.
AckedIsAccounted ==
    faults = 0 =>
        \A s \in Seqs :
            msg[s] = "acked" => fate[s] # {} \/ \E a \in Attempts : <<s, a>> \in wal

\* A delivery made to a process that is still consuming has a live task working on its
\* message: no verdict of claim_delivery strands it, as long as no store call has failed.
NoStrandedDelivery ==
    \A s \in Seqs :
        /\ faults = 0
        /\ msg[s] = "pending" /\ pulledBy[<<s, deliv[s]>>] = boot
        /\ loop = "pulling" /\ ~draining
        => \E a \in Attempts : Live(s, a)

\* Nothing has gone wrong so far: no crash, no failed call, no slipped ack window.
Undisturbed == crashes = 0 /\ faults = 0 /\ slips = 0

\* Without crashes, store errors and slipped ack windows, a trigger runs once, whatever
\* drains, shutdowns and requeues it goes through (requeue_held).
OneRunPerTrigger == Undisturbed => \A t, u \in wal : name[t[1]] = name[u[1]] => t = u

\* The dispatcher's dead letter and the server's advisory never both report the same
\* message (dead_letter_exhausted; with no crash, store error or slipped window).
EmittersExclusive == Undisturbed => \A s \in advisory : "deadletter" \notin fate[s]

\* A started claim row is the dedupe record: no step deletes it or takes its
\* invocation away (release_trigger_claim, take_over_trigger_claim).
StartedIsForever ==
    [][\A s \in Seqs : claim[s].st = "started" => claim'[s] = claim[s]]_vars

\* Every message is eventually answered for, however many times its process stops or
\* crashes: an invocation, a recorded reason, or an advisory (with no store error and no
\* slipped ack window, which cost it a delivery of its own).
EventuallyAnswered ==
    \A s \in Seqs :
        msg[s] = "queued" ~> \/ fate[s] # {} \/ s \in advisory
                             \/ \E a \in Attempts : <<s, a>> \in wal
                             \/ faults > 0 \/ slips > 0

(***************************************************************************)
(* The inductive strengthening of OneMarkedRun and OneOwner.               *)
(***************************************************************************)

\* A message that can be delivered has deliveries left.
DeliveriesLeft ==
    \A s \in Seqs : /\ msg[s] = "absent" => deliv[s] = 0
                    /\ msg[s] = "queued" => deliv[s] < MaxDeliver

\* A delivery that was not made has no task.
TaskPerDelivery ==
    \A s \in Seqs, a \in Attempts : a > deliv[s] => pc[<<s, a>>] = "idle"

\* The owner of a message holds its claim row in this process's name, until the row
\* is marked started with the owner's invocation.
OwnerHoldsClaim ==
    \A s \in Seqs, a \in Attempts :
        pc[<<s, a>>] \in OwnerPCs =>
            \/ claim[s].st = "claimed" /\ claim[s].by = boot
            \/ pc[<<s, a>>] = "relack" /\ claim[s].st = "started" /\ claim[s].inv = a

\* A take-over is only ever attempted of another process's claim.
AdoptsAnothers ==
    \A s \in Seqs, a \in Attempts : pc[<<s, a>>] = "takeover" => saw[<<s, a>>] # boot

\* An invocation with a WAL row is recorded in the claim row, is about to be, or is an
\* orphan.
RunIsRecorded ==
    \A s \in Seqs, a \in Attempts :
        <<s, a>> \in wal \ orphan =>
            \/ pc[<<s, a>>] = "wal"
            \/ claim[s].st = "started" /\ claim[s].inv = a

ClaimInv == OneOwner /\ OwnerHoldsClaim /\ AdoptsAnothers /\ RunIsRecorded
IInv == TypeOK /\ DeliveriesLeft /\ TaskPerDelivery /\ ClaimInv

(***************************************************************************)
(* What the documentation says, and the code does not do.                  *)
(***************************************************************************)

\* "The row stays in-flight ... the next binary picks it up" (run_loop_inner's drain
\* check): no trigger is acked because its invocation suspended before its first row.
DrainLosesNothing ==
    \A s \in Seqs : msg[s] = "acked" /\ "suspended" \in fate[s] =>
        \/ \E a \in Attempts : <<s, a>> \in wal
        \/ fate[s] # {"suspended"}
================================================================================
