----------------------------- MODULE ArchiveHandoff -----------------------------
(***************************************************************************)
(* What becomes of one invocation outside its run: the worker's row, the   *)
(* hand-off to the control plane's archive (publish, archive, ack, delete, *)
(* with the retry sweeper of worker/archive_retry.rs), the owner row that  *)
(* coordination_consumer.rs keeps, startup recovery                        *)
(* (fq-daemon/src/recovery.rs), operator drops and resumes, and retention. *)
(*                                                                         *)
(* The run itself is InvocationWal's; here it is where it may stand when a *)
(* durable write or an event touches the row.  One invocation, one drive   *)
(* at a time.                                                              *)
(***************************************************************************)
EXTENDS Membership, Sequences

CONSTANTS Plans,  \* bounds: how many faults, drops, resumes, rate limits (naps) and
                  \* projection gaps a behaviour has, whether heartbeats and time
                  \* are part of it, and whether the drive gets past its first action
          MaxLog  \* bound: lifecycle events the coordination durable is behind

ASSUME LogBound == MaxLog \in Nat

VARIABLES
    row,      \* invocation_state: "none", "open", "completed", "failed"
    stamped,  \* ambiguous_reported_at
    limbo,    \* the WAL holds a call dispatched and not completed
    run,      \* the drive: [pc, via, err]
    halt,     \* a halt is armed in the live registry
    log,      \* lifecycle events not acked by the coordination durable, next first
    hand,     \* the handler of the first one: [step, worker]
    ack,      \* an archive_acked on its way to this process
    swept,    \* the phase the retry sweeper read, not yet republished
    owner,    \* coordination_invocation_owner
    archive,  \* invocation_archive: "none" or the final phase
    doomed,   \* retention's candidates, not yet worked off
    ask,      \* the operator: "none", "resolve" and "publish" (a drop), "resume" (checked)
    left,     \* what the plan still allows
    started,  \* history: the row has been written
    ended,    \* history: verdicts the run wrote or the operator gave
    dropped   \* history: the owner row was given an operator's verdict, not taken back since

rollVars == <<boot, worker, beats, sent, stale, ticks, clean, revived, late, orphaned>>
runVars == <<row, stamped, limbo, run, halt>>
cpVars  == <<log, hand, owner, archive, ack>>
hist    == <<started, ended, dropped>>
vars    == <<memberVars, runVars, cpVars, swept, doomed, ask, left, hist>>

Off     == [pc |-> "off", via |-> "trigger", err |-> FALSE]
Rest    == [step |-> 0, worker |-> 0]
Agent   == 0 \* the agent id, where a worker id is expected
NoOwner == [worker |-> Agent, status |-> "none"]

Terminal(st) == st \in {"completed", "failed"}

\* Registered in the runner's live registry.
Active == run.pc \in {"acting", "step", "completing", "failing"}

Spend(what) == left[what] > 0 /\ left' = [left EXCEPT ![what] = @ - 1]
Fault       == Spend("faults")

Events == [kind : {"archived", "ambiguous", "drop"}, worker : Workers \cup {Agent},
           phase : {"none", "completed", "failed"}]
Event(kind, w, phase) == [kind |-> kind, worker |-> w, phase |-> phase]
Publish(e) == Len(log) < MaxLog /\ log' = Append(log, e)

--------------------------------------------------------------------------------
\* The drive.

\* upsert_invocation_state: insert, or update an open row.
Upsert(st) == row' = IF row \in {"none", "open"} THEN st ELSE row

Goto(pc) == run' = [run EXCEPT !.pc = pc]

\* Whoever awaits the drive: an error of an automatic resume is reported.
Ends(err) ==
    /\ run' = IF err /\ run.via = "boot" THEN [run EXCEPT !.pc = "claim"] ELSE Off
    /\ halt' = FALSE

Start ==
    /\ life = "up" /\ ~started /\ run = Off
    /\ Upsert("open")
    /\ started' = TRUE
    /\ Goto("acting")
    /\ UNCHANGED <<memberVars, stamped, limbo, halt, cpVars, swept, doomed, ask, left,
                   ended, dropped>>

\* resume: a row that is gone, terminal or ambiguous is an error.
Enter ==
    /\ run.pc = "spawned"
    /\ IF row = "open" /\ ~limbo THEN Goto("acting") /\ UNCHANGED halt ELSE Ends(TRUE)
    /\ UNCHANGED <<memberVars, row, stamped, limbo, cpVars, swept, doomed, ask, left, hist>>

\* What the last step asked for is done, or is a rate limit that parks the
\* drive.  At the boundary an armed halt or a drain stops it.
Boundary ==
    /\ run.pc = "acting"
    /\ \/ (halt \/ life = "leaving") /\ Ends(FALSE) /\ UNCHANGED left
       \/ ~halt /\ life = "up" /\ left.steps /\ Goto("step") /\ UNCHANGED <<halt, left>>
       \/ ~halt /\ life = "up" /\ Spend("naps") /\ run' = [Off EXCEPT !.pc = "asleep"]
          /\ halt' = FALSE
    /\ UNCHANGED <<memberVars, row, stamped, limbo, cpVars, swept, doomed, ask, hist>>

\* The deferral queue.
Wake ==
    /\ run.pc = "asleep" /\ life = "up"
    /\ run' = [Off EXCEPT !.pc = "spawned", !.via = "queue"]
    /\ UNCHANGED <<memberVars, row, stamped, limbo, halt, cpVars, swept, doomed, ask, left, hist>>

\* The post-step write, open or completed; a failure ends in emit_failed,
\* whose ensure_terminal passes over a row that is gone.
Step ==
    /\ run.pc = "step"
    /\ \/ Upsert("open") /\ Goto("acting") /\ UNCHANGED ended
       \/ Upsert("completed") /\ Goto("completing") /\ ended' = ended \cup {"completed"}
       \/ /\ row' = IF row = "open" THEN "failed" ELSE row
          /\ \E err \in BOOLEAN : run' = [run EXCEPT !.pc = "failing", !.err = err]
          /\ ended' = ended \cup {"failed"}
    /\ UNCHANGED <<memberVars, stamped, limbo, halt, cpVars, swept, doomed, ask, left,
                   started, dropped>>

Verdict == IF run.pc = "completing" THEN "completed" ELSE "failed"

\* publish_archived_and_mark_pending, with the phase of the caller.
PublishArchived ==
    /\ run.pc \in {"completing", "failing"}
    /\ IF Terminal(row) THEN Publish(Event("archived", boot, Verdict)) ELSE UNCHANGED log
    /\ Ends(run.err)
    /\ UNCHANGED <<memberVars, row, stamped, limbo, hand, owner, archive, ack, swept, doomed, ask,
                   left, hist>>

\* A store or bus error ends the drive where it stands.
RunBreaks ==
    /\ Active /\ Fault
    /\ limbo' \in {limbo, limbo \/ run.pc = "acting"}
    /\ Ends(TRUE)
    /\ UNCHANGED <<memberVars, row, stamped, cpVars, swept, doomed, ask, hist>>

\* publish_ambiguous_once: the stamp of an existing row is claimed ...
Claim ==
    /\ run.pc = "claim"
    /\ IF row # "none" /\ ~stamped
         THEN stamped' = TRUE /\ Goto("announce") /\ UNCHANGED life
         ELSE /\ UNCHANGED stamped /\ run' = Off
              /\ life' = IF run.via = "scan" THEN "up" ELSE life
    /\ UNCHANGED <<rollVars, row, limbo, halt, cpVars, swept, doomed, ask, left, hist>>

\* ... and the event published, at most once.
Announce ==
    /\ run.pc = "announce"
    /\ \/ Publish(Event("ambiguous", Agent, "none")) /\ UNCHANGED left
       \/ Fault /\ UNCHANGED log
    /\ run' = Off
    /\ life' = IF run.via = "scan" THEN "up" ELSE life
    /\ UNCHANGED <<rollVars, row, stamped, limbo, halt, hand, owner, archive, ack, swept, doomed, ask,
                   hist>>

--------------------------------------------------------------------------------
\* The coordination consumer: one event at a time, first deliveries in stream order; each
\* store write of a handler is a step, and an error or a crash at any of
\* them has the event handled again from the start.

First == Head(log)
At(kind, n) == Hosted /\ log # <<>> /\ First.kind = kind /\ hand.step = n
Then(n) == hand' = [hand EXCEPT !.step = n]

\* insert_archive: ON CONFLICT DO NOTHING.
InsertArchive(phase) == archive' = IF archive = "none" THEN phase ELSE archive

ArchivedInsert ==
    /\ At("archived", 0)
    /\ InsertArchive(First.phase) /\ Then(1)
    /\ UNCHANGED <<memberVars, runVars, log, owner, ack, swept, doomed, ask, left, hist>>

\* Mutant: every final phase counts as completed.
OwnerCompleted(e) ==
    IF Terminal(owner.status) THEN owner ELSE [worker |-> e.worker, status |-> "completed"]

\* A terminal owner is not downgraded.
OwnerAfterArchive(e) ==
    IF Terminal(owner.status) THEN owner ELSE [worker |-> e.worker, status |-> e.phase]

ArchivedOwner ==
    /\ At("archived", 1)
    /\ owner' = OwnerAfterArchive(First) /\ Then(2)
    /\ UNCHANGED <<memberVars, runVars, log, archive, ack, swept, doomed, ask, left, hist>>

\* The ack goes to the worker the event names; only this process's own is
\* subscribed to, and a subscription may miss it.
ArchivedAck ==
    /\ At("archived", 2)
    /\ Then(3)
    /\ \/ ack' = (ack \/ First.worker = boot) /\ UNCHANGED left
       \/ Fault /\ UNCHANGED ack
    /\ UNCHANGED <<memberVars, runVars, log, owner, archive, swept, doomed, ask, hist>>

AmbiguousOwner ==
    /\ At("ambiguous", 0)
    /\ owner' = [worker |-> Agent, status |-> "ambiguous"] /\ Then(3)
    /\ dropped' = FALSE
    /\ UNCHANGED <<memberVars, runVars, log, archive, ack, swept, doomed, ask, left, started, ended>>

\* Mutant: the owner is settled before the archive has the record.
DropOwnerFirst ==
    /\ At("drop", 0)
    /\ owner' = [owner EXCEPT !.status = "failed"] /\ Then(2)
    /\ ended' = ended \cup {"failed"}
    /\ UNCHANGED <<memberVars, runVars, log, archive, ack, swept, doomed, ask, left, started, dropped>>

DropInsert ==
    /\ At("drop", 0)
    /\ InsertArchive("failed")
    /\ hand' = [step |-> 1, worker |-> owner.worker]
    /\ ended' = ended \cup {"failed"}
    /\ UNCHANGED <<memberVars, runVars, log, owner, ack, swept, doomed, ask, left, started, dropped>>

DropOwner ==
    /\ At("drop", 1)
    /\ owner' = [worker |-> hand.worker, status |-> "failed"] /\ Then(2)
    /\ dropped' = TRUE
    /\ UNCHANGED <<memberVars, runVars, log, archive, ack, swept, doomed, ask, left, started, ended>>

\* mark_invocation_operator_terminal.
DropRow ==
    /\ At("drop", 2)
    /\ row' = IF row = "open" THEN "failed" ELSE row
    /\ Then(3)
    /\ UNCHANGED <<memberVars, stamped, limbo, run, halt, log, owner, archive, ack, swept, doomed,
                   ask, left, hist>>

\* A transient error is nacked with a delay, and the ack of a resolved event
\* may be lost: the event comes again, before or after the later ones.
HandlerFails ==
    /\ Hosted /\ log # <<>> /\ Fault
    /\ hand' = Rest
    /\ \E n \in 1..Len(log) : log' = SubSeq(log, 2, n) \o <<First>> \o SubSeq(log, n + 1, Len(log))
    /\ UNCHANGED <<memberVars, runVars, owner, archive, ack, swept, doomed, ask, hist>>

\* The durable acks what its handler resolved.
Resolve ==
    /\ Hosted /\ log # <<>> /\ hand.step = 3
    /\ log' = Tail(log) /\ hand' = Rest
    /\ UNCHANGED <<memberVars, runVars, owner, archive, ack, swept, doomed, ask, left, hist>>

--------------------------------------------------------------------------------
\* The worker's side of the hand-off.

\* ArchiveAckConsumer::handle_event deletes the row; if that fails, the next
\* republish brings another ack.
HandleAck ==
    /\ Hosted /\ ack
    /\ ack' = FALSE
    /\ \/ row' = "none" /\ stamped' = FALSE /\ UNCHANGED left
       \/ Fault /\ UNCHANGED <<row, stamped>>
    /\ UNCHANGED <<memberVars, limbo, run, halt, log, hand, owner, archive, swept, doomed, ask, hist>>

\* Mutant: only rows whose archive event was never published are listed.
ListUnpublished == Terminal(row) /\ archive = "none"

\* list_archive_pending: every terminal row still here.
ListArchivePending == Terminal(row)

\* sweep_once: list, then republish with the phase that was read.
SweepRead ==
    /\ Hosted /\ swept = "none" /\ ListArchivePending
    /\ swept' = row
    /\ UNCHANGED <<memberVars, runVars, cpVars, doomed, ask, left, hist>>

\* Mutant: a row is let go as soon as its event is published.
RepublishAndForget ==
    /\ Hosted /\ swept # "none"
    /\ swept' = "none" /\ row' = "none"
    /\ Publish(Event("archived", boot, swept))
    /\ UNCHANGED <<memberVars, stamped, limbo, run, halt, hand, owner, archive, ack, doomed, ask,
                   left, hist>>

Republish ==
    /\ Hosted /\ swept # "none"
    /\ swept' = "none"
    /\ \/ Publish(Event("archived", boot, swept)) /\ UNCHANGED left
       \/ Fault /\ UNCHANGED log
    /\ UNCHANGED <<memberVars, runVars, hand, owner, archive, ack, doomed, ask, hist>>

--------------------------------------------------------------------------------
\* Startup.

\* Mutant: owners are not looked at.
ReconcileNothing ==
    /\ life = "boot" /\ life' = "reconciled"
    /\ UNCHANGED <<rollVars, runVars, cpVars, swept, doomed, ask, left, hist>>

\* Mutant: whatever the owner says is written to the row.
ReconcileAny ==
    /\ life = "boot" /\ life' = "reconciled"
    /\ row' = IF row = "open" /\ owner # NoOwner THEN owner.status ELSE row
    /\ UNCHANGED <<rollVars, stamped, limbo, run, halt, cpVars, swept, doomed, ask, left, hist>>

\* reconcile_terminal_owners.
Reconcile ==
    /\ life = "boot" /\ life' = "reconciled"
    /\ row' = IF row = "open" /\ Terminal(owner.status) THEN owner.status ELSE row
    /\ UNCHANGED <<rollVars, stamped, limbo, run, halt, cpVars, swept, doomed, ask, left, hist>>

\* classify_in_flight and spawn_resume_tasks: what is safe is owned by this
\* worker and driven again, what is ambiguous is reported first.
Classify ==
    /\ life = "reconciled" /\ run = Off
    /\ \/ /\ row # "open"
          /\ life' = "up" /\ UNCHANGED <<owner, run>>
       \/ /\ row = "open" /\ ~limbo
          /\ owner' = [worker |-> boot, status |-> "in_flight"]
          /\ run' = [Off EXCEPT !.pc = "spawned", !.via = "boot"]
          /\ life' = "up"
       \/ /\ row = "open" /\ limbo
          /\ run' = [Off EXCEPT !.pc = "claim", !.via = "scan"]
          /\ UNCHANGED <<life, owner>>
    /\ UNCHANGED <<rollVars, row, stamped, limbo, halt, log, hand, archive, ack, swept, doomed, ask, left,
                   hist>>

Leave ==
    /\ life = "up" /\ life' = "leaving"
    /\ UNCHANGED <<rollVars, runVars, cpVars, swept, doomed, ask, left, hist>>

\* The process ends, settled or not, and its memory with it.
Exit ==
    /\ Settle \/ Die
    /\ run' = Off /\ halt' = FALSE /\ hand' = Rest /\ ack' = FALSE
    /\ swept' = "none" /\ doomed' = {} /\ ask' = "none"
    /\ limbo' \in {limbo, limbo \/ run.pc = "acting"}
    /\ UNCHANGED <<row, stamped, log, owner, archive, left, hist>>

--------------------------------------------------------------------------------
\* The operator.

\* arm_drop_halt.
AskDrop ==
    /\ life = "up" /\ ask = "none" /\ started /\ Spend("drops")
    /\ halt' = Active
    /\ ask' = IF Active THEN "publish" ELSE "resolve"
    /\ UNCHANGED <<memberVars, row, stamped, limbo, run, cpVars, swept, doomed, hist>>

\* drop_invocation for an invocation no runner drives: the projection knows
\* its agent, or its owner row is deleted, or it is unknown.
ResolveDrop ==
    /\ ask = "resolve"
    /\ \/ ask' = "publish" /\ UNCHANGED <<owner, left, dropped>>
       \/ /\ Spend("gaps")
          /\ ask' = IF owner = NoOwner THEN "none" ELSE "publish"
          /\ owner' = NoOwner /\ dropped' = FALSE
    /\ UNCHANGED <<memberVars, runVars, log, hand, archive, ack, swept, doomed, started, ended>>

PublishDrop ==
    /\ ask = "publish"
    /\ ask' = "none"
    /\ \/ Publish(Event("drop", Agent, "failed")) /\ UNCHANGED left
       \/ Fault /\ UNCHANGED log
    /\ UNCHANGED <<memberVars, runVars, hand, owner, archive, ack, swept, doomed, hist>>

\* handle_resume_request: the worker's row, then the owner, then the live
\* registry, then the WAL.
MayResume == row = "open" /\ ~Terminal(owner.status) /\ ~Active /\ limbo

AskResume ==
    /\ life = "up" /\ ask = "none" /\ Spend("resumes") /\ MayResume
    /\ ask' = "resume"
    /\ UNCHANGED <<memberVars, runVars, cpVars, swept, doomed, hist>>

SpawnResume ==
    /\ ask = "resume" /\ run = Off
    /\ ask' = "none" /\ limbo' = FALSE
    /\ run' = [Off EXCEPT !.pc = "spawned", !.via = "operator"]
    /\ UNCHANGED <<memberVars, row, stamped, halt, cpVars, swept, doomed, left, hist>>

--------------------------------------------------------------------------------
\* Retention of worker rows.

\* Mutant: only ambiguous work pins its worker.
PinsAmbiguous(w) == owner.worker = w /\ owner.status = "ambiguous"

\* owner_status_pins_worker, for the rows list_invocations_for_worker finds.
Pins(w) == owner.worker = w /\ owner.status \in {"in_flight", "ambiguous"}

RetentionList ==
    /\ Hosted /\ doomed = {}
    /\ doomed' = {w \in Workers : worker[w] = [status |-> "stale", age |-> "aged"]}
    /\ doomed' # {}
    /\ UNCHANGED <<memberVars, runVars, cpVars, swept, ask, left, hist>>

\* One candidate: its ownership is probed, and the row deleted if unpinned.
RetentionDelete(w) ==
    /\ Hosted
    /\ doomed' = doomed \ {w}
    /\ worker' = IF Pins(w) THEN worker ELSE [worker EXCEPT ![w] = NoWorker]
    /\ UNCHANGED <<boot, life, beats, sent, stale, ticks, clean, revived, late, orphaned,
                   runVars, cpVars, swept, ask, left, hist>>

--------------------------------------------------------------------------------
Init ==
    /\ MembershipInit
    /\ row \in {"none", "open"} /\ started = (row = "open")  \* new, or left by an earlier process
    /\ stamped = FALSE /\ limbo = FALSE /\ run = Off /\ halt = FALSE
    /\ log = <<>> /\ hand = Rest /\ owner = NoOwner /\ archive = "none" /\ ack = FALSE
    /\ swept = "none" /\ doomed = {} /\ ask = "none"
    /\ left \in Plans
    /\ ended = {} /\ dropped = FALSE

Drive == \/ Start \/ Enter \/ Boundary \/ Wake \/ Step \/ PublishArchived \/ RunBreaks
         \/ Claim \/ Announce

Coordinate == \/ ArchivedInsert \/ ArchivedOwner \/ ArchivedAck \/ AmbiguousOwner
              \/ DropInsert \/ DropOwner \/ DropRow \/ Resolve

HandOff == HandleAck \/ SweepRead \/ Republish

Operate == AskDrop \/ ResolveDrop \/ PublishDrop \/ AskResume \/ SpawnResume

Retain == RetentionList \/ \E w \in doomed : RetentionDelete(w)

Clock == \/ EmitBeat
         \/ \E b \in beats : HandleBeat(b)
         \/ SweepList
         \/ \E w \in stale : SweepOne(w)
         \/ SweepFails
         \/ TimePasses

Roster ==
    /\ Register \/ (left.time /\ Clock)
    /\ UNCHANGED <<runVars, cpVars, swept, doomed, ask, left, hist>>

Next == \/ Drive \/ Coordinate \/ HandlerFails \/ HandOff \/ Reconcile \/ Classify \/ Leave
        \/ Exit \/ Operate \/ Retain \/ Roster

Spec == Init /\ [][Next]_vars

\* The consumers, the sweeper and the drive are tasks of a process that
\* runs, and a process that boots goes on.
FairSpec ==
    /\ Spec
    /\ WF_vars(Drive) /\ WF_vars(Coordinate)
    /\ WF_vars(HandleAck) /\ WF_vars(SweepRead) /\ WF_vars(Republish)

--------------------------------------------------------------------------------
Drives == [pc : {"off", "spawned", "asleep", "acting", "step", "completing", "failing",
                 "claim", "announce"},
           via : {"trigger", "boot", "scan", "queue", "operator"}, err : BOOLEAN]
Handlers == [step : 0 .. 3, worker : Workers \cup {Agent}]
Owners   == [worker : Workers \cup {Agent},
             status : {"none", "in_flight", "ambiguous", "completed", "failed"}]

\* The hand-off's part of the type invariant.
HandoffTypeOK ==
    /\ row \in {"none", "open", "completed", "failed"} /\ run \in Drives
    /\ stamped \in BOOLEAN /\ limbo \in BOOLEAN /\ halt \in BOOLEAN /\ ack \in BOOLEAN
    /\ log \in Seq(Events) /\ Len(log) <= MaxLog
    /\ hand \in Handlers /\ owner \in Owners
    /\ archive \in {"none", "completed", "failed"} /\ swept \in {"none", "completed", "failed"}
    /\ doomed \subseteq Workers /\ ask \in {"none", "resolve", "publish", "resume"}
    /\ started \in BOOLEAN /\ ended \subseteq {"completed", "failed"} /\ dropped \in BOOLEAN

\* Every row, message and process variable keeps its type; in particular a
\* restart writes only a verdict into a row (reconcile_terminal_owners).
TypeOK == MembershipTypeOK /\ HandoffTypeOK

\* The worker lets go of an invocation only when the control plane has its
\* record: over crashes, lost acks and redeliveries, a row that is gone was
\* archived before (delete_invocation_state on archive_acked).
NothingLost == started /\ row = "none" => archive # "none"

\* The control plane counts an invocation as finished only when its record
\* is in the archive: both handlers insert before they touch the owner.
FinishedIsArchived == Terminal(owner.status) => archive # "none"

\* What the archive and the owner say of the outcome was the outcome: the
\* run wrote it or the operator gave it.
VerdictIsReal ==
    /\ archive # "none" => archive \in ended
    /\ Terminal(owner.status) => owner.status \in ended

\* A restart does not drive an invocation whose owner row holds an operator's
\* verdict, not even one whose row a late write brought back or whose drop was
\* cut short before it reached the row: the owner is consulted before anything
\* is classified (reconcile_terminal_owners).  What takes the verdict from the
\* owner row is an invocation.ambiguous handled later, or a later drop that
\* finds a gap in the projection.
DropSurvivesRestart ==
    [][life = "reconciled" /\ run'.pc = "spawned" => ~dropped]_vars

\* A worker row that in-flight work points at is still in the roster, so that
\* resume and drop can read it back (retention.rs, owner_status_pins_worker).
OwnedWorkerKept == owner.status = "in_flight" => worker[owner.worker].status # "absent"

\* A finished invocation's row is handed off: published, archived, acked and
\* deleted, once a process stays up, however many acks or publishes were lost.
EventuallyHandedOff == <>[](life = "up") => (Terminal(row) ~> row = "none")

\* worker/store.rs:1036: the conditional update "also prevents a late
\* live-worker write from resurrecting the invocation".
NoResurrection == [][started /\ row = "none" => row' # "open"]_vars
================================================================================
