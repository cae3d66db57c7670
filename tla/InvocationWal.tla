----------------------------- MODULE InvocationWal -----------------------------
(***************************************************************************)
(* One invocation and its write-ahead log: the host loop of                *)
(* worker/reducer/runner.rs with runner/llm.rs, runner/failure.rs,         *)
(* runner/deferral.rs and runner/replay.rs, the rows of worker/store.rs,   *)
(* startup recovery (worker/recovery.rs, fq-daemon/src/recovery.rs), the   *)
(* operator's resume (fq-daemon/src/resume.rs) and drop                    *)
(* (fq-daemon/src/operator_surface.rs, control_plane/operator.rs).         *)
(*                                                                         *)
(* A driver is one call of `run` or `resume`.  Each durable write and each *)
(* external effect is a step, so a crash may fall between any two.  A      *)
(* store or bus error at an await ends the drive where it stands           *)
(* (DriverFails).  Archiving after the terminal is ArchiveHandoff's.       *)
(***************************************************************************)
EXTENDS Reducer
LOCAL INSTANCE Functions

CONSTANTS Drivers,      \* names for drives of this invocation
          Requests,     \* operator resume requests
          Patient,      \* whether operators wait for a report before they ask
          MaxIds,       \* bound: tool call ids the provider hands out
          Shapes,       \* the model turns: [calls: how many, outcome, cut]
          Denied,       \* call ids whose tool the agent is not granted
          Missing,      \* call ids whose tool is granted but not registered
          Faulty,       \* provider answers besides turns: "error", "empty", "limited"
          Costs,        \* what an answered call may cost
          Budget,       \* agent.budget()
          MaxTimeouts,  \* [tools] max_consecutive_timeouts
          MaxCalls,     \* bound: model calls
          CallReserve,  \* bound: calls kept for the turns that follow a rate limit
          MaxCrashes,   \* bound: process crashes
          MaxDrains,    \* bound: graceful drains
          MaxFaults,    \* bound: store and bus errors
          MaxNotices,   \* bound: host notices
          MaxDrops,     \* bound: operator drops (0 or 1)
          MaxMishaps    \* bound: crashes, drains, errors and drops together

ASSUME WalBounds ==
    /\ MaxIds \in Nat /\ Costs \subseteq Nat /\ Budget \in Nat /\ MaxTimeouts \in Nat /\ MaxCalls \in Nat
    /\ CallReserve \in Nat
    /\ MaxCrashes \in Nat /\ MaxDrains \in Nat /\ MaxFaults \in Nat
    /\ MaxNotices \in Nat /\ MaxDrops \in Nat /\ MaxMishaps \in Nat
    /\ Patient \in BOOLEAN /\ Faulty \subseteq {"error", "empty", "limited"}

Ids == 1 .. MaxIds

VARIABLES
    row,      \* invocation_state: "none", "open", or terminal: "completed", "failed"
    llm,      \* llm_dispatch rows in order of intent
    tool,     \* tool_dispatch rows, by call id
    note,     \* host_notice rows: [step, seq, kind, body]
    stamped,  \* ambiguous_reported_at
    owner,    \* coordination_invocation_owner: "open" or "failed"
    drop,     \* the drop event: "none", "armed", "sent", "owned" (owner flipped), "applied"
    pc,       \* where each driver is
    mem,      \* what each driver holds in memory
    pending,  \* pending_notices: notices queued for the next boundary
    live,     \* LiveRegistry: "no", "driven", or "halting" (a halt is armed)
    sleeping, \* the invocation sits in the deferral queue
    ask,      \* where each operator resume request is
    up,       \* the daemon: "down", "starting" (classifying), "up"
    draining, \* the drain flag
    crashes, drains, faults,
    issued,   \* provider: ids handed out so far
    notices,  \* notices queued so far (names the next one)
    ran,      \* history: executions of each call's tool
    heard,    \* history: the longest request a recorded turn answered
    reports,  \* history: invocation.ambiguous events published
    verdicts, \* history: terminal events published
    wedged    \* history: a replay failed

walVars  == <<row, llm, tool, note, stamped>>
cpVars   == <<owner, drop>>
world    == <<sleeping, ask, up, draining, crashes, drains>>
procVars == <<pending, live, world, faults>>
histVars == <<ran, heard, reports, verdicts, wedged>>
vars     == <<walVars, cpVars, pc, mem, procVars, issued, notices, histVars>>

Idle == [h |-> EmptyState, last |-> NoAnswer, step |-> 0, carry |-> <<>>, queue |-> <<>>,
         caps |-> <<>>, notes |-> {}, todo |-> <<>>, got |-> <<>>, again |-> FALSE, streak |-> 0, spent |-> 0,
         call |-> 0, fail |-> "none", cost |-> 0, resp |-> NoResponse, out |-> "none",
         warned |-> FALSE, via |-> "trigger", err |-> TRUE]

NoRow == [st |-> "none", out |-> "none", seq |-> 0]

\* One more thing may go wrong.
Spare == crashes + drains + faults + (IF drop = "none" THEN 0 ELSE 1) < MaxMishaps

\* Between the first poll of run or resume and its end.
Driving(d) == pc[d] \notin {"off", "spawned", "reporting", "announcing"}
Open       == row \in {"none", "open"}

--------------------------------------------------------------------------------
\* The store.

Seqs    == {tool[c].seq : c \in Ids} \cup {llm[k].seq : k \in DOMAIN llm}
\* Mutants: counted from zero; one counter for each table.
SeqFromZero == CHOOSE m \in Seqs \cup {0} : \A n \in Seqs : n <= m
SeqPerTable == 1 + Cardinality({c \in Ids : tool[c].seq > 0})

NextSeq == 1 + (CHOOSE m \in Seqs \cup {0} : \A n \in Seqs : n <= m)

Dispatched(st) == st = "dispatched"

ToolDispatched == {c \in Ids : Dispatched(tool[c].st)}
LlmDispatched  == {k \in DOMAIN llm : Dispatched(llm[k].st)}

\* Mutant: only a dispatched model call is ambiguous.
AmbiguousLlm == LlmDispatched # {}

\* recovery::categorise; the two safe categories are driven alike.
Ambiguous == ToolDispatched # {} \/ LlmDispatched # {}

\* What the rows cost, errored ones included (RoundLedger::seed_from_wal).
Paid == FoldFunction(LAMBDA r, sum : r.cost + sum, 0, llm)

\* Mutant: the upsert is not guarded.
UpsertAlways(st) == row' = st

\* upsert_invocation_state is guarded by `terminal_at IS NULL`.
Upsert(st) == row' = IF Open THEN st ELSE row

\* Mutant: the notices are not replayed.
NoNotes(ns, step) == <<>>

\* list_host_notices for one step, in (step, seq) order.
NotesAt(ns, step) ==
    LET rows == {n \in ns : n.step = step}
    IN  [i \in 1 .. Cardinality(rows) |->
            (CHOOSE n \in rows : Cardinality({m \in rows : m.seq < n.seq}) = i - 1).body]

--------------------------------------------------------------------------------
\* Replay: from the completed rows back to what the live loop fed the reducer.

\* The completed capabilities; a deferred 429 determined nothing.
Completed ==
    {[seq |-> tool[c].seq, cap |-> ToolAnswers(<<[id |-> c, out |-> tool[c].out]>>)] :
        c \in {c \in Ids : tool[c].st = "completed"}}
    \cup {[seq |-> llm[k].seq, cap |-> ModelAnswer(llm[k].resp)] :
        k \in {k \in DOMAIN llm : llm[k].st = "completed" /\ llm[k].fail = "none"}}

InReplayOrder(rows) ==
    [i \in 1 .. Cardinality(rows) |->
        (CHOOSE r \in rows : Cardinality({q \in rows : q.seq < r.seq}) = i - 1).cap]

\* A crash inside the last batch cuts the stream back to its model turn, so
\* that the batch is run again and its completed calls are reused.
TruncateIncompleteFinalBatch(caps) ==
    LET models == {i \in DOMAIN caps : caps[i].kind = "model"}
        last   == CHOOSE i \in models : \A j \in models : j <= i
    IN  IF models # {} /\ Len(caps) - last < Len(caps[last].resp.calls)
          THEN SubSeq(caps, 1, last)
          ELSE caps

\* Mutant: a result for each row.
OneByOne(caps) == caps

\* Each maximal run of tool results becomes the one answer the live loop gave.
CoalesceToolResults(caps) ==
    LET heads   == {i \in DOMAIN caps :
                        \/ caps[i].kind = "model"
                        \/ i = 1
                        \/ caps[i - 1].kind = "model"}
        head(k) == CHOOSE i \in heads : Cardinality({j \in heads : j < i}) = k - 1
        run(i)  == {j \in i .. Len(caps) : \A m \in i .. j : caps[m].kind = "tools"}
        group(i) == IF caps[i].kind = "model"
                      THEN caps[i]
                      ELSE ToolAnswers([j \in 1 .. Cardinality(run(i)) |->
                                            caps[i + j - 1].answers[1]])
    IN  [k \in 1 .. Cardinality(heads) |-> group(head(k))]

ReplayCaps == CoalesceToolResults(TruncateIncompleteFinalBatch(InReplayOrder(Completed)))

--------------------------------------------------------------------------------
\* The host loop, run_loop_inner.

Goto(d, to)      == pc' = [pc EXCEPT ![d] = to]
Hold(d, m)       == mem' = [mem EXCEPT ![d] = m]
Ends(d)          == Goto(d, "off") /\ Hold(d, Idle)

\* queue_host_notice, or not, within the bound on notices.
MayQueue(kind, may) ==
    \/ UNCHANGED <<pending, notices>>
    \/ /\ may /\ notices < MaxNotices
       /\ notices' = notices + 1
       /\ pending' = Append(pending, [kind |-> kind, body |-> notices + 2])

\* The drive's guard is dropped: the live entry and any armed halt go with it,
\* whoever else is driving.  A drive that startup recovery spawned and that
\* returned Err is reported.
Leaves(d, err) ==
    /\ live' = "no"
    /\ IF err /\ mem[d].via = "boot" THEN Goto(d, "reporting") /\ UNCHANGED mem ELSE Ends(d)

\* Top of the loop: take the queued notices.
TakeNotices(d) ==
    /\ pc[d] = "boundary"
    /\ Goto(d, "notices")
    /\ Hold(d, [mem[d] EXCEPT !.queue = pending])
    /\ pending' = <<>>
    /\ UNCHANGED <<walVars, cpVars, live, world, faults,
                   issued, notices, histVars>>

\* Each notice is durable before the step that carries it.
InsertNotice(d) ==
    /\ pc[d] = "notices" /\ mem[d].queue # <<>>
    /\ LET m   == mem[d]
           new == [step |-> m.step, seq |-> Len(m.carry),
                   kind |-> Head(m.queue).kind, body |-> Head(m.queue).body]
       IN  IF \E n \in note : <<n.step, n.seq>> = <<new.step, new.seq>>
             THEN Leaves(d, TRUE) /\ UNCHANGED note
             ELSE /\ note' = note \cup {new}
                  /\ Hold(d, [m EXCEPT !.queue = Tail(@), !.carry = Append(@, new.body)])
                  /\ UNCHANGED <<pc, live>>
    /\ UNCHANGED <<row, llm, tool, stamped, cpVars, pending, world, faults, issued, notices, histVars>>

\* An armed halt or a drain stops the drive here, the row still open.
Suspend(d) ==
    /\ pc[d] = "notices" /\ mem[d].queue = <<>>
    /\ live = "halting" \/ draining
    /\ Leaves(d, FALSE)
    /\ UNCHANGED <<walVars, cpVars, pending, world, faults, issued, notices, histVars>>

\* The reducer step and the upsert of its state; a terminal action makes the
\* row terminal before its event is published.
ReducerStep(d) ==
    /\ pc[d] = "notices" /\ mem[d].queue = <<>>
    /\ live # "halting" /\ ~draining
    /\ LET m    == mem[d]
           out  == Step(m.h, m.last, m.carry)
           kind == out.action.kind
       IN  /\ Hold(d, [m EXCEPT !.h = out.state, !.carry = <<>>, !.step = @ + 1,
                                !.todo = out.action.calls, !.got = <<>>])
           /\ Goto(d, [model |-> "model", tools |-> "tools", complete |-> "closing",
                       failed |-> "failing", error |-> "failing"][kind])
           /\ IF kind = "error" THEN UNCHANGED row
              ELSE Upsert([model |-> "open", tools |-> "open", complete |-> "completed",
                           failed |-> "failed"][kind])
    /\ UNCHANGED <<llm, tool, note, stamped, cpVars, procVars, issued, notices, histVars>>

PublishCompleted(d) ==
    /\ pc[d] = "closing"
    /\ verdicts' = Append(verdicts, "completed")
    /\ Leaves(d, FALSE)
    /\ UNCHANGED <<walVars, cpVars, pending, world, faults,
                   issued, notices, ran, heard, reports, wedged>>

\* emit_failed: the event first, then ensure_terminal.
PublishFailed(d) ==
    /\ pc[d] = "failing"
    /\ verdicts' = Append(verdicts, "failed")
    /\ Goto(d, "sealing")
    /\ UNCHANGED <<walVars, cpVars, mem, procVars, issued, notices,
                   ran, heard, reports, wedged>>

\* Mutant: the failure is published and the row left open.
EnsureNothing(d) ==
    /\ pc[d] = "sealing"
    /\ Leaves(d, mem[d].err)
    /\ UNCHANGED <<walVars, cpVars, pending, world, faults, issued, notices, histVars>>

EnsureTerminal(d) ==
    /\ pc[d] = "sealing"
    /\ row' = IF row = "open" THEN "failed" ELSE row
    /\ Leaves(d, mem[d].err)
    /\ UNCHANGED <<llm, tool, note, stamped, cpVars, pending, world, faults, issued, notices, histVars>>

--------------------------------------------------------------------------------
\* A model call: run_model_with_llm and dispatch_llm.

SetLlm(d, r) == llm' = [llm EXCEPT ![mem[d].call] = r]

\* The budget is met before the call (a BudgetExceeded outcome, not an error).
RefuseModel(d) ==
    /\ pc[d] = "model" /\ mem[d].spent >= Budget
    /\ Goto(d, "failing") /\ Hold(d, [mem[d] EXCEPT !.err = FALSE])
    /\ UNCHANGED <<walVars, cpVars, procVars, issued, notices, histVars>>

\* Every attempt is a row of its own, under a fresh call id.
WriteLlmIntent(d) ==
    /\ pc[d] = "model" /\ mem[d].spent < Budget /\ Len(llm) < MaxCalls
    /\ llm' = Append(llm, [st |-> "intent", fail |-> "none", deferred |-> FALSE,
                           resp |-> NoResponse, cost |-> 0, seq |-> 0])
    /\ Goto(d, "calling") /\ Hold(d, [mem[d] EXCEPT !.call = Len(llm) + 1])
    /\ UNCHANGED <<row, tool, note, stamped, cpVars, procVars, issued, notices, histVars>>

\* Bound: throttled calls leave room for the turns still to come.
MayFail(f) == f = "limited" => Len(llm) + CallReserve < MaxCalls

\* chat(): the provider works while the row still reads `intent`.  A turn and
\* an empty 200 are billed; what an error cost is not known.  Call ids are fresh.
ProviderAnswers(d) ==
    /\ pc[d] = "calling"
    /\ \/ \E s \in Shapes, cost \in Costs :
              /\ issued + s.calls <= MaxIds
              /\ issued' = issued + s.calls
              /\ Hold(d, [mem[d] EXCEPT !.fail = "none", !.cost = cost,
                     !.resp = [calls   |-> [i \in 1 .. s.calls |-> issued + i],
                               outcome |-> s.outcome,
                               cut     |-> s.cut]])
       \/ \E f \in Faulty, cost \in Costs :
              /\ MayFail(f)
              /\ Hold(d, [mem[d] EXCEPT !.fail = f, !.cost = IF f = "empty" THEN cost ELSE 0,
                                       !.resp = NoResponse])
              /\ UNCHANGED issued
    /\ Goto(d, "answered")
    /\ UNCHANGED <<walVars, cpVars, procVars, notices, histVars>>

WriteLlmDispatched(d) ==
    /\ pc[d] = "answered"
    /\ SetLlm(d, [llm[mem[d].call] EXCEPT !.st = "dispatched"])
    /\ Goto(d, "landed")
    /\ Hold(d, [mem[d] EXCEPT !.spent = @ + mem[d].cost])
    /\ UNCHANGED <<row, tool, note, stamped, cpVars, procVars, issued, notices, histVars>>

\* The first turn over the context threshold queues a notice, once.
WriteLlmCompleted(d) ==
    /\ pc[d] = "landed"
    /\ LET m == mem[d]
       IN  /\ SetLlm(d, [llm[m.call] EXCEPT !.st = "completed", !.fail = m.fail,
                                !.resp = m.resp, !.cost = m.cost, !.seq = NextSeq])
           /\ MayQueue("pressure", m.fail = "none" /\ ~m.warned)
           /\ heard' = IF m.fail = "none" THEN m.h.messages ELSE heard
           /\ Hold(d, [m EXCEPT !.warned = @ \/ notices' > notices])
           /\ Goto(d, [none |-> "judging", limited |-> "deferring", error |-> "failing",
                       empty |-> "failing"][m.fail])
    /\ UNCHANGED <<row, tool, note, stamped, cpVars, live, world, faults, issued,
                   ran, reports, verdicts, wedged>>

\* The call that crosses the budget ends the invocation.
JudgeBudget(d) ==
    /\ pc[d] = "judging"
    /\ IF mem[d].spent > Budget
         THEN Goto(d, "failing") /\ Hold(d, [mem[d] EXCEPT !.err = FALSE])
         ELSE Goto(d, "boundary") /\ Hold(d, [mem[d] EXCEPT !.last = ModelAnswer(mem[d].resp)])
    /\ UNCHANGED <<walVars, cpVars, procVars, issued, notices, histVars>>

\* defer_invocation: the call's own row says that its 429 was a deferral.
MarkLlmDeferred(d) ==
    /\ pc[d] = "deferring"
    /\ SetLlm(d, [llm[mem[d].call] EXCEPT !.deferred = TRUE])
    /\ Goto(d, "parking")
    /\ UNCHANGED <<row, tool, note, stamped, cpVars, mem, procVars, issued, notices, histVars>>

\* Mutant: the deferral is announced and forgotten.
ParkForgotten(d) ==
    /\ pc[d] = "parking"
    /\ Leaves(d, FALSE)
    /\ UNCHANGED <<walVars, cpVars, pending, world, faults, issued, notices, histVars>>

\* The phase column, the event, and the deferral queue.
Park(d) ==
    /\ pc[d] = "parking"
    /\ sleeping' = TRUE
    /\ Leaves(d, FALSE)
    /\ UNCHANGED <<walVars, cpVars, pending, ask, up, draining, crashes, drains, faults, issued,
                   notices, histVars>>

--------------------------------------------------------------------------------
\* The tool calls of a turn, one after the other: run_tool.

Cur(d)        == Head(mem[d].todo)
SetTool(c, r) == tool' = [tool EXCEPT ![c] = r]

\* Granted to the agent and registered; any other call runs nothing.
Runs(c) == c \notin Denied \cup Missing

Answered(m, out) ==
    [m EXCEPT !.todo = Tail(@), !.again = FALSE,
              !.got = Append(@, [id |-> Head(m.todo), out |-> out])]

BatchDone(d) ==
    /\ pc[d] = "tools" /\ mem[d].todo = <<>>
    /\ Goto(d, "boundary")
    /\ Hold(d, [mem[d] EXCEPT !.last = ToolAnswers(mem[d].got)])
    /\ UNCHANGED <<walVars, cpVars, procVars, issued, notices, histVars>>

\* A completed row is reused, nothing is executed or published again.
ReuseResult(d) ==
    /\ pc[d] = "tools" /\ mem[d].todo # <<>>
    /\ tool[Cur(d)].st = "completed"
    /\ Hold(d, Answered(mem[d], tool[Cur(d)].out))
    /\ UNCHANGED <<walVars, cpVars, pc, procVars, issued, notices, histVars>>

\* INSERT OR REPLACE: whatever the row said, it reads `intent` now.  The call
\* of an unregistered tool comes here twice (emit_synthetic_tool_error).
WriteToolIntent(d) ==
    /\ \/ pc[d] = "tools" /\ mem[d].todo # <<>> /\ tool[Cur(d)].st # "completed"
       \/ pc[d] = "reopen"
    /\ SetTool(Cur(d), [st |-> "intent", out |-> "none", seq |-> 0])
    /\ Goto(d, "told")
    /\ UNCHANGED <<row, llm, note, stamped, cpVars, mem, procVars, issued, notices, histVars>>

\* `dispatched` before the handoff, so that it covers the execution.  A guarded
\* UPDATE that finds no row in the state it wants (somebody else drives the same
\* rows) ends the drive in Err; so does a notice whose key is taken.
WriteToolDispatched(d) ==
    /\ pc[d] = "told"
    /\ IF tool[Cur(d)].st = "intent"
         THEN /\ SetTool(Cur(d), [tool[Cur(d)] EXCEPT !.st = "dispatched"])
              /\ Goto(d, "running") /\ UNCHANGED <<mem, live>>
         ELSE Leaves(d, TRUE) /\ UNCHANGED tool
    /\ UNCHANGED <<row, llm, note, stamped, cpVars, pending, world, faults, issued, notices, histVars>>

Execute(d) ==
    /\ pc[d] = "running"
    /\ \E out \in IF Runs(Cur(d)) THEN {"ok", "timeout"} ELSE {"refused"} :
           Hold(d, [mem[d] EXCEPT !.out = out])
    /\ ran' = [ran EXCEPT ![Cur(d)] = IF Runs(Cur(d)) THEN @ + 1 ELSE @]
    /\ Goto(d, "ran")
    /\ UNCHANGED <<walVars, cpVars, procVars, issued, notices,
                   heard, reports, verdicts, wedged>>

\* A run of timed-out calls ends the invocation (judge_timeout_streak).
WriteToolCompleted(d) ==
    /\ pc[d] = "ran"
    /\ LET m      == mem[d]
           streak == [ok |-> 0, timeout |-> m.streak + 1, refused |-> m.streak][m.out]
           over   == m.out = "timeout" /\ MaxTimeouts # 0 /\ streak >= MaxTimeouts
           again  == Cur(d) \in Missing /\ ~m.again
       IN  IF tool[Cur(d)].st # "dispatched"
             THEN Leaves(d, TRUE) /\ UNCHANGED tool
             ELSE /\ SetTool(Cur(d), [st |-> "completed", out |-> m.out, seq |-> NextSeq])
                  /\ Goto(d, IF again THEN "reopen" ELSE IF over THEN "failing" ELSE "tools")
                  /\ Hold(d, IF again THEN [m EXCEPT !.again = TRUE]
                              ELSE [Answered(m, m.out) EXCEPT !.streak = streak])
                  /\ UNCHANGED live
    /\ UNCHANGED <<row, llm, note, stamped, cpVars, pending, world, faults, issued, notices, histVars>>

\* A store or bus error at any await propagates out of the drive.
DriverFails(d) ==
    /\ Driving(d) /\ faults < MaxFaults /\ Spare
    /\ faults' = faults + 1
    /\ Leaves(d, TRUE)
    /\ UNCHANGED <<walVars, cpVars, pending, world, issued, notices, histVars>>

--------------------------------------------------------------------------------
\* Resuming: the same entry for startup recovery, the deferral queue and the
\* operator.

Spawn(d, via) == Goto(d, "spawned") /\ Hold(d, [Idle EXCEPT !.via = via])

\* The state row is read; a terminal one is refused.
EnterResume(d) ==
    /\ pc[d] = "spawned"
    /\ IF row # "open"
         THEN Leaves(d, TRUE) /\ UNCHANGED <<pending, notices>>
         ELSE /\ live' = IF live = "no" THEN "driven" ELSE live
              /\ MayQueue("resume", TRUE)
              /\ Goto(d, "loading") /\ UNCHANGED mem
    /\ UNCHANGED <<walVars, cpVars, world, faults, issued, histVars>>

\* A provider failure whose `failed` a crash swallowed is reproduced; a
\* deferred 429 is not one.
LostFailure == \E k \in DOMAIN llm : llm[k].fail # "none" /\ ~llm[k].deferred

\* Mutant: a resume starts a new budget.
LoadUnpaid(d) ==
    /\ pc[d] = "loading" /\ ~Ambiguous /\ ~LostFailure
    /\ Goto(d, "replaying")
    /\ Hold(d, [mem[d] EXCEPT !.caps = ReplayCaps, !.notes = note])
    /\ UNCHANGED <<walVars, cpVars, procVars, issued, notices, histVars>>

\* The rows are read once; the totals and the notices come from that read.
LoadWal(d) ==
    /\ pc[d] = "loading"
    /\ \/ Ambiguous /\ Leaves(d, TRUE)
       \/ /\ ~Ambiguous /\ LostFailure
          /\ Goto(d, "failing") /\ UNCHANGED <<mem, live>>
       \/ /\ ~Ambiguous /\ ~LostFailure
          /\ Goto(d, "replaying")
          /\ Hold(d, [mem[d] EXCEPT !.caps = ReplayCaps, !.notes = note, !.spent = Paid])
          /\ UNCHANGED live
    /\ UNCHANGED <<walVars, cpVars, pending, world, faults, issued, notices, histVars>>

\* One reducer step for each replayed answer, with the notices of that step.
ReplayStep(d) ==
    /\ pc[d] = "replaying" /\ mem[d].caps # <<>>
    /\ LET m   == mem[d]
           out == Step(m.h, m.last, NotesAt(m.notes, m.step))
           bad == out.action.kind = "error"
       IN  /\ wedged' = (wedged \/ bad)
           /\ IF bad
                THEN Leaves(d, TRUE)
                ELSE /\ Hold(d, [m EXCEPT !.h = out.state, !.last = Head(m.caps),
                                          !.step = @ + 1, !.caps = Tail(@)])
                     /\ UNCHANGED <<pc, live>>
    /\ UNCHANGED <<walVars, cpVars, pending, world, faults, issued, notices,
                   ran, heard, reports, verdicts>>

\* Mutant: no budget check on resume.
RejoinUnchecked(d) ==
    /\ pc[d] = "replaying" /\ mem[d].caps = <<>>
    /\ Goto(d, "boundary")
    /\ Hold(d, [mem[d] EXCEPT !.notes = {}])
    /\ UNCHANGED <<walVars, cpVars, procVars, issued, notices, histVars>>

\* The budget check the crash may have swallowed, then the live loop.
Rejoin(d) ==
    /\ pc[d] = "replaying" /\ mem[d].caps = <<>>
    /\ LET m == mem[d]
       IN  \/ /\ m.spent > Budget
              /\ Goto(d, "failing") /\ Hold(d, [m EXCEPT !.err = FALSE])
           \/ /\ m.spent <= Budget
              /\ Goto(d, "boundary")
              /\ Hold(d, [m EXCEPT !.carry = NotesAt(m.notes, m.step),
                                   !.warned = \E n \in m.notes : n.kind = "pressure",
                                   !.notes = {}])
    /\ UNCHANGED <<walVars, cpVars, procVars, issued, notices, histVars>>

\* The deferral queue hands the invocation back once its pause is over.
Wake ==
    /\ sleeping /\ up = "up" /\ ~draining
    /\ sleeping' = FALSE
    /\ \E d \in Drivers : pc[d] = "off" /\ Spawn(d, "queue")
    /\ UNCHANGED <<walVars, cpVars, pending, live, ask, up, draining, crashes, drains, faults,
                   issued, notices, histVars>>

\* Mutant: the stamp is written and not looked at.
ClaimAlways(d) ==
    /\ pc[d] = "reporting"
    /\ stamped' = TRUE
    /\ Goto(d, "announcing")
    /\ UNCHANGED <<row, llm, tool, note, cpVars, mem, procVars, issued, notices, histVars>>

\* publish_ambiguous_once: claim the stamp, then publish, at most once.
ClaimReport(d) ==
    /\ pc[d] = "reporting"
    /\ stamped' = TRUE
    /\ up' = IF stamped THEN "up" ELSE up
    /\ IF stamped THEN Ends(d) ELSE Goto(d, "announcing") /\ UNCHANGED mem
    /\ UNCHANGED <<row, llm, tool, note, cpVars, pending, live, sleeping, ask, draining, crashes,
                   drains, faults, issued, notices, histVars>>

Announce(d) ==
    /\ pc[d] = "announcing"
    /\ \/ reports' = reports + 1 /\ UNCHANGED faults
       \/ faults < MaxFaults /\ Spare /\ faults' = faults + 1 /\ UNCHANGED reports
    /\ up' = "up"
    /\ Ends(d)
    /\ UNCHANGED <<walVars, cpVars, pending, live, sleeping, ask, draining, crashes, drains,
                   issued, notices, ran, heard, verdicts, wedged>>

--------------------------------------------------------------------------------
\* The daemon's life.

RequestDrain ==
    /\ up = "up" /\ ~draining /\ drains < MaxDrains /\ Spare
    /\ draining' = TRUE
    /\ drains' = drains + 1
    /\ UNCHANGED <<walVars, cpVars, pc, mem, pending, live, sleeping, ask, up, crashes, faults,
                   issued, notices, histVars>>

\* What the process loses when it ends, however it ends.
Vanish ==
    /\ up' = "down"
    /\ draining' = FALSE /\ sleeping' = FALSE /\ pending' = <<>> /\ live' = "no"
    /\ pc' = [d \in Drivers |-> "off"]
    /\ mem' = [d \in Drivers |-> Idle]
    /\ ask' = [q \in Requests |-> IF ask[q] = "new" THEN "new" ELSE "over"]
    /\ drop' = [none |-> "none", armed |-> "none", sent |-> "sent", owned |-> "sent",
                applied |-> "applied"][drop]
    /\ UNCHANGED <<walVars, owner, faults, issued, notices, histVars>>

\* Mutant: only the dispatcher's run is joined.
AwaitedRun(d) == pc[d] # "off" /\ mem[d].via = "trigger"

\* The drain wait joins the dispatcher and the startup resumes; an operator's
\* resume is a detached task that nobody joins.
Awaited(d) == pc[d] # "off" /\ mem[d].via # "operator"

DrainedExit ==
    /\ up = "up" /\ draining
    /\ \A d \in Drivers : ~Awaited(d)
    /\ Vanish
    /\ UNCHANGED <<crashes, drains>>

\* A crash, an immediate stop, or a drain past its deadline.
Crash ==
    /\ up # "down" /\ crashes < MaxCrashes /\ Spare
    /\ crashes' = crashes + 1
    /\ Vanish
    /\ UNCHANGED drains

\* reconcile_terminal_owners, then classify_in_flight, then the resumes.
Boot ==
    /\ up = "down"
    /\ row' = IF owner = "failed" /\ row = "open" THEN "failed" ELSE row
    /\ IF row' # "open"
         THEN up' = "up" /\ UNCHANGED <<pc, mem>>
         ELSE \E d \in Drivers :
                IF Ambiguous
                  THEN up' = "starting" /\ Goto(d, "reporting") /\ UNCHANGED mem
                  ELSE up' = "up" /\ Spawn(d, "boot")
    /\ UNCHANGED <<llm, tool, note, stamped, cpVars, pending, live, sleeping, ask, draining,
                   crashes, drains, faults, issued, notices, histVars>>

--------------------------------------------------------------------------------
\* The operator.

\* arm_drop_halt: a drop of a driven invocation arms its halt first.
ArmDrop ==
    /\ up = "up" /\ drop = "none" /\ MaxDrops > 0 /\ Spare
    /\ drop' = "armed"
    /\ live' = IF live = "no" THEN "no" ELSE "halting"
    /\ UNCHANGED <<walVars, owner, pc, mem, pending, world, faults, issued, notices, histVars>>

\* drop_invocation publishes the event; if that fails the halt stays armed.
PublishDrop ==
    /\ up = "up" /\ drop = "armed"
    /\ \/ drop' = "sent" /\ UNCHANGED faults
       \/ faults < MaxFaults /\ Spare /\ faults' = faults + 1 /\ drop' = "none"
    /\ UNCHANGED <<walVars, owner, pc, mem, pending, live, world, issued, notices, histVars>>

\* handle_invocation_operator_recovered: the owner in the control plane's
\* store, then the row in the worker's.
ApplyDropOwner ==
    /\ up = "up" /\ drop = "sent"
    /\ drop' = "owned" /\ owner' = "failed"
    /\ UNCHANGED <<walVars, pc, mem, procVars, issued, notices, histVars>>

ApplyDropRow ==
    /\ up = "up" /\ drop = "owned"
    /\ drop' = "applied"
    /\ row' = IF row = "open" THEN "failed" ELSE row
    /\ UNCHANGED <<llm, tool, note, stamped, owner, pc, mem, procVars, issued, notices, histVars>>

\* An invocation reported ambiguous, and ambiguous still.
Limbo == Ambiguous /\ stamped

\* handle_resume_request: the row, the owner and the live registry first.
ReplyTo(q, to) == ask' = [ask EXCEPT ![q] = to]

AdmitResume(q) ==
    /\ up = "up" /\ ask[q] = "new" /\ (Patient => Limbo)
    /\ ReplyTo(q, IF row = "open" /\ owner # "failed" /\ live = "no" THEN "checked" ELSE "over")
    /\ UNCHANGED <<walVars, cpVars, pc, mem, pending, live, sleeping, up, draining, crashes,
                   drains, faults, issued, notices, histVars>>

\* Only an invocation ambiguous in its tools can be helped.
JudgeResume(q) ==
    /\ ask[q] = "checked"
    /\ ReplyTo(q, IF LlmDispatched = {} /\ ToolDispatched # {} THEN "judged" ELSE "over")
    /\ UNCHANGED <<walVars, cpVars, pc, mem, pending, live, sleeping, up, draining, crashes,
                   drains, faults, issued, notices, histVars>>

\* inject_interrupted_results: every dispatched call is completed with an
\* interrupted error, in one transaction; finding none is not an error.
InjectInterrupted(q) ==
    /\ ask[q] = "judged"
    /\ tool' = [c \in Ids |->
          IF c \in ToolDispatched
            THEN [st |-> "completed", out |-> "interrupted",
                  seq |-> NextSeq + Cardinality({b \in ToolDispatched : b < c})]
            ELSE tool[c]]
    /\ ReplyTo(q, "injected")
    /\ UNCHANGED <<row, llm, note, stamped, cpVars, pc, mem, pending, live, sleeping, up,
                   draining, crashes, drains, faults, issued, notices, histVars>>

\* The re-drive is spawned and the request answered.
SpawnResume(q) ==
    /\ ask[q] = "injected"
    /\ \E d \in Drivers : pc[d] = "off" /\ Spawn(d, "operator")
    /\ ReplyTo(q, "over")
    /\ UNCHANGED <<walVars, cpVars, pending, live, sleeping, up, draining, crashes, drains,
                   faults, issued, notices, histVars>>

--------------------------------------------------------------------------------
\* The trigger was dispatched: one drive stands before its first step.
Init ==
    /\ row = "none" /\ llm = <<>> /\ tool = [c \in Ids |-> NoRow] /\ note = {}
    /\ stamped = FALSE /\ owner = "open" /\ drop = "none"
    /\ LET d == CHOOSE d \in Drivers : TRUE
       IN  pc = [e \in Drivers |-> IF e = d THEN "boundary" ELSE "off"]
    /\ mem = [d \in Drivers |-> Idle]
    /\ pending = <<>> /\ live = "driven" /\ sleeping = FALSE
    /\ ask = [q \in Requests |-> "new"]
    /\ up = "up" /\ draining = FALSE
    /\ crashes = 0 /\ drains = 0 /\ faults = 0 /\ issued = 0 /\ notices = 0
    /\ ran = [c \in Ids |-> 0] /\ heard = <<>> /\ reports = 0
    /\ verdicts = <<>> /\ wedged = FALSE

Drive(d) ==
    \/ TakeNotices(d) \/ InsertNotice(d) \/ Suspend(d) \/ ReducerStep(d)
    \/ PublishCompleted(d) \/ PublishFailed(d) \/ EnsureTerminal(d)
    \/ RefuseModel(d) \/ WriteLlmIntent(d) \/ ProviderAnswers(d) \/ WriteLlmDispatched(d)
    \/ WriteLlmCompleted(d) \/ JudgeBudget(d) \/ MarkLlmDeferred(d) \/ Park(d)
    \/ BatchDone(d) \/ ReuseResult(d) \/ WriteToolIntent(d) \/ WriteToolDispatched(d)
    \/ Execute(d) \/ WriteToolCompleted(d)
    \/ EnterResume(d) \/ LoadWal(d) \/ ReplayStep(d) \/ Rejoin(d)
    \/ ClaimReport(d) \/ Announce(d)

Operate(q) == AdmitResume(q) \/ JudgeResume(q) \/ InjectInterrupted(q) \/ SpawnResume(q)

Next ==
    \/ \E d \in Drivers : Drive(d) \/ DriverFails(d)
    \/ \E q \in Requests : Operate(q)
    \/ Wake \/ RequestDrain \/ DrainedExit \/ Crash \/ Boot
    \/ ArmDrop \/ PublishDrop \/ ApplyDropOwner \/ ApplyDropRow

Spec == Init /\ [][Next]_vars

\* The runtime polls its tasks, the operator's drop is delivered, a stopped
\* daemon is started again; crashes, drains and faults owe nothing.
WalFairness ==
    /\ \A d \in Drivers : WF_vars(Drive(d))
    /\ WF_vars(Wake) /\ WF_vars(DrainedExit) /\ WF_vars(Boot)
    /\ WF_vars(PublishDrop) /\ WF_vars(ApplyDropOwner) /\ WF_vars(ApplyDropRow)

--------------------------------------------------------------------------------
\* Properties.

WalRow == [st : {"none", "intent", "dispatched", "completed"},
           out : {"none", "ok", "timeout", "refused", "interrupted"},
           seq : Nat]

\* Every durable row and every process variable keeps its type, whatever is
\* cut short.
TypeOK ==
    /\ row \in {"none", "open", "completed", "failed"}
    /\ tool \in [Ids -> WalRow]
    /\ \A k \in DOMAIN llm : /\ llm[k].st \in {"intent", "dispatched", "completed"}
                             /\ llm[k].fail \in {"none", "error", "empty", "limited"}
                             /\ llm[k].cost \in Nat
    /\ owner \in {"open", "failed"}
    /\ drop \in {"none", "armed", "sent", "owned", "applied"}
    /\ live \in {"no", "driven", "halting"} /\ up \in {"down", "starting", "up"}
    /\ ran \in [Ids -> Nat]
    /\ \A c \in Ids : tool[c].seq > 0 <=> tool[c].st = "completed"
    /\ \A k \in DOMAIN llm : llm[k].seq > 0 <=> llm[k].st = "completed"

\* No two completed rows of the two tables share a place in the replay order.
ReplayOrderIsTotal ==
    /\ \A c, b \in Ids : tool[c].seq = tool[b].seq /\ tool[c].seq > 0 => c = b
    /\ \A j, k \in DOMAIN llm : llm[j].seq = llm[k].seq /\ llm[j].seq > 0 => j = k
    /\ \A c \in Ids, k \in DOMAIN llm : tool[c].seq = llm[k].seq => llm[k].seq = 0

\* No tool call is executed twice, over any number of crashes, drains and
\* resumes: `dispatched` is durable before the handoff, a dispatched row
\* blocks every automatic resume, and a completed row is reused.
ToolAtMostOnce == \A c \in Ids : ran[c] <= 1

\* Whatever a model turn was an answer to stays the beginning of every later
\* request: replay gives back the very conversation the model has seen,
\* host notices and partly answered batches included.
FaithfulReplay ==
    \A d \in Drivers : pc[d] = "calling" =>
        LET request == mem[d].h.messages
        IN  Len(heard) <= Len(request) /\ SubSeq(request, 1, Len(heard)) = heard

\* The recorded rows can always be replayed; an invocation that cannot be is
\* one nobody can finish.
NoWedgedReplay == ~wedged

\* An invocation that spent more than its budget does not complete, not even
\* when the check was lost to a crash and is made on resume.
OverspendNeverCompletes == Paid > Budget => row # "completed"

\* No model call is opened once the recorded spend has reached the budget,
\* restarts included.
NoCallPastBudget == [][Len(llm') > Len(llm) => Paid < Budget]_vars

\* A terminal row is never overwritten: neither by the drive a drop
\* overtook nor by a drop that arrives after the end.
TerminalIsForever == [][~Open => row' = row]_vars

\* invocation.ambiguous is published at most once, over any number of
\* restarts that find the same limbo.
ReportedOnce == reports <= 1

Exits == up # "down" /\ up' = "down" /\ crashes' = crashes

\* A drain that ended by itself, with no store error, leaves nothing that a
\* restart would call ambiguous and no operator has heard of.
CleanDrain == [][Exits /\ faults = 0 /\ row = "open" /\ Ambiguous => stamped]_vars

\* Without a crash or a store error an invocation publishes one terminal
\* event, over drains, restarts, deferrals and a drop.
OneVerdict == crashes = 0 /\ faults = 0 => Len(verdicts) <= 1

\* An open invocation ends, or a restart finds it ambiguous and says so.
EventuallyResolved == WalFairness => (row = "open" ~> (row # "open" \/ Limbo))

================================================================================
