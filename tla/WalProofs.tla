------------------------------- MODULE WalProofs -------------------------------
(***************************************************************************)
(* Proofs about the write-ahead log of one invocation, for any number of   *)
(* tool calls, notices, crashes, drains, faults and operator requests.     *)
(*                                                                         *)
(* Shape says that every drive holds a record with all its fields; it is   *)
(* what lets a step of one drive be read as a change to that drive alone.  *)
(* CallsInv ties where a drive stands to the rows of its tool calls: a     *)
(* call that ran has a row that says so, unless this very drive is between *)
(* running it and writing it down.  LlmInv says the same of the model      *)
(* call.  OperatorInv says what a resume request has seen, CalmInv what    *)
(* holds while no write has failed.  Together they are WalInv.             *)
(***************************************************************************)
EXTENDS InvocationWal, TLAPS

\* At most one drive of the invocation exists at a time.
OneDriveAtATime == \A d, e \in Drivers : d = e

\* Where a drive may stand: not driving; before it has read the rows; after.
Aside   == {"off", "spawned", "reporting", "announcing"}
Loaded  == {"replaying", "boundary", "notices", "model", "calling", "answered", "landed",
            "judging", "deferring", "parking", "tools", "told", "running", "ran", "reopen",
            "closing", "failing", "sealing"}

\* The actions a reducer step may ask for.
ActionKinds == {"model", "tools", "complete", "failed", "error"}

\* Whatever it is given, Harness::step returns one of the five actions.
LEMMA StepKind ==
    ASSUME NEW s, NEW last, NEW notes
    PROVE  Step(s, last, notes).action.kind \in ActionKinds
<1>1. \A x, k, cs : k \in ActionKinds => Save(x, Action(k, cs)).action.kind \in ActionKinds
  BY Zenon DEF Save, Refused, Action, ActionKinds
<1>2. \A x : Refused(x).action.kind \in ActionKinds
  BY Zenon DEF Refused, Action, ActionKinds
<1>3. \A x, k : k \in ActionKinds => Terminal(x, k).action.kind \in ActionKinds
  BY Zenon, <1>1 DEF Terminal
<1>4. "model" \in ActionKinds /\ "tools" \in ActionKinds /\ "complete" \in ActionKinds /\ "failed" \in ActionKinds
  BY Zenon DEF ActionKinds
<1>5. \A x, y : InitialStep(x, y).action.kind \in ActionKinds
  BY Zenon, <1>1, <1>4 DEF InitialStep
<1>6. \A x, l, y : ModelResponseStep(x, l, y).action.kind \in ActionKinds
  BY SMTT(60), <1>1, <1>2, <1>3, <1>4 DEF ModelResponseStep
<1>7. \A x, l, y : ToolResultsStep(x, l, y).action.kind \in ActionKinds
  BY <1>1, <1>2, <1>3, <1>4, Zenon DEF ToolResultsStep
<1>. QED
  BY Zenon, <1>2, <1>5, <1>6, <1>7 DEF Step

Failures == {"none", "error", "empty", "limited"}

\* What a drive holds in memory has the fields the proofs look at.
Fields == {"todo", "call", "fail", "via"}
Held(m) == Fields \subseteq DOMAIN m /\ m.fail \in Failures

\* What every step leaves in shape.
Shape ==
    /\ DOMAIN pc = Drivers /\ DOMAIN mem = Drivers /\ DOMAIN tool = Ids /\ DOMAIN ran = Ids
    /\ \A d \in Drivers : Held(mem[d])
    /\ \A c \in Ids : "st" \in DOMAIN tool[c]

\* A row that is not yet dispatched stands for a call that has not run; a
\* drive that has read the rows finds no dispatched call but the one it is
\* running itself, and that one has not run before; only the call of an
\* unregistered tool is ever opened again.
CallsInv ==
    /\ \A c \in Ids : tool[c].st \in {"dispatched", "completed"} \/ ran[c] = 0
    /\ \A c \in Ids : ran[c] \in {0, 1} /\ (ran[c] # 0 => Runs(c))
    /\ \A d \in Drivers :
          /\ pc[d] \in Loaded => \A c \in Ids : tool[c].st = "dispatched" =>
                                     pc[d] \in {"running", "ran"} /\ c = Cur(d)
          /\ pc[d] = "running" => \A c \in Ids : c = Cur(d) =>
                                     ran[c] = 0 /\ tool[c].st \in {"dispatched", "completed"}
          /\ pc[d] = "reopen" => Cur(d) \in Missing

ToolInv == Shape /\ CallsInv

\* The same for the model call a drive has in flight; and the live registry
\* knows of every drive.
LlmInv ==
    /\ \E S : llm \in Seq(S)
    /\ \A k \in DOMAIN llm : "st" \in DOMAIN llm[k]
    /\ \A d \in Drivers :
          /\ pc[d] \in Loaded => \A k \in DOMAIN llm :
                 llm[k].st = "dispatched" => pc[d] = "landed" /\ k = mem[d].call
          /\ pc[d] \in Loaded \cup {"loading"} => live # "no"

\* A drive with a dispatched row of its own in hand.
Work   == {"running", "ran", "landed"}
AtWork == \E d \in Drivers : pc[d] \in Work

\* Operators who wait for a report touch only what was reported; and an open
\* invocation that is ambiguous while nobody works on it is reported, or
\* about to be.
OperatorInv ==
    /\ DOMAIN ask = Requests
    /\ \A q \in Requests : ask[q] \notin {"new", "over"} => stamped /\ up # "down"
    /\ \A d \in Drivers : mem[d].via = "operator" \/ pc[d] = "announcing" => stamped
    /\ faults = 0 /\ up = "up" /\ row = "open" /\ Ambiguous /\ ~AtWork =>
          stamped \/ \E d \in Drivers : pc[d] = "reporting"

Calm == crashes = 0 /\ faults = 0

\* Without a crash or an error nothing is ambiguous but what a drive has in
\* hand, no operator is admitted, and a published verdict leaves no open row
\* to drive.
CalmInv ==
    /\ crashes \in Nat /\ faults \in Nat /\ verdicts \in Seq({"completed", "failed"})
    /\ up = "down" => \A d \in Drivers : pc[d] = "off"
    /\ \A d \in Drivers : pc[d] = "closing" => row # "open"
    /\ Calm => /\ Ambiguous => AtWork
               /\ \A q \in Requests : ask[q] \in {"new", "over"}
               /\ \A d \in Drivers : mem[d].via # "operator"
               /\ Len(verdicts) <= 1
               /\ verdicts # <<>> => \A d \in Drivers :
                      pc[d] = "sealing" \/ (pc[d] \in Aside /\ row # "open")

WalInv == ToolInv /\ LlmInv /\ OperatorInv /\ CalmInv


\* Idle memory has the fields, whoever spawns the drive.
LEMMA IdleHeld == Held(Idle) /\ \A via : Held([Idle EXCEPT !.via = via])
  BY Zenon DEF Idle, Fields, Held, Failures

\* It says the drive was a trigger's.
LEMMA IdleVia == Idle.via = "trigger"
  BY Zenon DEF Idle

\* A drive that ends is off and holds nothing.
LEMMA EndsAt ==
    ASSUME Shape, NEW d \in Drivers, Ends(d)
    PROVE  pc'[d] = "off" /\ mem'[d] = Idle
<1>1. DOMAIN pc = Drivers /\ DOMAIN mem = Drivers
  BY Zenon DEF Shape
<1>2. pc' = [pc EXCEPT ![d] = "off"] /\ mem' = [mem EXCEPT ![d] = Idle]
  BY Zenon DEF Ends, Goto, Hold
<1>. QED
  BY <1>1, <1>2, Zenon

\* Where a recorded model answer sends the drive, by the way it failed.
LEMMA AfterAnswer ==
    ASSUME NEW f \in Failures
    PROVE  [none |-> "judging", limited |-> "deferring", error |-> "failing",
            empty |-> "failing"][f] \in {"judging", "deferring", "failing"}
  BY DEF Failures

\* Hold replaces what one drive holds.
LEMMA HoldShape ==
    ASSUME Shape, NEW d \in Drivers, NEW m, Hold(d, m), Held(m)
    PROVE  DOMAIN mem' = Drivers /\ \A e \in Drivers : Held(mem'[e])
  BY Zenon DEF Hold, Shape

\* A drive that leaves is off, or goes on to report its failure.
LEMMA LeavesShape ==
    ASSUME Shape, NEW d \in Drivers, NEW err, Leaves(d, err)
    PROVE  /\ DOMAIN pc' = Drivers /\ pc'[d] \in {"off", "reporting"}
           /\ DOMAIN mem' = Drivers /\ \A e \in Drivers : Held(mem'[e])
  BY Zenon, IdleHeld, HoldShape DEF Leaves, Ends, Goto, Shape

\* The steps of the host loop keep the shape.
LEMMA LoopShape ==
    ASSUME Shape, NEW d \in Drivers,
           TakeNotices(d) \/ InsertNotice(d) \/ Suspend(d) \/ ReducerStep(d)
           \/ PublishCompleted(d) \/ PublishFailed(d) \/ EnsureTerminal(d)
    PROVE  Shape'
<1>1. CASE TakeNotices(d)
  BY Zenon, <1>1 DEF Shape, TakeNotices, Goto, Hold, Ends, Held, Fields, walVars, histVars
<1>2. CASE InsertNotice(d)
  <2>1. \/ Leaves(d, TRUE)
        \/ \E q, cs : UNCHANGED pc /\ Hold(d, [mem[d] EXCEPT !.queue = q, !.carry = cs])
    BY <1>2, Zenon DEF InsertNotice
  <2>2. UNCHANGED <<tool, ran>>
    BY <1>2, Zenon DEF InsertNotice, histVars
  <2>3. CASE Leaves(d, TRUE)
    BY <2>2, <2>3, LeavesShape, Zenon DEF Shape
  <2>4. ASSUME NEW q, NEW cs, UNCHANGED pc, Hold(d, [mem[d] EXCEPT !.queue = q, !.carry = cs]) PROVE Shape'
    BY <2>2, <2>4, HoldShape, Zenon DEF Shape, Held, Fields
  <2>. QED
    BY <2>1, <2>3, <2>4, Zenon DEF Shape
<1>3. CASE Suspend(d)
  BY <1>3, LeavesShape, Zenon DEF Shape, Suspend, Goto, Hold, Ends, Held, Fields, walVars,
     histVars
<1>4. CASE ReducerStep(d)
  <2>1. PICK kind \in ActionKinds : \E s, cs :
            /\ Hold(d, [mem[d] EXCEPT !.h = s, !.carry = <<>>, !.step = @ + 1, !.todo = cs, !.got = <<>>])
            /\ Goto(d, [model |-> "model", tools |-> "tools", complete |-> "closing",
                        failed |-> "failing", error |-> "failing"][kind])
    BY <1>4, StepKind, Zenon DEF ReducerStep
  <2>2. UNCHANGED <<tool, ran>>
    BY <1>4, Zenon DEF ReducerStep, histVars
  <2>. QED
    BY <2>1, <2>2 DEF Shape, Hold, Goto, Held, Fields
<1>5. CASE PublishCompleted(d)
  BY <1>5, LeavesShape, Zenon DEF Shape, PublishCompleted, Goto, Hold, Ends, Held, Fields,
     walVars,
     histVars
<1>6. CASE PublishFailed(d)
  BY Zenon, <1>6 DEF Shape, PublishFailed, Goto, Hold, Ends, Held, Fields, walVars, histVars
<1>7. CASE EnsureTerminal(d)
  BY Zenon, <1>7, LeavesShape DEF Shape, EnsureTerminal, Goto, Hold, Ends, Held, Fields,
     walVars,
     histVars
<1>. QED
  BY Zenon, <1>1, <1>2, <1>3, <1>4, <1>5, <1>6, <1>7

\* The steps of a model call keep the shape.
LEMMA ModelShape ==
    ASSUME Shape, NEW d \in Drivers,
           RefuseModel(d) \/ WriteLlmIntent(d) \/ ProviderAnswers(d)
           \/ WriteLlmDispatched(d) \/ WriteLlmCompleted(d) \/ JudgeBudget(d)
           \/ MarkLlmDeferred(d) \/ Park(d)
    PROVE  Shape'
<1>1. CASE RefuseModel(d)
  BY Zenon, <1>1 DEF Shape, RefuseModel, Goto, Hold, Ends, Held, Fields, walVars, histVars
<1>2. CASE WriteLlmIntent(d)
  BY Zenon, <1>2 DEF Shape, WriteLlmIntent, Goto, Hold, Ends, Held, Fields, walVars, histVars
<1>3. CASE ProviderAnswers(d)
  <2>1. \E f \in Failures : \E c, r : Hold(d, [mem[d] EXCEPT !.fail = f, !.cost = c, !.resp = r])
    <3>1. CASE \E s \in Shapes, cost \in Costs :
                   Hold(d, [mem[d] EXCEPT !.fail = "none", !.cost = cost,
                            !.resp = [calls |-> [i \in 1 .. s.calls |-> issued + i],
                                      outcome |-> s.outcome, cut |-> s.cut]])
      BY <3>1, Zenon DEF Shape, Failures
    <3>2. CASE \E f \in Faulty, cost \in Costs :
                   Hold(d, [mem[d] EXCEPT !.fail = f, !.cost = IF f = "empty" THEN cost ELSE 0,
                                          !.resp = NoResponse])
      BY <3>2, WalBounds, Zenon DEF Shape, Failures
    <3>. QED
      BY <1>3, <3>1, <3>2, Zenon DEF ProviderAnswers
  <2>2. Goto(d, "answered") /\ UNCHANGED <<tool, ran>>
    BY <1>3, Zenon DEF ProviderAnswers, walVars, histVars
  <2>. QED
    BY Zenon, <2>1, <2>2 DEF Shape, Hold, Goto, Held, Fields
<1>4. CASE WriteLlmDispatched(d)
  BY Zenon, <1>4 DEF Shape, WriteLlmDispatched, Goto, Hold, Ends, Held, Fields, walVars,
     histVars
<1>5. CASE WriteLlmCompleted(d)
  BY Zenon, <1>5 DEF Shape, WriteLlmCompleted, Goto, Hold, Ends, Held, Fields, walVars, histVars
<1>6. CASE JudgeBudget(d)
  BY <1>6 DEF Shape, JudgeBudget, Goto, Hold, Ends, Held, Fields, walVars, histVars
<1>7. CASE MarkLlmDeferred(d)
  BY Zenon, <1>7 DEF Shape, MarkLlmDeferred, Goto, Hold, Ends, Held, Fields, walVars, histVars
<1>8. CASE Park(d)
  BY <1>8, LeavesShape, Zenon DEF Shape, Park, Goto, Hold, Ends, Held, Fields, walVars, histVars
<1>. QED
  BY Zenon, <1>1, <1>2, <1>3, <1>4, <1>5, <1>6, <1>7, <1>8

\* The steps of a tool call keep the shape.
LEMMA ToolShape ==
    ASSUME Shape, NEW d \in Drivers,
           BatchDone(d) \/ ReuseResult(d) \/ WriteToolIntent(d) \/ WriteToolDispatched(d)
           \/ Execute(d) \/ WriteToolCompleted(d) \/ DriverFails(d)
    PROVE  Shape'
<1>1. CASE BatchDone(d)
  BY Zenon, <1>1 DEF Shape, BatchDone, Goto, Hold, Ends, Held, Fields, walVars, histVars
<1>2. CASE ReuseResult(d)
  BY Zenon, <1>2 DEF Shape, SetTool, Cur, Answered, ReuseResult, Goto, Hold, Ends, Held, Fields,
     walVars, histVars
<1>3. CASE WriteToolIntent(d)
  BY Zenon, <1>3 DEF Shape, SetTool, Cur, Answered, WriteToolIntent, Goto, Hold, Ends,
     Held, Fields,
     walVars, histVars
<1>4. CASE WriteToolDispatched(d)
  <2>1. \/ Leaves(d, TRUE) /\ UNCHANGED tool
        \/ /\ tool' = [tool EXCEPT ![Cur(d)] = [tool[Cur(d)] EXCEPT !.st = "dispatched"]]
           /\ Goto(d, "running") /\ UNCHANGED mem
    BY <1>4, Zenon DEF WriteToolDispatched, SetTool
  <2>2. UNCHANGED ran
    BY <1>4, Zenon DEF WriteToolDispatched, histVars
  <2>. QED
    BY <2>1, <2>2, LeavesShape, Zenon DEF Shape, Goto
<1>5. CASE Execute(d)
  <2>1. \E out : Hold(d, [mem[d] EXCEPT !.out = out])
    BY <1>5, Zenon DEF Execute
  <2>2. Goto(d, "ran") /\ UNCHANGED tool
    BY <1>5, Zenon DEF Execute, walVars
  <2>3. ran' = [ran EXCEPT ![Cur(d)] = IF Runs(Cur(d)) THEN ran[Cur(d)] + 1 ELSE ran[Cur(d)]]
    BY <1>5, Zenon DEF Execute
  <2>4. DOMAIN ran' = Ids
    BY Zenon, <2>3 DEF Shape
  <2>. QED
    BY Zenon, <2>1, <2>2, <2>4 DEF Shape, Hold, Goto, Held, Fields
<1>6. CASE WriteToolCompleted(d)
  <2>1. \/ Leaves(d, TRUE) /\ UNCHANGED tool
        \/ /\ tool' = [tool EXCEPT ![Cur(d)] = [st |-> "completed", out |-> mem[d].out, seq |-> NextSeq]]
           /\ \E to \in {"reopen", "failing", "tools"} : Goto(d, to)
           /\ \/ Hold(d, [mem[d] EXCEPT !.again = TRUE])
              \/ \E w : Hold(d, [Answered(mem[d], mem[d].out) EXCEPT !.streak = w])
    <3>. DEFINE again == Cur(d) \in Missing /\ ~mem[d].again
    <3>1. CASE again
      BY <3>1, <1>6, Zenon DEF WriteToolCompleted, SetTool
    <3>2. CASE ~again
      BY <3>2, <1>6, Zenon DEF WriteToolCompleted, SetTool
    <3>. QED
      BY <3>1, <3>2, Zenon DEF Shape
  <2>2. UNCHANGED ran
    BY <1>6, Zenon DEF WriteToolCompleted, histVars
  <2>3. CASE Leaves(d, TRUE) /\ UNCHANGED tool
    BY <2>2, <2>3, LeavesShape, Zenon DEF Shape
  <2>4. ASSUME tool' = [tool EXCEPT ![Cur(d)] = [st |-> "completed", out |-> mem[d].out, seq |-> NextSeq]],
               NEW to \in {"reopen", "failing", "tools"}, Goto(d, to),
               \/ Hold(d, [mem[d] EXCEPT !.again = TRUE])
               \/ \E w : Hold(d, [Answered(mem[d], mem[d].out) EXCEPT !.streak = w])
        PROVE  Shape'
    <3>1. \A w : Held([Answered(mem[d], mem[d].out) EXCEPT !.streak = w])
      BY Zenon DEF Shape, Answered, Held, Fields
    <3>2. Held([mem[d] EXCEPT !.again = TRUE])
      BY Zenon DEF Shape, Held, Fields
    <3>3. DOMAIN mem' = Drivers
          /\ \A e \in Drivers : Held(mem'[e])
      BY <2>4, <3>1, <3>2, HoldShape, Zenon DEF Shape
    <3>. QED
      BY Zenon, <2>2, <2>4, <3>3 DEF Shape, Goto
  <2>. QED
    BY <2>1, <2>3, <2>4, Zenon DEF Shape
<1>7. CASE DriverFails(d)
  BY <1>7, LeavesShape, Zenon DEF Shape, DriverFails, Goto, Hold, Ends, Held, Fields,
     walVars, histVars
<1>. QED
  BY Zenon, <1>1, <1>2, <1>3, <1>4, <1>5, <1>6, <1>7

\* The steps of a resume and of its report keep the shape.
LEMMA ResumeShape ==
    ASSUME Shape, NEW d \in Drivers,
           EnterResume(d) \/ LoadWal(d) \/ ReplayStep(d) \/ Rejoin(d) \/ ClaimReport(d)
           \/ Announce(d)
    PROVE  Shape'
<1>1. CASE EnterResume(d)
  BY <1>1, LeavesShape, Zenon DEF Shape, EnterResume, Goto, Hold, Ends, Held, Fields,
     walVars, histVars
<1>2. CASE LoadWal(d)
  <2>1. \/ Leaves(d, TRUE)
        \/ Goto(d, "failing") /\ UNCHANGED mem
        \/ /\ Goto(d, "replaying")
           /\ \E cs, ns, p : Hold(d, [mem[d] EXCEPT !.caps = cs, !.notes = ns, !.spent = p])
    BY <1>2, Zenon DEF LoadWal
  <2>2. UNCHANGED <<tool, ran>>
    BY <1>2, Zenon DEF LoadWal, walVars, histVars
  <2>3. CASE Leaves(d, TRUE)
    BY <2>2, <2>3, LeavesShape, Zenon DEF Shape
  <2>4. CASE Goto(d, "failing") /\ UNCHANGED mem
    BY Zenon, <2>2, <2>4 DEF Shape, Goto
  <2>5. ASSUME NEW cs, NEW ns, NEW p, Goto(d, "replaying"),
               Hold(d, [mem[d] EXCEPT !.caps = cs, !.notes = ns, !.spent = p])
        PROVE  Shape'
    BY <2>2, <2>5, HoldShape, Zenon DEF Shape, Goto, Held, Fields
  <2>. QED
    BY <2>1, <2>3, <2>4, <2>5, Zenon DEF Shape
<1>3. CASE ReplayStep(d)
  <2>1. \/ Leaves(d, TRUE)
        \/ /\ UNCHANGED pc
           /\ \E s, a, n, cs : Hold(d, [mem[d] EXCEPT !.h = s, !.last = a, !.step = n, !.caps = cs])
    BY <1>3, Zenon DEF ReplayStep
  <2>2. UNCHANGED <<tool, ran>>
    BY <1>3, Zenon DEF ReplayStep, walVars
  <2>3. CASE Leaves(d, TRUE)
    BY <2>2, <2>3, LeavesShape, Zenon DEF Shape
  <2>4. ASSUME NEW s, NEW a, NEW n, NEW cs, UNCHANGED pc,
               Hold(d, [mem[d] EXCEPT !.h = s, !.last = a, !.step = n, !.caps = cs])
        PROVE  Shape'
    BY <2>2, <2>4, HoldShape, Zenon DEF Shape, Held, Fields
  <2>. QED
    BY <2>1, <2>3, <2>4, Zenon DEF Shape
<1>4. CASE Rejoin(d)
  <2>1. \/ Goto(d, "failing") /\ Hold(d, [mem[d] EXCEPT !.err = FALSE])
        \/ /\ Goto(d, "boundary")
           /\ \E cs, w : Hold(d, [mem[d] EXCEPT !.carry = cs, !.warned = w, !.notes = {}])
    BY <1>4, Zenon DEF Rejoin
  <2>2. UNCHANGED <<tool, ran>>
    BY <1>4, Zenon DEF Rejoin, walVars, histVars
  <2>3. CASE Goto(d, "failing") /\ Hold(d, [mem[d] EXCEPT !.err = FALSE])
    BY Zenon, <2>2, <2>3, HoldShape DEF Shape, Goto, Held, Fields
  <2>4. ASSUME NEW cs, NEW w, Goto(d, "boundary"),
               Hold(d, [mem[d] EXCEPT !.carry = cs, !.warned = w, !.notes = {}])
        PROVE  Shape'
    BY <2>2, <2>4, HoldShape, Zenon DEF Shape, Goto, Held, Fields
  <2>. QED
    BY <2>1, <2>3, <2>4, Zenon DEF Shape
<1>5. CASE ClaimReport(d)
  BY Zenon, <1>5, IdleHeld DEF Shape, ClaimReport, Goto, Hold, Ends, Held, Fields, walVars,
     histVars
<1>6. CASE Announce(d)
  BY Zenon, <1>6, IdleHeld DEF Shape, Announce, Goto, Hold, Ends, Held, Fields, walVars,
     histVars
<1>. QED
  BY Zenon, <1>1, <1>2, <1>3, <1>4, <1>5, <1>6

\* The deferral queue, the daemon's life and the operator keep the shape.
LEMMA WorldShape ==
    ASSUME Shape,
           \/ \E q \in Requests : Operate(q)
           \/ Wake \/ RequestDrain \/ DrainedExit \/ Crash \/ Boot
           \/ ArmDrop \/ PublishDrop \/ ApplyDropOwner \/ ApplyDropRow
    PROVE  Shape'
<1>1. ASSUME NEW q \in Requests, AdmitResume(q) PROVE Shape'
  BY Zenon, <1>1 DEF Shape, AdmitResume, walVars, histVars
<1>2. ASSUME NEW q \in Requests, JudgeResume(q) PROVE Shape'
  BY Zenon, <1>2 DEF Shape, JudgeResume, walVars, histVars
<1>3. ASSUME NEW q \in Requests, InjectInterrupted(q) PROVE Shape'
  BY Zenon, <1>3 DEF Shape, InjectInterrupted, walVars, histVars
<1>4. ASSUME NEW q \in Requests, SpawnResume(q) PROVE Shape'
  BY Zenon, <1>4, IdleHeld, HoldShape DEF Shape, SpawnResume, Goto, Spawn, walVars, histVars
<1>5. CASE Wake
  BY Zenon, <1>5, IdleHeld, HoldShape DEF Shape, Wake, Goto, Spawn, walVars, histVars
<1>6. CASE RequestDrain
  BY Zenon, <1>6 DEF Shape, RequestDrain, walVars, histVars
<1>7. CASE DrainedExit
  BY Zenon, <1>7, IdleHeld DEF Shape, DrainedExit, Vanish, walVars, histVars
<1>8. CASE Crash
  BY Zenon, <1>8, IdleHeld DEF Shape, Crash, Vanish, walVars, histVars
<1>9. CASE Boot
  BY Zenon, <1>9, IdleHeld, HoldShape DEF Shape, Boot, Goto, Spawn, walVars, histVars
<1>10. CASE ArmDrop
  BY Zenon, <1>10 DEF Shape, ArmDrop, walVars, histVars
<1>11. CASE PublishDrop
  BY Zenon, <1>11 DEF Shape, PublishDrop, walVars, histVars
<1>12. CASE ApplyDropOwner
  BY Zenon, <1>12 DEF Shape, ApplyDropOwner, walVars, histVars
<1>13. CASE ApplyDropRow
  BY Zenon, <1>13 DEF Shape, ApplyDropRow, walVars, histVars
<1>. QED
  BY Zenon, <1>1, <1>2, <1>3, <1>4, <1>5, <1>6, <1>7, <1>8, <1>9, <1>10, <1>11, <1>12,
     <1>13 DEF Operate

\* Every step keeps the tables and the memory in shape.
LEMMA ShapeStep ==
    ASSUME Shape, [Next]_vars PROVE Shape'
<1>1. CASE UNCHANGED vars
  BY Zenon, <1>1 DEF Shape, vars, walVars, histVars
<1>2. ASSUME NEW d \in Drivers, Drive(d) \/ DriverFails(d) PROVE Shape'
  BY <1>2, LoopShape, ModelShape, ToolShape, ResumeShape, Zenon DEF Drive
<1>. QED
  BY <1>1, <1>2, WorldShape, Zenon DEF Next

\* A step that leaves the rows and the executions alone keeps CallsInv, as long
\* as its drive does not come to hold a call it did not open, nor to have read
\* rows one of which is dispatched.
LEMMA QuietCalls ==
    ASSUME OneDriveAtATime, CallsInv, NEW d \in Drivers, UNCHANGED <<tool, ran>>,
           pc'[d] \notin {"running", "ran", "reopen"},
           pc'[d] \in Loaded =>
               \/ pc[d] \in Loaded /\ pc[d] \notin {"running", "ran"}
               \/ ToolDispatched = {}
    PROVE  CallsInv'
<1>1. Drivers = {d}
  BY Zenon DEF OneDriveAtATime
<1>2. \A c \in Ids : tool[c].st = "dispatched" => ToolDispatched # {}
  BY Zenon DEF ToolDispatched, Dispatched
<1>. QED
  BY Zenon, <1>1, <1>2 DEF CallsInv, Runs

\* The steps of the host loop run no tool.
LEMMA LoopCalls ==
    ASSUME OneDriveAtATime, Shape, CallsInv, NEW d \in Drivers,
           TakeNotices(d) \/ InsertNotice(d) \/ Suspend(d) \/ ReducerStep(d)
           \/ PublishCompleted(d) \/ PublishFailed(d) \/ EnsureTerminal(d)
    PROVE  CallsInv'
<1>1. UNCHANGED <<tool, ran>>
  BY Zenon DEF TakeNotices, InsertNotice, Suspend, ReducerStep, PublishCompleted, PublishFailed,
               EnsureTerminal, walVars, histVars
<1>2. pc[d] \in Loaded /\ pc[d] \notin {"running", "ran"}
  BY Zenon DEF TakeNotices, InsertNotice, Suspend, ReducerStep, PublishCompleted, PublishFailed,
         EnsureTerminal, Loaded
<1>3. pc'[d] \notin {"running", "ran", "reopen"}
  <2>1. CASE TakeNotices(d) \/ PublishFailed(d)
    BY Zenon, <2>1 DEF TakeNotices, PublishFailed, Goto, Shape
  <2>2. CASE InsertNotice(d)
    BY <2>2, <1>2, LeavesShape, Zenon DEF InsertNotice
  <2>3. CASE Suspend(d) \/ PublishCompleted(d) \/ EnsureTerminal(d)
    BY <2>3, LeavesShape, Zenon DEF Suspend, PublishCompleted, EnsureTerminal
  <2>4. CASE ReducerStep(d)
    <3>1. PICK kind \in ActionKinds :
              Goto(d, [model |-> "model", tools |-> "tools", complete |-> "closing",
                       failed |-> "failing", error |-> "failing"][kind])
      BY <2>4, StepKind, Zenon DEF ReducerStep
    <3>. QED
      BY <3>1 DEF ActionKinds, Goto, Shape
  <2>. QED
    BY Zenon, <2>1, <2>2, <2>3, <2>4
<1>. QED
  BY Zenon, <1>1, <1>2, <1>3, QuietCalls

\* Nor do the steps of a model call.
LEMMA ModelCalls ==
    ASSUME OneDriveAtATime, Shape, CallsInv, NEW d \in Drivers,
           RefuseModel(d) \/ WriteLlmIntent(d) \/ ProviderAnswers(d)
           \/ WriteLlmDispatched(d) \/ WriteLlmCompleted(d) \/ JudgeBudget(d)
           \/ MarkLlmDeferred(d) \/ Park(d)
    PROVE  CallsInv'
<1>1. UNCHANGED <<tool, ran>>
  BY Zenon DEF RefuseModel, WriteLlmIntent, ProviderAnswers, WriteLlmDispatched,
     WriteLlmCompleted,
               JudgeBudget, MarkLlmDeferred, Park, walVars, histVars
<1>2. pc[d] \in Loaded /\ pc[d] \notin {"running", "ran"}
  BY Zenon DEF RefuseModel, WriteLlmIntent, ProviderAnswers, WriteLlmDispatched,
     WriteLlmCompleted,
         JudgeBudget, MarkLlmDeferred, Park, Loaded
<1>3. pc'[d] \notin {"running", "ran", "reopen"}
  <2>1. CASE RefuseModel(d) \/ WriteLlmIntent(d) \/ ProviderAnswers(d)
             \/ WriteLlmDispatched(d) \/ MarkLlmDeferred(d)
    BY <2>1, Zenon DEF RefuseModel, WriteLlmIntent, ProviderAnswers, WriteLlmDispatched,
       MarkLlmDeferred, Goto, Shape
  <2>2. CASE WriteLlmCompleted(d)
    <3>1. Goto(d, [none |-> "judging", limited |-> "deferring", error |-> "failing",
                   empty |-> "failing"][mem[d].fail])
      BY <2>2, Zenon DEF WriteLlmCompleted
    <3>. QED
      BY <3>1 DEF Shape, Held, Failures, Goto
  <2>3. CASE JudgeBudget(d)
    BY Zenon, <2>3 DEF JudgeBudget, Goto, Shape
  <2>4. CASE Park(d)
    BY <2>4, LeavesShape, Zenon DEF Park
  <2>. QED
    BY Zenon, <2>1, <2>2, <2>3, <2>4
<1>. QED
  BY Zenon, <1>1, <1>2, <1>3, QuietCalls
\* A tool call: `dispatched` is written before the tool runs, only over an
\* intent; a completed row is never run again, and the row a drive opens was
\* not dispatched by anybody else.
LEMMA ToolCalls ==
    ASSUME OneDriveAtATime, Shape, CallsInv, NEW d \in Drivers,
           BatchDone(d) \/ ReuseResult(d) \/ WriteToolIntent(d) \/ WriteToolDispatched(d)
           \/ Execute(d) \/ WriteToolCompleted(d) \/ DriverFails(d)
    PROVE  CallsInv'
<1>0. Drivers = {d}
  BY Zenon DEF OneDriveAtATime
<1>1. CASE BatchDone(d) \/ ReuseResult(d)
  <2>1. UNCHANGED <<tool, ran>> /\ pc[d] = "tools" /\ pc'[d] \in {"boundary", "tools"}
    BY Zenon, <1>1 DEF BatchDone, ReuseResult, Goto, Shape, walVars, histVars
  <2>. QED
    BY Zenon, <2>1, QuietCalls DEF Loaded
<1>2. CASE WriteToolIntent(d)
  <2>1. /\ tool' = [tool EXCEPT ![Cur(d)] = [st |-> "intent", out |-> "none", seq |-> 0]]
        /\ pc' = [pc EXCEPT ![d] = "told"] /\ UNCHANGED <<mem, ran>>
        /\ \/ pc[d] = "tools" /\ tool[Cur(d)].st # "completed"
           \/ pc[d] = "reopen"
    BY <1>2, Zenon DEF WriteToolIntent, SetTool, Goto, histVars
  <2>2. \A c \in Ids : tool[c].st # "dispatched" /\ (c = Cur(d) => ran[c] = 0)
    BY <2>1 DEF CallsInv, Loaded, Runs
  <2>3. \A c \in Ids : tool'[c].st = IF c = Cur(d) THEN "intent" ELSE tool[c].st
    BY <2>1, Zenon DEF Shape
  <2>4. pc'[d] = "told"
    BY <2>1, Zenon DEF Shape
  <2>. QED
    BY <1>0, <2>1, <2>2, <2>3, <2>4 DEF CallsInv, Runs, Loaded
<1>3. CASE WriteToolDispatched(d)
  <2>1. CASE tool[Cur(d)].st = "intent"
    <3>1. /\ tool' = [tool EXCEPT ![Cur(d)] = [tool[Cur(d)] EXCEPT !.st = "dispatched"]]
          /\ pc' = [pc EXCEPT ![d] = "running"] /\ UNCHANGED <<mem, ran>>
          /\ pc[d] = "told"
      BY Zenon, <1>3, <2>1 DEF WriteToolDispatched, SetTool, Goto, histVars
    <3>2. \A c \in Ids : tool[c].st # "dispatched" /\ (c = Cur(d) => ran[c] = 0)
      BY Zenon, <2>1, <3>1 DEF CallsInv, Loaded
    <3>3. \A c \in Ids : tool'[c].st = IF c = Cur(d) THEN "dispatched" ELSE tool[c].st
      BY Zenon, <3>1 DEF Shape
    <3>4. pc'[d] = "running" /\ Cur(d)' = Cur(d)
      BY Zenon, <3>1 DEF Shape, Cur
    <3>. QED
      BY <1>0, <3>1, <3>2, <3>3, <3>4 DEF CallsInv, Runs, Loaded
  <2>2. CASE tool[Cur(d)].st # "intent"
    <3>1. Leaves(d, TRUE) /\ UNCHANGED <<tool, ran>>
      BY <1>3, <2>2, Zenon DEF WriteToolDispatched, histVars
    <3>. QED
      BY <3>1, LeavesShape, QuietCalls, Zenon DEF Loaded
  <2>. QED
    BY Zenon, <2>1, <2>2
<1>4. CASE Execute(d)
  <2>1. /\ ran' = [ran EXCEPT ![Cur(d)] = IF Runs(Cur(d)) THEN ran[Cur(d)] + 1 ELSE ran[Cur(d)]]
        /\ pc[d] = "running" /\ UNCHANGED tool /\ Goto(d, "ran")
        /\ \E out : Hold(d, [mem[d] EXCEPT !.out = out])
    BY <1>4, Zenon DEF Execute, walVars
  <2>2. pc'[d] = "ran"
    BY Zenon, <2>1 DEF Goto, Shape
  <2>3. Cur(d)' = Cur(d)
    BY Zenon, <2>1 DEF Hold, Shape, Held, Fields, Cur
  <2>4. \A c \in Ids : c = Cur(d) => ran[c] = 0 /\ tool[c].st \in {"dispatched", "completed"}
    BY Zenon, <2>1 DEF CallsInv
  <2>5. \A c \in Ids : ran'[c] = IF c = Cur(d) /\ Runs(c) THEN 1 ELSE ran[c]
    BY <2>1, <2>4 DEF Shape
  <2>. QED
    BY <1>0, <2>1, <2>2, <2>3, <2>4, <2>5 DEF CallsInv, Runs, Loaded
<1>5. CASE WriteToolCompleted(d)
  <2>1. CASE tool[Cur(d)].st # "dispatched"
    <3>1. Leaves(d, TRUE) /\ UNCHANGED <<tool, ran>>
      BY <1>5, <2>1, Zenon DEF WriteToolCompleted, histVars
    <3>. QED
      BY <3>1, LeavesShape, QuietCalls, Zenon DEF Loaded
  <2>2. CASE tool[Cur(d)].st = "dispatched"
    <3>. DEFINE again == Cur(d) \in Missing /\ ~mem[d].again
    <3>1. /\ tool' = [tool EXCEPT ![Cur(d)] = [st |-> "completed", out |-> mem[d].out, seq |-> NextSeq]]
          /\ UNCHANGED ran /\ pc[d] = "ran"
      BY <1>5, <2>2, Zenon DEF WriteToolCompleted, SetTool, histVars
    <3>2. again => Goto(d, "reopen") /\ Hold(d, [mem[d] EXCEPT !.again = TRUE])
      BY <1>5, <2>2, Zenon DEF WriteToolCompleted
    <3>3. ~again => \E to \in {"failing", "tools"} : Goto(d, to)
      BY <1>5, <2>2, Zenon DEF WriteToolCompleted
    <3>4. \A c \in Ids : tool'[c].st = IF c = Cur(d) THEN "completed" ELSE tool[c].st
      BY Zenon, <3>1 DEF Shape
    <3>5. pc'[d] \in {"reopen", "failing", "tools"} /\ (pc'[d] = "reopen" => Cur(d)' \in Missing)
      BY Zenon, <3>2, <3>3 DEF Goto, Hold, Shape, Held, Fields, Cur
    <3>6. \A c \in Ids : tool[c].st = "dispatched" => c = Cur(d)
      BY <3>1, Zenon DEF CallsInv, Loaded
    <3>. HIDE DEF again
    <3>. QED
      BY <1>0, <3>1, <3>4, <3>5, <3>6 DEF CallsInv, Runs, Loaded
  <2>. QED
    BY Zenon, <2>1, <2>2
<1>6. CASE DriverFails(d)
  <2>1. Leaves(d, TRUE) /\ UNCHANGED <<tool, ran>>
    BY <1>6, Zenon DEF DriverFails, walVars, histVars
  <2>. QED
    BY <2>1, LeavesShape, QuietCalls, Zenon DEF Loaded
<1>. QED
  BY Zenon, <1>1, <1>2, <1>3, <1>4, <1>5, <1>6

\* A resume reads the rows only if nothing is dispatched.
LEMMA ResumeCalls ==
    ASSUME OneDriveAtATime, Shape, CallsInv, NEW d \in Drivers,
           EnterResume(d) \/ LoadWal(d) \/ ReplayStep(d) \/ Rejoin(d) \/ ClaimReport(d)
           \/ Announce(d)
    PROVE  CallsInv'
<1>1. UNCHANGED <<tool, ran>>
  BY Zenon DEF EnterResume, LoadWal, ReplayStep, Rejoin, ClaimReport, Announce, walVars,
     histVars
<1>2. CASE EnterResume(d)
  <2>1. pc'[d] \in {"off", "reporting", "loading"}
    BY <1>2, LeavesShape, Zenon DEF EnterResume, Goto, Shape
  <2>. QED
    BY <1>1, <2>1, QuietCalls, Zenon DEF Loaded
<1>3. CASE LoadWal(d)
  <2>1. pc'[d] \in {"off", "reporting"} \/ (pc'[d] \in {"failing", "replaying"} /\ ~Ambiguous)
    BY <1>3, LeavesShape, Zenon DEF LoadWal, Goto, Shape
  <2>. QED
    BY <1>1, <2>1, QuietCalls, Zenon DEF Loaded, Ambiguous
<1>4. CASE ReplayStep(d)
  <2>1. pc[d] = "replaying" /\ (Leaves(d, TRUE) \/ UNCHANGED pc)
    BY <1>4, Zenon DEF ReplayStep
  <2>. QED
    BY <1>1, <2>1, LeavesShape, QuietCalls, Zenon DEF Loaded
<1>5. CASE Rejoin(d)
  <2>1. pc[d] = "replaying" /\ (Goto(d, "failing") \/ Goto(d, "boundary"))
    BY <1>5, Zenon DEF Rejoin
  <2>. QED
    BY <1>1, <2>1, QuietCalls, Zenon DEF Loaded, Goto, Shape
<1>6. CASE ClaimReport(d) \/ Announce(d)
  <2>1. pc'[d] \in {"off", "announcing"}
    BY <1>6, Zenon DEF ClaimReport, Announce, Ends, Goto, Shape
  <2>. QED
    BY <1>1, <2>1, QuietCalls, Zenon DEF Loaded
<1>. QED
  BY Zenon, <1>2, <1>3, <1>4, <1>5, <1>6

\* An injected result completes a dispatched row and starts no call.
LEMMA WorldCalls ==
    ASSUME OneDriveAtATime, Shape, CallsInv,
           \/ \E q \in Requests : Operate(q)
           \/ Wake \/ RequestDrain \/ DrainedExit \/ Crash \/ Boot
           \/ ArmDrop \/ PublishDrop \/ ApplyDropOwner \/ ApplyDropRow
    PROVE  CallsInv'
<1>1. ASSUME NEW q \in Requests, AdmitResume(q) \/ JudgeResume(q) PROVE CallsInv'
  <2>1. UNCHANGED <<tool, ran, pc, mem>>
    BY Zenon, <1>1 DEF AdmitResume, JudgeResume, walVars, histVars
  <2>. QED
    BY <2>1, Zenon DEF CallsInv, Cur, Runs
<1>2. ASSUME NEW q \in Requests, InjectInterrupted(q) PROVE CallsInv'
  <2>1. UNCHANGED <<ran, pc, mem>>
    BY <1>2, Zenon DEF InjectInterrupted, histVars
  <2>2. \A c \in Ids : tool'[c].st = IF tool[c].st = "dispatched" THEN "completed" ELSE tool[c].st
    BY <1>2, Zenon DEF InjectInterrupted, ToolDispatched, Dispatched
  <2>. QED
    BY <2>1, <2>2, SMTT(30) DEF CallsInv, Cur, Runs
<1>3. ASSUME NEW q \in Requests, SpawnResume(q) PROVE CallsInv'
  <2>1. PICK d \in Drivers : Spawn(d, "operator")
    BY Zenon, <1>3 DEF SpawnResume
  <2>2. UNCHANGED <<tool, ran>> /\ pc'[d] = "spawned"
    BY Zenon, <1>3, <2>1 DEF SpawnResume, Spawn, Goto, Shape, walVars, histVars
  <2>. QED
    BY Zenon, <2>2, QuietCalls DEF Loaded
<1>4. CASE Wake
  <2>1. PICK d \in Drivers : Spawn(d, "queue")
    BY Zenon, <1>4 DEF Wake
  <2>2. UNCHANGED <<tool, ran>> /\ pc'[d] = "spawned"
    BY Zenon, <1>4, <2>1 DEF Wake, Spawn, Goto, Shape, walVars, histVars
  <2>. QED
    BY <2>2, QuietCalls, Zenon DEF Loaded
<1>5. CASE DrainedExit \/ Crash
  <2>1. UNCHANGED <<tool, ran>> /\ \A d \in Drivers : pc'[d] = "off"
    BY Zenon, <1>5 DEF DrainedExit, Crash, Vanish, walVars, histVars
  <2>. QED
    BY Zenon, <2>1 DEF CallsInv, Runs, Loaded
<1>6. CASE Boot
  <2>1. UNCHANGED <<tool, ran>>
    BY Zenon, <1>6 DEF Boot, histVars
  <2>2. CASE UNCHANGED <<pc, mem>>
    BY Zenon, <2>1, <2>2 DEF CallsInv, Cur, Runs
  <2>3. ASSUME NEW d \in Drivers, Goto(d, "reporting") \/ Spawn(d, "boot") PROVE CallsInv'
    BY Zenon, <2>1, <2>3, QuietCalls DEF Goto, Spawn, Shape, Loaded
  <2>. QED
    BY Zenon, <1>6, <2>2, <2>3 DEF Boot
<1>7. CASE RequestDrain \/ ArmDrop \/ PublishDrop \/ ApplyDropOwner \/ ApplyDropRow
  <2>1. UNCHANGED <<tool, ran, pc, mem>>
    BY <1>7, Zenon DEF RequestDrain, ArmDrop, PublishDrop, ApplyDropOwner, ApplyDropRow,
       walVars,
       histVars
  <2>. QED
    BY Zenon, <2>1 DEF CallsInv, Cur, Runs
<1>. QED
  BY Zenon, <1>1, <1>2, <1>3, <1>4, <1>5, <1>6, <1>7 DEF Operate
\* With one drive at a time, every step keeps what the log says about the
\* tool calls.
LEMMA ToolStep ==
    ASSUME OneDriveAtATime, ToolInv, [Next]_vars PROVE ToolInv'
<1>1. Shape'
  BY Zenon, ShapeStep DEF ToolInv
<1>2. CASE UNCHANGED vars
  <2>1. UNCHANGED <<tool, ran, pc, mem>>
    BY Zenon, <1>2 DEF vars, walVars, histVars
  <2>. QED
    BY Zenon, <1>1, <2>1 DEF ToolInv, CallsInv, Cur, Runs
<1>3. ASSUME NEW d \in Drivers, Drive(d) \/ DriverFails(d) PROVE CallsInv'
  BY <1>3, LoopCalls, ModelCalls, ToolCalls, ResumeCalls, Zenon DEF Drive, ToolInv
<1>. QED
  BY <1>1, <1>2, <1>3, WorldCalls, Zenon DEF Next, ToolInv

\* The trigger's drive starts with no row.
LEMMA ToolInit == ASSUME Init PROVE ToolInv
<1>1. DOMAIN pc = Drivers /\ \A d \in Drivers : pc[d] \in {"boundary", "off"}
  BY Zenon DEF Init
<1>2. DOMAIN mem = Drivers /\ \A d \in Drivers : mem[d] = Idle
  BY Zenon DEF Init
<1>3. DOMAIN tool = Ids /\ \A c \in Ids : tool[c].st = "none" /\ "st" \in DOMAIN tool[c]
  BY Zenon DEF Init, NoRow
<1>4. DOMAIN ran = Ids /\ \A c \in Ids : ran[c] = 0
  BY Zenon DEF Init
<1>5. Shape
  BY Zenon, <1>1, <1>2, <1>3, <1>4, IdleHeld DEF Shape
<1>6. CallsInv
  BY Zenon, <1>1, <1>3, <1>4 DEF CallsInv
<1>. QED
  BY Zenon, <1>5, <1>6 DEF ToolInv

\* For any number of calls, crashes, drains, errors, drops and operator
\* requests, and any turns and costs: as long as one drive at a time holds the
\* invocation, no tool call is executed twice.  (Two operators who both
\* resume the same limbo make two drives, and then it can happen.)
THEOREM ToolsRunOnce == OneDriveAtATime => (Spec => []ToolAtMostOnce)
<1>. SUFFICES ASSUME OneDriveAtATime PROVE Spec => []ToolAtMostOnce
  BY Zenon
<1>1. ToolInv => ToolAtMostOnce
  BY DEF ToolInv, CallsInv, ToolAtMostOnce
<1>2. ToolInv /\ [Next]_vars => ToolInv'
  BY Zenon, ToolStep
<1>. QED
  BY <1>1, <1>2, ToolInit, PTL DEF Spec
\* A drive that has read the rows and has none in hand meets no ambiguous one.
LEMMA NotAmbiguous ==
    ASSUME CallsInv, LlmInv, NEW d \in Drivers, pc[d] \in Loaded, pc[d] \notin Work
    PROVE  ~Ambiguous
  BY Zenon DEF CallsInv, LlmInv, Work, Ambiguous, ToolDispatched, LlmDispatched, Dispatched

\* A step of a drive that has read the rows, after which nothing is dispatched
\* but what the drive has in hand.
Still(d) ==
    /\ UNCHANGED <<ask, stamped, up, crashes, faults>>
    /\ pc[d] \in Loaded
    /\ pc'[d] \in Loaded \cup {"off", "reporting"}
    /\ pc'[d] \in Loaded => live' = live
    /\ mem'[d].via \in {mem[d].via, "trigger"}
    /\ pc'[d] \in Work \/ ~Ambiguous'
    /\ \E S : llm' \in Seq(S)
    /\ \A k \in DOMAIN llm' :
          /\ "st" \in DOMAIN llm'[k]
          /\ llm'[k].st = "dispatched" => pc'[d] = "landed" /\ k = mem'[d].call
    /\ pc'[d] = "closing" => row' # "open"
    /\ \/ verdicts' = verdicts /\ pc[d] # "sealing"
       \/ verdicts' = verdicts /\ pc'[d] \in Aside /\ row' # "open"
       \/ /\ pc[d] # "sealing"
          /\ \E v \in {"completed", "failed"} : verdicts' = Append(verdicts, v)
          /\ pc'[d] = "sealing" \/ (pc'[d] \in Aside /\ row' # "open")

\* Such a step disturbs nothing.
LEMMA StillKeeps ==
    ASSUME OneDriveAtATime, WalInv, NEW d \in Drivers, Still(d)
    PROVE  LlmInv' /\ OperatorInv' /\ CalmInv'
<1>0. Drivers = {d}
  BY Zenon DEF OneDriveAtATime
<1>2. LlmInv'
  BY Zenon, <1>0 DEF Still, WalInv, LlmInv
<1>3. OperatorInv'
  <2>1. pc'[d] # "announcing" /\ (AtWork' \/ ~Ambiguous')
    BY Zenon DEF Still, Loaded, AtWork
  <2>. QED
    BY Zenon, <1>0, <2>1 DEF Still, WalInv, OperatorInv
<1>4. up' # "down" /\ (AtWork' \/ ~Ambiguous')
  BY Zenon DEF Still, Loaded, WalInv, CalmInv, AtWork
<1>5. CalmInv'
  <2>1. verdicts' \in Seq({"completed", "failed"})
    <3>1. verdicts \in Seq({"completed", "failed"})
      BY Zenon DEF WalInv, CalmInv
    <3>2. verdicts' = verdicts \/ \E v \in {"completed", "failed"} : verdicts' = Append(verdicts, v)
      BY Zenon DEF Still
    <3>. QED
      BY <3>1, <3>2
  <2>2. crashes' \in Nat /\ faults' \in Nat /\ Calm' = Calm
    BY Zenon DEF Still, WalInv, CalmInv, Calm
  <2>3. ASSUME Calm PROVE Len(verdicts') <= 1 /\ (verdicts' # <<>> => pc'[d] = "sealing" \/ (pc'[d] \in Aside /\ row' # "open"))
    <3>1. pc[d] # "sealing" => verdicts = <<>>
      BY Zenon, <2>3 DEF Still, WalInv, CalmInv, Loaded, Aside
    <3>2. Len(verdicts) <= 1
      BY Zenon, <2>3 DEF WalInv, CalmInv
    <3>3. CASE verdicts' = verdicts /\ pc[d] # "sealing"
      BY Zenon, <3>1, <3>2, <3>3
    <3>4. CASE verdicts' = verdicts /\ pc'[d] \in Aside /\ row' # "open"
      BY Zenon, <3>2, <3>4
    <3>5. ASSUME pc[d] # "sealing", NEW v \in {"completed", "failed"}, verdicts' = Append(verdicts, v)
          PROVE  Len(verdicts') <= 1
      BY <3>1, <3>5
    <3>. QED
      BY Zenon, <3>3, <3>4, <3>5 DEF Still
  <2>. QED
    BY Zenon, <1>0, <1>4, <2>1, <2>2, <2>3 DEF Still, WalInv, CalmInv
<1>. QED
  BY Zenon, <1>2, <1>3, <1>5

\* What a drive that leaves takes with it.
LEMMA LeavesVia ==
    ASSUME Shape, NEW d \in Drivers, NEW err, Leaves(d, err)
    PROVE  mem'[d].via \in {mem[d].via, "trigger"} /\ live' = "no"
<1>1. live' = "no" /\ (UNCHANGED mem \/ Ends(d))
  BY Zenon DEF Leaves
<1>2. ASSUME Ends(d) PROVE mem'[d].via = "trigger"
  BY <1>2, EndsAt, IdleVia, Zenon
<1>. QED
  BY <1>1, <1>2, Zenon

\* The steps of the host loop have no dispatched row in hand.
LEMMA LoopStill ==
    ASSUME WalInv, NEW d \in Drivers,
           TakeNotices(d) \/ InsertNotice(d) \/ Suspend(d) \/ ReducerStep(d)
           \/ PublishCompleted(d) \/ PublishFailed(d) \/ EnsureTerminal(d)
    PROVE  Still(d)
<1>0. Shape
  BY Zenon DEF WalInv, ToolInv
<1>1. UNCHANGED <<tool, llm, ask, stamped, up, crashes, faults>>
  BY Zenon DEF TakeNotices, InsertNotice, Suspend, ReducerStep, PublishCompleted, PublishFailed,
               EnsureTerminal, walVars, procVars, world
<1>2. pc[d] \in Loaded \ Work
  BY Zenon DEF TakeNotices, InsertNotice, Suspend, ReducerStep, PublishCompleted, PublishFailed,
         EnsureTerminal, Loaded, Work
<1>3. ~Ambiguous'
  BY <1>1, <1>2, NotAmbiguous, Zenon DEF WalInv, ToolInv, Ambiguous, ToolDispatched,
     LlmDispatched,
     Dispatched
<1>4. /\ \E S : llm' \in Seq(S)
      /\ \A k \in DOMAIN llm' : "st" \in DOMAIN llm'[k] /\ llm'[k].st # "dispatched"
  BY <1>1, <1>3, Zenon DEF WalInv, LlmInv, Ambiguous, LlmDispatched, Dispatched
<1>5. CASE TakeNotices(d)
  <2>1. pc'[d] = "notices" /\ mem'[d].via = mem[d].via /\ UNCHANGED <<live, verdicts>> /\ pc[d] # "sealing"
    BY Zenon, <1>0, <1>5 DEF TakeNotices, Goto, Hold, Shape, Held, Fields, histVars
  <2>. QED
    BY Zenon, <1>1, <1>2, <1>3, <1>4, <2>1 DEF Still, Loaded, Work
<1>6. CASE InsertNotice(d)
  <2>1. UNCHANGED verdicts /\ pc[d] = "notices"
    BY <1>6, Zenon DEF InsertNotice, histVars
  <2>2. CASE Leaves(d, TRUE)
    BY <1>0, <1>1, <1>2, <1>3, <1>4, <2>1, <2>2, LeavesShape, LeavesVia, Zenon DEF Still,
       Loaded, Aside
  <2>3. ASSUME NEW q, NEW cs, Hold(d, [mem[d] EXCEPT !.queue = q, !.carry = cs]), UNCHANGED <<pc, live>>
        PROVE  Still(d)
    <3>1. mem'[d].via = mem[d].via
      BY Zenon, <1>0, <2>3 DEF Hold, Shape, Held, Fields
    <3>. QED
      BY Zenon, <1>1, <1>2, <1>3, <1>4, <2>1, <2>3, <3>1 DEF Still
  <2>. QED
    BY <1>6, <2>2, <2>3, Zenon DEF InsertNotice
<1>7. CASE Suspend(d)
  <2>1. UNCHANGED verdicts /\ pc[d] = "notices" /\ Leaves(d, FALSE)
    BY <1>7, Zenon DEF Suspend, histVars
  <2>. QED
    BY <1>0, <1>1, <1>2, <1>3, <1>4, <2>1, LeavesShape, LeavesVia, Zenon DEF Still, Loaded
<1>8. CASE ReducerStep(d)
  <2>1. PICK kind \in ActionKinds :
            /\ \E s, cs : Hold(d, [mem[d] EXCEPT !.h = s, !.carry = <<>>, !.step = @ + 1, !.todo = cs, !.got = <<>>])
            /\ Goto(d, [model |-> "model", tools |-> "tools", complete |-> "closing",
                        failed |-> "failing", error |-> "failing"][kind])
            /\ IF kind = "error" THEN UNCHANGED row
               ELSE Upsert([model |-> "open", tools |-> "open", complete |-> "completed",
                            failed |-> "failed"][kind])
    BY <1>8, StepKind, Zenon DEF ReducerStep
  <2>2. mem'[d].via = mem[d].via
    BY Zenon, <1>0, <2>1 DEF Hold, Shape, Held, Fields
  <2>3. pc'[d] \in {"model", "tools", "closing", "failing"} /\ (pc'[d] = "closing" => row' # "open")
    BY <1>0, <2>1 DEF ActionKinds, Goto, Shape, Upsert, Open
  <2>4. UNCHANGED <<live, verdicts>> /\ pc[d] = "notices"
    BY <1>8, Zenon DEF ReducerStep, procVars, histVars
  <2>. QED
    BY Zenon, <1>1, <1>2, <1>3, <1>4, <2>2, <2>3, <2>4 DEF Still, Loaded, Work
<1>9. CASE PublishCompleted(d)
  <2>1. verdicts' = Append(verdicts, "completed") /\ UNCHANGED row /\ pc[d] = "closing" /\ Leaves(d, FALSE)
    BY <1>9, Zenon DEF PublishCompleted, walVars
  <2>2. row # "open"
    BY <2>1, Zenon DEF WalInv, CalmInv
  <2>. QED
    BY <1>0, <1>1, <1>2, <1>3, <1>4, <2>1, <2>2, LeavesShape, LeavesVia, Zenon DEF Still,
       Loaded, Aside
<1>10. CASE PublishFailed(d)
  <2>1. /\ verdicts' = Append(verdicts, "failed") /\ UNCHANGED <<mem, live>>
        /\ pc[d] = "failing" /\ pc'[d] = "sealing"
    BY <1>0, <1>10, Zenon DEF PublishFailed, Goto, Shape, procVars
  <2>. QED
    BY Zenon, <1>1, <1>2, <1>3, <1>4, <2>1 DEF Still, Loaded, Work
<1>11. CASE EnsureTerminal(d)
  <2>1. UNCHANGED verdicts /\ row' # "open" /\ Leaves(d, mem[d].err)
    BY <1>11, Zenon DEF EnsureTerminal, histVars
  <2>. QED
    BY <1>0, <1>1, <1>2, <1>3, <1>4, <2>1, LeavesShape, LeavesVia, Zenon DEF Still, Loaded,
       Aside
<1>. QED
  BY Zenon, <1>5, <1>6, <1>7, <1>8, <1>9, <1>10, <1>11

\* A sequence with one more element.
LEMMA Longer ==
    ASSUME NEW S, NEW s \in Seq(S), NEW e
    PROVE  /\ \E T : Append(s, e) \in Seq(T)
           /\ \A k \in DOMAIN Append(s, e) : (k \in DOMAIN s /\ Append(s, e)[k] = s[k]) \/ Append(s, e)[k] = e
<1>1. s \in Seq(S \cup {e})
  OBVIOUS
<1>2. Append(s, e) \in Seq(S \cup {e})
  BY <1>1
<1>. QED
  BY <1>1, <1>2

\* A sequence with one element replaced.
LEMMA Replaced ==
    ASSUME NEW S, NEW s \in Seq(S), NEW k, NEW e
    PROVE  /\ \E T : [s EXCEPT ![k] = e] \in Seq(T)
           /\ DOMAIN [s EXCEPT ![k] = e] = DOMAIN s
           /\ \A j \in DOMAIN s : [s EXCEPT ![k] = e][j] = IF j = k THEN e ELSE s[j]
<1>1. s \in Seq(S \cup {e})
  OBVIOUS
<1>2. [s EXCEPT ![k] = e] \in Seq(S \cup {e})
  <2>1. s \in [1 .. Len(s) -> S \cup {e}] /\ Len(s) \in Nat
    BY <1>1
  <2>2. [s EXCEPT ![k] = e] \in [1 .. Len(s) -> S \cup {e}]
    BY <2>1, Zenon
  <2>. QED
    BY <2>1, <2>2
<1>. QED
  BY Zenon, <1>1, <1>2

\* Neither have the steps of a model call before the provider's answer is
\* recorded as landed, nor those after it is completed.
LEMMA ModelStill ==
    ASSUME WalInv, NEW d \in Drivers,
           RefuseModel(d) \/ WriteLlmIntent(d) \/ ProviderAnswers(d) \/ JudgeBudget(d)
           \/ MarkLlmDeferred(d) \/ Park(d)
    PROVE  Still(d)
<1>0. Shape
  BY Zenon DEF WalInv, ToolInv
<1>1. UNCHANGED <<tool, ask, stamped, up, crashes, faults, verdicts>>
  BY Zenon DEF RefuseModel, WriteLlmIntent, ProviderAnswers, JudgeBudget, MarkLlmDeferred, Park,
               walVars, procVars, world, histVars
<1>2. pc[d] \in Loaded \ Work /\ pc[d] # "sealing"
  BY Zenon DEF RefuseModel, WriteLlmIntent, ProviderAnswers, JudgeBudget, MarkLlmDeferred, Park,
     Loaded, Work
<1>3. /\ \E S : llm' \in Seq(S)
      /\ \A k \in DOMAIN llm' : "st" \in DOMAIN llm'[k] /\ llm'[k].st # "dispatched"
  <2>0. PICK S : llm \in Seq(S)
    BY Zenon DEF WalInv, LlmInv
  <2>1. \A k \in DOMAIN llm : "st" \in DOMAIN llm[k] /\ llm[k].st # "dispatched"
    BY Zenon, <1>2 DEF WalInv, LlmInv, Work
  <2>2. CASE WriteLlmIntent(d)
    <3>. DEFINE new == [st |-> "intent", fail |-> "none", deferred |-> FALSE,
                        resp |-> NoResponse, cost |-> 0, seq |-> 0]
    <3>1. llm' = Append(llm, new)
      BY Zenon, <2>2 DEF WriteLlmIntent
    <3>2. "st" \in DOMAIN new /\ new.st # "dispatched"
      BY Zenon
    <3>. HIDE DEF new
    <3>3. /\ \E T : llm' \in Seq(T)
          /\ \A k \in DOMAIN llm' : (k \in DOMAIN llm /\ llm'[k] = llm[k]) \/ llm'[k] = new
      BY Zenon, <2>0, <3>1, Longer
    <3>. QED
      BY Zenon, <2>1, <3>2, <3>3
  <2>3. CASE MarkLlmDeferred(d)
    <3>. DEFINE new == [llm[mem[d].call] EXCEPT !.deferred = TRUE]
    <3>1. llm' = [llm EXCEPT ![mem[d].call] = new]
      BY Zenon, <2>3 DEF MarkLlmDeferred, SetLlm
    <3>2. mem[d].call \in DOMAIN llm => "st" \in DOMAIN new /\ new.st # "dispatched"
      BY Zenon, <2>1
    <3>. HIDE DEF new
    <3>. QED
      BY <2>0, <2>1, <3>1, <3>2, Replaced, Zenon
  <2>4. CASE UNCHANGED llm
    BY Zenon, <2>0, <2>1, <2>4
  <2>. QED
    BY <2>2, <2>3, <2>4, Zenon DEF RefuseModel, ProviderAnswers, JudgeBudget, Park, walVars
<1>4. ~Ambiguous'
  <2>1. ToolDispatched' = {}
    BY Zenon, <1>1, <1>2, NotAmbiguous DEF WalInv, ToolInv, Ambiguous, ToolDispatched,
       Dispatched
  <2>2. LlmDispatched' = {}
    BY Zenon, <1>3 DEF LlmDispatched, Dispatched
  <2>. QED
    BY Zenon, <2>1, <2>2 DEF Ambiguous
<1>5. /\ pc'[d] \in ((Loaded \ Work) \ {"closing"}) \cup {"off", "reporting"}
      /\ pc'[d] \in Loaded => live' = live
      /\ mem'[d].via \in {mem[d].via, "trigger"}
  <2>1. CASE RefuseModel(d)
    BY Zenon, <1>0, <2>1 DEF RefuseModel, Goto, Hold, Shape, Held, Fields, procVars,
       Loaded, Work
  <2>2. CASE WriteLlmIntent(d)
    BY Zenon, <1>0, <2>2 DEF WriteLlmIntent, Goto, Hold, Shape, Held, Fields, procVars,
       Loaded, Work
  <2>3. CASE ProviderAnswers(d)
    <3>1. \E f, c, r : Hold(d, [mem[d] EXCEPT !.fail = f, !.cost = c, !.resp = r])
      BY <2>3, Zenon DEF ProviderAnswers
    <3>2. pc'[d] = "answered" /\ live' = live
      BY <1>0, <2>3, Zenon DEF ProviderAnswers, Goto, Shape, procVars
    <3>. QED
      BY Zenon, <1>0, <3>1, <3>2 DEF Hold, Shape, Held, Fields, Loaded, Work
  <2>4. CASE JudgeBudget(d)
    BY <1>0, <2>4 DEF JudgeBudget, Goto, Hold, Shape, Held, Fields, procVars, Loaded, Work
  <2>5. CASE MarkLlmDeferred(d)
    BY Zenon, <1>0, <2>5 DEF MarkLlmDeferred, Goto, Shape, procVars, Loaded, Work
  <2>6. CASE Park(d)
    BY <1>0, <2>6, LeavesShape, LeavesVia, Zenon DEF Park, Loaded
  <2>. QED
    BY Zenon, <2>1, <2>2, <2>3, <2>4, <2>5, <2>6
<1>. QED
  BY <1>1, <1>2, <1>3, <1>4, <1>5, Zenon DEF Still

\* Nor the steps of a batch between two calls, nor a replay.
LEMMA BatchStill ==
    ASSUME WalInv, NEW d \in Drivers,
           BatchDone(d) \/ ReuseResult(d) \/ WriteToolIntent(d) \/ ReplayStep(d) \/ Rejoin(d)
    PROVE  Still(d)
<1>0. Shape
  BY Zenon DEF WalInv, ToolInv
<1>1. UNCHANGED <<llm, ask, stamped, up, crashes, faults, verdicts>>
  BY Zenon DEF BatchDone, ReuseResult, WriteToolIntent, ReplayStep, Rejoin, walVars,
     procVars, world, histVars
<1>2. pc[d] \in Loaded \ Work /\ pc[d] # "sealing"
  BY Zenon DEF BatchDone, ReuseResult, WriteToolIntent, ReplayStep, Rejoin, Loaded, Work
<1>3. (\E S : llm' \in Seq(S)) /\ \A k \in DOMAIN llm' : "st" \in DOMAIN llm'[k]
  BY <1>1, Zenon DEF WalInv, LlmInv
<1>4. ~Ambiguous'
  <2>1. ~Ambiguous
    BY Zenon, <1>2, NotAmbiguous DEF WalInv, ToolInv
  <2>2. LlmDispatched' = {}
    BY Zenon, <1>1, <2>1 DEF Ambiguous, LlmDispatched, Dispatched
  <2>3. CASE WriteToolIntent(d)
    <3>1. tool' = [tool EXCEPT ![Cur(d)] = [st |-> "intent", out |-> "none", seq |-> 0]]
      BY Zenon, <2>3 DEF WriteToolIntent, SetTool
    <3>2. \A c \in Ids : tool'[c].st # "dispatched"
      BY Zenon, <1>0, <2>1, <3>1 DEF Shape, Ambiguous, ToolDispatched, Dispatched
    <3>. QED
      BY Zenon, <2>2, <3>2 DEF Ambiguous, ToolDispatched, Dispatched
  <2>4. CASE UNCHANGED tool
    BY Zenon, <2>1, <2>2, <2>4 DEF Ambiguous, ToolDispatched, Dispatched
  <2>. QED
    BY <2>3, <2>4, Zenon DEF BatchDone, ReuseResult, ReplayStep, Rejoin, walVars
<1>5. /\ pc'[d] \in ((Loaded \ Work) \ {"closing"}) \cup {"off", "reporting"}
      /\ pc'[d] \in Loaded => live' = live
      /\ mem'[d].via \in {mem[d].via, "trigger"}
  <2>1. CASE BatchDone(d)
    BY Zenon, <1>0, <2>1 DEF BatchDone, Goto, Hold, Shape, Held, Fields, procVars, Loaded, Work
  <2>2. CASE ReuseResult(d)
    BY Zenon, <1>0, <2>2 DEF ReuseResult, Answered, Hold, Shape, Held, Fields, procVars,
       Loaded, Work
  <2>3. CASE WriteToolIntent(d)
    BY <1>0, <2>3, Zenon DEF WriteToolIntent, Goto, Shape, procVars, Loaded, Work
  <2>4. CASE ReplayStep(d)
    <3>1. \/ Leaves(d, TRUE)
          \/ /\ UNCHANGED <<pc, live>>
             /\ \E s, a, n, cs : Hold(d, [mem[d] EXCEPT !.h = s, !.last = a, !.step = n, !.caps = cs])
      BY <2>4, Zenon DEF ReplayStep
    <3>2. pc[d] = "replaying"
      BY Zenon, <2>4 DEF ReplayStep
    <3>3. CASE Leaves(d, TRUE)
      BY <1>0, <3>3, LeavesShape, LeavesVia, Zenon DEF Loaded
    <3>4. ASSUME NEW s, NEW a, NEW n, NEW cs, UNCHANGED <<pc, live>>,
                 Hold(d, [mem[d] EXCEPT !.h = s, !.last = a, !.step = n, !.caps = cs])
          PROVE  mem'[d].via = mem[d].via
      BY Zenon, <1>0, <3>4 DEF Hold, Shape, Held, Fields
    <3>. QED
      BY <1>2, <3>1, <3>2, <3>3, <3>4, Zenon
  <2>5. CASE Rejoin(d)
    <3>1. \/ Goto(d, "failing") /\ Hold(d, [mem[d] EXCEPT !.err = FALSE])
          \/ /\ Goto(d, "boundary")
             /\ \E cs, w : Hold(d, [mem[d] EXCEPT !.carry = cs, !.warned = w, !.notes = {}])
      BY <2>5, Zenon DEF Rejoin
    <3>2. pc'[d] \in {"failing", "boundary"} /\ live' = live
      BY <1>0, <2>5, <3>1, Zenon DEF Rejoin, Goto, Shape, procVars
    <3>3. mem'[d].via = mem[d].via
      BY <1>0, <3>1, Zenon DEF Hold, Shape, Held, Fields
    <3>. QED
      BY <3>2, <3>3, Zenon DEF Loaded, Work
  <2>. QED
    BY Zenon, <2>1, <2>2, <2>3, <2>4, <2>5
<1>6. \A k \in DOMAIN llm' : llm'[k].st # "dispatched"
  BY Zenon, <1>4 DEF Ambiguous, LlmDispatched, Dispatched
<1>. QED
  BY <1>1, <1>2, <1>3, <1>4, <1>5, <1>6, Zenon DEF Still
\* A call in hand: the model call between its two updates, the tool call from
\* its dispatch to its completion.
LEMMA WorkStill ==
    ASSUME WalInv, NEW d \in Drivers,
           WriteLlmDispatched(d) \/ WriteLlmCompleted(d) \/ WriteToolDispatched(d)
           \/ Execute(d) \/ WriteToolCompleted(d)
    PROVE  Still(d)
<1>0. Shape
  BY Zenon DEF WalInv, ToolInv
<1>1. UNCHANGED <<ask, stamped, up, crashes, faults, verdicts>>
  BY Zenon DEF WriteLlmDispatched, WriteLlmCompleted, WriteToolDispatched, Execute,
     WriteToolCompleted,
               walVars, procVars, world, histVars
<1>2. pc[d] \in Loaded /\ pc[d] # "sealing"
  BY Zenon DEF WriteLlmDispatched, WriteLlmCompleted, WriteToolDispatched, Execute,
     WriteToolCompleted, Loaded
<1>3. PICK S : llm \in Seq(S)
  BY Zenon DEF WalInv, LlmInv
<1>4. \A k \in DOMAIN llm : "st" \in DOMAIN llm[k]
  BY Zenon DEF WalInv, LlmInv
<1>5. CASE WriteLlmDispatched(d)
  <2>. DEFINE new == [llm[mem[d].call] EXCEPT !.st = "dispatched"]
  <2>1. llm' = [llm EXCEPT ![mem[d].call] = new]
    BY Zenon, <1>5 DEF WriteLlmDispatched, SetLlm
  <2>2. mem[d].call \in DOMAIN llm => "st" \in DOMAIN new
    BY Zenon, <1>4
  <2>. HIDE DEF new
  <2>3. /\ \E T : llm' \in Seq(T)
        /\ DOMAIN llm' = DOMAIN llm
        /\ \A k \in DOMAIN llm : llm'[k] = IF k = mem[d].call THEN new ELSE llm[k]
    BY <1>3, <2>1, Replaced, Zenon
  <2>4. pc[d] = "answered" /\ pc'[d] = "landed" /\ live' = live
    BY Zenon, <1>0, <1>5 DEF WriteLlmDispatched, Goto, Shape, procVars
  <2>5. mem'[d].via = mem[d].via /\ mem'[d].call = mem[d].call
    BY Zenon, <1>0, <1>5 DEF WriteLlmDispatched, Hold, Shape, Held, Fields
  <2>6. \A k \in DOMAIN llm : llm[k].st # "dispatched"
    BY <1>2, <2>4, Zenon DEF WalInv, LlmInv
  <2>. QED
    BY Zenon, <1>1, <1>2, <1>4, <2>2, <2>3, <2>4, <2>5, <2>6 DEF Still, Loaded, Work
<1>6. CASE WriteLlmCompleted(d)
  <2>. DEFINE new == [llm[mem[d].call] EXCEPT !.st = "completed", !.fail = mem[d].fail,
                            !.resp = mem[d].resp, !.cost = mem[d].cost, !.seq = NextSeq]
  <2>1. llm' = [llm EXCEPT ![mem[d].call] = new]
    BY <1>6, Zenon DEF WriteLlmCompleted, SetLlm
  <2>2. mem[d].call \in DOMAIN llm => "st" \in DOMAIN new /\ new.st = "completed"
    BY Zenon, <1>4
  <2>. HIDE DEF new
  <2>3. /\ \E T : llm' \in Seq(T)
        /\ DOMAIN llm' = DOMAIN llm
        /\ \A k \in DOMAIN llm : llm'[k] = IF k = mem[d].call THEN new ELSE llm[k]
    BY <1>3, <2>1, Replaced, Zenon
  <2>4. Goto(d, [none |-> "judging", limited |-> "deferring", error |-> "failing",
                 empty |-> "failing"][mem[d].fail])
    BY <1>6, Zenon DEF WriteLlmCompleted
  <2>5. pc'[d] \in {"judging", "deferring", "failing"}
    <3>1. mem[d].fail \in Failures /\ DOMAIN pc = Drivers
      BY <1>0, Zenon DEF Shape, Held
    <3>2. pc'[d] = [none |-> "judging", limited |-> "deferring", error |-> "failing",
                    empty |-> "failing"][mem[d].fail]
      BY <2>4, <3>1, Zenon DEF Goto
    <3>. QED
      BY <3>1, <3>2, AfterAnswer, Zenon
  <2>6. pc[d] = "landed" /\ UNCHANGED <<live, tool>>
    BY <1>6, Zenon DEF WriteLlmCompleted
  <2>7. mem'[d].via = mem[d].via
    <3>1. \E w : Hold(d, [mem[d] EXCEPT !.warned = w])
      BY <1>6, Zenon DEF WriteLlmCompleted
    <3>. QED
      BY Zenon, <1>0, <3>1 DEF Hold, Shape, Held, Fields
  <2>8. \A k \in DOMAIN llm : llm[k].st = "dispatched" => k = mem[d].call
    BY Zenon, <1>2, <2>6 DEF WalInv, LlmInv
  <2>9. \A k \in DOMAIN llm' : "st" \in DOMAIN llm'[k] /\ llm'[k].st # "dispatched"
    BY Zenon, <1>4, <2>2, <2>3, <2>8
  <2>10. ~Ambiguous'
    <3>1. \A c \in Ids : tool[c].st # "dispatched"
      BY <1>2, <2>6, Zenon DEF WalInv, ToolInv, CallsInv
    <3>2. ToolDispatched' = {}
      BY <2>6, <3>1, Zenon DEF ToolDispatched, Dispatched
    <3>3. LlmDispatched' = {}
      BY Zenon, <2>9 DEF LlmDispatched, Dispatched
    <3>. QED
      BY Zenon, <3>2, <3>3 DEF Ambiguous
  <2>. QED
    BY Zenon, <1>1, <1>2, <2>3, <2>5, <2>6, <2>7, <2>9, <2>10 DEF Still, Loaded
<1>7. ASSUME UNCHANGED llm, pc[d] # "landed"
      PROVE  /\ \E T : llm' \in Seq(T)
             /\ \A k \in DOMAIN llm' : "st" \in DOMAIN llm'[k] /\ llm'[k].st # "dispatched"
  BY Zenon, <1>2, <1>3, <1>7 DEF WalInv, LlmInv
<1>8. CASE WriteToolDispatched(d)
  <2>1. UNCHANGED llm /\ pc[d] = "told"
    BY Zenon, <1>8 DEF WriteToolDispatched
  <2>2. CASE tool[Cur(d)].st = "intent"
    <3>1. pc'[d] = "running" /\ UNCHANGED <<mem, live>>
      BY Zenon, <1>0, <1>8, <2>2 DEF WriteToolDispatched, Goto, Shape
    <3>. QED
      BY <1>1, <1>2, <1>7, <2>1, <3>1, Zenon DEF Still, Loaded, Work
  <2>3. CASE tool[Cur(d)].st # "intent"
    <3>1. Leaves(d, TRUE) /\ UNCHANGED tool
      BY <1>8, <2>3, Zenon DEF WriteToolDispatched
    <3>2. ~Ambiguous
      BY Zenon, <1>2, <2>1, NotAmbiguous DEF WalInv, ToolInv, Work
    <3>3. ~Ambiguous'
      BY <2>1, <3>1, <3>2, Zenon DEF Ambiguous, ToolDispatched, LlmDispatched, Dispatched
    <3>. QED
      BY <1>0, <1>1, <1>2, <1>7, <2>1, <3>1, <3>3, LeavesShape, LeavesVia, Zenon DEF Still,
         Loaded
  <2>. QED
    BY Zenon, <2>2, <2>3
<1>9. CASE Execute(d)
  <2>1. UNCHANGED <<llm, live>> /\ pc[d] = "running" /\ pc'[d] = "ran"
    BY Zenon, <1>0, <1>9 DEF Execute, Goto, Shape, walVars, procVars
  <2>2. mem'[d].via = mem[d].via
    <3>1. \E out : Hold(d, [mem[d] EXCEPT !.out = out])
      BY <1>9, Zenon DEF Execute
    <3>. QED
      BY Zenon, <1>0, <3>1 DEF Hold, Shape, Held, Fields
  <2>. QED
    BY Zenon, <1>1, <1>2, <1>7, <2>1, <2>2 DEF Still, Loaded, Work
<1>10. CASE WriteToolCompleted(d)
  <2>1. UNCHANGED llm /\ pc[d] = "ran"
    BY <1>10, Zenon DEF WriteToolCompleted
  <2>2. LlmDispatched' = {}
    BY Zenon, <1>7, <2>1 DEF LlmDispatched, Dispatched
  <2>3. \A c \in Ids : tool[c].st = "dispatched" => c = Cur(d)
    BY <1>2, Zenon DEF WalInv, ToolInv, CallsInv
  <2>4. CASE tool[Cur(d)].st # "dispatched"
    <3>1. Leaves(d, TRUE) /\ UNCHANGED tool
      BY <1>10, <2>4, Zenon DEF WriteToolCompleted
    <3>2. ~Ambiguous'
      BY Zenon, <2>2, <2>3, <2>4, <3>1 DEF Ambiguous, ToolDispatched, Dispatched
    <3>. QED
      BY <1>0, <1>1, <1>2, <1>7, <2>1, <3>1, <3>2, LeavesShape, LeavesVia, Zenon DEF Still,
         Loaded
  <2>5. CASE tool[Cur(d)].st = "dispatched"
    <3>1. /\ tool' = [tool EXCEPT ![Cur(d)] = [st |-> "completed", out |-> mem[d].out, seq |-> NextSeq]]
          /\ UNCHANGED live
      BY <1>10, <2>5, Zenon DEF WriteToolCompleted, SetTool
    <3>2. ~Ambiguous'
      <4>1. \A c \in Ids : tool'[c].st # "dispatched"
        BY <1>0, <2>3, <3>1, Zenon DEF Shape
      <4>. QED
        BY Zenon, <2>2, <4>1 DEF Ambiguous, ToolDispatched, Dispatched
    <3>. DEFINE again == Cur(d) \in Missing /\ ~mem[d].again
    <3>3. again => Goto(d, "reopen") /\ Hold(d, [mem[d] EXCEPT !.again = TRUE])
      BY <1>10, <2>5, Zenon DEF WriteToolCompleted
    <3>4. ~again => /\ \E to \in {"failing", "tools"} : Goto(d, to)
                    /\ \E w : Hold(d, [Answered(mem[d], mem[d].out) EXCEPT !.streak = w])
      BY <1>10, <2>5, Zenon DEF WriteToolCompleted
    <3>5. pc'[d] \in {"reopen", "failing", "tools"}
      BY Zenon, <1>0, <3>3, <3>4 DEF Goto, Shape
    <3>6. mem'[d].via = mem[d].via
      <4>1. CASE again
        BY Zenon, <1>0, <3>3, <4>1 DEF Hold, Shape, Held, Fields
      <4>2. CASE ~again
        <5>1. PICK w : Hold(d, [Answered(mem[d], mem[d].out) EXCEPT !.streak = w])
          BY <3>4, <4>2, Zenon
        <5>. QED
          BY Zenon, <1>0, <5>1 DEF Hold, Answered, Shape, Held, Fields
      <4>. QED
        BY Zenon, <4>1, <4>2
    <3>. HIDE DEF again
    <3>. QED
      BY <1>1, <1>2, <1>7, <2>1, <3>1, <3>2, <3>5, <3>6, Zenon DEF Still, Loaded
  <2>. QED
    BY Zenon, <2>4, <2>5
<1>. QED
  BY Zenon, <1>5, <1>6, <1>8, <1>9, <1>10
\* The steps of a drive that has not read the rows yet, or has left them, and
\* the error that makes it leave.
LEMMA AsideKeeps ==
    ASSUME OneDriveAtATime, WalInv, NEW d \in Drivers,
           DriverFails(d) \/ EnterResume(d) \/ LoadWal(d) \/ ClaimReport(d) \/ Announce(d)
    PROVE  LlmInv' /\ OperatorInv' /\ CalmInv'
<1>0. Drivers = {d} /\ Shape
  BY Zenon DEF OneDriveAtATime, WalInv, ToolInv
<1>1. UNCHANGED <<llm, tool, row, ask, crashes, verdicts>>
  BY Zenon DEF DriverFails, EnterResume, LoadWal, ClaimReport, Announce, walVars, world,
     histVars
<1>2. Ambiguous' = Ambiguous
  BY Zenon, <1>1 DEF Ambiguous, ToolDispatched, LlmDispatched, Dispatched
<1>3. ASSUME pc'[d] \in Loaded \cup {"loading"} => live' # "no",
             pc'[d] \in Loaded => ~Ambiguous
      PROVE  LlmInv'
  BY <1>0, <1>1, <1>3, Zenon DEF WalInv, LlmInv, Ambiguous, LlmDispatched, Dispatched
<1>4. CASE DriverFails(d)
  <2>1. Leaves(d, TRUE) /\ UNCHANGED <<stamped, up>> /\ faults' = faults + 1 /\ pc[d] \notin Aside
    BY <1>4, Zenon DEF DriverFails, Driving, Aside, walVars, world
  <2>2. pc'[d] \in {"off", "reporting"} /\ mem'[d].via \in {mem[d].via, "trigger"}
    BY <1>0, <2>1, LeavesShape, LeavesVia, Zenon
  <2>3. LlmInv'
    BY <1>3, <2>2, Zenon DEF Loaded
  <2>4. faults' \in Nat /\ faults' # 0
    BY <2>1 DEF WalInv, CalmInv
  <2>5. OperatorInv'
    BY <1>0, <1>1, <2>1, <2>2, <2>4, Zenon DEF WalInv, OperatorInv
  <2>6. CalmInv'
    BY Zenon, <1>0, <1>1, <2>1, <2>2, <2>4 DEF WalInv, CalmInv, Calm, Aside
  <2>. QED
    BY Zenon, <2>3, <2>5, <2>6
<1>5. CASE EnterResume(d)
  <2>1. UNCHANGED <<stamped, up, faults>> /\ pc[d] = "spawned"
    BY Zenon, <1>5 DEF EnterResume, walVars, world
  <2>2. up # "down" /\ (Calm => ~Ambiguous /\ (verdicts # <<>> => row # "open"))
    BY <1>0, <2>1, Zenon DEF WalInv, CalmInv, AtWork, Work
  <2>3. CASE row # "open"
    <3>1. pc'[d] \in {"off", "reporting"} /\ mem'[d].via \in {mem[d].via, "trigger"}
      BY <1>0, <1>5, <2>3, LeavesShape, LeavesVia, Zenon DEF EnterResume
    <3>2. LlmInv'
      BY <1>3, <3>1, Zenon DEF Loaded
    <3>3. OperatorInv'
      BY <1>0, <1>1, <2>1, <2>3, <3>1, Zenon DEF WalInv, OperatorInv
    <3>4. CalmInv'
      BY Zenon, <1>0, <1>1, <1>2, <2>1, <2>2, <2>3, <3>1 DEF WalInv, CalmInv, Calm, Aside
    <3>. QED
      BY Zenon, <3>2, <3>3, <3>4
  <2>4. CASE row = "open"
    <3>1. pc'[d] = "loading" /\ UNCHANGED mem /\ live' # "no"
      BY <1>0, <1>5, <2>4, Zenon DEF EnterResume, Goto, Shape
    <3>2. LlmInv'
      BY Zenon, <1>3, <3>1 DEF Loaded
    <3>3. OperatorInv'
      <4>1. faults = 0 /\ up = "up" /\ Ambiguous => stamped
        BY <1>0, <2>1, <2>4, Zenon DEF WalInv, OperatorInv, AtWork, Work
      <4>. QED
        BY <1>0, <1>1, <1>2, <2>1, <3>1, <4>1, Zenon DEF WalInv, OperatorInv
    <3>4. CalmInv'
      BY <1>0, <1>1, <1>2, <2>1, <2>2, <2>4, <3>1, Zenon DEF WalInv, CalmInv, Calm
    <3>. QED
      BY Zenon, <3>2, <3>3, <3>4
  <2>. QED
    BY Zenon, <2>3, <2>4
<1>6. CASE LoadWal(d)
  <2>1. UNCHANGED <<stamped, up, faults>> /\ pc[d] = "loading"
    BY Zenon, <1>6 DEF LoadWal, walVars, world
  <2>2. up # "down" /\ (Calm => ~Ambiguous /\ verdicts = <<>>)
    BY <1>0, <2>1, Zenon DEF WalInv, CalmInv, AtWork, Work, Aside
  <2>3. /\ pc'[d] \in {"off", "reporting"} \/ (pc'[d] \in {"failing", "replaying"} /\ ~Ambiguous /\ live' = live)
        /\ mem'[d].via \in {mem[d].via, "trigger"}
    <3>1. CASE Leaves(d, TRUE)
      BY <1>0, <3>1, LeavesShape, LeavesVia, Zenon
    <3>2. CASE ~Ambiguous /\ Goto(d, "failing") /\ UNCHANGED <<mem, live>>
      BY Zenon, <1>0, <3>2 DEF Goto, Shape
    <3>3. ASSUME NEW cs, NEW ns, NEW p, ~Ambiguous, Goto(d, "replaying"), UNCHANGED live,
                 Hold(d, [mem[d] EXCEPT !.caps = cs, !.notes = ns, !.spent = p])
          PROVE  pc'[d] = "replaying" /\ mem'[d].via = mem[d].via
      BY Zenon, <1>0, <3>3 DEF Goto, Hold, Shape, Held, Fields
    <3>. QED
      BY <1>6, <3>1, <3>2, <3>3, Zenon DEF LoadWal
  <2>4. live # "no"
    BY Zenon, <2>1 DEF WalInv, LlmInv
  <2>5. LlmInv'
    BY Zenon, <1>3, <2>3, <2>4 DEF Loaded
  <2>6. OperatorInv'
    <3>1. faults = 0 /\ up = "up" /\ row = "open" /\ Ambiguous => stamped
      BY <1>0, <2>1, Zenon DEF WalInv, OperatorInv, AtWork, Work
    <3>. QED
      BY <1>0, <1>1, <1>2, <2>1, <2>3, <3>1, Zenon DEF WalInv, OperatorInv
  <2>7. CalmInv'
    BY <1>0, <1>1, <1>2, <2>1, <2>2, <2>3, Zenon DEF WalInv, CalmInv, Calm
  <2>. QED
    BY Zenon, <2>5, <2>6, <2>7
<1>7. CASE ClaimReport(d) \/ Announce(d)
  <2>1. /\ pc[d] \in {"reporting", "announcing"} /\ pc'[d] \in {"off", "announcing"}
        /\ mem'[d].via \in {mem[d].via, "trigger"} /\ up' \in {up, "up"} /\ faults' \in {faults, faults + 1}
    <3>1. CASE ClaimReport(d)
      <4>1. pc[d] = "reporting" /\ up' \in {up, "up"} /\ faults' = faults
        BY <3>1, Zenon DEF ClaimReport
      <4>2. Ends(d) \/ (Goto(d, "announcing") /\ mem' = mem)
        BY <3>1, Zenon DEF ClaimReport
      <4>3. ASSUME Goto(d, "announcing") PROVE pc'[d] = "announcing"
        BY <1>0, <4>3, Zenon DEF Goto, Shape
      <4>. QED
        BY <1>0, <4>1, <4>2, <4>3, EndsAt, IdleVia, Zenon
    <3>2. CASE Announce(d)
      <4>1. /\ pc[d] = "announcing" /\ up' = "up" /\ Ends(d)
            /\ faults' = faults \/ faults' = faults + 1
        BY <3>2, Zenon DEF Announce
      <4>. QED
        BY <1>0, <4>1, EndsAt, IdleVia, Zenon
    <3>. QED
      BY <1>7, <3>1, <3>2, Zenon
  <2>2. stamped'
    <3>1. CASE ClaimReport(d)
      BY <3>1, Zenon DEF ClaimReport
    <3>2. CASE Announce(d)
      <4>1. pc[d] = "announcing" /\ stamped' = stamped
        BY <3>2, Zenon DEF Announce, walVars
      <4>. QED
        BY <4>1, Zenon DEF WalInv, OperatorInv
    <3>. QED
      BY <1>7, <3>1, <3>2, Zenon
  <2>3. LlmInv'
    BY <1>3, <2>1, Zenon DEF Loaded
  <2>4. OperatorInv'
    BY <1>0, <1>1, <2>1, <2>2, Zenon DEF WalInv, OperatorInv
  <2>5. up' # "down" /\ (Calm => ~Ambiguous /\ (verdicts # <<>> => row # "open"))
    BY <1>0, <2>1, Zenon DEF WalInv, CalmInv, AtWork, Work
  <2>6. faults' \in Nat /\ (faults' = 0 => faults = 0)
    <3>1. faults \in Nat
      BY Zenon DEF WalInv, CalmInv
    <3>2. faults' = faults \/ faults' = faults + 1
      BY <2>1, Zenon
    <3>. QED
      BY <3>1, <3>2
  <2>7. CalmInv'
    BY <1>0, <1>1, <1>2, <2>1, <2>5, <2>6, Zenon DEF WalInv, CalmInv, Calm, Aside
  <2>. QED
    BY Zenon, <2>3, <2>4, <2>7
<1>. QED
  BY Zenon, <1>4, <1>5, <1>6, <1>7
\* The operator's requests.  A request is admitted only over a limbo that was
\* reported and that nobody drives.
LEMMA OperateKeeps ==
    ASSUME OneDriveAtATime, Patient, WalInv, NEW q \in Requests, Operate(q)
    PROVE  LlmInv' /\ OperatorInv' /\ CalmInv'
<1>0. Shape
  BY Zenon DEF WalInv, ToolInv
<1>1. UNCHANGED <<llm, row, live, stamped, up, crashes, faults, verdicts>>
  BY Zenon DEF Operate, AdmitResume, JudgeResume, InjectInterrupted, SpawnResume, walVars,
     histVars
<1>2. PICK to : ask' = [ask EXCEPT ![q] = to] /\ (AdmitResume(q) => to \in {"checked", "over"})
                /\ (SpawnResume(q) => to = "over")
  BY Zenon DEF Operate, AdmitResume, JudgeResume, InjectInterrupted, SpawnResume, ReplyTo
<1>3. DOMAIN ask' = Requests /\ \A r \in Requests : ask'[r] = IF r = q THEN to ELSE ask[r]
  BY <1>2, Zenon DEF WalInv, OperatorInv
<1>4. CASE AdmitResume(q)
  <2>1. UNCHANGED <<pc, mem, tool>> /\ stamped /\ Ambiguous /\ up = "up"
    BY Zenon, <1>4 DEF AdmitResume, Limbo, walVars
  <2>2. Ambiguous' = Ambiguous /\ AtWork' = AtWork
    BY <1>1, <2>1, Zenon DEF Ambiguous, ToolDispatched, LlmDispatched, Dispatched, AtWork
  <2>3. Calm => to = "over"
    <3>1. ASSUME Calm PROVE live # "no"
      BY <2>1, <3>1, Zenon DEF WalInv, CalmInv, AtWork, Work, LlmInv, Loaded
    <3>2. live # "no" => ask'[q] = "over"
      BY <1>3, <1>4, Zenon DEF AdmitResume, ReplyTo, WalInv, OperatorInv
    <3>. QED
      BY <1>3, <3>1, <3>2, Zenon
  <2>4. LlmInv'
    BY <1>1, <2>1, Zenon DEF WalInv, LlmInv
  <2>5. OperatorInv'
    BY Zenon, <1>1, <1>3, <2>1 DEF WalInv, OperatorInv
  <2>6. CalmInv'
    BY Zenon, <1>1, <1>3, <2>1, <2>2, <2>3 DEF WalInv, CalmInv, Calm
  <2>. QED
    BY Zenon, <2>4, <2>5, <2>6
<1>5. CASE JudgeResume(q) \/ InjectInterrupted(q)
  <2>1. UNCHANGED <<pc, mem>> /\ ask[q] \in {"checked", "judged"}
    BY <1>5, Zenon DEF JudgeResume, InjectInterrupted
  <2>2. stamped /\ ~Calm
    BY <2>1, Zenon DEF WalInv, OperatorInv, CalmInv
  <2>3. LlmInv'
    BY <1>1, <2>1, Zenon DEF WalInv, LlmInv
  <2>4. OperatorInv'
    BY Zenon, <1>1, <1>3, <2>1, <2>2 DEF WalInv, OperatorInv
  <2>5. CalmInv'
    BY Zenon, <1>1, <2>1, <2>2 DEF WalInv, CalmInv, Calm
  <2>. QED
    BY Zenon, <2>3, <2>4, <2>5
<1>6. CASE SpawnResume(q)
  <2>1. PICK d \in Drivers : Spawn(d, "operator")
    BY Zenon, <1>6 DEF SpawnResume
  <2>2. Drivers = {d} /\ pc'[d] = "spawned" /\ ask[q] = "injected" /\ pc[d] = "off"
    BY <1>0, <1>6, <2>1 DEF OneDriveAtATime, SpawnResume, Spawn, Goto, Shape
  <2>3. stamped /\ ~Calm
    BY Zenon, <2>2 DEF WalInv, OperatorInv, CalmInv
  <2>4. LlmInv'
    BY <1>1, <2>2, Zenon DEF WalInv, LlmInv, Loaded
  <2>5. OperatorInv'
    BY <1>1, <1>2, <1>3, <1>6, <2>2, <2>3, Zenon DEF WalInv, OperatorInv
  <2>6. up # "down"
    BY <2>2, Zenon DEF WalInv, OperatorInv
  <2>7. CalmInv'
    BY <1>1, <2>2, <2>3, <2>6, Zenon DEF WalInv, CalmInv, Calm
  <2>. QED
    BY Zenon, <2>4, <2>5, <2>7
<1>. QED
  BY Zenon, <1>4, <1>5, <1>6 DEF Operate
\* The deferral queue, the end of the process and its next start, the drain
\* and the operator's drop.
LEMMA DaemonKeeps ==
    ASSUME OneDriveAtATime, WalInv,
           \/ Wake \/ RequestDrain \/ DrainedExit \/ Crash \/ Boot
           \/ ArmDrop \/ PublishDrop \/ ApplyDropOwner \/ ApplyDropRow
    PROVE  LlmInv' /\ OperatorInv' /\ CalmInv'
<1>0. Shape
  BY Zenon DEF WalInv, ToolInv
<1>1. UNCHANGED <<llm, tool, stamped, verdicts>>
  BY Zenon DEF Wake, RequestDrain, DrainedExit, Crash, Boot, ArmDrop, PublishDrop,
     ApplyDropOwner,
               ApplyDropRow, Vanish, walVars, histVars
<1>2. Ambiguous' = Ambiguous
  BY <1>1, Zenon DEF Ambiguous, ToolDispatched, LlmDispatched, Dispatched
<1>3. CASE Wake
  <2>1. PICK d \in Drivers : Spawn(d, "queue") /\ pc[d] = "off"
    BY Zenon, <1>3 DEF Wake
  <2>2. /\ Drivers = {d} /\ pc'[d] = "spawned" /\ mem'[d].via = "queue" /\ up = "up"
        /\ UNCHANGED <<row, up, ask, crashes, faults>>
    BY <1>0, <1>3, <2>1 DEF OneDriveAtATime, Wake, Spawn, Goto, Hold, Shape, Idle, walVars
  <2>3. LlmInv'
    BY <1>1, <2>2, Zenon DEF WalInv, LlmInv, Loaded
  <2>4. OperatorInv'
    <3>1. faults = 0 /\ row = "open" /\ Ambiguous => stamped
      BY <2>1, <2>2, Zenon DEF WalInv, OperatorInv, AtWork, Work
    <3>. QED
      BY <1>1, <1>2, <2>2, <3>1, Zenon DEF WalInv, OperatorInv
  <2>5. Calm => ~Ambiguous /\ (verdicts # <<>> => row # "open")
    BY Zenon, <2>1, <2>2 DEF WalInv, CalmInv, AtWork, Work
  <2>6. CalmInv'
    BY <1>1, <1>2, <2>2, <2>5, Zenon DEF WalInv, CalmInv, Calm, Aside
  <2>. QED
    BY Zenon, <2>3, <2>4, <2>6
<1>4. CASE DrainedExit \/ Crash
  <2>1. /\ \A d \in Drivers : pc'[d] = "off" /\ mem'[d].via = "trigger"
        /\ DOMAIN ask' = Requests /\ \A q \in Requests : ask'[q] \in {"new", "over"}
        /\ up' = "down" /\ UNCHANGED <<row, faults>>
    <3>1. Vanish
      BY <1>4, Zenon DEF DrainedExit, Crash
    <3>. QED
      BY <3>1, IdleVia, Zenon DEF Vanish, walVars
  <2>2. LlmInv'
    BY Zenon, <1>1, <2>1 DEF WalInv, LlmInv, Loaded
  <2>3. OperatorInv'
    BY Zenon, <2>1 DEF OperatorInv
  <2>4. CASE Crash
    <3>1. crashes' \in Nat /\ crashes' # 0
      BY <2>4 DEF Crash, WalInv, CalmInv
    <3>. QED
      BY Zenon, <1>1, <2>1, <2>2, <2>3, <3>1 DEF WalInv, CalmInv, Calm
  <2>5. CASE DrainedExit
    <3>1. crashes' = crashes /\ \A d \in Drivers : pc[d] = "off" \/ mem[d].via = "operator"
      BY Zenon, <2>5 DEF DrainedExit, Awaited
    <3>2. Calm => ~Ambiguous /\ (verdicts # <<>> /\ Drivers # {} => row # "open")
      BY Zenon, <3>1 DEF WalInv, CalmInv, AtWork, Work
    <3>3. CalmInv'
      BY Zenon, <1>1, <1>2, <2>1, <3>1, <3>2 DEF WalInv, CalmInv, Calm, Aside
    <3>. QED
      BY Zenon, <2>2, <2>3, <3>3
  <2>. QED
    BY Zenon, <1>4, <2>4, <2>5
<1>5. CASE Boot
  <2>1. UNCHANGED <<live, ask, crashes, faults>> /\ up = "down" /\ up' # "down"
    BY Zenon, <1>5 DEF Boot
  <2>2. \A d \in Drivers : pc[d] = "off"
    BY Zenon, <2>1 DEF WalInv, CalmInv
  <2>3. Calm => ~Ambiguous /\ (verdicts # <<>> /\ Drivers # {} => row # "open")
    BY Zenon, <2>2 DEF WalInv, CalmInv, AtWork, Work
  <2>4. row' = "open" => row = "open"
    BY Zenon, <1>5 DEF Boot
  <2>5. CASE UNCHANGED <<pc, mem>> /\ row' # "open"
    <3>1. LlmInv'
      BY <1>1, <2>1, <2>5, Zenon DEF WalInv, LlmInv
    <3>2. OperatorInv'
      BY Zenon, <1>1, <2>1, <2>5 DEF WalInv, OperatorInv
    <3>3. CalmInv'
      BY Zenon, <1>1, <1>2, <2>1, <2>2, <2>3, <2>5 DEF WalInv, CalmInv, Calm, Aside
    <3>. QED
      BY Zenon, <3>1, <3>2, <3>3
  <2>6. ASSUME NEW d \in Drivers,
               \/ up' = "starting" /\ Goto(d, "reporting") /\ UNCHANGED mem
               \/ ~Ambiguous /\ Spawn(d, "boot")
        PROVE  LlmInv' /\ OperatorInv' /\ CalmInv'
    <3>1. /\ Drivers = {d} /\ pc'[d] \in {"reporting", "spawned"}
          /\ mem'[d].via \in {mem[d].via, "boot"}
          /\ pc'[d] = "reporting" \/ ~Ambiguous
      BY <1>0, <2>6 DEF OneDriveAtATime, Goto, Spawn, Hold, Shape, Idle
    <3>2. LlmInv'
      BY Zenon, <1>1, <3>1 DEF WalInv, LlmInv, Loaded
    <3>3. OperatorInv'
      BY <1>1, <1>2, <2>1, <3>1, Zenon DEF WalInv, OperatorInv
    <3>4. CalmInv'
      BY Zenon, <1>1, <1>2, <2>1, <2>3, <2>4, <3>1 DEF WalInv, CalmInv, Calm, Aside
    <3>. QED
      BY Zenon, <3>2, <3>3, <3>4
  <2>. QED
    BY Zenon, <1>5, <2>5, <2>6 DEF Boot
<1>6. CASE RequestDrain \/ ArmDrop \/ PublishDrop \/ ApplyDropOwner \/ ApplyDropRow
  <2>1. /\ UNCHANGED <<pc, mem, up, ask, crashes>> /\ faults' \in {faults, faults + 1}
        /\ row' = row \/ (row = "open" /\ row' = "failed")
        /\ live' = live \/ (live # "no" /\ live' # "no")
    BY <1>6, Zenon DEF RequestDrain, ArmDrop, PublishDrop, ApplyDropOwner, ApplyDropRow,
       walVars,
       procVars, world
  <2>2. AtWork' = AtWork /\ (row' = "open" => row = "open") /\ faults' \in Nat /\ (faults' = 0 => faults = 0)
    BY <2>1 DEF AtWork, WalInv, CalmInv
  <2>3. LlmInv'
    BY Zenon, <1>1, <2>1 DEF WalInv, LlmInv
  <2>4. OperatorInv'
    BY Zenon, <1>1, <1>2, <2>1, <2>2 DEF WalInv, OperatorInv
  <2>5. CalmInv'
    BY Zenon, <1>1, <1>2, <2>1, <2>2 DEF WalInv, CalmInv, Calm
  <2>. QED
    BY Zenon, <2>3, <2>4, <2>5
<1>. QED
  BY Zenon, <1>3, <1>4, <1>5, <1>6

\* With one drive at a time and operators who wait for a report, every step
\* keeps the whole invariant.
LEMMA WalStep ==
    ASSUME OneDriveAtATime, Patient, WalInv, [Next]_vars PROVE WalInv'
<1>1. ToolInv'
  BY Zenon, ToolStep DEF WalInv
<1>2. CASE UNCHANGED vars
  <2>1. UNCHANGED <<row, llm, tool, stamped, pc, mem, live, ask, up, crashes, faults, verdicts>>
    BY Zenon, <1>2 DEF vars, walVars, procVars, world, histVars
  <2>2. Ambiguous' = Ambiguous /\ AtWork' = AtWork
    BY <2>1, Zenon DEF Ambiguous, ToolDispatched, LlmDispatched, Dispatched, AtWork
  <2>3. LlmInv'
    BY <2>1, Zenon DEF WalInv, LlmInv
  <2>4. OperatorInv'
    BY <2>1, <2>2, Zenon DEF WalInv, OperatorInv
  <2>5. CalmInv'
    BY Zenon, <2>1, <2>2 DEF WalInv, CalmInv, Calm
  <2>. QED
    BY Zenon, <1>1, <2>3, <2>4, <2>5 DEF WalInv
<1>3. ASSUME NEW d \in Drivers, Drive(d) \/ DriverFails(d) PROVE LlmInv' /\ OperatorInv' /\ CalmInv'
  <2>1. CASE Still(d)
    BY Zenon, <2>1, StillKeeps
  <2>. QED
    BY <1>3, <2>1, LoopStill, ModelStill, BatchStill, WorkStill, AsideKeeps, Zenon DEF Drive
<1>4. ASSUME NEW q \in Requests, Operate(q) PROVE LlmInv' /\ OperatorInv' /\ CalmInv'
  BY Zenon, <1>4, OperateKeeps
<1>. QED
  BY <1>1, <1>2, <1>3, <1>4, DaemonKeeps, Zenon DEF Next, WalInv

\* It holds when the trigger is dispatched.
LEMMA WalInit == ASSUME Init PROVE WalInv
<1>1. ToolInv
  BY Zenon, ToolInit
<1>2. \A d \in Drivers : pc[d] \in {"boundary", "off"} /\ mem[d] = Idle
  BY Zenon DEF Init
<1>3. LlmInv
  <2>1. llm = <<>> /\ live = "driven" /\ <<>> \in Seq({})
    BY DEF Init
  <2>. QED
    BY <2>1 DEF LlmInv
<1>4. ~Ambiguous
  BY DEF Init, Ambiguous, ToolDispatched, LlmDispatched, Dispatched, NoRow
<1>5. OperatorInv
  BY <1>2, <1>4, Zenon DEF Init, OperatorInv, Idle
<1>6. CalmInv
  <2>1. /\ crashes = 0 /\ faults = 0 /\ verdicts = <<>> /\ up = "up" /\ row = "none"
        /\ ask = [q \in Requests |-> "new"]
    BY Zenon DEF Init
  <2>2. \A d \in Drivers : pc[d] # "closing" /\ mem[d].via = "trigger"
    BY <1>2, IdleVia, Zenon
  <2>3. <<>> \in Seq({"completed", "failed"}) /\ Len(<<>>) <= 1 /\ 0 \in Nat
    OBVIOUS
  <2>4. \A q \in Requests : ask[q] \in {"new", "over"}
    BY <2>1, Zenon
  <2>. QED
    BY <1>4, <2>1, <2>2, <2>3, <2>4, Zenon DEF CalmInv
<1>. QED
  BY Zenon, <1>1, <1>3, <1>5, <1>6 DEF WalInv

\* Without a crash or an error of the store or the bus an invocation publishes
\* at most one terminal event: a drive publishes over a row that is terminal
\* or that it makes terminal next, and every later drive is refused there.
THEOREM VerdictOnce == OneDriveAtATime /\ Patient => (Spec => []OneVerdict)
<1>. SUFFICES ASSUME OneDriveAtATime, Patient PROVE Spec => []OneVerdict
  BY Zenon
<1>1. WalInv => OneVerdict
  BY Zenon DEF WalInv, CalmInv, Calm, OneVerdict
<1>2. WalInv /\ [Next]_vars => WalInv'
  BY Zenon, WalStep
<1>. QED
  BY <1>1, <1>2, WalInit, PTL DEF Spec

\* A drain that ends by itself, with no store error before it, leaves no open
\* invocation ambiguous that was not reported: the drain wait joins every drive
\* but the operator's, and an operator's drive exists only after a report.
THEOREM DrainLeavesNoLimbo == OneDriveAtATime /\ Patient => (Spec => CleanDrain)
<1>. SUFFICES ASSUME OneDriveAtATime, Patient PROVE Spec => CleanDrain
  BY Zenon
<1>1. WalInv /\ [Next]_vars => [Exits /\ faults = 0 /\ row = "open" /\ Ambiguous => stamped]_vars
  <2>. SUFFICES ASSUME WalInv, Next, Exits, faults = 0, row = "open", Ambiguous PROVE stamped
    BY Zenon
  <2>1. DrainedExit
    <3>1. ASSUME NEW d \in Drivers, Drive(d) \/ DriverFails(d) PROVE up' \in {up, "up"}
      <4>1. CASE ClaimReport(d) \/ Announce(d)
        BY Zenon, <4>1 DEF ClaimReport, Announce
      <4>2. CASE ~(ClaimReport(d) \/ Announce(d))
        BY <3>1, <4>2, Zenon DEF Drive, TakeNotices, InsertNotice, Suspend, ReducerStep,
           PublishCompleted, PublishFailed, EnsureTerminal, RefuseModel, WriteLlmIntent,
           ProviderAnswers, WriteLlmDispatched, WriteLlmCompleted, JudgeBudget, MarkLlmDeferred,
           Park, BatchDone, ReuseResult, WriteToolIntent, WriteToolDispatched, Execute,
           WriteToolCompleted, EnterResume, LoadWal, ReplayStep, Rejoin, DriverFails, procVars, world
      <4>. QED
        BY Zenon, <4>1, <4>2
    <3>3. ASSUME NEW q \in Requests, Operate(q) PROVE up' = up
      BY <3>3, Zenon DEF Operate, AdmitResume, JudgeResume, InjectInterrupted, SpawnResume
    <3>4. CASE Wake \/ RequestDrain \/ Boot \/ ArmDrop \/ PublishDrop \/ ApplyDropOwner
               \/ ApplyDropRow
      BY <3>4, Zenon DEF Wake, RequestDrain, Boot, ArmDrop, PublishDrop, ApplyDropOwner,
         ApplyDropRow,
                  procVars, world, Exits
    <3>2. ~Crash
      BY DEF Exits, Crash, WalInv, CalmInv
    <3>. QED
      BY Zenon, <3>1, <3>2, <3>3, <3>4 DEF Exits, Next
  <2>2. up = "up" /\ \A d \in Drivers : pc[d] = "off" \/ mem[d].via = "operator"
    BY Zenon, <2>1 DEF DrainedExit, Awaited
  <2>. QED
    BY Zenon, <2>2 DEF WalInv, OperatorInv, AtWork, Work
<1>2. WalInv /\ [Next]_vars => WalInv'
  BY Zenon, WalStep
<1>. QED
  BY <1>1, <1>2, WalInit, PTL DEF Spec, CleanDrain
\* A terminal row is never overwritten, whoever drives and however many: the
\* reducer's upsert is guarded, and every other write is made over `open`.
THEOREM TerminalRowStays == Spec => TerminalIsForever
<1>1. [Next]_vars => [~Open => row' = row]_vars
  <2>. SUFFICES ASSUME Next, ~Open PROVE row' = row
    BY Zenon
  <2>1. ASSUME NEW d \in Drivers, Drive(d) \/ DriverFails(d) PROVE row' = row
    <3>1. CASE ReducerStep(d)
      BY <3>1, Zenon DEF ReducerStep, Upsert
    <3>2. CASE EnsureTerminal(d)
      BY Zenon, <3>2 DEF EnsureTerminal, Open
    <3>3. CASE ~ReducerStep(d) /\ ~EnsureTerminal(d)
      BY <2>1, <3>3, Zenon DEF Drive, TakeNotices, InsertNotice, Suspend, PublishCompleted,
         PublishFailed, RefuseModel, WriteLlmIntent, ProviderAnswers, WriteLlmDispatched,
         WriteLlmCompleted, JudgeBudget, MarkLlmDeferred, Park, BatchDone, ReuseResult,
         WriteToolIntent, WriteToolDispatched, Execute, WriteToolCompleted, EnterResume, LoadWal,
         ReplayStep, Rejoin, ClaimReport, Announce, DriverFails, walVars
    <3>. QED
      BY Zenon, <3>1, <3>2, <3>3
  <2>2. ASSUME NEW q \in Requests, Operate(q) PROVE row' = row
    BY <2>2, Zenon DEF Operate, AdmitResume, JudgeResume, InjectInterrupted, SpawnResume,
       walVars
  <2>3. CASE Boot \/ ApplyDropRow
    BY Zenon, <2>3 DEF Boot, ApplyDropRow, Open
  <2>4. CASE Wake \/ RequestDrain \/ DrainedExit \/ Crash \/ ArmDrop \/ PublishDrop
             \/ ApplyDropOwner
    BY <2>4, Zenon DEF Wake, RequestDrain, DrainedExit, Crash, Vanish, ArmDrop, PublishDrop,
       ApplyDropOwner, walVars
  <2>. QED
    BY Zenon, <2>1, <2>2, <2>3, <2>4 DEF Next
<1>. QED
  BY <1>1, PTL DEF Spec, TerminalIsForever

--------------------------------------------------------------------------------
\* The report of a limbo, over any number of drives: the one that finds no
\* stamp announces, and until it has, nobody else does.
ReportInv ==
    /\ reports \in {0, 1}
    /\ reports = 1 => stamped
    /\ \A d \in Drivers : pc[d] = "announcing" => stamped /\ reports = 0
    /\ \A d, e \in Drivers : pc[d] = "announcing" /\ pc[e] = "announcing" => d = e

\* Steps that neither stamp nor announce.
LEMMA QuietReport ==
    ASSUME ReportInv, UNCHANGED <<stamped, reports>>,
           \A e \in Drivers : pc'[e] = "announcing" => pc[e] = "announcing"
    PROVE  ReportInv'
  BY Zenon DEF ReportInv

\* A drive that leaves does not come to announce.
LEMMA LeavesQuiet ==
    ASSUME Shape, NEW d \in Drivers, NEW err, Leaves(d, err)
    PROVE  \A e \in Drivers : pc'[e] = "announcing" => pc[e] = "announcing"
  BY Zenon DEF Leaves, Ends, Goto, Shape

\* Nor does one that goes to another step than the announcement.
LEMMA GotoQuiet ==
    ASSUME Shape, NEW d \in Drivers, NEW to, to # "announcing", Goto(d, to)
    PROVE  \A e \in Drivers : pc'[e] = "announcing" => pc[e] = "announcing"
  BY Zenon DEF Goto, Shape

\* Only ClaimReport leads there.
LEMMA DriveQuiet ==
    ASSUME Shape, NEW d \in Drivers, Drive(d) \/ DriverFails(d), ~ClaimReport(d)
    PROVE  \A e \in Drivers : pc'[e] = "announcing" => pc[e] = "announcing"
<1>1. CASE InsertNotice(d) \/ Suspend(d) \/ PublishCompleted(d) \/ EnsureTerminal(d)
           \/ Park(d) \/ DriverFails(d)
  BY <1>1, LeavesQuiet, Zenon DEF InsertNotice, Suspend, PublishCompleted, EnsureTerminal, Park,
     DriverFails
<1>2. CASE TakeNotices(d) \/ PublishFailed(d) \/ RefuseModel(d) \/ WriteLlmIntent(d)
           \/ ProviderAnswers(d) \/ WriteLlmDispatched(d)
  BY <1>2, GotoQuiet, Zenon DEF TakeNotices, PublishFailed, RefuseModel, WriteLlmIntent,
     ProviderAnswers, WriteLlmDispatched
<1>3. CASE JudgeBudget(d) \/ MarkLlmDeferred(d) \/ BatchDone(d) \/ ReuseResult(d)
           \/ WriteToolIntent(d) \/ Execute(d)
  BY Zenon, <1>3, GotoQuiet DEF JudgeBudget, MarkLlmDeferred, BatchDone, ReuseResult,
     WriteToolIntent, Execute
<1>4. CASE ReducerStep(d)
  <2>1. PICK kind \in ActionKinds :
            Goto(d, [model |-> "model", tools |-> "tools", complete |-> "closing",
                     failed |-> "failing", error |-> "failing"][kind])
    BY <1>4, StepKind, Zenon DEF ReducerStep
  <2>. QED
    BY <2>1, GotoQuiet DEF ActionKinds
<1>5. CASE WriteLlmCompleted(d)
  <2>1. Goto(d, [none |-> "judging", limited |-> "deferring", error |-> "failing",
                 empty |-> "failing"][mem[d].fail])
    BY <1>5, Zenon DEF WriteLlmCompleted
  <2>2. mem[d].fail \in Failures
    BY Zenon DEF Shape, Held
  <2>3. [none |-> "judging", limited |-> "deferring", error |-> "failing",
         empty |-> "failing"][mem[d].fail] # "announcing"
    BY <2>2, AfterAnswer, Zenon
  <2>. QED
    BY <2>1, <2>3, GotoQuiet, Zenon
<1>6. CASE WriteToolDispatched(d) \/ EnterResume(d)
  BY <1>6, GotoQuiet, LeavesQuiet, Zenon DEF WriteToolDispatched, EnterResume
<1>7. CASE WriteToolCompleted(d)
  <2>1. Leaves(d, TRUE) \/ \E to \in {"reopen", "failing", "tools"} : Goto(d, to)
    BY <1>7, Zenon DEF WriteToolCompleted
  <2>. QED
    BY <2>1, GotoQuiet, LeavesQuiet, Zenon
<1>8. CASE LoadWal(d) \/ ReplayStep(d) \/ Rejoin(d)
  <2>1. Leaves(d, TRUE) \/ UNCHANGED pc \/ \E to \in {"failing", "replaying", "boundary"} : Goto(d, to)
    BY <1>8, Zenon DEF LoadWal, ReplayStep, Rejoin
  <2>. QED
    BY <2>1, GotoQuiet, LeavesQuiet, Zenon
<1>9. CASE Announce(d)
  BY <1>9, GotoQuiet, Zenon DEF Announce, Ends
<1>. QED
  BY <1>1, <1>2, <1>3, <1>4, <1>5, <1>6, <1>7, <1>8, <1>9, Zenon DEF Drive

\* invocation.ambiguous is published at most once, over any number of drives,
\* restarts and lost publishes: the stamp is claimed before the event.
THEOREM AnnouncedOnce == Spec => []ReportedOnce
<1>. DEFINE Inv == Shape /\ ReportInv
<1>1. Init => Inv
  <2>. SUFFICES ASSUME Init PROVE Shape /\ ReportInv
    BY Zenon
  <2>1. reports = 0 /\ \A d \in Drivers : pc[d] # "announcing"
    BY Zenon DEF Init
  <2>. QED
    BY <2>1, ToolInit DEF ToolInv, ReportInv
<1>2. Inv /\ [Next]_vars => Inv'
  <2>. SUFFICES ASSUME Shape, ReportInv, [Next]_vars PROVE ReportInv'
    BY Zenon, ShapeStep
  <2>1. CASE UNCHANGED vars
    BY Zenon, <2>1 DEF vars, walVars, histVars, ReportInv
  <2>2. ASSUME NEW d \in Drivers, Drive(d)
               \/ DriverFails(d), ~ClaimReport(d), ~Announce(d) PROVE ReportInv'
    <3>1. UNCHANGED <<stamped, reports>>
      BY <2>2, Zenon DEF Drive, TakeNotices, InsertNotice, Suspend, ReducerStep,
         PublishCompleted,
         PublishFailed, EnsureTerminal, RefuseModel, WriteLlmIntent, ProviderAnswers,
         WriteLlmDispatched, WriteLlmCompleted, JudgeBudget, MarkLlmDeferred, Park, BatchDone,
         ReuseResult, WriteToolIntent, WriteToolDispatched, Execute, WriteToolCompleted,
         EnterResume, LoadWal, ReplayStep, Rejoin, DriverFails, walVars, histVars
    <3>. QED
      BY Zenon, <2>2, <3>1, DriveQuiet, QuietReport
  <2>3. ASSUME NEW d \in Drivers, ClaimReport(d) PROVE ReportInv'
    <3>1. stamped' = TRUE /\ reports' = reports /\ pc[d] = "reporting"
      BY Zenon, <2>3 DEF ClaimReport, histVars
    <3>2. CASE stamped
      BY <2>3, <3>1, <3>2, GotoQuiet, Zenon DEF ClaimReport, Ends, ReportInv
    <3>3. CASE ~stamped
      <4>1. \A e \in Drivers : pc'[e] = "announcing" => e = d
        BY <2>3, <3>3, Zenon DEF ClaimReport, Goto, Shape, ReportInv
      <4>. QED
        BY Zenon, <3>1, <3>3, <4>1 DEF ReportInv
    <3>. QED
      BY Zenon, <3>2, <3>3
  <2>4. ASSUME NEW d \in Drivers, Announce(d) PROVE ReportInv'
    <3>1. pc[d] = "announcing" /\ stamped' = stamped /\ reports' \in {reports, reports + 1}
      BY Zenon, <2>4 DEF Announce, walVars
    <3>2. \A e \in Drivers : pc'[e] # "announcing"
      BY <2>4, <3>1, Zenon DEF Announce, Ends, Goto, Shape, ReportInv
    <3>. QED
      BY <3>1, <3>2 DEF ReportInv
  <2>5. ASSUME NEW q \in Requests, Operate(q) PROVE ReportInv'
    <3>1. UNCHANGED <<stamped, reports>>
      BY <2>5, Zenon DEF Operate, AdmitResume, JudgeResume, InjectInterrupted, SpawnResume,
         walVars, histVars
    <3>2. UNCHANGED pc \/ \E d \in Drivers : Goto(d, "spawned")
      BY <2>5, Zenon DEF Operate, AdmitResume, JudgeResume, InjectInterrupted, SpawnResume,
         Spawn
    <3>. QED
      BY Zenon, <3>1, <3>2, GotoQuiet, QuietReport
  <2>6. CASE Wake \/ RequestDrain \/ DrainedExit \/ Crash \/ Boot \/ ArmDrop \/ PublishDrop
             \/ ApplyDropOwner \/ ApplyDropRow
    <3>1. UNCHANGED <<stamped, reports>>
      BY <2>6, Zenon DEF Wake, RequestDrain, DrainedExit, Crash, Boot, Vanish, ArmDrop,
         PublishDrop,
         ApplyDropOwner, ApplyDropRow, walVars, histVars
    <3>2. \/ UNCHANGED pc \/ \E d \in Drivers : Goto(d, "spawned") \/ Goto(d, "reporting")
          \/ pc' = [d \in Drivers |-> "off"]
      BY <2>6, Zenon DEF Wake, RequestDrain, DrainedExit, Crash, Boot, Vanish, Spawn, ArmDrop,
         PublishDrop, ApplyDropOwner, ApplyDropRow
    <3>. QED
      BY Zenon, <3>1, <3>2, GotoQuiet, QuietReport
  <2>. QED
    BY <2>1, <2>2, <2>3, <2>4, <2>5, <2>6, Zenon DEF Next
<1>3. Inv => ReportedOnce
  BY DEF ReportInv, ReportedOnce
<1>. HIDE DEF Inv
<1>. QED
  BY <1>1, <1>2, <1>3, PTL DEF Spec
================================================================================
