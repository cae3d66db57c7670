------------------------------- MODULE Admission -------------------------------
(***************************************************************************)
(* Who may run: the per-agent concurrency count (control_plane/            *)
(* agent_cap.rs) and the gates a trigger passes in `handle`: a paused      *)
(* model's hold, a full agent's hold, the worker permit                    *)
(* (dispatcher/admission.rs, dispatcher/agent_cap.rs); with the deferral   *)
(* queue (worker/deferral.rs, dispatcher/deferral.rs) and the two paths    *)
(* that enter the count ungated, startup recovery and invocation.resume.   *)
(*                                                                         *)
(* A piece of work is a trigger or a resume.  What the broker does with a  *)
(* delivery that is left, requeued or acked is TriggerDispatch's subject,  *)
(* when a model pauses is Throttle's.                                      *)
(***************************************************************************)
EXTENDS Naturals, Sequences, FiniteSets, SequencesExt

CONSTANTS Scenes,   \* the days a behaviour may live through, each with
                    \*   works: a sequence of [agent, kind],
                    \*   caps: what each agent declares, 0 for no max_concurrent,
                    \*   and bounds on reloads, pauses and deferrals
          Reloads,  \* what a reload may make of a cap; Gone for a removed agent
          Gone,
          WorkerPermits  \* max_concurrent_invocations

ASSUME AdmissionAssumption == WorkerPermits \in Nat \ {0}

VARIABLES scene,
          declared,     \* the registry: each agent's cap
          inFlight,     \* AgentState: slots held,
          waiting,      \*   triggers that wait for one,
          capSeen,      \*   and the cap last read
          workAt,       \* where each piece of work is
          capRead,      \* the cap a task read before it asks for a slot
          permitLine,   \* the semaphore's FIFO of waiting tasks
          freePermits,  \* worker permits nobody holds
          defers,       \* how often each invocation was put down
          modelPaused, stopping, reloads, pauses

worldVars == <<scene, declared, modelPaused, stopping, reloads, pauses>>
countVars == <<inFlight, waiting, capSeen>>
taskVars  == <<countVars, workAt, capRead, permitLine, freePermits, defers>>
admVars   == <<worldVars, taskVars>>

CapAgents == DOMAIN scene.caps
WorkIds   == DOMAIN scene.works
Agent(w)  == scene.works[w].agent
Of(a)     == {w \in WorkIds : Agent(w) = a}
Kind(k)   == {w \in WorkIds : scene.works[w].kind = k}

\* The places where a task owns a slot of its agent, and a worker permit.
Slotted   == {"permit", "permitted", "running", "resumed", "asleep", "due", "resume"}
Permitted == {"permitted", "running"}

\* Startup recovery has entered its resumes before anything else runs
\* (spawn_resume_tasks takes the slot before it spawns).
AdmissionInit ==
    /\ scene \in Scenes
    /\ declared = scene.caps
    /\ inFlight = [a \in CapAgents |-> Cardinality(Of(a) \cap Kind("recovered"))]
    /\ waiting = [a \in CapAgents |-> 0]
    /\ capSeen = [a \in CapAgents |-> IF Of(a) \cap Kind("recovered") = {} THEN 0 ELSE declared[a]]
    /\ workAt = [w \in WorkIds |-> IF w \in Kind("recovered") THEN "resumed" ELSE "queued"]
    /\ capRead = [w \in WorkIds |-> 0]
    /\ permitLine = <<>> /\ freePermits = WorkerPermits
    /\ modelPaused = FALSE /\ stopping = FALSE
    /\ reloads = 0 /\ pauses = 0 /\ defers = [w \in WorkIds |-> 0]

MoveTo(w, place) == workAt' = [workAt EXCEPT ![w] = place]

--------------------------------------------------------------------------------
\* AgentConcurrency.  An entry that goes quiet is removed, its cap with it.

Quiet(a, flight, waits) == flight[a] = 0 /\ waits[a] = 0
Forget(a, flight, waits) ==
    capSeen' = IF Quiet(a, flight, waits) THEN [capSeen EXCEPT ![a] = 0] ELSE capSeen

FitsOneMore(a, cap) == cap = 0 \/ inFlight[a] <= cap
Fits(a, cap) == cap = 0 \/ inFlight[a] < cap

try_enter(a, cap) ==
    /\ inFlight' = IF Fits(a, cap) THEN [inFlight EXCEPT ![a] = @ + 1] ELSE inFlight
    /\ capSeen' = [capSeen EXCEPT ![a] = cap]

enterUnseen(a) ==
    /\ inFlight' = [inFlight EXCEPT ![a] = @ + 1]
    /\ UNCHANGED capSeen

enter(a) ==
    /\ inFlight' = [inFlight EXCEPT ![a] = @ + 1]
    /\ capSeen' = IF declared[a] # 0 THEN [capSeen EXCEPT ![a] = declared[a]] ELSE capSeen

releaseSlot(a) ==
    /\ inFlight' = [inFlight EXCEPT ![a] = IF @ = 0 THEN 0 ELSE @ - 1]
    /\ Forget(a, inFlight', waiting)

releaseHeld(a) ==
    /\ waiting' = [waiting EXCEPT ![a] = IF @ = 0 THEN 0 ELSE @ - 1]

--------------------------------------------------------------------------------
\* handle, from the pause hold to the permit.

\* A pulled trigger whose agent is loaded comes to the pause hold.
PullWork(w) ==
    /\ workAt[w] = "queued" /\ w \in Kind("trigger") /\ ~stopping
    /\ MoveTo(w, IF declared[Agent(w)] = Gone THEN "dropped" ELSE "pause")
    /\ UNCHANGED <<worldVars, countVars, capRead, permitLine, freePermits, defers>>

\* admit: at once if the model is not paused, else a tick at a time.
Admit(w) ==
    /\ workAt[w] = "pause"
    /\ IF modelPaused THEN stopping /\ MoveTo(w, "left") ELSE MoveTo(w, "cap")
    /\ UNCHANGED <<worldVars, countVars, capRead, permitLine, freePermits, defers>>

\* declared(): the current registry's cap, asked before every try_enter.  A hold
\* gives up before it asks if the dispatcher is stopping.
Declared(w) ==
    /\ workAt[w] \in {"cap", "held"} /\ (workAt[w] = "held" => ~stopping)
    /\ LET a == Agent(w) IN
         IF declared[a] = Gone
           THEN /\ MoveTo(w, "dropped")
                /\ IF workAt[w] = "held"
                     THEN releaseHeld(a) /\ Forget(a, inFlight, waiting') /\ UNCHANGED inFlight
                     ELSE UNCHANGED countVars
                /\ UNCHANGED capRead
           ELSE /\ MoveTo(w, IF workAt[w] = "cap" THEN "ask" ELSE "askHeld")
                /\ capRead' = [capRead EXCEPT ![w] = declared[a]]
                /\ UNCHANGED countVars
    /\ UNCHANGED <<worldVars, permitLine, freePermits, defers>>

\* try_enter; a refused trigger is counted as held from here to its exit.
TryEnter(w) ==
    /\ workAt[w] \in {"ask", "askHeld"}
    /\ LET a == Agent(w)
           fits == Fits(a, capRead[w])
       IN  /\ try_enter(a, capRead[w])
           /\ MoveTo(w, CASE fits                      -> "permit"
                      [] ~fits /\ workAt[w] = "ask"    -> "hold"
                      [] ~fits /\ workAt[w] # "ask"    -> "held")
           /\ IF fits /\ workAt[w] = "askHeld" THEN releaseHeld(a) ELSE UNCHANGED waiting
           /\ permitLine' = IF fits THEN Append(permitLine, w) ELSE permitLine
    /\ UNCHANGED <<worldVars, capRead, freePermits, defers>>

HoldTrigger(w) ==
    /\ workAt[w] = "hold"
    /\ MoveTo(w, "held")
    /\ waiting' = [waiting EXCEPT ![Agent(w)] = @ + 1]
    /\ UNCHANGED <<worldVars, inFlight, capSeen, capRead, permitLine, freePermits, defers>>

\* hold_tick finds the dispatcher on its way out: the trigger is requeued.
LetGo(w) ==
    /\ workAt[w] = "held" /\ stopping
    /\ MoveTo(w, "requeued")
    /\ releaseHeld(Agent(w)) /\ Forget(Agent(w), inFlight, waiting') /\ UNCHANGED inFlight
    /\ UNCHANGED <<worldVars, capRead, permitLine, freePermits, defers>>

\* acquire_run_permit: the head of the queue takes a free permit; a drain, seen
\* by either arm, gives it back and starts nothing.
Waits(w) == workAt[w] \in {"permit", "resume"}
AcquireRunPermit(w) ==
    /\ Waits(w) /\ permitLine # <<>> /\ w = Head(permitLine) /\ freePermits > 0 /\ ~stopping
    /\ permitLine' = Tail(permitLine) /\ freePermits' = freePermits - 1
    /\ MoveTo(w, "permitted")
    /\ UNCHANGED <<worldVars, countVars, capRead, defers>>

\* handle requeues the trigger it gave up; a due resume is left to recovery.
AbandonKeepsSlot(w) ==
    /\ Waits(w) /\ stopping
    /\ permitLine' = SelectSeq(permitLine, LAMBDA x : x # w)
    /\ MoveTo(w, IF workAt[w] = "permit" THEN "requeued" ELSE "left")
    /\ UNCHANGED <<worldVars, countVars, capRead, freePermits, defers>>
Abandon(w) ==
    /\ Waits(w) /\ stopping
    /\ permitLine' = SelectSeq(permitLine, LAMBDA x : x # w)
    /\ MoveTo(w, IF workAt[w] = "permit" THEN "requeued" ELSE "left")
    /\ releaseSlot(Agent(w))
    /\ UNCHANGED <<worldVars, waiting, capRead, freePermits, defers>>

--------------------------------------------------------------------------------
\* The run and its outcomes.

\* The run starts; a deferred resume whose agent was removed is left for triage.
Start(w) ==
    /\ workAt[w] = "permitted"
    /\ IF defers[w] > 0 /\ declared[Agent(w)] = Gone
         THEN MoveTo(w, "triage") /\ releaseSlot(Agent(w)) /\ freePermits' = freePermits + 1
         ELSE MoveTo(w, "running") /\ UNCHANGED <<inFlight, capSeen, freePermits>>
    /\ UNCHANGED <<worldVars, waiting, capRead, permitLine, defers>>

\* Completed, failed, suspended, dropped or panicked: permit and slot go back.
Conclude(w) ==
    /\ workAt[w] \in {"running", "resumed"}
    /\ MoveTo(w, "ended")
    /\ releaseSlot(Agent(w))
    /\ freePermits' = IF workAt[w] = "running" THEN freePermits + 1 ELSE freePermits
    /\ UNCHANGED <<worldVars, waiting, capRead, permitLine, defers>>

\* Deferred: the permit goes back, the slot rides the queue.
DeferLeaks(w) ==
    /\ workAt[w] \in {"running", "resumed"} /\ defers[w] < scene.defers
    /\ defers' = [defers EXCEPT ![w] = @ + 1]
    /\ MoveTo(w, "asleep")
    /\ UNCHANGED <<worldVars, countVars, capRead, permitLine, freePermits>>
Defer(w) ==
    /\ workAt[w] \in {"running", "resumed"} /\ defers[w] < scene.defers
    /\ defers' = [defers EXCEPT ![w] = @ + 1]
    /\ MoveTo(w, "asleep")
    /\ freePermits' = IF workAt[w] = "running" THEN freePermits + 1 ELSE freePermits
    /\ UNCHANGED <<worldVars, countVars, capRead, permitLine>>

\* The deferral's timer ends and its send succeeds, or nobody drains the queue.
FallsDue(w) ==
    /\ workAt[w] = "asleep"
    /\ IF stopping THEN MoveTo(w, "left") /\ releaseSlot(Agent(w))
                   ELSE MoveTo(w, "due") /\ UNCHANGED <<inFlight, capSeen>>
    /\ UNCHANGED <<worldVars, waiting, capRead, permitLine, freePermits, defers>>

\* The consume loop takes a due resume and queues it for a permit, or ends and
\* drops the queue.
ResumeWhenPermitted(w) ==
    /\ workAt[w] = "due"
    /\ IF stopping THEN MoveTo(w, "left") /\ releaseSlot(Agent(w)) /\ UNCHANGED permitLine
                   ELSE /\ MoveTo(w, "resume") /\ permitLine' = Append(permitLine, w)
                        /\ UNCHANGED <<inFlight, capSeen>>
    /\ UNCHANGED <<worldVars, waiting, capRead, freePermits, defers>>

\* invocation.resume of a crashed invocation: counted, never refused, no permit.
OperatorResume(w) ==
    /\ workAt[w] = "queued" /\ w \in Kind("operator") /\ declared[Agent(w)] # Gone
    /\ enter(Agent(w))
    /\ MoveTo(w, "resumed")
    /\ UNCHANGED <<worldVars, waiting, capRead, permitLine, freePermits, defers>>

--------------------------------------------------------------------------------
\* What happens around them.

Reload(a) ==
    /\ reloads < scene.reloads
    /\ reloads' = reloads + 1
    /\ \E c \in Reloads \ {declared[a]} : declared' = [declared EXCEPT ![a] = c]
    /\ UNCHANGED <<taskVars, scene, modelPaused, stopping, pauses>>

PauseModel ==
    /\ ~modelPaused /\ pauses < scene.pauses
    /\ modelPaused' = TRUE /\ pauses' = pauses + 1
    /\ UNCHANGED <<taskVars, scene, declared, stopping, reloads>>

EndPause ==
    /\ modelPaused
    /\ modelPaused' = FALSE
    /\ UNCHANGED <<taskVars, scene, declared, stopping, reloads, pauses>>

StopDispatch ==
    /\ ~stopping
    /\ stopping' = TRUE
    /\ UNCHANGED <<taskVars, scene, declared, modelPaused, reloads, pauses>>

Poll(w) == Declared(w) \/ TryEnter(w)
Gate(w) == Admit(w) \/ HoldTrigger(w) \/ LetGo(w) \/ AcquireRunPermit(w) \/ Abandon(w) \/ Start(w)
               \/ FallsDue(w) \/ ResumeWhenPermitted(w)

AdmissionNext ==
    \/ \E w \in WorkIds : \/ PullWork(w) \/ Poll(w) \/ Gate(w)
                          \/ Conclude(w) \/ Defer(w) \/ OperatorResume(w)
    \/ \E a \in CapAgents : Reload(a)
    \/ PauseModel \/ EndPause \/ StopDispatch

AdmissionSpec == AdmissionInit /\ [][AdmissionNext]_admVars

\* Tasks run and timers fire; a hold that polls again and again finds the free
\* slot at last; an invocation ends or defers; a pause expires.
AdmissionFairness ==
    /\ WF_admVars(\E w \in WorkIds : Gate(w))
    /\ WF_admVars(\E w \in WorkIds : Poll(w))
    /\ SF_admVars(\E w \in WorkIds : TryEnter(w) /\ workAt'[w] = "permit")
    /\ WF_admVars(\E w \in WorkIds : Conclude(w) \/ Defer(w))
    /\ WF_admVars(EndPause)

--------------------------------------------------------------------------------
\* Properties.

InState(a, places) == Cardinality({w \in Of(a) : workAt[w] \in places})

\* Every way out of a run gives its slot back, and no way gives it back twice:
\* the count `fq doctor` and try_enter read is the number of invocations that
\* hold a slot, and the held count the number that wait (AgentSlot's and
\* HeldTrigger's Drop).
SlotsAreCounted ==
    \A a \in CapAgents : /\ inFlight[a] = InState(a, Slotted)
                         /\ waiting[a] = InState(a, {"held", "askHeld"})

\* The sentence of agent_cap.rs's module doc, with the ungated entries it names:
\* while the caps stay as they were, an agent runs at most its cap, or what
\* startup recovery found if that is more, and what an operator resumed.
CapKept ==
    reloads = 0 => \A a \in CapAgents :
        LET found   == Cardinality(Of(a) \cap Kind("recovered"))
            resumed == Cardinality({w \in Of(a) \cap Kind("operator") : workAt[w] \in Slotted})
            cap     == scene.caps[a]
        IN  cap # 0 => inFlight[a] <= (IF found > cap THEN found ELSE cap) + resumed

\* A permit is held by a run or is free: no deferral, drain or removed agent
\* loses one, and no more invocations run under permits than there are.
PermitsConserved ==
    freePermits + Cardinality({w \in WorkIds : workAt[w] \in Permitted}) = WorkerPermits

\* An agent at its cap is in the doctor's report with that cap (snapshot reads
\* the cap the last entry saw, and an entry that goes quiet forgets it).
FullIsListed ==
    reloads = 0 => \A a \in CapAgents :
        scene.caps[a] # 0 /\ inFlight[a] >= scene.caps[a] => capSeen[a] = scene.caps[a]

\* Nobody waits on everybody: slots and permits are waited for in one order, so
\* every trigger that is pulled is run, dropped or handed back in the end.
Unanswered ==
    {w \in WorkIds : workAt[w] \notin {"queued", "ended", "dropped", "requeued", "left", "triage"}}
EventuallyAdmitted == AdmissionFairness => (Unanswered # {} ~> Unanswered = {})
================================================================================
