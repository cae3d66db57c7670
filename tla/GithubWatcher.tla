----------------------------- MODULE GithubWatcher -----------------------------
(***************************************************************************)
(* The GitHub adapter's label state machine: watchers that poll, claim,    *)
(* publish and reconcile, the reactor each of them runs beside its poll    *)
(* loop, the runtime that answers with lifecycle events, and the people    *)
(* who merge and re-queue.  A relabel is two or three requests, each of    *)
(* which may fail before or after it took effect.                          *)
(***************************************************************************)
EXTENDS Integers, FiniteSets, Sequences

CONSTANTS Crews,         \* initial choices: [watchers, issues (the ones open and ready)] and
                         \* the bounds [triggers per issue, errors, restarts, hands, ends (how
                         \* runs may end: completed, failed, fatal (not retried), ambiguous),
                         \* ages (a run may outlast ReconcileAfter)]
          MaxPerPoll,    \* MaxTriggersPerPoll, 0 for no cap
          MaxRetries

Watchers == UNION {c.watchers : c \in Crews}
Issues   == UNION {c.issues : c \in Crews}
Threads  == Watchers \X {"poll", "react"}
Status   == {"ready", "in-progress", "in-review", "failed", "done"}

VARIABLES labels,     \* issue -> the status labels it carries
          pr,         \* issue -> "none", "open", "merged" (the issue closed), "reopened"
          quiet,      \* the issues no one updated for ReconcileAfter
          poll,       \* watcher -> [phase, todo, seen]
          op,         \* thread -> the relabel in flight: [step, issue, from, to]
          inbox,      \* watcher -> lifecycle events delivered to its subscription
          binding,    \* watcher -> invocations it saw triggered
          attempts,   \* watcher -> issue -> failures its reactor re-queued
          queued,     \* issue -> triggers on the stream
          runs,       \* the retained history: [issue, end], in trigger order
          broker,     \* the connection to NATS is up
          published,  \* issue -> triggers published
          entered,    \* issue -> times the ready label appeared
          crossed,    \* issues of which two relabels were in flight at once
          crew,       \* the choice made in the beginning
          errors, restarts, hands   \* failed requests, crashes, re-queues by hand so far

hubVars == <<crew, labels, pr, quiet, poll, op, inbox, binding, attempts, queued, runs, broker,
             published, entered, crossed, errors, restarts, hands>>
sideVars == <<crew, pr, inbox, binding, attempts, queued, runs, broker, published, restarts, hands>>

NoOp   == [step |-> "none", issue |-> 0, from |-> "-", to |-> "-"]
NoRun  == [attempts |-> 0, end |-> "live", late |-> FALSE]
Asleep == [phase |-> "off", todo |-> {}, seen |-> [i \in Issues |-> NoRun]]

HubInit ==
    \E c \in Crews :
        /\ crew = c
        /\ labels = [i \in Issues |-> IF i \in c.issues THEN {"ready"} ELSE {"done"}]
        /\ pr = [i \in Issues |-> IF i \in c.issues THEN "none" ELSE "merged"]
        /\ quiet = {}
        /\ poll = [w \in Watchers |-> IF w \in c.watchers THEN [Asleep EXCEPT !.phase = "idle"]
                                            ELSE [Asleep EXCEPT !.phase = "absent"]]
        /\ op = [t \in Threads |-> NoOp]
        /\ inbox = [w \in Watchers |-> <<>>]
        /\ binding = [w \in Watchers |-> {}]
        /\ attempts = [w \in Watchers |-> [i \in Issues |-> 0]]
        /\ queued = [i \in Issues |-> 0]
        /\ runs = <<>>
        /\ broker = TRUE
        /\ published = [i \in Issues |-> 0]
        /\ entered = [i \in Issues |-> IF i \in c.issues THEN 1 ELSE 0]
        /\ crossed = {}
        /\ errors = 0 /\ restarts = 0 /\ hands = 0

Up(w)     == poll[w].phase \notin {"off", "absent"}
Closed(i) == pr[i] = "merged"
Lowest(S) == CHOOSE i \in S : \A k \in S : i <= k

--------------------------------------------------------------------------------
\* Relabel: add, then remove, then undo the add if the removal failed.

Begin(i, from, to) == [step |-> "add", issue |-> i, from |-> from, to |-> to]

\* A label write, and what GitHub's updated_at makes of it.
PutOn(i, l) ==
    /\ UNCHANGED crossed
    /\ labels' = [labels EXCEPT ![i] = @ \cup {l}]
    /\ quiet' = IF l \in labels[i] THEN quiet ELSE quiet \ {i}
    /\ entered' = IF l = "ready" /\ l \notin labels[i] THEN [entered EXCEPT ![i] = @ + 1] ELSE entered
TakeOff(i, l) ==
    /\ UNCHANGED crossed
    /\ labels' = [labels EXCEPT ![i] = @ \ {l}]
    /\ quiet' = IF l \in labels[i] THEN quiet \ {i} ELSE quiet
    /\ UNCHANGED entered
NoWrite == UNCHANGED <<labels, quiet, entered, crossed>>

\* An issue of a pass is done with; the cycle ends with the last one of the sweep.
Passed(p, i) ==
    [p EXCEPT !.todo = @ \ {i},
              !.phase = IF @ = "sweep" /\ p.todo \subseteq {i} THEN "idle" ELSE @]

\* The caller's continuation.  Only a claim looks at the outcome: it publishes when
\* the relabel succeeded.  Every other caller logs and goes on.
Settled(t, ok) ==
    /\ op' = [op EXCEPT ![t] = NoOp]
    /\ poll' = IF t[2] = "react" THEN poll
               ELSE [poll EXCEPT ![t[1]] =
                       IF @.phase = "claim" /\ ok THEN [@ EXCEPT !.phase = "publish"]
                       ELSE Passed([@ EXCEPT !.phase = IF @ = "revert" THEN "claim" ELSE @],
                                   op[t].issue)]

Advance(t, step) == op' = [op EXCEPT ![t].step = step] /\ UNCHANGED poll

Erring == errors < crew.errors /\ errors' = errors + 1

AddLabel(t) ==
    /\ op[t].step = "add"
    /\ PutOn(op[t].issue, op[t].to)
    /\ Advance(t, "remove")
    /\ UNCHANGED <<errors, sideVars>>

AddFails(t) ==
    /\ op[t].step = "add"
    /\ Erring
    /\ NoWrite \/ PutOn(op[t].issue, op[t].to)
    /\ Settled(t, FALSE)
    /\ UNCHANGED sideVars

\* A removal that finds no label is a lost claim.
RemoveTolerant(t) ==
    /\ op[t].step = "remove"
    /\ TakeOff(op[t].issue, op[t].from)
    /\ Settled(t, TRUE)
    /\ UNCHANGED <<errors, sideVars>>
RemoveLabel(t) ==
    /\ op[t].step = "remove"
    /\ TakeOff(op[t].issue, op[t].from)
    /\ Settled(t, op[t].from \in labels[op[t].issue])
    /\ UNCHANGED <<errors, sideVars>>

RemoveFails(t) ==
    /\ op[t].step = "remove"
    /\ Erring
    /\ NoWrite \/ TakeOff(op[t].issue, op[t].from)
    /\ Advance(t, "rollback")
    /\ UNCHANGED sideVars

Rollback(t) ==
    /\ op[t].step = "rollback"
    /\ TakeOff(op[t].issue, op[t].to)
    /\ Settled(t, FALSE)
    /\ UNCHANGED <<errors, sideVars>>

RollbackFails(t) ==
    /\ op[t].step = "rollback"
    /\ Erring
    /\ NoWrite \/ TakeOff(op[t].issue, op[t].to)
    /\ Settled(t, FALSE)
    /\ UNCHANGED sideVars

RelabelRemoveFirst(t) ==
    \/ /\ op[t].step = "add"
       /\ TakeOff(op[t].issue, op[t].from) /\ Advance(t, "remove")
       /\ UNCHANGED <<errors, sideVars>>
    \/ /\ op[t].step = "remove"
       /\ PutOn(op[t].issue, op[t].to) /\ Settled(t, TRUE)
       /\ UNCHANGED <<errors, sideVars>>
Relabel(t) == \/ AddLabel(t) \/ AddFails(t) \/ RemoveLabel(t) \/ RemoveFails(t)
              \/ Rollback(t) \/ RollbackFails(t)

--------------------------------------------------------------------------------
\* One poll cycle.

\* planTriggers: ready and not in progress, lowest numbers first, capped.
Listed(l)  == {i \in Issues : l \in labels[i] /\ ~Closed(i)}
Eligible   == {i \in Listed("ready") : "in-progress" \notin labels[i] /\ entered[i] <= crew.triggers}
Planned    == IF MaxPerPoll = 0 THEN Eligible
              ELSE {i \in Eligible : Cardinality({k \in Eligible : k < i}) < MaxPerPoll}

Skip(w, i) == poll' = [poll EXCEPT ![w] = Passed(@, i)]
StartRelabel(t, i, from, to) ==
    /\ op' = [op EXCEPT ![t] = Begin(i, from, to)]
    /\ crossed' = IF \E u \in Threads \ {t} : op[u].issue = i THEN crossed \cup {i} ELSE crossed
Still == UNCHANGED <<labels, quiet, entered>>

\* A cycle begins; one that finds the broker down does nothing.
PollOnce(w) ==
    /\ poll[w].phase = "idle"
    /\ broker
    /\ poll' = [poll EXCEPT ![w].phase = "claim", ![w].todo = Planned]
    /\ Still /\ UNCHANGED <<op, crossed, errors, sideVars>>

Claim(w) ==
    /\ poll[w].phase = "claim" /\ poll[w].todo # {} /\ op[<<w, "poll">>] = NoOp
    /\ StartRelabel(<<w, "poll">>, Lowest(poll[w].todo), "ready", "in-progress")
    /\ Still /\ UNCHANGED <<poll, errors, sideVars>>

Publish(w) ==
    LET i == Lowest(poll[w].todo)
    IN  /\ poll[w].phase = "publish"
        /\ broker
        /\ queued' = [queued EXCEPT ![i] = @ + 1]
        /\ published' = [published EXCEPT ![i] = @ + 1]
        /\ poll' = [poll EXCEPT ![w] = Passed([@ EXCEPT !.phase = "claim"], i)]
        /\ Still
        /\ UNCHANGED <<crew, op, crossed, errors, pr, inbox, binding, attempts, runs, broker, restarts, hands>>

\* A failed publish reverts the claim.  An acknowledgement may be lost after the
\* stream took the message; a publish while disconnected fails at once.
TriggerFails(w) ==
    LET i == Lowest(poll[w].todo)
    IN  /\ poll[w].phase = "publish"
        /\ IF broker THEN Erring ELSE UNCHANGED errors
        /\ \/ UNCHANGED <<queued, published>>
           \/ /\ broker
              /\ queued' = [queued EXCEPT ![i] = @ + 1]
              /\ published' = [published EXCEPT ![i] = @ + 1]
        /\ poll' = [poll EXCEPT ![w].phase = "revert"]
        /\ StartRelabel(<<w, "poll">>, i, "in-progress", "ready")
        /\ Still
        /\ UNCHANGED <<crew, pr, inbox, binding, attempts, runs, broker, restarts, hands>>

\* issueRuns: the latest invocation of an issue, its end if it has one, and how often
\* the issue was triggered.  late is what the listing's UpdatedAt will say.
RunsOf(i)   == {k \in DOMAIN runs : runs[k].issue = i}
IssueRun(i) ==
    [attempts |-> Cardinality(RunsOf(i)),
     end      |-> IF RunsOf(i) = {} THEN "live"
                  ELSE runs[CHOOSE k \in RunsOf(i) : \A m \in RunsOf(i) : m <= k].end,
     late     |-> i \in quiet]

\* Reconcile lists what is in progress and reads the retained history.
ReconcileList(w) ==
    /\ poll[w].phase = "claim" /\ poll[w].todo = {}
    /\ poll' = [poll EXCEPT ![w] = [phase |-> "reconcile", todo |-> Listed("in-progress"),
                                    seen |-> [i \in Issues |-> IssueRun(i)]]]
    /\ broker \* without the history only an open PR moves an issue
    /\ Still /\ UNCHANGED <<op, crossed, errors, sideVars>>

ReconcileBlind(w) ==
    /\ poll[w].phase = "claim" /\ poll[w].todo = {}
    /\ IF broker THEN Erring ELSE UNCHANGED errors
    /\ poll' = [poll EXCEPT ![w] = [Asleep EXCEPT !.phase = "reconcile",
                                    !.todo = Listed("in-progress")]]
    /\ Still /\ UNCHANGED <<op, crossed, sideVars>>

\* retryOrFail and the order of the verdicts: an open PR, the latest end, the age.
RetryOrFail(kind, tries) == IF kind # "fatal" /\ tries <= MaxRetries THEN "ready" ELSE "failed"
VerdictsAgeless(i, run) ==
    IF pr[i] = "open" THEN "in-review"
    ELSE IF run.end = "ambiguous" THEN "failed"
    ELSE IF run.end # "live" THEN RetryOrFail(run.end, run.attempts)
    ELSE "in-progress"
Verdicts(i, run) ==
    IF pr[i] = "open" THEN "in-review"
    ELSE IF run.end = "ambiguous" THEN "failed"
    ELSE IF run.end # "live" \/ run.late THEN RetryOrFail(run.end, run.attempts)
    ELSE "in-progress"

ReconcileIssue(w) ==
    LET i  == Lowest(poll[w].todo)
        to == Verdicts(i, poll[w].seen[i])
    IN  /\ poll[w].phase = "reconcile" /\ poll[w].todo # {} /\ op[<<w, "poll">>] = NoOp
        /\ IF to = "in-progress"
           THEN UNCHANGED <<op, crossed>> /\ Skip(w, i)
           ELSE StartRelabel(<<w, "poll">>, i, "in-progress", to) /\ UNCHANGED poll
        /\ Still /\ UNCHANGED <<errors, sideVars>>

\* A failed PR lookup leaves the issue where it is.
ReconcileSkips(w) ==
    /\ poll[w].phase = "reconcile" /\ poll[w].todo # {} /\ op[<<w, "poll">>] = NoOp
    /\ Erring
    /\ Skip(w, Lowest(poll[w].todo))
    /\ Still /\ UNCHANGED <<op, crossed, sideVars>>

\* sweepReview: closed issues in review whose PR merged become done.
SweepList(w) ==
    LET inReview == {i \in Issues : "in-review" \in labels[i]}
    IN  /\ poll[w].phase = "reconcile" /\ poll[w].todo = {}
        /\ poll' = [poll EXCEPT ![w] = [Asleep EXCEPT !.phase = IF inReview = {} THEN "idle" ELSE "sweep",
                                                      !.todo = inReview]]
        /\ Still /\ UNCHANGED <<op, crossed, errors, sideVars>>

SweepIssue(w) ==
    LET i == Lowest(poll[w].todo)
    IN  /\ poll[w].phase = "sweep" /\ poll[w].todo # {} /\ op[<<w, "poll">>] = NoOp
        /\ IF Closed(i) THEN StartRelabel(<<w, "poll">>, i, "in-review", "done") /\ UNCHANGED poll
           ELSE UNCHANGED <<op, crossed>> /\ Skip(w, i)
        /\ Still /\ UNCHANGED <<errors, sideVars>>

PollStep(w) == \/ PollOnce(w) \/ Claim(w) \/ Publish(w) \/ TriggerFails(w) \/ ReconcileList(w)
               \/ ReconcileBlind(w) \/ ReconcileIssue(w) \/ ReconcileSkips(w) \/ SweepList(w)
               \/ SweepIssue(w)

--------------------------------------------------------------------------------
\* The reactor.

Listening(w)  == Up(w) /\ op[<<w, "react">>] = NoOp /\ inbox[w] # <<>>
Heard(w) == Head(inbox[w])
Drop(w)  == inbox' = [inbox EXCEPT ![w] = Tail(@)]

Learn(w) ==
    /\ Listening(w) /\ Heard(w).kind = "triggered"
    /\ Drop(w)
    /\ binding' = [binding EXCEPT ![w] = @ \cup {Heard(w).inv}]
    /\ Still
    /\ UNCHANGED <<crew, poll, op, crossed, errors, pr, attempts, queued, runs, broker, published, restarts, hands>>

\* An end of an invocation this process never saw triggered is ignored.
Unbound(w) ==
    /\ Listening(w) /\ Heard(w).kind # "triggered" /\ Heard(w).inv \notin binding[w]
    /\ Drop(w)
    /\ Still
    /\ UNCHANGED <<crew, poll, op, crossed, errors, pr, binding, attempts, queued, runs, broker, published,
                   restarts, hands>>

\* reactFailed: the in-memory budget, spent by an escalation.
Spend(a, retry) == IF retry THEN a + 1 ELSE 0
ReactTo(w, i, to, spent) ==
    /\ Drop(w)
    /\ binding' = [binding EXCEPT ![w] = @ \ {Heard(w).inv}]
    /\ attempts' = [attempts EXCEPT ![w] = [@ EXCEPT ![i] = spent]]
    /\ StartRelabel(<<w, "react">>, i, "in-progress", to)
    /\ Still
    /\ UNCHANGED <<crew, poll, pr, queued, runs, broker, published, restarts, hands>>

RetriesAlways(w, i, kind) == kind # "fatal"
RetriesLess(w, i, kind) == kind # "fatal" /\ attempts[w][i] + 1 < MaxRetries
Retries(w, i, kind) == kind # "fatal" /\ attempts[w][i] < MaxRetries

\* A completion moves to review when a PR is open, or when that cannot be told; every
\* other end is retried, escalated, or, if ambiguous, handed to a person.
React(w) ==
    LET e     == Heard(w)
        i     == runs[e.inv].issue
        retry == Retries(w, i, e.kind)
    IN  /\ Listening(w) /\ e.kind # "triggered" /\ e.inv \in binding[w]
        /\ UNCHANGED errors
        /\ IF e.kind = "ambiguous" THEN ReactTo(w, i, "failed", 0)
           ELSE IF e.kind = "completed" /\ pr[i] = "open" THEN ReactTo(w, i, "in-review", 0)
           ELSE ReactTo(w, i, IF retry THEN "ready" ELSE "failed", Spend(attempts[w][i], retry))

ReactOpen(w) ==
    /\ Listening(w) /\ Heard(w).kind = "completed" /\ Heard(w).inv \in binding[w]
    /\ Erring
    /\ ReactTo(w, runs[Heard(w).inv].issue, "in-review", 0)

ReactStep(w) == Learn(w) \/ Unbound(w) \/ React(w) \/ ReactOpen(w)

--------------------------------------------------------------------------------
\* The runtime, the broker, crashes and people.

\* Core NATS: a live event reaches the subscriptions that exist, or no one.
DeliverEvent(e) == inbox' = [w \in Watchers |-> IF Up(w) /\ broker THEN Append(inbox[w], e) ELSE inbox[w]]

StartRun(i) ==
    /\ queued[i] > 0
    /\ queued' = [queued EXCEPT ![i] = @ - 1]
    /\ runs' = Append(runs, [issue |-> i, end |-> "live"])
    /\ DeliverEvent([kind |-> "triggered", inv |-> Len(runs) + 1])
    /\ Still
    /\ UNCHANGED <<crew, poll, op, crossed, errors, pr, binding, attempts, broker, published, restarts, hands>>

EndRun(k, end) ==
    /\ runs[k].end = "live"
    /\ runs' = [runs EXCEPT ![k].end = end]
    /\ DeliverEvent([kind |-> end, inv |-> k])
    /\ Still
    /\ UNCHANGED <<crew, poll, op, crossed, errors, pr, binding, attempts, queued, broker, published, restarts, hands>>

OpenPR(i) ==
    /\ "completed" \in crew.ends
    /\ \E k \in RunsOf(i) : runs[k].end = "live"
    /\ pr[i] = "none"
    /\ pr' = [pr EXCEPT ![i] = "open"]
    /\ Still
    /\ UNCHANGED <<crew, poll, op, crossed, errors, inbox, binding, attempts, queued, runs, broker, published,
                   restarts, hands>>

\* A merge closes the issue; a person may reopen it, or queue a failed one again.
MergePR(i) ==
    /\ pr[i] = "open"
    /\ pr' = [pr EXCEPT ![i] = "merged"]
    /\ Still
    /\ UNCHANGED <<crew, poll, op, crossed, errors, inbox, binding, attempts, queued, runs, broker, published,
                   restarts, hands>>

ByHand(i) ==
    /\ hands < crew.hands /\ hands' = hands + 1
    /\ \/ /\ pr[i] = "merged" /\ entered[i] > 0
          /\ pr' = [pr EXCEPT ![i] = "reopened"]
          /\ Still
       \/ /\ labels[i] = {"failed"}
          /\ labels' = [labels EXCEPT ![i] = {"ready"}]
          /\ entered' = [entered EXCEPT ![i] = @ + 1]
          /\ quiet' = quiet \ {i}
          /\ UNCHANGED pr
    /\ UNCHANGED <<crew, poll, op, crossed, errors, inbox, binding, attempts, queued, runs, broker, published,
                   restarts>>

\* ReconcileAfter, hours where a request takes seconds, passes without an update, and
\* not while a trigger of the issue waits for the runtime: a runtime that is down for
\* longer lets every such period publish once more.
GrowOld(i) ==
    /\ crew.ages /\ i \notin quiet /\ "in-progress" \in labels[i]
    /\ queued[i] = 0
    /\ \A t \in Threads : op[t].issue # i
    /\ \A w \in Watchers : poll[w].phase # "publish"
    /\ quiet' = quiet \cup {i}
    /\ UNCHANGED <<labels, entered, poll, op, crossed, errors, sideVars>>

BrokerDrops ==
    /\ broker /\ Erring
    /\ broker' = FALSE
    /\ Still
    /\ UNCHANGED <<crew, poll, op, crossed, pr, inbox, binding, attempts, queued, runs, published, restarts, hands>>

BrokerBack ==
    /\ ~broker
    /\ broker' = TRUE
    /\ Still
    /\ UNCHANGED <<crew, poll, op, crossed, errors, pr, inbox, binding, attempts, queued, runs, published,
                   restarts, hands>>

\* The process dies: bindings, budgets and requests in flight are gone.
KillAdapter(w) ==
    /\ Up(w) /\ restarts < crew.restarts
    /\ restarts' = restarts + 1
    /\ poll' = [poll EXCEPT ![w] = Asleep]
    /\ op' = [op EXCEPT ![<<w, "poll">>] = NoOp, ![<<w, "react">>] = NoOp]
    /\ inbox' = [inbox EXCEPT ![w] = <<>>]
    /\ binding' = [binding EXCEPT ![w] = {}]
    /\ attempts' = [attempts EXCEPT ![w] = [i \in Issues |-> 0]]
    /\ Still
    /\ UNCHANGED <<crew, crossed, errors, pr, queued, runs, broker, published, hands>>

StartAdapter(w) ==
    /\ poll[w].phase = "off"
    /\ poll' = [poll EXCEPT ![w].phase = "idle"]
    /\ Still /\ UNCHANGED <<op, crossed, errors, sideVars>>

HubNext ==
    \/ \E t \in Threads : Relabel(t)
    \/ \E w \in Watchers : PollStep(w) \/ ReactStep(w) \/ KillAdapter(w) \/ StartAdapter(w)
    \/ \E i \in Issues : \/ StartRun(i) \/ OpenPR(i) \/ MergePR(i) \/ ByHand(i) \/ GrowOld(i)
    \/ \E k \in DOMAIN runs, end \in crew.ends : EndRun(k, end)
    \/ BrokerDrops \/ BrokerBack

HubSpec == HubInit /\ [][HubNext]_hubVars

\* The loops run, a dead container is restarted, the connection comes back (it is
\* retried for ever), the runtime takes triggers and time passes.  A run need not end.
HubFairness ==
    /\ \A t \in Threads : WF_hubVars(Relabel(t))
    /\ \A w \in Watchers : /\ WF_hubVars(PollStep(w))
                           /\ WF_hubVars(ReactStep(w))
                           /\ WF_hubVars(StartAdapter(w))
    /\ \A i \in Issues : WF_hubVars(GrowOld(i)) /\ WF_hubVars(StartRun(i))
    /\ WF_hubVars(BrokerBack)

--------------------------------------------------------------------------------
\* Types: the labels an issue may carry, the relabels in flight and the budgets.
HubTypeOK ==
    /\ labels \in [Issues -> SUBSET Status]
    /\ \A t \in Threads : op[t] # NoOp => op[t].to \in Status /\ Up(t[1])
    /\ \A w \in Watchers, i \in Issues : attempts[w][i] \in 0 .. MaxRetries
    /\ \A w \in Watchers : poll[w].todo \subseteq Issues /\ binding[w] \subseteq DOMAIN runs

\* An issue is triggered at most once for every time it became ready, whichever of two
\* watchers, their reactors and their reconcilers relabel it and whatever fails between
\* (Relabel's add-then-remove order, and ErrClaimLost in pollOnce).
TriggersAreClaimed == \A i \in Issues : published[i] <= entered[i]

\* As long as GitHub answers and no two relabels of one issue overlap, no crash between
\* the two requests of a relabel and no order of watchers and reactors leaves the issue
\* without a status label, where no list would show it again (Relabel adds first).
VisibleUnlessCrossed == \A i \in Issues : errors = 0 /\ i \notin crossed => labels[i] # {}

\* An issue is escalated to failed only after a run of it ended beyond retrying, or after
\* it was triggered more often than the retry budget allows, whichever of the reactors
\* (budget in memory, lost by a crash) and the reconcilers (budget in the history) did it.
FailedIsEarned ==
    \A i \in Issues : "failed" \in labels[i] =>
        \/ \E k \in RunsOf(i) : runs[k].end \in {"fatal", "ambiguous"}
        \/ Cardinality(RunsOf(i)) > MaxRetries

\* A claim is never kept for ever: an open issue that carries in-progress, both labels
\* after an interrupted claim included, loses it again although the lifecycle events of
\* its run may be lost and the run may never end (Reconcile and its timeout).
EventuallyReleased ==
    HubFairness =>
        \A i \in Issues : "in-progress" \in labels[i] ~> "in-progress" \notin labels[i] \/ Closed(i)

\* What the adapter says of its claim: an issue that is claimed cannot be triggered again
\* while the trigger of that claim waits for the runtime or its run goes on.
NoDoubleTrigger ==
    \A i \in Issues : queued[i] + Cardinality({k \in RunsOf(i) : runs[k].end = "live"}) <= 1

\* What Relabel's comment says of its order: nothing is ever stranded without a label.
NeverInvisible == \A i \in Issues : labels[i] # {}
================================================================================
