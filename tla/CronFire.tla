-------------------------------- MODULE CronFire --------------------------------
(***************************************************************************)
(* fq-cron's fires under one configuration: the pure planner with its      *)
(* catch-up rule and its sliding-window valve, the loop that publishes     *)
(* with retries and records each acknowledged fire, and the broker that    *)
(* loses, delays and deduplicates.  Time is in ticks of the schedules.     *)
(***************************************************************************)
EXTENDS Integers, FiniteSets, SequencesExt

CONSTANTS Schedule,      \* job -> [every, once (catch_up), durable], in name order 1 .. n
          ValveWindow,   \* the window max_fires_per_hour counts over
          FireLimit,     \* max_fires_per_hour
          MaxNow, MaxOutages, MaxDeaths     \* bounds: ticks, failed broker calls, deaths

FireJobs == DOMAIN Schedule

NeverFired == [last |-> 0, ledger |-> <<>>]

VARIABLES now,        \* the clock
          kv,         \* job -> FireState
          loaded,     \* the FireStates this plan was made from
          fires,      \* the plan's fires that are left: <<[job, slot]>>
          fireStep,   \* "plan", "wait", "publish", "acked", "superseded", "stopped"
          sick,       \* unhealthy jobs
          sent,       \* what reached the stream: {[job, slot, at, copy]}
          outages, deaths

fireVars == <<now, kv, loaded, fires, fireStep, sick, sent, outages, deaths>>

FireInit ==
    /\ now = 1
    /\ kv \in [FireJobs -> {NeverFired, [last |-> 1, ledger |-> <<1>>]}]
    /\ loaded = kv
    /\ fires = <<>>
    /\ fireStep = "stopped"
    /\ sick = {}
    /\ sent = {}
    /\ outages = 0 /\ deaths = 0

--------------------------------------------------------------------------------
\* The planner.

\* schedule.Next: the first slot strictly after t.
Next2(j, t) == (t \div Schedule[j].every + 1) * Schedule[j].every

\* The slot a job is planned for.  A new job never catches up; skip goes to the
\* first slot past now; once collapses what was missed to the latest slot.
LatestSlot(j) == (now \div Schedule[j].every) * Schedule[j].every
SlotOldest(st, j) ==
    LET next == Next2(j, st[j].last)
    IN  IF st[j].last = 0 THEN Next2(j, now)
        ELSE IF next >= now \/ Schedule[j].once THEN next ELSE Next2(j, now)
SlotAlwaysSkip(st, j) ==
    LET next == Next2(j, st[j].last)
    IN  IF st[j].last # 0 /\ next >= now THEN next ELSE Next2(j, now)
Slot(st, j) ==
    LET next == Next2(j, st[j].last)
    IN  IF st[j].last = 0 THEN Next2(j, now)
        ELSE IF next >= now THEN next
        ELSE IF Schedule[j].once THEN LatestSlot(j) ELSE Next2(j, now)

Sooner(f, g) == f.slot < g.slot \/ (f.slot = g.slot /\ f.job < g.job)

InWindow(at, t) == at > t - ValveWindow /\ at <= t

\* firesInWindow counts fires one by one, not jobs.
UsedByJob(st) ==
    Cardinality({j \in FireJobs : \E i \in DOMAIN st[j].ledger : InWindow(st[j].ledger[i], now)})
Used(st) ==
    LET count(j) == Cardinality({i \in DOMAIN st[j].ledger : InWindow(st[j].ledger[i], now)})
    IN  FoldSet(LAMBDA j, n : n + count(j), 0, FireJobs)

\* plan: nothing while the valve is closed, else the soonest, up to what is left.
PlanOf(st) ==
    LET all == SetToSortSeq({[job |-> j, slot |-> Slot(st, j)] : j \in FireJobs}, Sooner)
        room == FireLimit - Used(st)
    IN  IF room <= 0 THEN <<>>
        ELSE SubSeq(all, 1, IF Len(all) < room THEN Len(all) ELSE room)

\* recordFire: the slot advances and the fire joins the ledger, trimmed to the
\* window and to the newest FireLimit.  supersedeFire: only the slot advances.
Newest(s) == IF Len(s) > FireLimit THEN SubSeq(s, Len(s) - FireLimit + 1, Len(s)) ELSE s
RecordForever(prev, slot) == [last |-> slot, ledger |-> Append(prev.ledger, now)]
RecordFire(prev, slot) ==
    [last   |-> slot,
     ledger |-> Newest(Append(SelectSeq(prev.ledger, LAMBDA at : at > now - ValveWindow), now))]

SupersedeFire(prev, slot) == [prev EXCEPT !.last = slot]

--------------------------------------------------------------------------------
\* The loop.

PlanFires ==
    /\ fireStep = "plan"
    /\ loaded' = kv
    /\ fires' = PlanOf(kv)
    /\ fireStep' = "wait"
    /\ UNCHANGED <<now, kv, sick, sent, outages, deaths>>

\* The select ends: the first fire is due, or a reload, a confirmation or the
\* valve's timer makes the loop plan again.
WakeUp ==
    /\ fireStep = "wait"
    /\ \/ /\ fires # <<>> /\ fires[1].slot <= now
          /\ fireStep' = "publish"
       \/ fireStep' = "plan"
    /\ UNCHANGED <<now, kv, loaded, fires, sick, sent, outages, deaths>>

\* Fires of the plan that are not due or whose job is unhealthy are passed over.
PassOver ==
    /\ fireStep = "publish" /\ fires # <<>>
    /\ fires[1].slot > now \/ fires[1].job \in sick
    /\ fires' = Tail(fires)
    /\ UNCHANGED <<now, kv, loaded, fireStep, sick, sent, outages, deaths>>

PlanDone ==
    /\ fireStep = "publish" /\ fires = <<>>
    /\ fireStep' = "plan"
    /\ UNCHANGED <<now, kv, loaded, fires, sick, sent, outages, deaths>>

Ready == fireStep = "publish" /\ fires # <<>> /\ fires[1].slot <= now /\ fires[1].job \notin sick

\* A durable fire carries its dedup id: the stream keeps one copy of a slot.
Copies(f)  == Cardinality({m \in sent : m.job = f.job /\ m.slot = f.slot})
ArriveAnyway(f) == sent \cup {[job |-> f.job, slot |-> f.slot, at |-> now, copy |-> Copies(f)]}
Arrive(f)  == IF Schedule[f.job].durable /\ Copies(f) > 0 THEN sent
              ELSE sent \cup {[job |-> f.job, slot |-> f.slot, at |-> now, copy |-> Copies(f)]}

PublishAcked ==
    /\ Ready
    /\ sent' = Arrive(fires[1])
    /\ fireStep' = "acked"
    /\ UNCHANGED <<now, kv, loaded, fires, sick, outages, deaths>>

\* The publish fails, or its ack is lost; the loop tries again until the job's
\* next slot.
PublishFails ==
    /\ Ready /\ outages < MaxOutages
    /\ outages' = outages + 1
    /\ \/ UNCHANGED sent
       \/ Schedule[fires[1].job].durable /\ sent' = Arrive(fires[1])
    /\ fireStep' = IF now >= Next2(fires[1].job, fires[1].slot) THEN "superseded" ELSE "retry"
    /\ UNCHANGED <<now, kv, loaded, fires, sick, deaths>>

Backoff ==
    /\ fireStep = "retry"
    /\ fireStep' = IF now >= Next2(fires[1].job, fires[1].slot) THEN "superseded" ELSE "publish"
    /\ UNCHANGED <<now, kv, loaded, fires, sick, sent, outages, deaths>>

\* No stream takes the subject: the job is left alone until a reload.
PublishRefused ==
    /\ Ready /\ outages < MaxOutages /\ Schedule[fires[1].job].durable
    /\ outages' = outages + 1
    /\ sick' = sick \cup {fires[1].job}
    /\ fires' = Tail(fires)
    /\ UNCHANGED <<now, kv, loaded, fireStep, sent, deaths>>

\* store.Put of the record, retried for as long as the broker refuses it.
RecordAcked ==
    /\ fireStep = "acked"
    /\ kv' = [kv EXCEPT ![fires[1].job] = RecordFire(loaded[fires[1].job], fires[1].slot)]
    /\ fires' = Tail(fires)
    /\ fireStep' = "publish"
    /\ UNCHANGED <<now, loaded, sick, sent, outages, deaths>>

RecordSuperseded ==
    /\ fireStep = "superseded"
    /\ kv' = [kv EXCEPT ![fires[1].job] = SupersedeFire(loaded[fires[1].job], fires[1].slot)]
    /\ fires' = Tail(fires)
    /\ fireStep' = "publish"
    /\ UNCHANGED <<now, loaded, sick, sent, outages, deaths>>

ClockTick ==
    /\ now < MaxNow
    /\ now' = now + 1
    /\ UNCHANGED <<kv, loaded, fires, fireStep, sick, sent, outages, deaths>>

StartCron ==
    /\ fireStep = "stopped"
    /\ fireStep' = "plan"
    /\ UNCHANGED <<now, kv, loaded, fires, sick, sent, outages, deaths>>

KillCron ==
    /\ fireStep # "stopped" /\ deaths < MaxDeaths
    /\ deaths' = deaths + 1
    /\ fireStep' = "stopped"
    /\ fires' = <<>>
    /\ sick' = {}
    /\ loaded' = kv
    /\ UNCHANGED <<now, kv, sent, outages>>

FireTurn == PlanFires \/ PassOver \/ PlanDone \/ PublishAcked \/ Backoff \/ RecordAcked
                \/ RecordSuperseded \/ StartCron
FireNext == FireTurn \/ WakeUp \/ PublishFails \/ PublishRefused \/ ClockTick \/ KillCron

FireSpec == FireInit /\ [][FireNext]_fireVars

\* The goroutine runs, its timers fire, time passes.
FireFairness ==
    /\ WF_fireVars(FireTurn)
    /\ SF_fireVars(WakeUp /\ fireStep' = "publish") /\ WF_fireVars(WakeUp)
    /\ WF_fireVars(ClockTick)

--------------------------------------------------------------------------------
\* Types; in particular no job's ledger outgrows the ceiling it is counted against
\* (recordFire's trim).
FireTypeOK ==
    /\ now \in 1 .. MaxNow
    /\ \A j \in FireJobs : kv[j].last \in 0 .. MaxNow
                              /\ Len(kv[j].ledger) <= FireLimit
                              /\ \A i \in DOMAIN kv[j].ledger : kv[j].ledger[i] \in 1 .. now
    /\ fireStep \in {"plan", "wait", "publish", "retry", "acked", "superseded", "stopped"}
    /\ fireStep \in {"acked", "retry", "superseded"} => fires # <<>>

\* The valve: over no window of the clock do more fires reach the stream than
\* the ceiling, plus one for each death that may have cut a fire off from its
\* record and each publish whose acknowledgement was lost.
ValveHolds ==
    \A t \in 1 .. now :
        Cardinality({m \in sent : InWindow(m.at, t)}) <= FireLimit + deaths + outages

\* A slot is fired once: a durable job's slot reaches the stream once, through
\* lost acknowledgements, retries and restarts, and another job's only twice if
\* the process died in between.
SlotFiredOnce ==
    \A m \in sent : m.copy = 0 \/ (~Schedule[m.job].durable /\ deaths > 0)

\* A backlog collapses: plan never fires a slot that a later one of the same job
\* had already replaced when the previous fire went out, whatever stopped the
\* loop in between.
BacklogCollapses ==
    \A m, n \in sent : m.job = n.job /\ m.slot < n.slot => m.at < n.slot + Schedule[m.job].every

\* A job that catches up once never loses a slot to a stop, an outage or a busy
\* loop: each slot is fired, collapsed into a later one, superseded, or its job
\* is unhealthy, or the valve is closed where the clock ends.
ValveShut == now = MaxNow /\ Used(kv) >= FireLimit
Owed == {j \in FireJobs \ sick :
            /\ Schedule[j].once /\ kv[j].last > 0
            /\ \E s \in 1 .. now : s % Schedule[j].every = 0 /\ kv[j].last < s}
OnceCatchesUp ==
    FireFairness => ((fireStep # "stopped" /\ Owed # {}) ~> (Owed = {} \/ ValveShut))
================================================================================
