------------------------------- MODULE Maintenance -------------------------------
(***************************************************************************)
(* Scheduled maintenance: control_plane/maintenance/consumer.rs takes      *)
(* fq.maintenance.<task> commands one at a time, runs the task of task.rs, *)
(* publishes the outcome and then the operator signals of the run, and     *)
(* acks.  RunLedger remembers the runs of this process, so that a command  *)
(* delivered again is answered and not run again.                          *)
(*                                                                         *)
(* A publish that fails may have been stored all the same (its reply was   *)
(* lost); an ack may be lost; an ack window may lapse while a command is   *)
(* being handled; the process may die between any two steps.               *)
(***************************************************************************)
EXTENDS Integers, Sequences, FiniteSets

CONSTANTS Commands,       \* the commands on the stream
          RunOf,          \* Nats-Msg-Id, or seq:<n>, by command
          TaskOf,         \* the task token of the subject, by command
          LedgerSize,     \* RUN_LEDGER_CAPACITY
          MaintenanceOn,  \* [maintenance] enabled
          MaxMishaps,     \* bound: failed or unheard publishes, lost acks, lapses
          MaxDeaths       \* bound: process deaths

\* maintenance/consumer.rs keeps room for one run at least.
ASSUME LedgerAssumption == LedgerSize \in Nat \ {0}

VARIABLES mtAcked,    \* the commands the broker counts as acked
          mtDue,      \* deliveries waiting for the loop, by command
          mtLedger,   \* RunLedger: [order, entries]
          mtJob,      \* the command being handled
          mtRan,      \* history: the runs of this process, in order
          mtOutcomes, \* history: maintenance_run events on the log, by run id
          mtSignals,  \* history: operator signals on the log, by run id
          mtRuns,     \* history: runs of any process, by run id
          mtMishaps, mtDeaths

maintVars == <<mtAcked, mtDue, mtLedger, mtJob, mtRan, mtOutcomes, mtSignals, mtRuns,
               mtMishaps, mtDeaths>>

RunIds == {RunOf[c] : c \in Commands}

\* Resolved: what a run left to be published, and how many signals go with it.
Resolved(outcome, n) == [outcome |-> outcome, signals |-> n]
None  == [outcome |-> "none", signals |-> 0]
NoJob == [at |-> "idle"]

--------------------------------------------------------------------------------
(***************************************************************************)
(* RunLedger.  entries maps the ids of order to a held outcome or to None. *)
(***************************************************************************)
EmptyLedger == [order |-> <<>>, entries |-> <<>>]

Ids(order)   == {order[i] : i \in DOMAIN order}
Known(l, id) == id \in DOMAIN l.entries

ledger_start_unseen(l, id) ==
    IF Known(l, id) THEN l ELSE [l EXCEPT !.order = Append(@, id)]

\* start: the oldest entry makes room, held outcome and all.
ledger_start(l, id) ==
    IF Known(l, id) THEN l
    ELSE LET order == IF Len(l.order) >= LedgerSize THEN Tail(l.order) ELSE l.order
         IN [order   |-> Append(order, id),
             entries |-> [i \in Ids(order) \union {id} |-> IF i = id THEN None ELSE l.entries[i]]]

\* hold and resolved write to an entry that is still there.
ledger_set(l, id, slot) ==
    IF Known(l, id) THEN [l EXCEPT !.entries[id] = slot] ELSE l

--------------------------------------------------------------------------------
MaintenanceInit ==
    /\ mtAcked = {}
    /\ mtDue = [c \in Commands |-> IF MaintenanceOn THEN 1 ELSE 0]
    /\ mtLedger = EmptyLedger
    /\ mtJob = NoJob
    /\ mtRan = <<>>
    /\ mtOutcomes = [r \in RunIds |-> 0]
    /\ mtSignals = [r \in RunIds |-> 0]
    /\ mtRuns = [r \in RunIds |-> 0]
    /\ mtMishaps = 0
    /\ mtDeaths = 0

\* MaintenanceTask::parse and ::run: an unknown task is refused, ping answers, and a
\* pricing refresh fails (one run_failed signal) or reports with none or one of its own.
task_run(token) ==
    IF token = "ping" THEN {Resolved("succeeded", 0)}
    ELSE IF token = "pricing_refresh"
      THEN {Resolved("succeeded", 0), Resolved("succeeded", 1), Resolved("failed", 1)}
    ELSE {}

resolve(token) ==
    IF task_run(token) = {} THEN {Resolved("refused", 0)} ELSE task_run(token)

\* handle, up to the publish: a run this process knows is not run again.
Handle(c) ==
    LET id == RunOf[c]
    IN /\ mtJob = NoJob
       /\ mtDue[c] > 0
       /\ mtDue' = [mtDue EXCEPT ![c] = @ - 1]
       /\ IF Known(mtLedger, id)
            THEN /\ mtJob' = IF mtLedger.entries[id] = None
                               THEN [at |-> "ack", cmd |-> c]
                               ELSE [at |-> "settle", cmd |-> c, res |-> mtLedger.entries[id]]
                 /\ UNCHANGED <<mtLedger, mtRan, mtRuns>>
            ELSE /\ mtLedger' = ledger_start(mtLedger, id)
                 /\ \E res \in resolve(TaskOf[c]) :
                      mtJob' = [at |-> "settle", cmd |-> c, res |-> res]
                 /\ mtRan' = Append(mtRan, id)
                 /\ mtRuns' = [mtRuns EXCEPT ![id] = @ + 1]
       /\ UNCHANGED <<mtAcked, mtOutcomes, mtSignals, mtMishaps, mtDeaths>>

Mishap == mtMishaps < MaxMishaps /\ mtMishaps' = mtMishaps + 1
Smooth == UNCHANGED mtMishaps

SettleSignalsFirst ==
    LET id == RunOf[mtJob.cmd]
    IN /\ mtJob.at = "settle"
       /\ mtSignals' = [mtSignals EXCEPT ![id] = @ + mtJob.res.signals]
       /\ \/ /\ Smooth
             /\ mtOutcomes' = [mtOutcomes EXCEPT ![id] = @ + 1]
             /\ mtLedger' = ledger_set(mtLedger, id, None)
             /\ mtJob' = [at |-> "ack", cmd |-> mtJob.cmd]
          \/ /\ Mishap
             /\ UNCHANGED mtOutcomes
             /\ mtLedger' = ledger_set(mtLedger, id, mtJob.res)
             /\ mtJob' = [at |-> "nak", cmd |-> mtJob.cmd]
       /\ UNCHANGED <<mtAcked, mtDue, mtRan, mtRuns, mtDeaths>>

SettleAlwaysAcks ==
    LET id == RunOf[mtJob.cmd]
    IN /\ mtJob.at = "settle"
       /\ \/ Smooth /\ mtOutcomes' = [mtOutcomes EXCEPT ![id] = @ + 1]
          \/ Mishap /\ UNCHANGED mtOutcomes
       /\ mtLedger' = ledger_set(mtLedger, id, None)
       /\ mtJob' = [at |-> "signals", cmd |-> mtJob.cmd, left |-> mtJob.res.signals]
       /\ UNCHANGED <<mtAcked, mtDue, mtRan, mtSignals, mtRuns, mtDeaths>>

\* settle: a publish that reports an error holds the outcome for the redelivery.
Settle ==
    LET id == RunOf[mtJob.cmd]
    IN /\ mtJob.at = "settle"
       /\ \/ /\ Smooth
             /\ mtOutcomes' = [mtOutcomes EXCEPT ![id] = @ + 1]
             /\ mtJob' = [at |-> "signals", cmd |-> mtJob.cmd, left |-> mtJob.res.signals]
             /\ UNCHANGED mtLedger
          \/ /\ Mishap
             /\ mtOutcomes' \in {mtOutcomes, [mtOutcomes EXCEPT ![id] = @ + 1]}
             /\ mtLedger' = ledger_set(mtLedger, id, mtJob.res)
             /\ mtJob' = [at |-> "nak", cmd |-> mtJob.cmd]
       /\ UNCHANGED <<mtAcked, mtDue, mtRan, mtSignals, mtRuns, mtDeaths>>

\* publish_signals, one at a time: one that cannot be published is dropped.  Then
\* the ledger entry is resolved.
PublishSignals ==
    LET id == RunOf[mtJob.cmd]
    IN /\ mtJob.at = "signals"
       /\ IF mtJob.left > 0
            THEN /\ mtJob' = [mtJob EXCEPT !.left = @ - 1]
                 /\ \/ Smooth /\ mtSignals' = [mtSignals EXCEPT ![id] = @ + 1]
                    \/ Mishap /\ UNCHANGED mtSignals
                 /\ UNCHANGED mtLedger
            ELSE /\ mtJob' = [at |-> "ack", cmd |-> mtJob.cmd]
                 /\ mtLedger' = ledger_set(mtLedger, id, None)
                 /\ UNCHANGED <<mtSignals, mtMishaps>>
       /\ UNCHANGED <<mtAcked, mtDue, mtRan, mtOutcomes, mtRuns, mtDeaths>>

\* The loop acks what was handled and naks what was not; an ack may be lost.
Answered ==
    /\ mtJob.at \in {"ack", "nak"}
    /\ mtJob' = NoJob
    /\ \/ /\ mtJob.at = "ack"
          /\ Smooth
          /\ mtAcked' = mtAcked \union {mtJob.cmd}
          /\ UNCHANGED mtDue
       \/ /\ IF mtJob.at = "nak" THEN Smooth ELSE Mishap
          /\ mtDue' = [mtDue EXCEPT ![mtJob.cmd] = @ + 1]
          /\ UNCHANGED mtAcked
    /\ UNCHANGED <<mtLedger, mtRan, mtOutcomes, mtSignals, mtRuns, mtDeaths>>

\* The ack window lapses under the handler: the broker delivers the command again.
Lapse ==
    /\ mtJob # NoJob
    /\ mtJob.cmd \notin mtAcked
    /\ Mishap
    /\ mtDue' = [mtDue EXCEPT ![mtJob.cmd] = @ + 1]
    /\ UNCHANGED <<mtAcked, mtLedger, mtJob, mtRan, mtOutcomes, mtSignals, mtRuns, mtDeaths>>

\* The process dies and another one starts: its ledger is empty, and what was not
\* acked is delivered again.
Die ==
    /\ mtDeaths < MaxDeaths
    /\ mtDeaths' = mtDeaths + 1
    /\ mtLedger' = EmptyLedger
    /\ mtJob' = NoJob
    /\ mtRan' = <<>>
    /\ mtDue' = [c \in Commands |-> IF c \in mtAcked \/ ~MaintenanceOn THEN 0 ELSE 1]
    /\ UNCHANGED <<mtAcked, mtOutcomes, mtSignals, mtRuns, mtMishaps>>

MaintenanceNext ==
    \/ \E c \in Commands : Handle(c)
    \/ Settle \/ PublishSignals \/ Answered \/ Lapse \/ Die

MaintenanceSpec == MaintenanceInit /\ [][MaintenanceNext]_maintVars

--------------------------------------------------------------------------------
\* A process runs a maintenance run again only after as many other runs as the
\* ledger holds have started since: until then a redelivery is answered from it.
RunsOnceWithinLedger ==
    \A i, j \in DOMAIN mtRan : i < j /\ mtRan[i] = mtRan[j] => j - i > LedgerSize

\* A command the broker counts as acked has its outcome on the log: an outcome that
\* could not be published is held and the command delivered again.
AckedIsRecorded ==
    \A c \in mtAcked : mtOutcomes[RunOf[c]] > 0

\* The signals of a run go out at most once however often its outcome has to be
\* published: they follow the publish that succeeded.
SignalsOncePerRun ==
    \A r \in RunIds : mtSignals[r] <= mtRuns[r]
================================================================================
