------------------------------- MODULE CronReload -------------------------------
(***************************************************************************)
(* fq-cron's configuration: a file that somebody rewrites, the watcher     *)
(* goroutine that settles and accepts it and hands the reload over on an   *)
(* unbuffered channel, and the scheduler loop that applies it, parks the   *)
(* deletion of a dropped job's fire state and confirms it at the deadline  *)
(* with a look of its own through the watcher.                             *)
(***************************************************************************)
EXTENDS Naturals, FiniteSets

CONSTANTS Files,         \* contents: [whole: does it parse and declare its jobs, jobs]
          Window,        \* removal.Confirm, in ticks
          MaxClock, MaxWrites, MaxStarts    \* bounds

CronJobs == UNION {f.jobs : f \in Files}

VARIABLES cfgFile,    \* the file's content
          wCur,       \* ConfigWatcher.current
          wSeen,      \* ConfigWatcher.lastSeen
          wStep,      \* the watcher goroutine: "idle", "settling", "sending"
          wHeld,      \* its first read, or the config of the event it offers
          lCfg,       \* the loop's config
          lStep,      \* "down", "dialling", "busy", "wait", "recheck", "settling", "delete"
          lHeld,      \* the recheck's first read
          parked,     \* pendingRemovals.deadline: job -> tick, 0 when not parked
          doomed,     \* the confirmed removals being deleted
          kvRows,     \* jobs with fire state in KV
          overtaken,  \* the loop has applied a config newer than the one on the channel
          clock, writes, starts

reloadVars == <<cfgFile, wCur, wSeen, wStep, wHeld, lCfg, lStep, lHeld, parked, doomed,
                kvRows, overtaken, clock, writes, starts>>

NoFile == [whole |-> FALSE, jobs |-> {}]

ReloadInit ==
    /\ cfgFile \in {f \in Files : f.whole}
    /\ wCur = {} /\ wSeen = NoFile /\ wStep = "idle" /\ wHeld = NoFile
    /\ lCfg = {} /\ lStep = "down" /\ lHeld = NoFile
    /\ parked = [j \in CronJobs |-> 0]
    /\ doomed = {}
    /\ kvRows = CronJobs
    /\ overtaken = FALSE
    /\ clock = 1 /\ writes = 0 /\ starts = 0

--------------------------------------------------------------------------------
\* An editor, a deploy or a slow copy leaves the file with some other content.
WriteFile(f) ==
    /\ writes < MaxWrites /\ f # cfgFile
    /\ writes' = writes + 1
    /\ cfgFile' = f
    /\ UNCHANGED <<wCur, wSeen, wStep, wHeld, lCfg, lStep, lHeld, parked, doomed, kvRows,
                   overtaken, clock, starts>>

PassTime ==
    /\ clock < MaxClock
    /\ clock' = clock + 1
    /\ UNCHANGED <<cfgFile, wCur, wSeen, wStep, wHeld, lCfg, lStep, lHeld, parked, doomed,
                   kvRows, overtaken, writes, starts>>

\* run: load the config, and only then wait for the broker.
LoadAtStart ==
    /\ lStep = "down" /\ starts < MaxStarts
    /\ cfgFile.whole
    /\ starts' = starts + 1
    /\ lCfg' = cfgFile.jobs
    /\ lHeld' = cfgFile
    /\ lStep' = "dialling"
    /\ UNCHANGED <<cfgFile, wCur, wSeen, wStep, wHeld, parked, doomed, kvRows, overtaken,
                   clock, writes>>

\* NewConfigWatcher, seeded from the bytes that were loaded - or, wrongly, from
\* what the file holds by now.
SeedFromFile == [cur |-> lCfg, seen |-> cfgFile]
Seed         == [cur |-> lCfg, seen |-> lHeld]

StartWatcher ==
    /\ lStep = "dialling"
    /\ wCur' = Seed.cur
    /\ wSeen' = Seed.seen
    /\ lStep' = "busy"
    /\ lHeld' = NoFile
    /\ UNCHANGED <<cfgFile, wStep, wHeld, lCfg, parked, doomed, kvRows, overtaken, clock,
                   writes, starts>>

\* A signal, or a death: parked removals are not carried out on the way out.
StopCron ==
    /\ lStep # "down" /\ starts < MaxStarts
    /\ lStep' = "down" /\ lCfg' = {} /\ lHeld' = NoFile
    /\ wStep' = "idle" /\ wHeld' = NoFile /\ wCur' = {} /\ wSeen' = NoFile
    /\ parked' = [j \in CronJobs |-> 0]
    /\ doomed' = {}
    /\ overtaken' = FALSE
    /\ UNCHANGED <<cfgFile, kvRows, clock, writes, starts>>

--------------------------------------------------------------------------------
\* check: two reads a settle apart, under the watcher's lock.

Started == lStep \notin {"down", "dialling"}
Locked  == wStep = "settling" \/ lStep = "settling"

\* emitIfChanged, its first read: by the poll, SIGHUP or the accelerator.
FirstRead ==
    /\ Started /\ wStep = "idle" /\ ~Locked
    /\ cfgFile # wSeen
    /\ wStep' = "settling"
    /\ wHeld' = cfgFile
    /\ UNCHANGED <<cfgFile, wCur, wSeen, lCfg, lStep, lHeld, parked, doomed, kvRows,
                   overtaken, clock, writes, starts>>

\* What the second read concludes of the first.
Outcome(first) == IF cfgFile # first THEN "unsettled"
                  ELSE IF ~first.whole THEN "rejected" ELSE "accepted"

ConcludedAlways(first) ==
    /\ wSeen' = IF Outcome(first) = "unsettled" THEN wSeen ELSE first
    /\ wCur'  = IF Outcome(first) = "unsettled" THEN wCur ELSE first.jobs
Concluded(first) ==
    /\ wSeen' = IF Outcome(first) = "unsettled" THEN wSeen ELSE first
    /\ wCur'  = IF Outcome(first) = "accepted" THEN first.jobs ELSE wCur

\* The event carries the diff against the config it replaces; the drop is what
\* the loop acts on.
SecondRead ==
    /\ wStep = "settling"
    /\ Concluded(wHeld)
    /\ IF Outcome(wHeld) = "accepted"
         THEN wStep' = "sending" /\ wHeld' = [cfg |-> wHeld.jobs, dropped |-> wCur \ wHeld.jobs]
         ELSE wStep' = "idle" /\ wHeld' = NoFile
    /\ UNCHANGED <<cfgFile, lCfg, lStep, lHeld, parked, doomed, kvRows, overtaken, clock,
                   writes, starts>>

--------------------------------------------------------------------------------
\* The loop.

\* Planning, publishing and recording, for however long the broker takes.
GoBusy ==
    /\ lStep = "wait"
    /\ lStep' = "busy"
    /\ UNCHANGED <<cfgFile, wCur, wSeen, wStep, wHeld, lCfg, lHeld, parked, doomed, kvRows,
                   overtaken, clock, writes, starts>>

Settle ==
    /\ lStep = "busy"
    /\ lStep' = "wait"
    /\ UNCHANGED <<cfgFile, wCur, wSeen, wStep, wHeld, lCfg, lHeld, parked, doomed, kvRows,
                   overtaken, clock, writes, starts>>

\* applyReload: retain, then park what the diff dropped unless it is parked.
RetainedNone(e) == [j \in CronJobs |->
                   IF j \in e.dropped /\ parked[j] = 0 THEN clock + Window ELSE parked[j]]
Retained(e) == [j \in CronJobs |->
                   IF j \in e.cfg THEN 0
                   ELSE IF j \in e.dropped /\ parked[j] = 0 THEN clock + Window ELSE parked[j]]

TakeReload ==
    /\ lStep = "wait" /\ wStep = "sending"
    /\ lCfg' = wHeld.cfg
    /\ parked' = Retained(wHeld)
    /\ wStep' = "idle" /\ wHeld' = NoFile
    /\ lStep' = "busy"
    /\ UNCHANGED <<cfgFile, wCur, wSeen, lHeld, doomed, kvRows, overtaken, clock, writes, starts>>

DueAll(p) == {j \in CronJobs : p[j] <= clock}
Due(p) == {j \in CronJobs : p[j] # 0 /\ p[j] <= clock}

\* The confirm timer.
FallDue ==
    /\ lStep = "wait" /\ Due(parked) # {}
    /\ lStep' = "recheck"
    /\ UNCHANGED <<cfgFile, wCur, wSeen, wStep, wHeld, lCfg, lHeld, parked, doomed, kvRows,
                   overtaken, clock, writes, starts>>

\* confirmRemovals decides against the watcher's configuration: what is back is
\* forgotten, the rest is deleted.
DecideByLoop(watchers, own, p) ==
    /\ doomed' = Due(p) \ own
    /\ parked' = [j \in CronJobs |-> IF j \in Due(p) /\ j \in own THEN 0 ELSE p[j]]
    /\ lStep' = IF Due(p) \subseteq own THEN "busy" ELSE "delete"

Decide(watchers, own, p) ==
    /\ doomed' = Due(p) \ watchers
    /\ parked' = [j \in CronJobs |-> IF j \in Due(p) /\ j \in watchers THEN 0 ELSE p[j]]
    /\ lStep' = IF Due(p) \subseteq watchers THEN "busy" ELSE "delete"

\* Check on a file that reads as it did.
RecheckSame ==
    /\ lStep = "recheck" /\ ~Locked
    /\ cfgFile = wSeen
    /\ Decide(wCur, lCfg, parked)
    /\ UNCHANGED <<cfgFile, wCur, wSeen, wStep, wHeld, lCfg, lHeld, kvRows, overtaken, clock,
                   writes, starts>>

RecheckRead ==
    /\ lStep = "recheck" /\ ~Locked
    /\ cfgFile # wSeen
    /\ lStep' = "settling"
    /\ lHeld' = cfgFile
    /\ UNCHANGED <<cfgFile, wCur, wSeen, wStep, wHeld, lCfg, parked, doomed, kvRows, overtaken,
                   clock, writes, starts>>

\* The second look: an accepted reload is applied there and then, whatever the
\* watcher goroutine is offering at that moment.
RecheckSettled ==
    /\ lStep = "settling"
    /\ Concluded(lHeld)
    /\ IF Outcome(lHeld) = "accepted"
         THEN LET e == [cfg |-> lHeld.jobs, dropped |-> wCur \ lHeld.jobs]
              IN  /\ lCfg' = e.cfg
                  /\ Decide(e.cfg, e.cfg, Retained(e))
                  /\ overtaken' = (overtaken \/ wStep = "sending")
         ELSE /\ Decide(wCur, lCfg, parked)
              /\ UNCHANGED <<lCfg, overtaken>>
    /\ lHeld' = NoFile
    /\ UNCHANGED <<cfgFile, wStep, wHeld, kvRows, clock, writes, starts>>

DeleteUnforgotten ==
    /\ lStep = "delete"
    /\ kvRows' = kvRows \ doomed
    /\ doomed' = {}
    /\ lStep' = "busy"
    /\ UNCHANGED <<cfgFile, wCur, wSeen, wStep, wHeld, lCfg, lHeld, parked, overtaken, clock,
                   writes, starts>>

\* removeState, retried until the broker takes it.
DeleteState ==
    /\ lStep = "delete"
    /\ kvRows' = kvRows \ doomed
    /\ parked' = [j \in CronJobs |-> IF j \in doomed THEN 0 ELSE parked[j]]
    /\ doomed' = {}
    /\ lStep' = "busy"
    /\ UNCHANGED <<cfgFile, wCur, wSeen, wStep, wHeld, lCfg, lHeld, overtaken, clock, writes,
                   starts>>

\* A fire of a listed job writes its state.
WriteState(j) ==
    /\ lStep = "busy" /\ j \in lCfg /\ j \notin kvRows
    /\ kvRows' = kvRows \cup {j}
    /\ UNCHANGED <<cfgFile, wCur, wSeen, wStep, wHeld, lCfg, lStep, lHeld, parked, doomed,
                   overtaken, clock, writes, starts>>

BootStep  == LoadAtStart \/ StartWatcher
WatchStep == FirstRead \/ SecondRead
LoopTurn  == Settle \/ RecheckSame \/ RecheckRead \/ RecheckSettled \/ DeleteState
ReloadNext ==
    \/ BootStep \/ WatchStep \/ LoopTurn \/ TakeReload \/ FallDue \/ GoBusy \/ PassTime \/ StopCron
    \/ \E f \in Files : WriteFile(f)
    \/ \E j \in CronJobs : WriteState(j)

ReloadSpec == ReloadInit /\ [][ReloadNext]_reloadVars

\* Goroutines run, timers fire, the poll recurs, and the supervisor restarts.
\* Go's select is random, so a reload that is always ready is taken.
ReloadFairness ==
    /\ WF_reloadVars(BootStep) /\ WF_reloadVars(WatchStep)
    /\ WF_reloadVars(LoopTurn) /\ SF_reloadVars(TakeReload)
    /\ SF_reloadVars(FallDue) /\ WF_reloadVars(PassTime)

--------------------------------------------------------------------------------
\* Types; in particular a removal is parked at a deadline within the window, and only a
\* parked one is being deleted, and the watcher's lock has one holder (confirmRemovals, Check).
ReloadTypeOK ==
    /\ cfgFile \in Files /\ wSeen \in Files \cup {NoFile} /\ wCur \subseteq CronJobs
    /\ wStep \in {"idle", "settling", "sending"}
    /\ lCfg \subseteq CronJobs
    /\ lStep \in {"down", "dialling", "busy", "wait", "recheck", "settling", "delete"}
    /\ parked \in [CronJobs -> 0 .. MaxClock + Window]
    /\ doomed \subseteq {j \in CronJobs : parked[j] # 0}
    /\ kvRows \subseteq CronJobs
    /\ ~(wStep = "settling" /\ lStep = "settling")

\* The loop runs what the watcher holds: with nothing on the channel, the two
\* configurations are one - unless a recheck applied a newer configuration
\* while an older one was still being offered.
ConfigsAgree ==
    ~overtaken /\ Started /\ wStep # "sending" => lCfg = wCur

\* A removal is confirmed only against the configuration in force: no job the
\* watcher has accepted back by the deadline loses its fire ledger, even while
\* the reload that brings it back still waits on the channel.
KeptIfBack ==
    [][lStep' = "delete" /\ lStep # "delete" => doomed' \cap wCur' = {}]_reloadVars

\* A parked removal is for a job the loop no longer runs.
ParkedIsDropped == Started => \A j \in CronJobs : parked[j] # 0 => j \notin lCfg

\* An edit made at any moment, the wait for the broker included, takes effect
\* if it stands: the loop comes to run the file's jobs.
EditTakesEffect ==
    ReloadFairness =>
        ((Started /\ cfgFile.whole) ~> (~cfgFile.whole \/ lCfg = cfgFile.jobs \/ overtaken))

\* No removal stays parked: each is carried out, cancelled or given up at a
\* stop.
RemovalSettled ==
    ReloadFairness =>
        ((\E j \in CronJobs : parked[j] # 0) ~> (\A j \in CronJobs : parked[j] \notin 1 .. MaxClock))

\* What the design says of a reload: the configuration a check accepts is the
\* one in force from then on.
AcceptedIsInForce == Started /\ wStep # "sending" => lCfg = wCur
================================================================================
