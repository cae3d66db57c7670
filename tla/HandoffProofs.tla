---------------------------- MODULE HandoffProofs ----------------------------
(***************************************************************************)
(* Proofs about the roster of workers and the hand-off of an invocation to  *)
(* the archive, for any number of processes, heartbeats, faults, drops and  *)
(* resumes.                                                                 *)
(***************************************************************************)
EXTENDS ArchiveHandoff, SequenceTheorems, TLAPS

(***************************************************************************)
(* The roster.  Nobody sweeps the living: the running worker is on neither   *)
(* list, and a worker that was not started yet has no row.                  *)
(***************************************************************************)
RosterRow(w) ==
    /\ w > boot => worker[w].status = "absent" /\ w \notin clean
    /\ w >= boot => orphaned[w] = 0
    /\ worker[w].status = "alive" => orphaned[w] <= revived[w]
    /\ w \in clean \ late => worker[w].status \in {"shutdown", "absent"} /\ orphaned[w] = 0
    /\ orphaned[w] <= 1 + revived[w]

RosterInv ==
    /\ MembershipTypeOK /\ doomed \subseteq Workers
    /\ life # "down" => /\ boot >= 1 /\ worker[boot].status = "alive"
                        /\ boot \notin stale /\ boot \notin doomed
    /\ life = "down" => stale = {} /\ doomed = {}
    /\ \A w \in Workers : RosterRow(w)

\* The first process finds an empty roster.
LEMMA RosterInit == Init => RosterInv
  BY MembershipBounds DEF Init, MembershipInit, RosterInv, MembershipTypeOK, Workers,
     NoWorker, Ages,
     RosterRow

WorkerRows == [status : {"absent", "alive", "stale", "shutdown"}, age : Ages]

\* What the invariant says of one worker.
LEMMA RosterFacts ==
    ASSUME RosterInv, NEW w \in Workers
    PROVE  /\ w \in Nat /\ boot \in Nat
           /\ worker[w] \in WorkerRows /\ orphaned[w] \in Nat /\ revived[w] \in Nat
           /\ RosterRow(w)
           /\ life # "down" => /\ boot >= 1 /\ worker[boot].status = "alive"
                               /\ boot \notin stale /\ boot \notin doomed
           /\ life = "down" => stale = {} /\ doomed = {}
  BY MembershipBounds DEF RosterInv, MembershipTypeOK, WorkerRows, Workers

\* A process that starts registers under an id nobody had.
LEMMA RosterRegister == ASSUME RosterInv, Register, doomed' = doomed PROVE RosterInv'
<1>1. boot + 1 \in Workers /\ boot \in Nat /\ boot' = boot + 1 /\ life = "down"
  BY MembershipBounds DEF RosterInv, Register, MembershipTypeOK, Workers
<1>2. /\ worker' \in [Workers -> WorkerRows] /\ worker'[boot + 1].status = "alive"
      /\ \A w \in Workers \ {boot + 1} : worker'[w] = worker[w]
  BY Zenon, <1>1 DEF RosterInv, Register, MembershipTypeOK, Alive, WorkerRows, Ages
<1>3. MembershipTypeOK'
  <2>1. boot' \in 0 .. MaxBoots /\ sent' \in 0 .. MaxBeats
    BY <1>1, MembershipBounds DEF Register, Workers
  <2> QED  BY Zenon, <1>2, <2>1 DEF RosterInv, MembershipTypeOK, Register, WorkerRows
<1>4. UNCHANGED <<stale, clean, revived, late, orphaned>> /\ life' = "boot"
      /\ stale = {} /\ doomed = {}
  BY Zenon DEF Register, RosterInv
<1>5. ASSUME NEW w \in Workers PROVE RosterRow(w)'
  BY <1>1, <1>2, <1>4, RosterFacts DEF RosterRow
<1> QED  BY <1>1, <1>2, <1>3, <1>4, <1>5 DEF RosterInv

\* A heartbeat revives the row it names, and tells no other worker from the dead.
LEMMA RosterBeat ==
    ASSUME RosterInv, doomed' = doomed, EmitBeat \/ \E b \in beats : HandleBeat(b)
    PROVE  RosterInv'
<1>1. CASE EmitBeat
  <2>1. boot \in Workers
    BY <1>1, MembershipBounds DEF RosterInv, EmitBeat, Hosted, MembershipTypeOK, Workers
  <2>2. /\ UNCHANGED <<boot, life, worker, stale, ticks, clean, revived, late, orphaned>>
        /\ sent' \in 0 .. MaxBeats
    BY <1>1, MembershipBounds DEF RosterInv, EmitBeat, MembershipTypeOK
  <2>3. [worker |-> boot, age |-> "fresh", again |-> FALSE]
            \in [worker : Workers, age : Ages, again : BOOLEAN]
    BY Zenon, <2>1 DEF Ages
  <2>4. MembershipTypeOK'
    BY Zenon, <1>1, <2>2, <2>3 DEF RosterInv, EmitBeat, MembershipTypeOK
  <2> QED  BY Zenon, <2>2, <2>4 DEF RosterInv, RosterRow
<1>2. ASSUME NEW b \in beats, HandleBeat(b) PROVE RosterInv'
  <2> DEFINE was == worker[b.worker].status
  <2>1. /\ b \in [worker : Workers, age : Ages, again : BOOLEAN] /\ b.worker \in Workers
        /\ b.age \in Ages /\ worker \in [Workers -> WorkerRows]
    BY Zenon DEF RosterInv, MembershipTypeOK, WorkerRows
  <2>2. /\ worker' \in [Workers -> WorkerRows]
        /\ \A w \in Workers \ {b.worker} : worker'[w] = worker[w]
        /\ worker'[b.worker].status = IF was = "absent" THEN "absent" ELSE "alive"
    BY Zenon, <1>2, <2>1 DEF HandleBeat, HeartbeatWorker, Alive, WorkerRows
  <2>3. /\ revived' \in [Workers -> Nat] /\ revived \in [Workers -> Nat]
        /\ \A w \in Workers \ {b.worker} : revived'[w] = revived[w]
        /\ revived'[b.worker] = IF was \in {"stale", "shutdown"} THEN revived[b.worker] + 1
                                ELSE revived[b.worker]
        /\ late' = IF was = "shutdown" THEN late \cup {b.worker} ELSE late
    BY <1>2, <2>1 DEF HandleBeat, RosterInv, MembershipTypeOK
  <2>4. beats' \subseteq [worker : Workers, age : Ages, again : BOOLEAN]
    <3>1. [b EXCEPT !.again = TRUE] \in [worker : Workers, age : Ages, again : BOOLEAN]
      BY Zenon, <2>1
    <3>2. beats \subseteq [worker : Workers, age : Ages, again : BOOLEAN]
      BY Zenon DEF RosterInv, MembershipTypeOK
    <3> QED  BY Zenon, <1>2, <3>1, <3>2 DEF HandleBeat
  <2>5. /\ UNCHANGED <<boot, life, sent, stale, ticks, clean, orphaned>> /\ life # "down"
    BY Zenon, <1>2 DEF HandleBeat, Hosted
  <2>6. MembershipTypeOK'
    <3>1. late' \subseteq Workers
      BY Zenon, <2>1, <2>3 DEF RosterInv, MembershipTypeOK
    <3> QED  BY Zenon, <2>2, <2>3, <2>4, <2>5, <3>1 DEF RosterInv, MembershipTypeOK, WorkerRows
  <2> HIDE DEF was
  <2>7. ASSUME NEW w \in Workers PROVE RosterRow(w)'
    <3>1. CASE w # b.worker
      BY Zenon, <2>2, <2>3, <2>5, <3>1, RosterFacts DEF RosterRow
    <3>2. CASE w = b.worker
      <4>1. was \in {"absent", "alive", "stale", "shutdown"}
        BY Zenon, <2>1 DEF was, WorkerRows
      <4> QED  BY <2>2, <2>3, <2>5, <3>2, <4>1, RosterFacts DEF was, RosterRow
    <3> QED  BY Zenon, <3>1, <3>2
  <2>8. boot >= 1 /\ worker'[boot].status = "alive" /\ boot \notin stale /\ boot \notin doomed
    <3>1. boot \in Workers
      BY <2>5, MembershipBounds DEF RosterInv, MembershipTypeOK, Workers
    <3> QED  BY Zenon, <2>2, <2>5, <3>1, RosterFacts DEF was, RosterRow
  <2>9. doomed' \subseteq Workers
    BY Zenon DEF RosterInv
  <2> QED  BY Zenon, <2>5, <2>6, <2>7, <2>8, <2>9 DEF RosterInv
<1> QED  BY Zenon, <1>1, <1>2

\* The sweep takes only workers that lapsed, and reports each once for its row.
LEMMA RosterSweep ==
    ASSUME RosterInv, doomed' = doomed, SweepList \/ SweepFails \/ \E w \in stale : SweepOne(w)
    PROVE  RosterInv'
<1>1. CASE SweepList \/ SweepFails
  <2>1. /\ UNCHANGED <<boot, life, worker, beats, sent, ticks, clean, revived, late, orphaned>>
        /\ stale' \subseteq Workers \ {boot} /\ life # "down"
    BY Zenon, <1>1 DEF SweepList, SweepFails, ListStale, Hosted
  <2>2. MembershipTypeOK'
    BY Zenon, <2>1 DEF RosterInv, MembershipTypeOK
  <2> QED  BY Zenon, <2>1, <2>2 DEF RosterInv, RosterRow
<1>2. ASSUME NEW v \in stale, SweepOne(v) PROVE RosterInv'
  <2>1. /\ v \in Workers /\ UNCHANGED <<boot, life, beats, sent, ticks, clean, revived, late>>
        /\ stale' = stale \ {v} /\ life # "down" /\ doomed' \subseteq Workers
        /\ worker \in [Workers -> WorkerRows] /\ orphaned \in [Workers -> Nat]
    BY Zenon, <1>2 DEF RosterInv, MembershipTypeOK, SweepOne, Hosted, WorkerRows
  <2>2. CASE worker[v].status # "alive"
    <3>1. worker' = worker /\ orphaned' = orphaned
      BY Zenon, <1>2, <2>2 DEF SweepOne
    <3>2. MembershipTypeOK'
      BY Zenon, <2>1, <3>1 DEF RosterInv, MembershipTypeOK
    <3> QED  BY Zenon, <2>1, <3>1, <3>2 DEF RosterInv, RosterRow
  <2>3. CASE worker[v].status = "alive"
    <3>1. v < boot /\ v \notin clean \ late
      BY <2>1, <2>3, RosterFacts DEF RosterRow
    <3>2. PICK p \in {0, 1} : orphaned' = [orphaned EXCEPT ![v] = @ + p]
      BY Zenon, <1>2, <2>3 DEF SweepOne
    <3>3. /\ orphaned' \in [Workers -> Nat] /\ orphaned'[v] <= orphaned[v] + 1
          /\ \A w \in Workers \ {v} : orphaned'[w] = orphaned[w]
      BY <2>1, <3>2
    <3>4. /\ worker' \in [Workers -> WorkerRows] /\ worker'[v].status = "stale"
          /\ \A w \in Workers \ {v} : worker'[w] = worker[w]
      BY <1>2, <2>1, <2>3 DEF SweepOne, MarkStale, WorkerRows
    <3>5. MembershipTypeOK'
      BY Zenon, <2>1, <3>3, <3>4 DEF RosterInv, MembershipTypeOK, WorkerRows
    <3>6. ASSUME NEW w \in Workers PROVE RosterRow(w)'
      <4>1. CASE w # v
        BY Zenon, <2>1, <3>3, <3>4, <4>1, RosterFacts DEF RosterRow
      <4>2. CASE w = v
        <5>1. orphaned[v] <= revived[v] /\ orphaned'[v] \in Nat
          BY Zenon, <2>1, <2>3, <3>3, RosterFacts DEF RosterRow
        <5> QED  BY <2>1, <3>1, <3>3, <3>4, <4>2, <5>1, RosterFacts DEF RosterRow
      <4> QED  BY Zenon, <4>1, <4>2
    <3>7. boot >= 1 /\ worker'[boot].status = "alive" /\ boot \notin stale' /\ boot \notin doomed'
      <4>1. boot \in Workers
        BY <2>1, MembershipBounds DEF RosterInv, MembershipTypeOK, Workers
      <4> QED  BY Zenon, <2>1, <3>1, <3>4, <4>1, RosterFacts DEF RosterRow
    <3> QED  BY Zenon, <2>1, <3>5, <3>6, <3>7 DEF RosterInv
  <2> QED  BY Zenon, <2>2, <2>3
<1> QED  BY Zenon, <1>1, <1>2

\* Time ages rows and beats and changes nothing else.
LEMMA RosterTime == ASSUME RosterInv, doomed' = doomed, TimePasses PROVE RosterInv'
<1>1. \A a \in Ages : Older(a) \in Ages
  BY Zenon DEF Ages, Older
<1>2. /\ UNCHANGED <<boot, life, sent, stale, clean, revived, late, orphaned>>
      /\ worker \in [Workers -> WorkerRows] /\ ticks' \in 0 .. MaxTicks
  BY MembershipBounds DEF TimePasses, RosterInv, MembershipTypeOK, WorkerRows
<1>3. worker' \in [Workers -> WorkerRows] /\ \A w \in Workers : worker'[w].status = worker[w].status
  <2>1. ASSUME NEW w \in Workers
        PROVE  worker'[w] \in WorkerRows /\ worker'[w].status = worker[w].status
    <3>1. worker[w] \in WorkerRows /\ worker[w].age \in Ages
      BY Zenon, <1>2 DEF WorkerRows
    <3>2. [worker[w] EXCEPT !.age = Older(worker[w].age)] \in WorkerRows
      BY Zenon, <1>1, <3>1 DEF WorkerRows
    <3>3. worker'[w] = worker[w] \/ worker'[w] = [worker[w] EXCEPT !.age = Older(worker[w].age)]
      BY Zenon DEF TimePasses
    <3> QED  BY Zenon, <3>1, <3>2, <3>3 DEF WorkerRows
  <2> QED  BY Zenon, <2>1 DEF TimePasses
<1>4. beats' \subseteq [worker : Workers, age : Ages, again : BOOLEAN]
  <2>1. ASSUME NEW b \in beats
        PROVE  [b EXCEPT !.age = Older(b.age)] \in [worker : Workers, age : Ages, again : BOOLEAN]
    BY Zenon, <1>1 DEF RosterInv, MembershipTypeOK
  <2> QED  BY Zenon, <2>1 DEF TimePasses
<1>5. MembershipTypeOK'
  BY Zenon, <1>2, <1>3, <1>4 DEF RosterInv, MembershipTypeOK, WorkerRows
<1>6. ASSUME NEW w \in Workers PROVE RosterRow(w)'
  BY Zenon, <1>2, <1>3, RosterFacts DEF RosterRow
<1>7. life # "down" => boot \in Workers
  BY MembershipBounds DEF RosterInv, MembershipTypeOK, Workers
<1> QED  BY Zenon, <1>2, <1>3, <1>5, <1>6, <1>7 DEF RosterInv

\* A process that ends, settled or not.
LEMMA RosterExit == ASSUME RosterInv, Settle \/ Die, doomed' = {} PROVE RosterInv'
<1>1. /\ UNCHANGED <<boot, beats, sent, ticks, revived, late, orphaned>> /\ life' = "down"
      /\ stale' = {} /\ life # "down"
  BY Zenon DEF Settle, Die
<1>2. boot \in Workers /\ boot \in Nat /\ worker \in [Workers -> WorkerRows]
  BY <1>1, MembershipBounds DEF RosterInv, MembershipTypeOK, Workers, WorkerRows
<1>3. CASE worker' = worker /\ clean' = clean
  <2>1. MembershipTypeOK'
    BY Zenon, <1>1, <1>3 DEF RosterInv, MembershipTypeOK
  <2> QED  BY Zenon, <1>1, <1>3, <2>1 DEF RosterInv, RosterRow
<1>4. CASE worker' = MarkShutdown /\ clean' = clean \cup {boot}
  <2>1. /\ worker' \in [Workers -> WorkerRows] /\ worker'[boot].status = "shutdown"
        /\ \A w \in Workers \ {boot} : worker'[w] = worker[w]
    BY Zenon, <1>2, <1>4 DEF MarkShutdown, WorkerRows
  <2>2. MembershipTypeOK'
    BY Zenon, <1>1, <1>2, <1>4, <2>1 DEF RosterInv, MembershipTypeOK, WorkerRows
  <2>3. ASSUME NEW w \in Workers PROVE RosterRow(w)'
    BY <1>1, <1>2, <1>4, <2>1, RosterFacts DEF RosterRow
  <2> QED  BY Zenon, <1>1, <2>2, <2>3 DEF RosterInv
<1> QED  BY Zenon, <1>3, <1>4 DEF Settle, Die

\* A running process goes on to its next phase, or nothing of the roster changes.
LEMMA RosterGoesOn ==
    ASSUME RosterInv, UNCHANGED <<rollVars, doomed>>,
           life' = life \/ (life # "down" /\ life' \in {"boot", "reconciled", "up", "leaving"})
    PROVE  RosterInv'
<1>1. MembershipTypeOK'
  BY Zenon DEF RosterInv, MembershipTypeOK, rollVars
<1> QED  BY Zenon, <1>1 DEF RosterInv, RosterRow, rollVars

\* Retention lists stale rows, and the running worker's is not one of them.
LEMMA RosterRetain == ASSUME RosterInv, Retain PROVE RosterInv'
<1>1. CASE RetentionList
  <2>1. /\ UNCHANGED memberVars /\ life # "down"
        /\ doomed' = {w \in Workers : worker[w] = [status |-> "stale", age |-> "aged"]}
    BY Zenon, <1>1 DEF RetentionList, Hosted
  <2>2. MembershipTypeOK'
    BY Zenon, <2>1 DEF RosterInv, MembershipTypeOK, memberVars
  <2> QED  BY <2>1, <2>2 DEF RosterInv, RosterRow, memberVars
<1>2. ASSUME NEW v \in doomed, RetentionDelete(v) PROVE RosterInv'
  <2>1. /\ UNCHANGED <<boot, life, beats, sent, stale, ticks, clean, revived, late, orphaned>>
        /\ doomed' = doomed \ {v} /\ life # "down" /\ v \in Workers
        /\ worker \in [Workers -> WorkerRows]
    BY Zenon, <1>2 DEF RetentionDelete, Hosted, RosterInv, MembershipTypeOK, WorkerRows
  <2>2. /\ worker' \in [Workers -> WorkerRows]
        /\ \A w \in Workers \ {v} : worker'[w] = worker[w]
        /\ worker'[v].status = worker[v].status \/ worker'[v].status = "absent"
    BY Zenon, <1>2, <2>1 DEF RetentionDelete, NoWorker, WorkerRows, Ages
  <2>3. MembershipTypeOK'
    BY Zenon, <2>1, <2>2 DEF RosterInv, MembershipTypeOK, WorkerRows
  <2>4. ASSUME NEW w \in Workers PROVE RosterRow(w)'
    BY Zenon, <2>1, <2>2, RosterFacts DEF RosterRow
  <2>5. boot \in Workers /\ boot # v
    BY <2>1, MembershipBounds DEF RosterInv, MembershipTypeOK, Workers
  <2> QED  BY Zenon, <2>1, <2>2, <2>3, <2>4, <2>5 DEF RosterInv
<1> QED  BY Zenon, <1>1, <1>2 DEF Retain

\* No task of a process outlives it; while a process boots nobody asks it for
\* anything and it drives nothing, it at most reports what is ambiguous.
DownIsQuiet ==
    /\ life \in {"down", "boot"} => run.pc = "off"
    /\ life = "reconciled" => run.pc \in {"off", "claim", "announce"}
    /\ life \in {"down", "boot", "reconciled"} => ask = "none"

\* Every step keeps a process that is down or boots quiet.
LEMMA QuietNext == ASSUME RosterInv, DownIsQuiet, HandoffTypeOK, [Next]_vars PROVE DownIsQuiet'
<1>1. /\ run \in Drives
      /\ life \in {"down", "boot", "reconciled", "up", "leaving"}
  BY Zenon DEF HandoffTypeOK, RosterInv, MembershipTypeOK
<1>2. CASE Exit
  BY Zenon, <1>2 DEF Exit, Off, DownIsQuiet, Settle, Die
<1>3. CASE Claim \/ Announce
  <2>1. life \in {"reconciled", "up", "leaving"}
    BY Zenon, <1>1, <1>3 DEF Claim, Announce, DownIsQuiet
  <2>2. run'.pc \in {"off", "announce"}
    BY <1>1, <1>3 DEF Claim, Announce, Goto, Off, Drives
  <2>3. ask' = ask /\ (life' = life \/ life' = "up")
    BY Zenon, <1>3 DEF Claim, Announce
  <2> QED  BY Zenon, <2>1, <2>2, <2>3 DEF DownIsQuiet
<1>4. CASE Drive /\ ~(Claim \/ Announce)
  <2>1. life' = life /\ life \in {"up", "leaving"}
    BY Zenon, <1>1, <1>4 DEF Drive, Start, Enter, Boundary, Wake, Step, PublishArchived,
       RunBreaks, Active,
       DownIsQuiet, memberVars
  <2> QED  BY Zenon, <2>1 DEF DownIsQuiet
<1>5. CASE Reconcile
  BY Zenon, <1>5 DEF Reconcile, DownIsQuiet
<1>6. CASE Classify
  <2>1. [Off EXCEPT !.pc = "claim", !.via = "scan"].pc = "claim"
    BY Zenon DEF Off
  <2> QED  BY Zenon, <1>6, <2>1 DEF Classify, DownIsQuiet
<1>7. CASE Leave
  BY Zenon, <1>7 DEF Leave, DownIsQuiet
<1>8. CASE Coordinate \/ HandlerFails \/ HandOff \/ Retain
  <2>1. life' = life /\ life \in {"up", "leaving"}
    BY Zenon, <1>8 DEF Coordinate, ArchivedInsert, ArchivedOwner, ArchivedAck,
       AmbiguousOwner, DropInsert,
       DropOwner, DropRow, Resolve, HandlerFails, HandOff, HandleAck, SweepRead, Republish, At,
       Retain, RetentionList, RetentionDelete, Hosted, memberVars
  <2> QED  BY Zenon, <2>1 DEF DownIsQuiet
<1>9. CASE Operate
  <2>1. life' = life /\ (ask # "none" \/ life = "up")
    BY Zenon, <1>9 DEF Operate, AskDrop, ResolveDrop, PublishDrop, AskResume, SpawnResume,
       memberVars
  <2> QED  BY Zenon, <2>1 DEF DownIsQuiet
<1>10. CASE Roster
  <2>1. UNCHANGED <<run, ask>> /\ (life' = life \/ (life = "down" /\ life' = "boot"))
    BY Zenon, <1>10 DEF Roster, Register, Clock, EmitBeat, HandleBeat, SweepList, SweepOne,
       SweepFails,
       TimePasses, runVars
  <2> QED  BY Zenon, <2>1 DEF DownIsQuiet
<1>11. CASE UNCHANGED vars
  BY Zenon, <1>11 DEF vars, memberVars, runVars, DownIsQuiet
<1> QED  BY Zenon, <1>2, <1>3, <1>4, <1>5, <1>6, <1>7, <1>8, <1>9, <1>10, <1>11 DEF Next

\* Every step keeps the roster.
LEMMA RosterNext == RosterInv /\ DownIsQuiet /\ [Next]_vars => RosterInv'
<1> SUFFICES ASSUME RosterInv, DownIsQuiet, [Next]_vars PROVE RosterInv'
  BY Zenon
<1> DEFINE GoesOn == /\ UNCHANGED <<rollVars, doomed>>
                     /\ \/ life' = life
                        \/ life # "down" /\ life' \in {"boot", "reconciled", "up", "leaving"}
<1>1. CASE Drive
  <2>1. GoesOn
    BY Zenon, <1>1 DEF Drive, Start, Enter, Boundary, Wake, Step, PublishArchived,
       RunBreaks, Claim,
       Announce, memberVars, rollVars, DownIsQuiet
  <2> QED  BY Zenon, <2>1, RosterGoesOn
<1>2. CASE Coordinate \/ HandlerFails \/ HandOff \/ Operate \/ UNCHANGED vars
  <2>1. GoesOn
    BY Zenon, <1>2 DEF Coordinate, ArchivedInsert, ArchivedOwner, ArchivedAck,
       AmbiguousOwner, DropInsert,
                DropOwner, DropRow, Resolve, HandlerFails, HandOff, HandleAck, SweepRead,
                Republish, Operate, AskDrop, ResolveDrop, PublishDrop, AskResume, SpawnResume,
                vars, memberVars, rollVars
  <2> QED  BY Zenon, <2>1, RosterGoesOn
<1>3. CASE Reconcile \/ Classify \/ Leave
  <2>1. GoesOn
    BY Zenon, <1>3 DEF Reconcile, Classify, Leave, rollVars
  <2> QED  BY Zenon, <2>1, RosterGoesOn
<1>4. CASE Exit
  BY Zenon, <1>4, RosterExit DEF Exit
<1>5. CASE Retain
  BY Zenon, <1>5, RosterRetain
<1>6. CASE Roster
  BY Zenon, <1>6, RosterRegister, RosterBeat, RosterSweep, RosterTime DEF Roster, Clock
<1> QED  BY Zenon, <1>1, <1>2, <1>3, <1>4, <1>5, <1>6 DEF Next

(***************************************************************************)
(* The hand-off.  Whatever is said of the outcome was the outcome, at every *)
(* place it is written down: the log, the sweeper's memory, the row, the    *)
(* archive and the owner.  The archive comes first: what a handler writes   *)
(* after its first step, and the ack it sends, find the record there.       *)
(***************************************************************************)

\* Events that, if they report a verdict, report one that was given.
Said == {e \in Events : e.kind = "archived" => e.phase \in ended}

LogInv ==
    /\ log \in Seq(Said)
    /\ log = <<>> => hand.step = 0
    /\ hand.step > 0 /\ First.kind \in {"archived", "drop"} => archive # "none"
    /\ hand.step > 0 /\ First.kind = "drop" => "failed" \in ended

RecordInv ==
    /\ ack => archive # "none"
    /\ archive # "none" => archive \in ended
    /\ Terminal(owner.status) => archive # "none" /\ owner.status \in ended
    /\ Terminal(row) => row \in ended
    /\ swept # "none" => swept \in ended
    /\ run.pc = "completing" => "completed" \in ended
    /\ run.pc = "failing" => "failed" \in ended
    /\ started /\ row = "none" => archive # "none"

OwnerInv == owner.status = "in_flight" => /\ owner.worker \in Workers
                                          /\ worker[owner.worker].status # "absent"

DropInv ==
    /\ dropped => Terminal(owner.status)
    /\ life = "reconciled" /\ Terminal(owner.status) => row # "open"

HandInv == RosterInv /\ DownIsQuiet /\ TypeOK /\ LogInv /\ RecordInv /\ OwnerInv /\ DropInv

\* A delivery put back behind the first n loses nothing and invents nothing.
LEMMA Requeued ==
    ASSUME NEW S, NEW s \in Seq(S), s # <<>>, NEW n \in 1 .. Len(s)
    PROVE  LET t == SubSeq(s, 2, n) \o <<Head(s)>> \o SubSeq(s, n + 1, Len(s))
           IN  t \in Seq(S) /\ Len(t) = Len(s)
<1>1. Len(s) \in Nat /\ n \in Nat /\ Head(s) \in S /\ \A i \in 1 .. Len(s) : s[i] \in S
  BY HeadTailProperties, LenProperties, ElementOfSeq
<1>2. SubSeq(s, 2, n) \in Seq(S) /\ Len(SubSeq(s, 2, n)) = n - 1
  <2>1. \A i \in 2 .. n : s[i] \in S
    BY <1>1
  <2>2. /\ SubSeq(s, 2, n) \in Seq(S)
        /\ Len(SubSeq(s, 2, n)) = IF 2 <= n THEN n - 2 + 1 ELSE 0
    BY <1>1, <2>1, SubSeqProperties
  <2> QED  BY <1>1, <2>2
<1>3. /\ SubSeq(s, n + 1, Len(s)) \in Seq(S)
      /\ Len(SubSeq(s, n + 1, Len(s))) = Len(s) - n
  <2>1. \A i \in n + 1 .. Len(s) : s[i] \in S
    BY <1>1
  <2>2. /\ SubSeq(s, n + 1, Len(s)) \in Seq(S)
        /\ Len(SubSeq(s, n + 1, Len(s))) =
               IF n + 1 <= Len(s) THEN Len(s) - (n + 1) + 1 ELSE 0
    BY <1>1, <2>1, SubSeqProperties
  <2> QED  BY <1>1, <2>2
<1>4. <<Head(s)>> \in Seq(S) /\ Len(<<Head(s)>>) = 1
  BY <1>1
<1>5. /\ SubSeq(s, 2, n) \o <<Head(s)>> \in Seq(S)
      /\ Len(SubSeq(s, 2, n) \o <<Head(s)>>) = n - 1 + 1
  BY <1>2, <1>4, ConcatProperties
<1> DEFINE a == SubSeq(s, 2, n) \o <<Head(s)>>
           b == SubSeq(s, n + 1, Len(s))
<1>6. a \in Seq(S) /\ Len(a) = n /\ b \in Seq(S) /\ Len(b) = Len(s) - n
  BY <1>1, <1>3, <1>5
<1> HIDE DEF a, b
<1>7. a \o b \in Seq(S) /\ Len(a \o b) = Len(s)
  <2>1. a \o b \in Seq(S) /\ Len(a \o b) = Len(a) + Len(b)
    BY Zenon, <1>6, ConcatProperties
  <2> QED  BY <1>1, <1>6, <2>1
<1> QED  BY Zenon, <1>7 DEF a, b

\* The first event of a log that has one.
LEMMA FirstIsAnEvent ==
    ASSUME HandoffTypeOK, log # <<>>
    PROVE  /\ First \in Events /\ First.worker \in Workers \cup {Agent}
           /\ First.phase \in {"none", "completed", "failed"}
           /\ First.kind \in {"archived", "ambiguous", "drop"}
<1>1. First \in Events
  BY Zenon, HeadTailProperties DEF HandoffTypeOK, First
<1> QED  BY Zenon, <1>1 DEF Events

\* Publishing an event of the log's kind leaves a log of that kind.
LEMMA Published ==
    ASSUME NEW S, NEW e \in S, log \in Seq(S), Publish(e)
    PROVE  /\ log' \in Seq(S) /\ Len(log') <= MaxLog /\ log' # <<>>
           /\ log # <<>> => Head(log') = Head(log)
<1>1. log' = Append(log, e) /\ Len(log) < MaxLog /\ Len(log) \in Nat
  BY Zenon, LenProperties DEF Publish
<1>2. /\ Append(log, e) \in Seq(S) /\ Len(Append(log, e)) = Len(log) + 1
      /\ Append(log, e) # <<>>
  BY AppendProperties
<1>3. Head(Append(log, e)) = IF log = <<>> THEN e ELSE Head(log)
  BY Zenon, HeadTailAppend
<1> QED  BY <1>1, <1>2, <1>3, LogBound

\* Where a drive, a handler and an owner row may go.
LEMMA DriveTypes ==
    ASSUME HandoffTypeOK
    PROVE  /\ Off \in Drives /\ Rest \in Handlers /\ NoOwner \in Owners
           /\ \A c \in {"acting", "step", "completing", "claim", "announce"} :
                  [run EXCEPT !.pc = c] \in Drives
           /\ \A e \in BOOLEAN : [run EXCEPT !.pc = "failing", !.err = e] \in Drives
           /\ [Off EXCEPT !.pc = "asleep"] \in Drives
           /\ \A c \in {"spawned", "claim"}, v \in {"queue", "boot", "scan", "operator"} :
                  [Off EXCEPT !.pc = c, !.via = v] \in Drives
<1>1. Off \in Drives /\ Rest \in Handlers /\ NoOwner \in Owners
  BY DEF Off, Drives, Rest, Handlers, NoOwner, Owners, Agent
<1>2. run \in Drives
  BY Zenon DEF HandoffTypeOK
<1>3. \A c \in {"acting", "step", "completing", "claim", "announce"} :
          [run EXCEPT !.pc = c] \in Drives
  BY Zenon, <1>2 DEF Drives
<1>4. \A e \in BOOLEAN : [run EXCEPT !.pc = "failing", !.err = e] \in Drives
  BY Zenon, <1>2 DEF Drives
<1>6. [Off EXCEPT !.pc = "asleep"] \in Drives
  BY Zenon DEF Drives, Off
<1>7. \A c \in {"spawned", "claim"}, v \in {"queue", "boot", "scan", "operator"} :
          [Off EXCEPT !.pc = c, !.via = v] \in Drives
  BY Zenon DEF Drives, Off
<1> QED  BY Zenon, <1>1, <1>3, <1>4, <1>6, <1>7

\* Every write of a drive keeps the types.
LEMMA TypeDrive == ASSUME RosterInv, DownIsQuiet, HandoffTypeOK, Drive PROVE HandoffTypeOK'
<1>1. CASE Start
  <2>1. run' \in Drives
    BY Zenon, <1>1, DriveTypes DEF Start, Goto
  <2> QED  BY <1>1, <2>1 DEF Start, HandoffTypeOK, Upsert, cpVars
<1>2. CASE Enter
  <2>1. run' \in Drives /\ halt' \in BOOLEAN
    BY Zenon, <1>2, DriveTypes DEF Enter, Goto, Ends, HandoffTypeOK
  <2> QED  BY <1>2, <2>1 DEF Enter, HandoffTypeOK, cpVars, hist
<1>3. CASE Boundary
  <2>1. run' \in Drives /\ halt' \in BOOLEAN
    BY Zenon, <1>3, DriveTypes DEF Boundary, Goto, Ends, HandoffTypeOK
  <2> QED  BY <1>3, <2>1 DEF Boundary, HandoffTypeOK, cpVars, hist
<1>4. CASE Wake
  <2>1. run' \in Drives
    BY Zenon, <1>4, DriveTypes DEF Wake
  <2> QED  BY <1>4, <2>1 DEF Wake, HandoffTypeOK, cpVars, hist
<1>5. CASE Step
  <2>1. run' \in Drives
    BY Zenon, <1>5, DriveTypes DEF Step, Goto
  <2>2. /\ row' \in {"none", "open", "completed", "failed"}
        /\ ended' \subseteq {"completed", "failed"}
    BY Zenon, <1>5 DEF Step, Upsert, HandoffTypeOK
  <2> QED  BY ZenonT(60), <1>5, <2>1, <2>2 DEF Step, HandoffTypeOK, cpVars
<1>6. CASE PublishArchived
  <2>1. boot \in Workers
    BY <1>6, MembershipBounds DEF PublishArchived, RosterInv, DownIsQuiet,
       MembershipTypeOK, Workers
  <2>2. Event("archived", boot, Verdict) \in Events
    BY Zenon, <2>1 DEF Event, Events, Verdict
  <2>3. log' \in Seq(Events) /\ Len(log') <= MaxLog
    BY Zenon, <1>6, <2>2, Published DEF PublishArchived, HandoffTypeOK
  <2>4. run' \in Drives /\ halt' \in BOOLEAN
    BY Zenon, <1>6, DriveTypes DEF PublishArchived, Ends
  <2> QED  BY <1>6, <2>3, <2>4 DEF PublishArchived, HandoffTypeOK, hist
<1>7. CASE RunBreaks
  <2>1. run' \in Drives /\ halt' \in BOOLEAN
    BY Zenon, <1>7, DriveTypes DEF RunBreaks, Ends
  <2>2. limbo' \in BOOLEAN
    BY Zenon, <1>7 DEF RunBreaks, HandoffTypeOK
  <2> QED  BY <1>7, <2>1, <2>2 DEF RunBreaks, HandoffTypeOK, cpVars, hist
<1>8. CASE Claim
  <2>1. run' \in Drives /\ stamped' \in BOOLEAN
    BY Zenon, <1>8, DriveTypes DEF Claim, Goto, HandoffTypeOK
  <2> QED  BY <1>8, <2>1 DEF Claim, HandoffTypeOK, cpVars, hist
<1>9. CASE Announce
  <2>1. Event("ambiguous", Agent, "none") \in Events
    BY Zenon DEF Event, Events
  <2>2. log' \in Seq(Events) /\ Len(log') <= MaxLog
    BY Zenon, <1>9, <2>1, Published DEF Announce, HandoffTypeOK
  <2>3. run' \in Drives
    BY Zenon, <1>9, DriveTypes DEF Announce
  <2> QED  BY <1>9, <2>2, <2>3 DEF Announce, HandoffTypeOK, hist
<1> QED  BY Zenon, <1>1, <1>2, <1>3, <1>4, <1>5, <1>6, <1>7, <1>8, <1>9 DEF Drive

\* Every write of the coordination consumer keeps the types.
LEMMA TypeCoordinate == ASSUME HandoffTypeOK, Coordinate \/ HandlerFails PROVE HandoffTypeOK'
<1>1. log # <<>>
  BY Zenon DEF Coordinate, ArchivedInsert, ArchivedOwner, ArchivedAck, AmbiguousOwner,
     DropInsert,
     DropOwner, DropRow, Resolve, HandlerFails, At
<1>2. /\ First \in Events /\ First.worker \in Workers \cup {Agent}
      /\ First.phase \in {"none", "completed", "failed"}
  BY Zenon, <1>1, FirstIsAnEvent
<1>3. Then(1) \/ Then(2) \/ Then(3) => hand' \in Handlers
  <2>1. hand \in Handlers
    BY Zenon DEF HandoffTypeOK
  <2>2. /\ [hand EXCEPT !.step = 1] \in Handlers /\ [hand EXCEPT !.step = 2] \in Handlers
        /\ [hand EXCEPT !.step = 3] \in Handlers
    BY <2>1 DEF Handlers
  <2> QED  BY Zenon, <2>2 DEF Then
<1>4. CASE ArchivedInsert
  <2>1. hand' \in Handlers
    BY Zenon, <1>4, <1>3 DEF ArchivedInsert
  <2>2. archive' \in {"none", "completed", "failed"}
    BY Zenon, <1>2, <1>4 DEF ArchivedInsert, InsertArchive, HandoffTypeOK
  <2> QED  BY <1>4, <2>1, <2>2 DEF ArchivedInsert, HandoffTypeOK, runVars, hist
<1>5. CASE ArchivedOwner
  <2>1. hand' \in Handlers
    BY Zenon, <1>5, <1>3 DEF ArchivedOwner
  <2>2. owner' \in Owners
    BY Zenon, <1>2, <1>5 DEF ArchivedOwner, OwnerAfterArchive, Owners, HandoffTypeOK
  <2> QED  BY <1>5, <2>1, <2>2 DEF ArchivedOwner, HandoffTypeOK, runVars, hist
<1>6. CASE ArchivedAck
  <2>1. hand' \in Handlers
    BY Zenon, <1>6, <1>3 DEF ArchivedAck
  <2>2. ack' \in BOOLEAN
    BY Zenon, <1>6 DEF ArchivedAck, HandoffTypeOK
  <2> QED  BY <1>6, <2>1, <2>2 DEF ArchivedAck, HandoffTypeOK, runVars, hist
<1>7. CASE AmbiguousOwner
  <2>1. hand' \in Handlers
    BY Zenon, <1>7, <1>3 DEF AmbiguousOwner
  <2>2. owner' \in Owners
    BY Zenon, <1>7 DEF AmbiguousOwner, Owners
  <2>3. dropped' \in BOOLEAN
    BY Zenon, <1>7 DEF AmbiguousOwner
  <2> QED  BY <1>7, <2>1, <2>2, <2>3 DEF AmbiguousOwner, HandoffTypeOK, runVars
<1>8. CASE DropInsert
  <2>1. hand' \in Handlers
    BY <1>8 DEF DropInsert, Handlers, HandoffTypeOK, Owners
  <2>2. archive' \in {"none", "completed", "failed"} /\ ended' \subseteq {"completed", "failed"}
    BY Zenon, <1>8 DEF DropInsert, InsertArchive, HandoffTypeOK
  <2> QED  BY <1>8, <2>1, <2>2 DEF DropInsert, HandoffTypeOK, runVars
<1>9. CASE DropOwner
  <2>1. hand' \in Handlers
    BY Zenon, <1>9, <1>3 DEF DropOwner
  <2>2. owner' \in Owners
    BY Zenon, <1>9 DEF DropOwner, Owners, Handlers, HandoffTypeOK
  <2> QED  BY <1>9, <2>1, <2>2 DEF DropOwner, HandoffTypeOK, runVars, hist
<1>10. CASE DropRow
  <2>1. hand' \in Handlers
    BY Zenon, <1>10, <1>3 DEF DropRow
  <2> QED  BY <1>10, <2>1 DEF DropRow, HandoffTypeOK, hist
<1>11. CASE HandlerFails
  <2>1. PICK n \in 1 .. Len(log) :
            log' = SubSeq(log, 2, n) \o <<First>> \o SubSeq(log, n + 1, Len(log))
    BY Zenon, <1>11 DEF HandlerFails
  <2>2. log' \in Seq(Events) /\ Len(log') = Len(log)
    BY Zenon, <1>1, <2>1, Requeued DEF HandoffTypeOK, First
  <2>3. hand' \in Handlers /\ Len(log') <= MaxLog
    BY Zenon, <1>11, <2>2, DriveTypes DEF HandlerFails, HandoffTypeOK
  <2>4. UNCHANGED <<runVars, owner, archive, ack, swept, doomed, ask, hist>>
    BY Zenon, <1>11 DEF HandlerFails
  <2> QED  BY <2>2, <2>3, <2>4 DEF HandoffTypeOK, runVars, hist
<1>12. CASE Resolve
  <2>1. log' \in Seq(Events) /\ Len(log') = Len(log) - 1 /\ Len(log) \in Nat
    BY Zenon, <1>1, <1>12, HeadTailProperties, LenProperties DEF Resolve, HandoffTypeOK
  <2>2. Len(log') <= MaxLog
    BY <2>1, LogBound DEF HandoffTypeOK
  <2>3. hand' \in Handlers
    BY Zenon, <1>12, DriveTypes DEF Resolve
  <2> QED  BY <1>12, <2>1, <2>2, <2>3 DEF Resolve, HandoffTypeOK, runVars, hist
<1> QED  BY Zenon, <1>4, <1>5, <1>6, <1>7, <1>8, <1>9, <1>10, <1>11, <1>12 DEF Coordinate

\* So do the worker's side, a restart, the operator and retention.
LEMMA TypeRest ==
    ASSUME RosterInv, RosterInv', HandoffTypeOK,
           HandOff \/ Reconcile \/ Classify \/ Leave \/ Exit \/ Operate \/ Retain \/ Roster
    PROVE  HandoffTypeOK'
<1>1. life # "down" => boot \in Workers
  BY MembershipBounds DEF RosterInv, MembershipTypeOK, Workers
<1>2. CASE HandOff
  <2>1. CASE HandleAck
    <3>1. stamped' \in BOOLEAN
      BY Zenon, <2>1 DEF HandleAck, HandoffTypeOK
    <3> QED  BY ZenonT(60), <2>1, <3>1 DEF HandleAck, HandoffTypeOK, hist
  <2>2. CASE SweepRead
    BY <2>2 DEF SweepRead, HandoffTypeOK, ListArchivePending, Terminal, runVars, cpVars, hist
  <2>3. CASE Republish
    <3>1. Event("archived", boot, swept) \in Events
      BY Zenon, <1>1, <2>3 DEF Event, Events, Republish, Hosted, HandoffTypeOK
    <3>2. log' \in Seq(Events) /\ Len(log') <= MaxLog
      BY Zenon, <2>3, <3>1, Published DEF Republish, HandoffTypeOK
    <3> QED  BY <2>3, <3>2 DEF Republish, HandoffTypeOK, runVars, hist
  <2> QED  BY Zenon, <1>2, <2>1, <2>2, <2>3 DEF HandOff
<1>3. CASE Reconcile
  <2>1. row' \in {"none", "open", "completed", "failed"}
    <3>1. row \in {"none", "open", "completed", "failed"}
      BY Zenon DEF HandoffTypeOK
    <3>2. row' = row \/ row' \in {"completed", "failed"}
      BY Zenon, <1>3 DEF Reconcile, Terminal
    <3> QED  BY Zenon, <3>1, <3>2
  <2>2. UNCHANGED <<stamped, limbo, run, halt, log, hand, owner, archive, ack, swept, doomed,
                    started, ended, dropped, ask>>
    BY Zenon, <1>3 DEF Reconcile, cpVars, hist
  <2> QED  BY <2>1, <2>2 DEF HandoffTypeOK
<1>4. CASE Classify
  <2>1. run' \in Drives
    BY Zenon, <1>4, DriveTypes DEF Classify, HandoffTypeOK
  <2>2. owner' \in Owners
    BY <1>1, <1>4 DEF Classify, HandoffTypeOK, Owners
  <2> QED  BY <1>4, <2>1, <2>2 DEF Classify, HandoffTypeOK, hist
<1>5. CASE Leave
  BY <1>5 DEF Leave, HandoffTypeOK, runVars, cpVars, hist
<1>6. CASE Exit
  <2>1. run' \in Drives /\ hand' \in Handlers
    BY Zenon, <1>6, DriveTypes DEF Exit
  <2>2. limbo' \in BOOLEAN
    BY Zenon, <1>6 DEF Exit, HandoffTypeOK
  <2> QED  BY Zenon, <1>6, <2>1, <2>2 DEF Exit, HandoffTypeOK, hist
<1>7. CASE Operate
  <2>1. CASE AskDrop
    <3>1. halt' \in BOOLEAN
      BY <2>1 DEF AskDrop, Active
    <3> QED  BY <2>1, <3>1 DEF AskDrop, HandoffTypeOK, cpVars, hist
  <2>2. CASE ResolveDrop
    <3>1. owner' \in Owners
      BY Zenon, <2>2, DriveTypes DEF ResolveDrop, HandoffTypeOK
    <3>2. dropped' \in BOOLEAN
      BY Zenon, <2>2 DEF ResolveDrop, HandoffTypeOK
    <3> QED  BY <2>2, <3>1, <3>2 DEF ResolveDrop, HandoffTypeOK, runVars
  <2>3. CASE PublishDrop
    <3>1. Event("drop", Agent, "failed") \in Events
      BY Zenon DEF Event, Events
    <3>2. log' \in Seq(Events) /\ Len(log') <= MaxLog
      BY Zenon, <2>3, <3>1, Published DEF PublishDrop, HandoffTypeOK
    <3> QED  BY <2>3, <3>2 DEF PublishDrop, HandoffTypeOK, runVars, hist
  <2>4. CASE AskResume
    BY <2>4 DEF AskResume, HandoffTypeOK, runVars, cpVars, hist
  <2>5. CASE SpawnResume
    <3>1. run' \in Drives
      BY Zenon, <2>5, DriveTypes DEF SpawnResume
    <3> QED  BY <2>5, <3>1 DEF SpawnResume, HandoffTypeOK, cpVars, hist
  <2> QED  BY Zenon, <1>7, <2>1, <2>2, <2>3, <2>4, <2>5 DEF Operate
<1>8. CASE Retain
  <2>1. doomed' \subseteq Workers
    BY Zenon DEF RosterInv
  <2>2. UNCHANGED <<runVars, cpVars, swept, ask, hist>>
    BY Zenon, <1>8 DEF Retain, RetentionList, RetentionDelete
  <2> QED  BY <2>1, <2>2 DEF HandoffTypeOK, runVars, cpVars, hist
<1>9. CASE Roster
  BY <1>9 DEF Roster, HandoffTypeOK, runVars, cpVars, hist
<1> QED  BY Zenon, <1>2, <1>3, <1>4, <1>5, <1>6, <1>7, <1>8, <1>9

\* Every step keeps the types.
LEMMA TypeNext ==
    ASSUME RosterInv, RosterInv', DownIsQuiet, HandoffTypeOK, [Next]_vars PROVE HandoffTypeOK'
<1>1. CASE UNCHANGED vars
  BY <1>1 DEF vars, runVars, cpVars, hist, HandoffTypeOK
<1> QED  BY Zenon, <1>1, TypeDrive, TypeCoordinate, TypeRest DEF Next

\* A step that leaves the log and its handler alone and takes no verdict back.
LEMMA LogFrame ==
    ASSUME LogInv, UNCHANGED <<log, hand>>, ended \subseteq ended',
           archive # "none" => archive' # "none"
    PROVE  LogInv'
<1>1. Said \subseteq Said'
  BY Zenon DEF Said
<1>2. log' \in Seq(Said')
  BY Zenon, <1>1, SeqMonotonic DEF LogInv
<1> QED  BY Zenon, <1>2 DEF LogInv, First

\* An event published behind the others, that says what was given.
LEMMA LogPublish ==
    ASSUME LogInv, NEW e \in Events, e.kind = "archived" => e.phase \in ended,
           Publish(e), UNCHANGED <<hand, archive, ended>>
    PROVE  LogInv'
<1>1. e \in Said /\ Said' = Said
  BY Zenon DEF Said
<1>2. log' \in Seq(Said) /\ log' # <<>> /\ (log # <<>> => Head(log') = Head(log))
  BY Zenon, <1>1, Published DEF LogInv
<1>3. log = <<>> => hand'.step = 0
  BY Zenon DEF LogInv
<1>4. log' \in Seq(Said')
  BY Zenon, <1>1, <1>2
<1>5. log # <<>> => First' = First
  BY Zenon, <1>2 DEF First
<1>6. CASE log = <<>>
  BY <1>2, <1>3, <1>4, <1>6 DEF LogInv
<1>7. CASE log # <<>>
  BY Zenon, <1>2, <1>4, <1>5, <1>7 DEF LogInv
<1> QED  BY Zenon, <1>6, <1>7

\* What the first event of the log says, if it reports a verdict.
LEMMA FirstIsSaid ==
    ASSUME LogInv, log # <<>> PROVE First.kind = "archived" => First.phase \in ended
  BY HeadTailProperties DEF LogInv, First, Said

\* A handler that is done, or begins again, with what is left of the log.
LEMMA LogRest ==
    ASSUME LogInv, log' \in Seq(Said), hand' = Rest, UNCHANGED <<archive, ended>> PROVE LogInv'
<1>1. Said' = Said
  BY Zenon DEF Said
<1>2. log' \in Seq(Said')
  BY Zenon, <1>1
<1> QED  BY <1>2 DEF LogInv, Rest

\* Every step keeps the log truthful and behind the archive.
LEMMA LogNext ==
    ASSUME RosterInv, DownIsQuiet, HandoffTypeOK, LogInv, RecordInv, [Next]_vars PROVE LogInv'
<1> DEFINE Frame == /\ UNCHANGED <<log, hand>> /\ ended \subseteq ended'
                    /\ archive # "none" => archive' # "none"
<1>1. life # "down" => boot \in Workers
  BY MembershipBounds DEF RosterInv, MembershipTypeOK, Workers
<1>2. CASE Drive
  <2>1. CASE Start \/ Enter \/ Boundary \/ Wake \/ Step \/ RunBreaks \/ Claim
    <3>1. Frame
      BY Zenon, <2>1 DEF Start, Enter, Boundary, Wake, Step, RunBreaks, Claim, cpVars, hist
    <3> QED  BY Zenon, <3>1, LogFrame
  <2>2. CASE PublishArchived
    <3>1. Event("archived", boot, Verdict) \in Events
      BY Zenon, <1>1, <2>2 DEF PublishArchived, Event, Events, Verdict, DownIsQuiet
    <3>2. Event("archived", boot, Verdict).phase \in ended
      BY Zenon, <2>2 DEF PublishArchived, Event, Verdict, RecordInv
    <3> QED  BY Zenon, <2>2, <3>1, <3>2, LogPublish, LogFrame DEF PublishArchived, hist
  <2>3. CASE Announce
    <3>1. /\ Event("ambiguous", Agent, "none") \in Events
          /\ Event("ambiguous", Agent, "none").kind = "ambiguous"
      BY Zenon DEF Event, Events
    <3> QED  BY Zenon, <2>3, <3>1, LogPublish, LogFrame DEF Announce, hist
  <2> QED  BY Zenon, <1>2, <2>1, <2>2, <2>3 DEF Drive
<1>3. CASE Coordinate
  <2>1. /\ log # <<>> /\ First.phase \in {"none", "completed", "failed"}
        /\ First.kind = "archived" => First.phase \in ended
    BY Zenon, <1>3, FirstIsSaid, FirstIsAnEvent
       DEF Coordinate, ArchivedInsert, ArchivedOwner, ArchivedAck, AmbiguousOwner, DropInsert,
           DropOwner, DropRow, Resolve, At
  <2>2. CASE Resolve
    <3>1. log' \in Seq(Said)
      BY Zenon, <2>1, <2>2, HeadTailProperties DEF Resolve, LogInv
    <3> QED  BY Zenon, <2>2, <3>1, LogRest DEF Resolve, hist
  <2>3. CASE ~Resolve
    <3>1. /\ log' = log /\ First' = First /\ ended \subseteq ended'
          /\ log' \in Seq(Said')
      <4>1. log' = log /\ ended \subseteq ended'
        BY Zenon, <1>3, <2>3 DEF Coordinate, ArchivedInsert, ArchivedOwner, ArchivedAck,
           AmbiguousOwner,
           DropInsert, DropOwner, DropRow, hist
      <4>2. Said \subseteq Said'
        BY Zenon, <4>1 DEF Said
      <4>3. log' \in Seq(Said')
        BY Zenon, <4>1, <4>2, SeqMonotonic DEF LogInv
      <4> QED  BY Zenon, <4>1, <4>3 DEF First
    <3>2. archive # "none" => archive' = archive
      BY Zenon, <1>3, <2>3 DEF Coordinate, ArchivedInsert, ArchivedOwner, ArchivedAck,
         AmbiguousOwner,
         DropInsert, DropOwner, DropRow, InsertArchive
    <3>3. First.kind \in {"archived", "drop"} => archive' # "none"
      <4>1. CASE ArchivedInsert
        <5>1. First.phase # "none"
          BY Zenon, <2>1, <4>1 DEF ArchivedInsert, At, HandoffTypeOK
        <5> QED  BY Zenon, <4>1, <5>1 DEF ArchivedInsert, InsertArchive
      <4>2. CASE DropInsert
        BY Zenon, <4>2 DEF DropInsert, InsertArchive
      <4>3. CASE ArchivedOwner \/ ArchivedAck \/ AmbiguousOwner \/ DropOwner \/ DropRow
        <5>1. First.kind = "ambiguous" \/ hand.step = 1 \/ hand.step = 2
          BY Zenon, <4>3 DEF ArchivedOwner, ArchivedAck, AmbiguousOwner, DropOwner, DropRow, At
        <5>2. First.kind = "ambiguous" \/ hand.step > 0
          BY <5>1
        <5>3. hand.step > 0 /\ First.kind \in {"archived", "drop"} => archive # "none"
          BY Zenon DEF LogInv
        <5> QED  BY Zenon, <3>2, <5>2, <5>3
      <4> QED  BY Zenon, <1>3, <2>3, <4>1, <4>2, <4>3 DEF Coordinate
    <3>4. First.kind = "drop" => "failed" \in ended'
      <4>1. CASE DropInsert
        BY Zenon, <4>1 DEF DropInsert
      <4>2. CASE DropOwner \/ DropRow
        <5>1. hand.step = 1 \/ hand.step = 2
          BY Zenon, <4>2 DEF DropOwner, DropRow, At
        <5>2. hand.step > 0
          BY <5>1
        <5>3. hand.step > 0 /\ First.kind = "drop" => "failed" \in ended
          BY Zenon DEF LogInv
        <5> QED  BY Zenon, <3>1, <5>2, <5>3
      <4>3. CASE ArchivedInsert \/ ArchivedOwner \/ ArchivedAck \/ AmbiguousOwner
        BY Zenon, <4>3 DEF ArchivedInsert, ArchivedOwner, ArchivedAck, AmbiguousOwner, At
      <4> QED  BY Zenon, <1>3, <2>3, <4>1, <4>2, <4>3 DEF Coordinate
    <3> QED  BY Zenon, <2>1, <3>1, <3>3, <3>4 DEF LogInv
  <2> QED  BY Zenon, <2>2, <2>3
<1>4. CASE HandlerFails
  <2>1. PICK n \in 1 .. Len(log) :
            log' = SubSeq(log, 2, n) \o <<First>> \o SubSeq(log, n + 1, Len(log))
    BY Zenon, <1>4 DEF HandlerFails
  <2>2. log # <<>>
    BY Zenon, <1>4 DEF HandlerFails
  <2>3. log' \in Seq(Said)
    BY Zenon, <2>1, <2>2, Requeued DEF LogInv, First
  <2>4. hand' = Rest /\ UNCHANGED <<archive, ended>>
    BY Zenon, <1>4 DEF HandlerFails, hist
  <2> QED  BY Zenon, <2>3, <2>4, LogRest
<1>5. CASE HandOff
  <2>1. CASE HandleAck \/ SweepRead
    <3>1. Frame
      BY Zenon, <2>1 DEF HandleAck, SweepRead, cpVars, hist
    <3> QED  BY Zenon, <3>1, LogFrame
  <2>2. CASE Republish
    <3>1. Event("archived", boot, swept) \in Events
      BY Zenon, <1>1, <2>2 DEF Republish, Hosted, Event, Events, HandoffTypeOK
    <3>2. Event("archived", boot, swept).phase \in ended
      BY Zenon, <2>2 DEF Republish, Event, RecordInv
    <3> QED  BY Zenon, <2>2, <3>1, <3>2, LogPublish, LogFrame DEF Republish, hist
  <2> QED  BY Zenon, <1>5, <2>1, <2>2 DEF HandOff
<1>6. CASE Reconcile \/ Classify \/ Leave \/ Retain \/ Roster
  <2>1. Frame
    BY Zenon, <1>6 DEF Reconcile, Classify, Leave, Retain, RetentionList, RetentionDelete,
       Roster,
       cpVars, hist
  <2> QED  BY Zenon, <2>1, LogFrame
<1>7. CASE Exit
  BY Zenon, <1>7, LogRest DEF Exit, LogInv, hist
<1>8. CASE Operate
  <2>1. CASE AskDrop \/ ResolveDrop \/ AskResume \/ SpawnResume
    <3>1. Frame
      BY Zenon, <2>1 DEF AskDrop, ResolveDrop, AskResume, SpawnResume, cpVars, hist
    <3> QED  BY Zenon, <3>1, LogFrame
  <2>2. CASE PublishDrop
    <3>1. /\ Event("drop", Agent, "failed") \in Events
          /\ Event("drop", Agent, "failed").kind = "drop"
      BY Zenon DEF Event, Events
    <3> QED  BY Zenon, <2>2, <3>1, LogPublish, LogFrame DEF PublishDrop, hist
  <2> QED  BY Zenon, <1>8, <2>1, <2>2 DEF Operate
<1>9. CASE UNCHANGED vars
  BY Zenon, <1>9, LogFrame DEF vars, cpVars, hist
<1> QED  BY Zenon, <1>2, <1>3, <1>4, <1>5, <1>6, <1>7, <1>8, <1>9 DEF Next

\* Every step keeps the records truthful, and the row until the archive has it.
LEMMA RecordNext ==
    ASSUME HandoffTypeOK, LogInv, RecordInv, [Next]_vars PROVE RecordInv'
<1>1. CASE Drive
  <2>1. UNCHANGED <<owner, archive, ack, swept>> /\ ended \subseteq ended'
    BY Zenon, <1>1 DEF Drive, Start, Enter, Boundary, Wake, Step, PublishArchived,
       RunBreaks, Claim,
       Announce, cpVars, hist
  <2>2. /\ Terminal(row') => row' \in ended'
        /\ started' /\ row' = "none" => archive' # "none"
    <3>1. CASE Start
      BY Zenon, <2>1, <3>1 DEF Start, Upsert, Terminal, RecordInv
    <3>2. CASE Step
      BY Zenon, <2>1, <3>2 DEF Step, Upsert, Terminal, RecordInv
    <3>3. CASE row' = row /\ started' = started
      BY Zenon, <2>1, <3>3 DEF Terminal, RecordInv
    <3> QED  BY Zenon, <1>1, <3>1, <3>2, <3>3 DEF Drive, Enter, Boundary, Wake, PublishArchived,
                RunBreaks, Claim, Announce, hist
  <2>3. /\ run'.pc = "completing" => "completed" \in ended'
        /\ run'.pc = "failing" => "failed" \in ended'
    <3>1. CASE Step
      <4>1. run \in Drives
        BY Zenon DEF HandoffTypeOK
      <4> QED  BY Zenon, <3>1, <4>1 DEF Step, Goto, Drives
    <3>2. CASE ~Step
      <4>1. run \in Drives
        BY Zenon DEF HandoffTypeOK
      <4>2. /\ Off.pc = "off" /\ [Off EXCEPT !.pc = "asleep"].pc = "asleep"
            /\ [Off EXCEPT !.pc = "spawned", !.via = "queue"].pc = "spawned"
            /\ [run EXCEPT !.pc = "claim"].pc = "claim" /\ [run EXCEPT !.pc = "step"].pc = "step"
            /\ [run EXCEPT !.pc = "acting"].pc = "acting"
            /\ [run EXCEPT !.pc = "announce"].pc = "announce"
        BY Zenon, <4>1 DEF Off, Drives
      <4>3. run'.pc \in {"off", "acting", "step", "asleep", "spawned", "claim", "announce"}
        BY <1>1, <3>2, <4>2 DEF Drive, Start, Enter, Boundary, Wake, PublishArchived, RunBreaks,
           Claim, Announce, Goto, Ends
      <4> QED  BY Zenon, <4>3
    <3> QED  BY Zenon, <3>1, <3>2
  <2> QED  BY Zenon, <2>1, <2>2, <2>3 DEF RecordInv, Terminal
<1>2. CASE Coordinate
  <2>1. /\ log # <<>> /\ First.phase \in {"none", "completed", "failed"}
        /\ First.kind = "archived" => First.phase \in ended
    BY Zenon, <1>2, FirstIsSaid, FirstIsAnEvent
       DEF Coordinate, ArchivedInsert, ArchivedOwner, ArchivedAck, AmbiguousOwner, DropInsert,
           DropOwner, DropRow, Resolve, At
  <2>2. CASE ArchivedInsert
    BY Zenon, <2>1, <2>2 DEF ArchivedInsert, At, InsertArchive, RecordInv, HandoffTypeOK,
       runVars, hist
  <2>3. CASE ArchivedOwner
    <3>1. archive # "none"
      BY <2>3 DEF ArchivedOwner, At, LogInv
    <3>2. Terminal(owner'.status) => owner'.status \in ended
      BY Zenon, <2>1, <2>3 DEF ArchivedOwner, At, OwnerAfterArchive, RecordInv
    <3> QED  BY Zenon, <2>3, <3>1, <3>2 DEF ArchivedOwner, RecordInv, runVars, hist
  <2>4. CASE ArchivedAck
    <3>1. archive # "none"
      BY <2>4 DEF ArchivedAck, At, LogInv
    <3> QED  BY Zenon, <2>4, <3>1 DEF ArchivedAck, RecordInv, runVars, hist
  <2>5. CASE AmbiguousOwner
    <3>1. ~Terminal(owner'.status)
      BY Zenon, <2>5 DEF AmbiguousOwner, Terminal
    <3> QED  BY Zenon, <2>5, <3>1 DEF AmbiguousOwner, RecordInv, runVars, hist
  <2>6. CASE DropInsert
    BY Zenon, <2>6 DEF DropInsert, InsertArchive, RecordInv, HandoffTypeOK, runVars
  <2>7. CASE DropOwner
    <3>1. archive # "none" /\ "failed" \in ended
      BY <2>7 DEF DropOwner, At, LogInv
    <3>2. owner'.status = "failed"
      BY Zenon, <2>7 DEF DropOwner
    <3> QED  BY Zenon, <2>7, <3>1, <3>2 DEF DropOwner, RecordInv, runVars, hist
  <2>8. CASE DropRow
    <3>1. "failed" \in ended
      BY <2>8 DEF DropRow, At, LogInv
    <3> QED  BY Zenon, <2>8, <3>1 DEF DropRow, RecordInv, Terminal, hist
  <2>9. CASE Resolve
    BY Zenon, <2>9 DEF Resolve, RecordInv, runVars, hist
  <2> QED  BY Zenon, <1>2, <2>2, <2>3, <2>4, <2>5, <2>6, <2>7, <2>8, <2>9 DEF Coordinate
<1>3. CASE HandlerFails
  <2>1. UNCHANGED <<runVars, owner, archive, ack, swept, hist>>
    BY Zenon, <1>3 DEF HandlerFails
  <2> QED  BY Zenon, <2>1 DEF RecordInv, runVars, hist
<1>4. CASE HandleAck
  BY Zenon, <1>4 DEF HandleAck, RecordInv, Terminal, hist
<1>5. CASE SweepRead
  BY Zenon, <1>5 DEF SweepRead, ListArchivePending, RecordInv, runVars, cpVars, hist
<1>6. CASE Republish
  BY Zenon, <1>6 DEF Republish, RecordInv, runVars, hist
<1>7. CASE Reconcile
  BY Zenon, <1>7 DEF Reconcile, RecordInv, Terminal, cpVars, hist
<1>8. CASE Classify
  <2>1. run'.pc \in {"off", "spawned", "claim"}
    <3>1. /\ Off.pc = "off" /\ [Off EXCEPT !.pc = "spawned", !.via = "boot"].pc = "spawned"
          /\ [Off EXCEPT !.pc = "claim", !.via = "scan"].pc = "claim"
      BY Zenon DEF Off
    <3> QED  BY Zenon, <1>8, <3>1 DEF Classify
  <2>2. owner'.status = owner.status \/ owner'.status = "in_flight"
    BY <1>8 DEF Classify
  <2>3. UNCHANGED <<row, archive, ack, swept, hist>>
    BY Zenon, <1>8 DEF Classify
  <2> QED  BY Zenon, <2>1, <2>2, <2>3 DEF RecordInv, Terminal, hist
<1>9. CASE Leave \/ Retain \/ Roster \/ UNCHANGED vars
  <2>1. UNCHANGED <<runVars, cpVars, swept, hist>>
    BY Zenon, <1>9 DEF Leave, Retain, RetentionList, RetentionDelete, Roster, vars
  <2> QED  BY Zenon, <2>1 DEF RecordInv, runVars, cpVars, hist
<1>10. CASE Exit
  BY Zenon, <1>10 DEF Exit, RecordInv, Off, hist
<1>11. CASE Operate
  <2>1. /\ UNCHANGED <<row, archive, ack, swept, started, ended>>
        /\ run' = run \/ run'.pc = "spawned"
        /\ owner' = owner \/ owner' = NoOwner
    BY Zenon, <1>11 DEF Operate, AskDrop, ResolveDrop, PublishDrop, AskResume, SpawnResume, Off,
       runVars, cpVars, hist
  <2> QED  BY <2>1 DEF RecordInv, NoOwner, Terminal
<1> QED  BY Zenon, <1>1, <1>2, <1>3, <1>4, <1>5, <1>6, <1>7, <1>8, <1>9, <1>10, <1>11
         DEF Next, HandOff

\* No step but retention's takes a row out of the roster.
LEMMA RowsStay ==
    ASSUME RosterInv, Exit \/ Roster, NEW w \in Workers, worker[w].status # "absent"
    PROVE  worker'[w].status # "absent"
<1>1. worker \in [Workers -> WorkerRows] /\ worker[w] \in WorkerRows
  BY Zenon DEF RosterInv, MembershipTypeOK, WorkerRows
<1>2. CASE Exit
  BY Zenon, <1>1, <1>2 DEF Exit, Settle, Die, MarkShutdown, WorkerRows
<1>3. CASE Register
  BY Zenon, <1>1, <1>3 DEF Register, Alive
<1>4. ASSUME NEW b \in beats, HandleBeat(b) PROVE worker'[w].status # "absent"
  BY Zenon, <1>1, <1>4 DEF HandleBeat, HeartbeatWorker, Alive
<1>5. ASSUME NEW v \in stale, SweepOne(v) PROVE worker'[w].status # "absent"
  BY <1>1, <1>5 DEF SweepOne, MarkStale, WorkerRows
<1>6. CASE EmitBeat \/ SweepList \/ SweepFails
  BY Zenon, <1>6 DEF EmitBeat, SweepList, SweepFails
<1>7. CASE TimePasses
  <2>1. worker'[w] = worker[w] \/ worker'[w] = [worker[w] EXCEPT !.age = Older(worker[w].age)]
    BY Zenon, <1>7 DEF TimePasses
  <2> QED  BY Zenon, <1>1, <2>1 DEF WorkerRows
<1> QED  BY Zenon, <1>2, <1>3, <1>4, <1>5, <1>6, <1>7 DEF Roster, Clock

\* Retention spares a pinned worker, and no other step deletes a row or gives
\* work to a worker that has none.
LEMMA OwnerNext ==
    ASSUME RosterInv, HandoffTypeOK, OwnerInv, [Next]_vars PROVE OwnerInv'
<1>1. CASE owner' = owner /\ worker' = worker
  BY Zenon, <1>1 DEF OwnerInv
<1>2. CASE owner'.status # "in_flight"
  BY Zenon, <1>2 DEF OwnerInv
<1>3. CASE Exit \/ Roster
  <2>1. owner' = owner
    BY Zenon, <1>3 DEF Exit, Roster, cpVars
  <2> QED  BY Zenon, <1>3, <2>1, RowsStay DEF OwnerInv
<1>4. CASE Retain
  <2>1. CASE RetentionList
    BY Zenon, <1>1, <2>1 DEF RetentionList, memberVars, cpVars
  <2>2. ASSUME NEW v \in doomed, RetentionDelete(v) PROVE OwnerInv'
    <3>1. owner' = owner /\ worker \in [Workers -> WorkerRows] /\ v \in Workers
      BY Zenon, <2>2 DEF RetentionDelete, cpVars, RosterInv, MembershipTypeOK, WorkerRows,
         HandoffTypeOK
    <3> QED  BY Zenon, <2>2, <3>1 DEF RetentionDelete, Pins, OwnerInv
  <2> QED  BY Zenon, <1>4, <2>1, <2>2 DEF Retain
<1>5. CASE Classify
  <2>1. boot \in Workers /\ worker[boot].status = "alive"
    BY <1>5, MembershipBounds DEF Classify, RosterInv, MembershipTypeOK, Workers
  <2>2. worker' = worker
    BY Zenon, <1>5 DEF Classify, rollVars
  <2> QED  BY <1>5, <2>1, <2>2 DEF Classify, OwnerInv
<1>6. CASE Drive \/ HandlerFails \/ HandOff \/ Reconcile \/ Leave \/ UNCHANGED vars
  <2>1. owner' = owner /\ worker' = worker
    BY Zenon, <1>6 DEF Drive, Start, Enter, Boundary, Wake, Step, PublishArchived,
       RunBreaks, Claim,
       Announce, HandlerFails, HandOff, HandleAck, SweepRead, Republish, Reconcile, Leave, vars,
       memberVars, rollVars, cpVars
  <2> QED  BY Zenon, <1>1, <2>1
<1>7. CASE Coordinate
  <2>1. /\ worker' = worker
        /\ owner' = owner \/ owner'.status \in {"none", "completed", "failed", "ambiguous"}
    <3>1. log # <<>>
      BY Zenon, <1>7 DEF Coordinate, ArchivedInsert, ArchivedOwner, ArchivedAck, AmbiguousOwner,
         DropInsert, DropOwner, DropRow, Resolve, At
    <3>2. worker' = worker
      BY Zenon, <1>7 DEF Coordinate, ArchivedInsert, ArchivedOwner, ArchivedAck, AmbiguousOwner,
         DropInsert, DropOwner, DropRow, Resolve, memberVars
    <3>3. owner' = owner \/ ArchivedOwner \/ AmbiguousOwner \/ DropOwner
      BY Zenon, <1>7 DEF Coordinate, ArchivedInsert, ArchivedAck, DropInsert, DropRow, Resolve
    <3>4. CASE ArchivedOwner
      <4>1. owner' = owner \/ owner' = [worker |-> First.worker, status |-> First.phase]
        BY Zenon, <3>4 DEF ArchivedOwner, OwnerAfterArchive
      <4>2. First.phase \in {"none", "completed", "failed"}
        BY Zenon, <3>1, FirstIsAnEvent
      <4> QED  BY <3>2, <4>1, <4>2
    <3>5. CASE AmbiguousOwner
      <4>1. owner' = [worker |-> Agent, status |-> "ambiguous"]
        BY Zenon, <3>5 DEF AmbiguousOwner
      <4> QED  BY Zenon, <3>2, <4>1
    <3>6. CASE DropOwner
      <4>1. owner' = [worker |-> hand.worker, status |-> "failed"]
        BY Zenon, <3>6 DEF DropOwner
      <4> QED  BY Zenon, <3>2, <4>1
    <3> QED  BY Zenon, <3>2, <3>3, <3>4, <3>5, <3>6
  <2> QED  BY Zenon, <1>1, <1>2, <2>1
<1>8. CASE Operate
  <2>1. worker' = worker /\ (owner' = owner \/ owner' = NoOwner)
    BY Zenon, <1>8 DEF Operate, AskDrop, ResolveDrop, PublishDrop, AskResume, SpawnResume,
       memberVars,
       cpVars
  <2> QED  BY <1>1, <1>2, <2>1 DEF NoOwner
<1> QED  BY Zenon, <1>3, <1>4, <1>5, <1>6, <1>7, <1>8 DEF Next

\* The operator's verdict stays with the owner until something takes it, and
\* a process that has reconciled has no open row against a terminal owner.
LEMMA DropNext ==
    ASSUME DownIsQuiet, HandoffTypeOK, DropInv, [Next]_vars PROVE DropInv'
<1>1. CASE Drive
  <2>1. UNCHANGED <<owner, dropped>>
    BY Zenon, <1>1 DEF Drive, Start, Enter, Boundary, Wake, Step, PublishArchived,
       RunBreaks, Claim,
       Announce, cpVars, hist
  <2>2. life' = "reconciled" => life = "reconciled" /\ row' = row
    BY Zenon, <1>1 DEF Drive, Start, Enter, Boundary, Wake, Step, PublishArchived,
       RunBreaks, Active, Claim,
       Announce, memberVars, DownIsQuiet
  <2> QED  BY Zenon, <2>1, <2>2 DEF DropInv
<1>2. CASE Coordinate
  <2>1. life' = life /\ life # "reconciled"
    BY Zenon, <1>2 DEF Coordinate, ArchivedInsert, ArchivedOwner, ArchivedAck,
       AmbiguousOwner, DropInsert,
       DropOwner, DropRow, Resolve, At, Hosted, memberVars
  <2>2. dropped' => Terminal(owner'.status)
    <3>1. CASE AmbiguousOwner
      BY Zenon, <3>1 DEF AmbiguousOwner
    <3>2. CASE DropOwner
      BY Zenon, <3>2 DEF DropOwner, Terminal
    <3>3. CASE dropped' = dropped /\ (Terminal(owner.status) => owner' = owner)
      BY Zenon, <3>3 DEF DropInv
    <3> QED  BY Zenon, <1>2, <3>1, <3>2, <3>3 DEF Coordinate, ArchivedInsert, ArchivedOwner, ArchivedAck,
                DropInsert, DropRow, Resolve, OwnerAfterArchive, hist
  <2> QED  BY Zenon, <2>1, <2>2 DEF DropInv
<1>3. CASE Reconcile
  <2>1. UNCHANGED <<owner, dropped>>
    BY Zenon, <1>3 DEF Reconcile, cpVars, hist
  <2>2. Terminal(owner.status) => row' # "open"
    BY Zenon, <1>3 DEF Reconcile, Terminal
  <2> QED  BY Zenon, <2>1, <2>2 DEF DropInv
<1>4. CASE Classify
  <2>1. UNCHANGED <<row, dropped>> /\ life = "reconciled"
    BY Zenon, <1>4 DEF Classify, hist
  <2>2. row = "open" => ~dropped /\ ~Terminal(owner.status)
    BY Zenon, <2>1 DEF DropInv
  <2>3. row # "open" => owner' = owner
    BY Zenon, <1>4 DEF Classify
  <2>4. life' = "reconciled" => owner' = owner
    BY Zenon, <1>4 DEF Classify
  <2> QED  BY Zenon, <2>1, <2>2, <2>3, <2>4 DEF DropInv
<1>5. CASE Operate
  <2>1. life' = life /\ life # "reconciled"
    BY Zenon, <1>5 DEF Operate, AskDrop, ResolveDrop, PublishDrop, AskResume, SpawnResume,
       memberVars,
       DownIsQuiet
  <2>2. dropped' => dropped /\ owner' = owner
    BY Zenon, <1>5 DEF Operate, AskDrop, ResolveDrop, PublishDrop, AskResume, SpawnResume,
       cpVars, hist,
       HandoffTypeOK
  <2> QED  BY Zenon, <2>1, <2>2 DEF DropInv
<1>6. CASE HandlerFails \/ HandOff \/ Leave \/ Exit \/ Retain \/ Roster \/ UNCHANGED vars
  <2>1. UNCHANGED <<owner, dropped>>
    BY Zenon, <1>6 DEF HandlerFails, HandOff, HandleAck, SweepRead, Republish, Leave, Exit,
       Retain,
       RetentionList, RetentionDelete, Roster, vars, cpVars, hist
  <2>2. life' = "reconciled" => life = "reconciled" /\ row' = row
    BY Zenon, <1>6 DEF HandlerFails, HandOff, HandleAck, SweepRead, Republish, Leave, Exit,
       Settle, Die,
       Retain, RetentionList, RetentionDelete, Roster, Register, Clock, EmitBeat, HandleBeat,
       SweepList, SweepOne, SweepFails, TimePasses, Hosted, vars, memberVars, runVars
  <2> QED  BY Zenon, <2>1, <2>2 DEF DropInv
<1> QED  BY Zenon, <1>1, <1>2, <1>3, <1>4, <1>5, <1>6 DEF Next

\* The invariant holds at first ...
LEMMA HandInit == Init => HandInv
<1> SUFFICES ASSUME Init PROVE HandInv
  BY Zenon
<1>1. RosterInv
  BY Zenon, RosterInit
<1>2. HandoffTypeOK
  <2>1. Off \in Drives
    BY Zenon DEF Off, Drives
  <2>0. Rest \in Handlers /\ NoOwner \in Owners
    BY DEF Rest, Handlers, NoOwner, Owners, Agent
  <2>2. <<>> \in Seq(Events) /\ Len(<<>>) <= MaxLog
    BY LogBound, EmptySeq
  <2> QED  BY Zenon, <2>0, <2>1, <2>2 DEF Init, HandoffTypeOK
<1>3. LogInv
  BY EmptySeq DEF Init, LogInv, Rest
<1>4. RecordInv /\ OwnerInv /\ DropInv /\ DownIsQuiet
  BY Zenon DEF Init, MembershipInit, RecordInv, OwnerInv, DropInv, DownIsQuiet, NoOwner,
     Terminal, Off
<1> QED  BY Zenon, <1>1, <1>2, <1>3, <1>4 DEF HandInv, TypeOK, RosterInv

\* ... and every step keeps it.
LEMMA HandNext == HandInv /\ [Next]_vars => HandInv'
<1> SUFFICES ASSUME HandInv, [Next]_vars PROVE HandInv'
  BY Zenon
<1> USE DEF HandInv, TypeOK
<1>1. RosterInv'
  BY Zenon, RosterNext
<1>2. HandoffTypeOK'
  BY Zenon, <1>1, TypeNext
<1>3. MembershipTypeOK'
  BY Zenon, <1>1 DEF RosterInv
<1>4. DownIsQuiet' /\ LogInv' /\ RecordInv' /\ OwnerInv' /\ DropInv'
  BY Zenon, QuietNext, LogNext, RecordNext, OwnerNext, DropNext
<1> QED  BY Zenon, <1>1, <1>2, <1>3, <1>4

\* The invariant of the roster and the hand-off, from which the results follow.
THEOREM HandoffInvariant == Spec => []HandInv
  BY HandInit, HandNext, PTL DEF Spec

\* A row the worker let go of is in the archive, and an invocation the owner
\* table counts as finished is too, over any crashes, lost acks, redeliveries
\* and re-publications (delete_invocation_state, insert_archive).
THEOREM NoRecordIsLost == Spec => [](NothingLost /\ FinishedIsArchived)
<1>1. HandInv => NothingLost /\ FinishedIsArchived
  BY Zenon DEF HandInv, RecordInv, NothingLost, FinishedIsArchived
<1> QED  BY <1>1, HandoffInvariant, PTL

\* The archive and the owner table report only verdicts the run wrote or the
\* operator gave, whichever event brought them and however often.
THEOREM VerdictsAreReal == Spec => []VerdictIsReal
<1>1. HandInv => VerdictIsReal
  BY Zenon DEF HandInv, RecordInv, VerdictIsReal
<1> QED  BY <1>1, HandoffInvariant, PTL

\* Retention never takes the row of a worker that in-flight work points at.
THEOREM WorkPinsItsWorker == Spec => []OwnedWorkerKept
<1>1. HandInv => OwnedWorkerKept
  BY Zenon DEF HandInv, OwnerInv, OwnedWorkerKept
<1> QED  BY <1>1, HandoffInvariant, PTL

\* The roster: the running worker's row is there and alive, a worker is
\* reported orphaned at most once for each lapse, and one that left cleanly
\* never, unless a late heartbeat revived it.
THEOREM RosterIsRight ==
    Spec => [](RosterHoldsTheLiving /\ OrphanedOncePerLapse /\ CleanExitNotOrphaned)
<1>1. ASSUME HandInv
      PROVE  RosterHoldsTheLiving /\ OrphanedOncePerLapse /\ CleanExitNotOrphaned
  <2>1. RosterHoldsTheLiving
    BY Zenon, <1>1 DEF HandInv, RosterInv, RosterHoldsTheLiving
  <2>2. OrphanedOncePerLapse
    BY Zenon, <1>1 DEF HandInv, RosterInv, RosterRow, OrphanedOncePerLapse
  <2>3. CleanExitNotOrphaned
    BY Zenon, <1>1 DEF HandInv, RosterInv, RosterRow, CleanExitNotOrphaned, MembershipTypeOK
  <2> QED  BY Zenon, <2>1, <2>2, <2>3
<1> QED  BY <1>1, HandoffInvariant, PTL

\* A restart drives nothing whose owner row holds an operator's verdict
\* (reconcile_terminal_owners before classify_in_flight).
THEOREM DropsOutliveRestarts == Spec => DropSurvivesRestart
<1>1. ASSUME HandInv, [Next]_vars, life = "reconciled", run'.pc = "spawned" PROVE ~dropped
  <2>1. /\ run.pc \in {"off", "claim", "announce"} /\ ask = "none" /\ run \in Drives
        /\ dropped => row # "open"
    BY Zenon, <1>1 DEF HandInv, DownIsQuiet, DropInv, TypeOK, HandoffTypeOK
  <2>2. CASE Classify
    <3>1. CASE row = "open"
      BY Zenon, <2>1, <3>1
    <3>2. CASE row # "open"
      <4>1. run' = run
        BY Zenon, <2>2, <3>2 DEF Classify
      <4> QED  BY Zenon, <1>1, <2>1, <4>1
    <3> QED  BY Zenon, <3>1, <3>2
  <2>3. CASE Claim \/ Announce
    <3>1. run'.pc \in {"off", "announce"}
      BY <2>1, <2>3 DEF Claim, Announce, Goto, Off, Drives
    <3> QED  BY Zenon, <1>1, <3>1
  <2>4. CASE Exit
    BY Zenon, <1>1, <2>4 DEF Exit, Off
  <2>5. ~(Drive /\ ~(Claim \/ Announce)) /\ ~Operate
    BY Zenon, <1>1, <2>1 DEF Drive, Start, Enter, Boundary, Wake, Step, PublishArchived,
       RunBreaks, Active,
       Operate, AskDrop, ResolveDrop, PublishDrop, AskResume, SpawnResume
  <2>6. CASE run' = run
    BY Zenon, <1>1, <2>1, <2>6
  <2>7. CASE Coordinate \/ HandlerFails \/ HandOff \/ Reconcile \/ Leave \/ Retain \/ Roster
             \/ UNCHANGED vars
    <3>1. run' = run
      BY Zenon, <2>7 DEF Coordinate, ArchivedInsert, ArchivedOwner, ArchivedAck, AmbiguousOwner,
         DropInsert, DropOwner, DropRow, Resolve, HandlerFails, HandOff, HandleAck, SweepRead,
         Republish, Reconcile, Leave, Retain, RetentionList, RetentionDelete, Roster, vars, runVars
    <3> QED  BY Zenon, <2>6, <3>1
  <2> QED  BY Zenon, <1>1, <2>2, <2>3, <2>4, <2>5, <2>7 DEF Next
<1>2. HandInv /\ [Next]_vars => [life = "reconciled" /\ run'.pc = "spawned" => ~dropped]_vars
  BY Zenon, <1>1
<1> QED  BY <1>2, HandoffInvariant, PTL DEF Spec, DropSurvivesRestart
===============================================================================
