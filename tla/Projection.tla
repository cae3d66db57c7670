------------------------------- MODULE Projection -------------------------------
(***************************************************************************)
(* The projection of the event stream into SQLite: opening the file, the   *)
(* reset of the durable that a new or rebuilt file needs, the strictly     *)
(* ordered consumer loop, the operator's rebuild under a running daemon    *)
(* and the watermark that readers wait on.  One step is one transaction or *)
(* one call on the bus.                                                    *)
(***************************************************************************)
EXTENDS Naturals, FiniteSets, SequencesExt

CONSTANTS Streams,          \* the histories the event stream may start with
          NewKinds,         \* what is published while the daemon runs
          MaxSeq,           \* bound: stream length
          MaxProjCrashes, MaxRebuilds, MaxDeletes,   \* bounds on faults and operator actions
          TornCreate        \* a crash may fall between creating the file and noting the reset

\* What a message is to this build: an event of an envelope version it no
\* longer reads, an event it reads (with or without a cost), or no event at
\* all.  Versions only grow along the stream, as replay_floor assumes.
Kinds == {"old", "plain", "cost", "poison"}

ASSUME VersionsGrow ==
    /\ NewKinds \subseteq Kinds \ {"old"}
    /\ \A h \in Streams : \A i, j \in DOMAIN h : i < j /\ h[j] = "old" => h[i] \in {"old", "poison"}

NoSeq == 0
NoRecord == [floor |-> NoSeq, target |-> NoSeq, done |-> FALSE, made |-> FALSE]

VARIABLES stream,    \* the kinds of the messages 1 .. Len(stream)
          firstSeq,  \* the oldest message the stream still holds
          durable,   \* fq-projector: the acked position, or -1 when it does not exist
          file,      \* "absent", "created" (no reset note yet), "old" (older schema), "ready"
          rows,      \* per sequence: "none", "half" (events row only) or "whole"
          resetNote, \* projection_meta: the reset is pending
          noteFloor, \* projection_meta: the floor step's record
          record,    \* projection_meta: the rebuild record
          phase,     \* where the daemon's projection task is
          inflight,  \* the delivered, unacked message
          mark,      \* the watermark
          rebuilt,   \* this process's rebuild under its readers: "no", "asked", "yes"
          seen,      \* reset: the floor the floor step returned
          crashed, rebuilds, deletes

meta == <<resetNote, noteFloor, record>>
projVars == <<stream, firstSeq, durable, file, rows, meta, phase, inflight, mark,
              rebuilt, seen, crashed, rebuilds, deletes>>

Absent == 0 - 1
LastSeq   == Len(stream)
HeldSeqs   == firstSeq .. LastSeq
Reads(k) == k \in {"plain", "cost"}

ProjInit ==
    /\ stream \in Streams
    /\ firstSeq = 1
    /\ durable = Absent
    /\ file = "absent"
    /\ rows = [s \in 1 .. MaxSeq |-> "none"]
    /\ resetNote = FALSE /\ noteFloor = NoSeq /\ record = NoRecord
    /\ phase = "down"
    /\ inflight = NoSeq
    /\ mark = 0
    /\ rebuilt = "no"
    /\ seen = NoSeq
    /\ crashed = 0 /\ rebuilds = 0 /\ deletes = 0

--------------------------------------------------------------------------------
\* The replay floor.

\* classify_from: the first message at or after p that declares a version.
Classified(p) == {s \in p .. LastSeq : s >= firstSeq /\ stream[s] # "poison"}
Verdict(p)    == IF Classified(p) = {} THEN NoSeq
                 ELSE CHOOSE s \in Classified(p) : \A t \in Classified(p) : s <= t

\* replay_floor: the binary search, then the message that answers for where it
\* ended.
FloorAtFirst ==
    LET v == Verdict(firstSeq) IN IF v = NoSeq THEN LastSeq + 1 ELSE v

Floor ==
    LET search[lo \in 1 .. LastSeq + 1, hi \in 1 .. LastSeq + 1] ==
            IF lo >= hi THEN hi
            ELSE LET mid == lo + (hi - lo) \div 2
                     v   == Verdict(mid)
                 IN  IF v # NoSeq /\ ~Reads(stream[v]) THEN search[v + 1, hi]
                     ELSE search[lo, mid]
        end == IF firstSeq > LastSeq THEN LastSeq + 1 ELSE search[firstSeq, LastSeq + 1]
        at  == Verdict(end)
    IN  IF at # NoSeq /\ Reads(stream[at]) THEN at ELSE LastSeq + 1

--------------------------------------------------------------------------------
\* The file.

\* ensure_schema on a fresh file: the tables and their version first, the
\* reset note in a statement of its own.
CreateFile ==
    /\ phase = "down" /\ file = "absent"
    /\ file' = "created"
    /\ rows' = [s \in 1 .. MaxSeq |-> "none"]
    /\ resetNote' = FALSE /\ noteFloor' = NoSeq /\ record' = NoRecord
    /\ phase' = "creating"
    /\ UNCHANGED <<stream, firstSeq, durable, inflight, mark, rebuilt, seen,
                   crashed, rebuilds, deletes>>

NoteFresh ==
    /\ phase = "creating"
    /\ file' = "ready"
    /\ resetNote' = TRUE
    /\ phase' = "opened"
    /\ UNCHANGED <<stream, firstSeq, durable, rows, noteFloor, record, inflight, mark,
                   rebuilt, seen, crashed, rebuilds, deletes>>

\* A file at the current version: nothing to note.  An older one is rebuilt.
OpenFile ==
    /\ phase = "down" /\ file \in {"created", "ready"}
    /\ file' = "ready"
    /\ phase' = "opened"
    /\ UNCHANGED <<stream, firstSeq, durable, rows, meta, inflight, mark, rebuilt, seen,
                   crashed, rebuilds, deletes>>

\* rebuild_tables: every row carried, the record begun, the reset noted and an
\* earlier floor forgotten, in one transaction.
RebuildTables(next) ==
    /\ resetNote' = TRUE
    /\ noteFloor' = NoSeq
    /\ record' = [NoRecord EXCEPT !.made = TRUE]
    /\ phase' = next

UpgradeFile ==
    /\ phase = "down" /\ file = "old"
    /\ file' = "ready"
    /\ RebuildTables("opened")
    /\ UNCHANGED <<stream, firstSeq, durable, rows, inflight, mark, rebuilt, seen,
                   crashed, rebuilds, deletes>>

\* ProjectionSupervisor on a request: the loop has stopped; rebuild the file.
OperatorRebuild ==
    /\ phase \in {"running", "halted"}
    /\ inflight = NoSeq
    /\ rebuilds < MaxRebuilds
    /\ rebuilds' = rebuilds + 1
    /\ rebuilt' = "asked"
    /\ RebuildTables("rebuilding")
    /\ UNCHANGED <<stream, firstSeq, durable, file, rows, inflight, mark, seen,
                   crashed, deletes>>

--------------------------------------------------------------------------------
\* The reset: floor step, durable deleted, target read, record, notes cleared.

\* apply_replay_floor: drop what the replay re-derives, keep what bears a cost.
FloorStepDropsAll(f) ==
    rows' = [s \in 1 .. MaxSeq |-> IF s >= f THEN "none" ELSE rows[s]]

FloorStep(f) ==
    rows' = [s \in 1 .. MaxSeq |->
                IF s >= f /\ s <= LastSeq /\ stream[s] # "cost" THEN "none" ELSE rows[s]]

\* The consumer start resets when the note is there; the supervisor's rebuild
\* goes on to the reset by itself.
ApplyFloor ==
    /\ \/ phase = "opened" /\ resetNote
       \/ phase = "rebuilding"
    /\ FloorStep(Floor)
    /\ noteFloor' = Floor
    /\ seen' = Floor
    /\ phase' = "floored"
    /\ UNCHANGED <<stream, firstSeq, durable, file, resetNote, record, inflight, mark, rebuilt,
                   crashed, rebuilds, deletes>>

DeleteDurableClears ==
    /\ phase = "floored"
    /\ phase' = IF durable = Absent THEN "reset_none" ELSE "reset_deleted"
    /\ UNCHANGED <<stream, firstSeq, durable, file, rows, meta, inflight, mark, rebuilt, seen,
                   crashed, rebuilds, deletes>>

DeleteDurable ==
    /\ phase = "floored"
    /\ durable' = Absent
    /\ phase' = IF durable = Absent THEN "reset_none" ELSE "reset_deleted"
    /\ UNCHANGED <<stream, firstSeq, file, rows, meta, inflight, mark, rebuilt, seen,
                   crashed, rebuilds, deletes>>

\* consumer_reset_done, its first statement: complete the rebuild's record, or
\* make one for a fresh file that found a durable.
WriteRecord ==
    /\ phase \in {"reset_none", "reset_deleted"}
    /\ record' = IF (record.made /\ ~record.done) \/ (~record.made /\ phase = "reset_deleted")
                   THEN [floor |-> noteFloor, target |-> LastSeq, done |-> TRUE, made |-> TRUE]
                   ELSE record
    /\ phase' = "recorded"
    /\ UNCHANGED <<stream, firstSeq, durable, file, rows, resetNote, noteFloor, inflight, mark,
                   rebuilt, seen, crashed, rebuilds, deletes>>

ClearNotes ==
    /\ phase = "recorded"
    /\ resetNote' = FALSE
    /\ noteFloor' = NoSeq
    /\ phase' = "attaching"
    /\ rebuilt' = IF rebuilt = "asked" THEN "yes" ELSE rebuilt
    /\ UNCHANGED <<stream, firstSeq, durable, file, rows, record, inflight, mark,
                   seen, crashed, rebuilds, deletes>>

\* A bus error in the supervisor's reset is answered to the operator and the
\* loop starts again; the note sends that start back to the reset.
ResetFails ==
    /\ rebuilt = "asked" /\ phase \in {"rebuilding", "floored", "reset_none", "reset_deleted"}
    /\ phase' = "opened"
    /\ rebuilt' = "yes"
    /\ UNCHANGED <<stream, firstSeq, durable, file, rows, meta, inflight, mark, seen,
                   crashed, rebuilds, deletes>>

--------------------------------------------------------------------------------
\* The loop.

\* create: an existing durable keeps its position; a new one starts at the
\* floor of the reset just made, or of the record, or at the beginning.
Attach ==
    /\ \/ phase = "attaching"
       \/ phase = "opened" /\ ~resetNote
    /\ LET from == IF phase = "attaching" THEN seen ELSE record.floor
       IN  durable' = IF durable # Absent THEN durable
                      ELSE IF from = NoSeq THEN 0 ELSE from - 1
    /\ phase' = "running"
    /\ seen' = NoSeq
    /\ UNCHANGED <<stream, firstSeq, file, rows, meta, inflight, mark, rebuilt,
                   crashed, rebuilds, deletes>>

\* max_ack_pending = 1: the next message is the first one past the acked floor.
Next1 == {s \in HeldSeqs : s > durable}
Head1 == CHOOSE s \in Next1 : \A t \in Next1 : s <= t

DeliverMarks ==
    /\ phase = "running" /\ inflight = NoSeq /\ Next1 # {}
    /\ IF stream[Head1] = "old"
         THEN phase' = "halted" /\ UNCHANGED <<inflight, mark>>
         ELSE inflight' = Head1 /\ mark' = Head1 /\ UNCHANGED phase
    /\ UNCHANGED <<stream, firstSeq, durable, file, rows, meta, rebuilt, seen,
                   crashed, rebuilds, deletes>>

DeliverHalts ==
    /\ phase = "running" /\ inflight = NoSeq /\ Next1 # {}
    /\ IF stream[Head1] \in {"old", "poison"}
         THEN phase' = "halted" /\ UNCHANGED inflight
         ELSE inflight' = Head1 /\ UNCHANGED phase
    /\ UNCHANGED <<stream, firstSeq, durable, file, rows, meta, mark, rebuilt, seen,
                   crashed, rebuilds, deletes>>

Deliver ==
    /\ phase = "running" /\ inflight = NoSeq /\ Next1 # {}
    /\ IF stream[Head1] = "old"
         THEN phase' = "halted" /\ UNCHANGED inflight
         ELSE inflight' = Head1 /\ UNCHANGED phase
    /\ UNCHANGED <<stream, firstSeq, durable, file, rows, meta, mark, rebuilt, seen,
                   crashed, rebuilds, deletes>>

\* insert_event: the events row, and in later statements the rows beside it;
\* a failure in between is NAK'd and the message delivered again.
InsertRow ==
    /\ inflight # NoSeq /\ Reads(stream[inflight])
    /\ rows[inflight] = "none"
    /\ rows' = [rows EXCEPT ![inflight] = "half"]
    /\ UNCHANGED <<stream, firstSeq, durable, file, meta, phase, inflight, mark, rebuilt, seen,
                   crashed, rebuilds, deletes>>

InsertBeside ==
    /\ inflight # NoSeq /\ Reads(stream[inflight])
    /\ rows[inflight] # "none"
    /\ rows' = [rows EXCEPT ![inflight] = "whole"]
    /\ mark' = IF inflight > mark THEN inflight ELSE mark
    /\ UNCHANGED <<stream, firstSeq, durable, file, meta, phase, inflight, rebuilt, seen,
                   crashed, rebuilds, deletes>>

\* The handler failed: NAK, and the same message comes again.
Nak ==
    /\ inflight # NoSeq /\ Reads(stream[inflight])
    /\ rows[inflight] = "half"
    /\ inflight' = NoSeq
    /\ UNCHANGED <<stream, firstSeq, durable, file, rows, meta, phase, mark, rebuilt, seen,
                   crashed, rebuilds, deletes>>

\* The ack, which the server may not get; poison is acked without a row.
AckMessage ==
    /\ inflight # NoSeq
    /\ Reads(stream[inflight]) => rows[inflight] = "whole" /\ mark >= inflight
    /\ \/ durable' = inflight
       \/ UNCHANGED durable
    /\ inflight' = NoSeq
    /\ UNCHANGED <<stream, firstSeq, file, rows, meta, phase, mark, rebuilt, seen,
                   crashed, rebuilds, deletes>>

--------------------------------------------------------------------------------
\* Around it.

PublishEvent(k) ==
    /\ LastSeq < MaxSeq
    /\ stream' = Append(stream, k)
    /\ UNCHANGED <<firstSeq, durable, file, rows, meta, phase, inflight, mark, rebuilt, seen,
                   crashed, rebuilds, deletes>>

\* Stream retention takes the oldest message.
AgeOut ==
    /\ firstSeq < LastSeq /\ inflight # firstSeq
    /\ firstSeq' = firstSeq + 1
    /\ UNCHANGED <<stream, durable, file, rows, meta, phase, inflight, mark, rebuilt, seen,
                   crashed, rebuilds, deletes>>

CrashDaemon ==
    /\ phase # "down" /\ crashed < MaxProjCrashes
    /\ phase = "creating" => TornCreate
    /\ crashed' = crashed + 1
    /\ phase' = "down"
    /\ inflight' = NoSeq
    /\ mark' = 0
    /\ rebuilt' = "no"
    /\ seen' = NoSeq
    /\ UNCHANGED <<stream, firstSeq, durable, file, rows, meta, rebuilds, deletes>>

\* The operator deletes the projection store, or installs a build whose schema
\* is newer than the file's, while the daemon is down.
ReplaceFile ==
    /\ phase = "down" /\ file = "ready" /\ deletes < MaxDeletes
    /\ deletes' = deletes + 1
    /\ \/ file' = "old" /\ UNCHANGED <<rows, meta>>
       \/ /\ file' = "absent"
          /\ rows' = [s \in 1 .. MaxSeq |-> "none"]
          /\ resetNote' = FALSE /\ noteFloor' = NoSeq /\ record' = NoRecord
    /\ UNCHANGED <<stream, firstSeq, durable, phase, inflight, mark, rebuilt, seen,
                   crashed, rebuilds>>

OpenStep  == CreateFile \/ NoteFresh \/ OpenFile \/ UpgradeFile
ResetStep == ApplyFloor \/ DeleteDurable \/ WriteRecord \/ ClearNotes \/ Attach
LoopStep  == Deliver \/ InsertRow

ProjNext ==
    \/ OpenStep \/ ResetStep \/ LoopStep \/ InsertBeside \/ AckMessage
    \/ OperatorRebuild \/ ResetFails \/ Nak \/ AgeOut \/ CrashDaemon \/ ReplaceFile
    \/ \E k \in NewKinds : PublishEvent(k)

ProjSpec == ProjInit /\ [][ProjNext]_projVars

\* The runtime polls the task, a stopped daemon is started, a transient
\* database error does not recur for ever, and an ack that is sent again and
\* again gets through.
ProjFairness ==
    /\ WF_projVars(OpenStep) /\ WF_projVars(ResetStep) /\ WF_projVars(LoopStep)
    /\ SF_projVars(InsertBeside)
    /\ SF_projVars(AckMessage /\ durable' # durable)

--------------------------------------------------------------------------------
\* RebuildRecord::status: what the operator is told of the last rebuild.  The
\* ack floor of a durable that does not exist is unknown.
StatusOfRecord == resetNote \/ (record.made /\ ~record.done)
InProgress ==
    \/ resetNote
    \/ record.made /\ ~record.done
    \/ /\ record.done /\ record.floor <= record.target
       /\ durable = Absent \/ durable < record.target

--------------------------------------------------------------------------------
\* Properties.

\* Present(s): the event at s, if the stream still holds it and this build
\* reads it, has all its rows.
Present(s) == s \in HeldSeqs /\ Reads(stream[s]) => rows[s] = "whole"

\* The module doc of watermark.rs: a reader that waited for sequence S finds
\* every event up to S in the tables, unless this process has since rebuilt
\* them under it.
WatermarkVouches == rebuilt = "no" => \A s \in 1 .. mark : Present(s)

\* Acked means projected: once no reset is owed, everything at or below the
\* durable's position that could be read is in the file - whichever of the
\* file, the durable and the daemon was lost, replaced or rebuilt in between,
\* and wherever the reset was cut short.
AckedIsProjected ==
    file = "ready" /\ ~resetNote /\ durable # Absent => \A s \in 1 .. durable : Present(s)

\* What the rebuild reports as finished is finished: every event up to the
\* target that the stream still holds is back in the tables.
StatusIsHonest ==
    file = "ready" /\ record.made /\ ~InProgress => \A s \in 1 .. record.target : Present(s)

\* replay_floor's search finds the first message this build reads, however
\* much of the stream has aged out and wherever the poison lies.
Oldest == {s \in HeldSeqs : Reads(stream[s])}
FloorIsFirstReadable ==
    Floor = IF Oldest = {} THEN LastSeq + 1 ELSE CHOOSE s \in Oldest : \A t \in Oldest : s <= t

\* What was spent is never forgotten: neither a rebuild nor a reset removes the
\* row of an event that bears a cost; only replacing the file does.
CostRowsKept ==
    [][\A s \in 1 .. MaxSeq :
          s <= LastSeq /\ stream[s] = "cost" /\ rows[s] # "none" =>
             rows'[s] # "none" \/ deletes' # deletes]_projVars

\* Once the daemon has a file, every event this build can read is projected in
\* the end or ages out of the stream, through crashes, replaced files and
\* rebuilds, and past history this build cannot read.  One way out: a file that was never rebuilt keeps no
\* floor, so a crash between its reset and the durable's creation leaves the
\* next start at the beginning, halted on that history.
Beached == phase = "halted" /\ ~record.made /\ \E s \in 1 .. LastSeq : stream[s] = "old"
Unprojected == {s \in firstSeq .. LastSeq : Reads(stream[s]) /\ rows[s] # "whole"}
EventuallyProjected ==
    ProjFairness => ((file # "absent" /\ Unprojected # {}) ~> (Unprojected = {} \/ Beached))
================================================================================
