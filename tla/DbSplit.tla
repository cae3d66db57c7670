------------------------------- MODULE DbSplit -------------------------------
(***************************************************************************)
(* db.rs: split_legacy_events_db moves the one-file layout of v1           *)
(* (events.db) into one file per store, under a marker file that tells a   *)
(* rerun its own crashed attempt from two layouts that conflict.  The      *)
(* daemon runs it (fq-daemon boot.rs) before it opens its stores.          *)
(*                                                                         *)
(* Every system call that changes the directory is a step; the process may *)
(* die, or the call fail and end the boot, between any two.  A pre-split   *)
(* binary may run before, during and after, on whichever file it opened.   *)
(***************************************************************************)
EXTENDS Integers, Sequences, FiniteSets

CONSTANTS StoreFiles,    \* the per-store files, in the order of the plan
          LegacyKinds,   \* what may lie there at first: "known", "ahead", "bare", "none"
          MaxLegacyRows  \* bound: rows written by any binary

VARIABLES dsLegacy,   \* events.db: [exists, kind, rows]
          dsRetired,  \* events.db.pre-split
          dsMarker,   \* events.db.splitting exists
          dsFinal,    \* the per-store files: [exists, rows] by file
          dsTmp,      \* their .split-tmp copies
          dsBoot,     \* the daemon: [at, k], k the file of the plan it is at
          dsOld,      \* a pre-split binary: [at, file]
          dsWritten,  \* history: the rows committed by any binary
          dsSlipped,  \* history: a pre-split binary began a write behind the probe
          dsRevived   \* history: a pre-split binary made an events.db under a marker

splitVars == <<dsLegacy, dsRetired, dsMarker, dsFinal, dsTmp, dsBoot, dsOld, dsWritten,
               dsSlipped, dsRevived>>

Plan   == DOMAIN StoreFiles
Files  == {StoreFiles[i] : i \in Plan}
Absent == [exists |-> FALSE, rows |-> {}]
Holding(rows) == [exists |-> TRUE, rows |-> rows]

\* A row belongs to a table of one store; a newer binary has tables no store of
\* this one knows.
Row(n, t) == [id |-> n, table |-> t]
FUTURE    == "future"

\* The plan of split_legacy_events_db lists each store once.
ASSUME SplitAssumption ==
    /\ Len(StoreFiles) \in Nat \ {0} /\ Plan = 1 .. Len(StoreFiles)
    /\ \A i, j \in Plan : StoreFiles[i] = StoreFiles[j] => i = j
    /\ FUTURE \notin Files
    /\ LegacyKinds \subseteq {"known", "ahead", "bare", "none"}

Tables(kind) == IF kind = "ahead" THEN Files \union {FUTURE} ELSE Files

Off == [at |-> "off", k |-> 0]
At(pc) == dsBoot.at = pc
GoTo(pc, k) == dsBoot' = [at |-> pc, k |-> k]
Here == StoreFiles[dsBoot.k]

--------------------------------------------------------------------------------
Leftover == \E f \in Files : dsFinal[f].exists

ConflictNever == FALSE

\* Per-store files with no marker beside events.db: two layouts conflict.
Conflict == Leftover /\ ~dsMarker

\* The tests on the layout; no call has changed anything yet.
SplitBoot ==
    /\ At("off")
    /\ IF dsLegacy.exists
       THEN IF Conflict THEN UNCHANGED dsBoot ELSE GoTo("mark", 0)
       ELSE GoTo("unmark", 0)
    /\ UNCHANGED <<dsLegacy, dsRetired, dsMarker, dsFinal, dsTmp, dsOld, dsWritten,
                   dsSlipped, dsRevived>>

WriteMarker ==
    /\ At("mark")
    /\ dsMarker' = TRUE
    /\ GoTo("clear", 1)
    /\ UNCHANGED <<dsLegacy, dsRetired, dsFinal, dsTmp, dsOld, dsWritten, dsSlipped, dsRevived>>

\* The database file with its -wal and -shm sidecars.
remove_db_files(names, f) == [names EXCEPT ![f] = Absent]

\* A final name and its copy, store by store.
Clear ==
    /\ At("clear")
    /\ dsFinal' = remove_db_files(dsFinal, Here)
    /\ dsTmp'   = remove_db_files(dsTmp, Here)
    /\ IF dsBoot.k < Len(StoreFiles) THEN GoTo("clear", dsBoot.k + 1) ELSE GoTo("probe", 0)
    /\ UNCHANGED <<dsLegacy, dsRetired, dsMarker, dsOld, dsWritten, dsSlipped, dsRevived>>

NotAheadUnchecked == TRUE

\* check_legacy_schema_not_ahead: a file without schema_meta passes.
NotAhead == dsLegacy.kind # "ahead"

ProbeBlind == TRUE

\* BEGIN IMMEDIATE gets the write lock, and COMMIT gives it back.
ProbeFree == ~(dsOld.at = "writing" /\ dsOld.file = "legacy")

\* A refusal returns with the marker in place.
Probe ==
    /\ At("probe")
    /\ IF NotAhead /\ ProbeFree THEN GoTo("copy", 1) ELSE dsBoot' = Off
    /\ UNCHANGED <<dsLegacy, dsRetired, dsMarker, dsFinal, dsTmp, dsOld, dsWritten,
                   dsSlipped, dsRevived>>

\* VACUUM INTO: the committed rows of the whole file, one copy per store.
Copy ==
    /\ At("copy")
    /\ dsTmp' = [dsTmp EXCEPT ![Here] = Holding(dsLegacy.rows)]
    /\ GoTo("prune", dsBoot.k)
    /\ UNCHANGED <<dsLegacy, dsRetired, dsMarker, dsFinal, dsOld, dsWritten, dsSlipped, dsRevived>>

\* prune_copy: only the store's tables stay.  DELETE FROM schema_meta fails on a
\* file that has none.
Prune ==
    /\ At("prune")
    /\ IF dsLegacy.kind = "bare"
       THEN dsBoot' = Off /\ UNCHANGED dsTmp
       ELSE /\ dsTmp' = [dsTmp EXCEPT ![Here].rows = {r \in @ : r.table = Here}]
            /\ IF dsBoot.k < Len(StoreFiles) THEN GoTo("copy", dsBoot.k + 1) ELSE GoTo("rename", 1)
    /\ UNCHANGED <<dsLegacy, dsRetired, dsMarker, dsFinal, dsOld, dsWritten, dsSlipped, dsRevived>>

Rename ==
    /\ At("rename")
    /\ dsFinal' = [dsFinal EXCEPT ![Here] = dsTmp[Here]]
    /\ dsTmp'   = [dsTmp EXCEPT ![Here] = Absent]
    /\ IF dsBoot.k < Len(StoreFiles) THEN GoTo("rename", dsBoot.k + 1) ELSE GoTo("retire", 0)
    /\ UNCHANGED <<dsLegacy, dsRetired, dsMarker, dsOld, dsWritten, dsSlipped, dsRevived>>

\* The commit point.  A process that holds the file keeps it under its new name.
Retire ==
    /\ At("retire")
    /\ dsRetired' = Holding(dsLegacy.rows)
    /\ dsLegacy'  = [exists |-> FALSE, kind |-> "known", rows |-> {}]
    /\ dsOld'     = IF dsOld.at # "off" THEN [dsOld EXCEPT !.file = "retired"] ELSE dsOld
    /\ GoTo("unmark", 0)
    /\ UNCHANGED <<dsMarker, dsFinal, dsTmp, dsWritten, dsSlipped, dsRevived>>

\* Remove the marker, if there is one, and open the stores, which makes any file
\* that is not there.
Unmark ==
    /\ At("unmark")
    /\ dsMarker' = FALSE
    /\ dsFinal'  = [f \in Files |-> IF dsFinal[f].exists THEN dsFinal[f] ELSE Holding({})]
    /\ GoTo("up", 0)
    /\ UNCHANGED <<dsLegacy, dsRetired, dsTmp, dsOld, dsWritten, dsSlipped, dsRevived>>

\* The daemon dies, is stopped, or a call of the split fails.
Dies ==
    /\ ~At("off")
    /\ dsBoot' = Off
    /\ UNCHANGED <<dsLegacy, dsRetired, dsMarker, dsFinal, dsTmp, dsOld, dsWritten,
                   dsSlipped, dsRevived>>

\* The daemon writes to one of its stores.
StoreWrites(f) ==
    /\ At("up")
    /\ Cardinality(dsWritten) < MaxLegacyRows
    /\ LET row == Row(Cardinality(dsWritten) + 1, f)
       IN /\ dsFinal'   = [dsFinal EXCEPT ![f].rows = @ \union {row}]
          /\ dsWritten' = dsWritten \union {row}
    /\ UNCHANGED <<dsLegacy, dsRetired, dsMarker, dsTmp, dsBoot, dsOld, dsSlipped, dsRevived>>

--------------------------------------------------------------------------------
(***************************************************************************)
(* A pre-split binary (not in this repository any more), as the split sees *)
(* it: it opens or makes events.db and commits rows under a write lock.    *)
(***************************************************************************)
OldOff == [at |-> "off", file |-> "legacy"]

OldOpens ==
    /\ dsOld.at = "off"
    /\ dsOld'     = [at |-> "idle", file |-> "legacy"]
    /\ dsLegacy'  = IF dsLegacy.exists THEN dsLegacy
                    ELSE [exists |-> TRUE, kind |-> "known", rows |-> {}]
    /\ dsRevived' = (dsRevived \/ (~dsLegacy.exists /\ (dsMarker \/ At("unmark"))))
    /\ UNCHANGED <<dsRetired, dsMarker, dsFinal, dsTmp, dsBoot, dsWritten, dsSlipped>>

OldBegins ==
    /\ dsOld.at = "idle"
    /\ Cardinality(dsWritten) < MaxLegacyRows
    /\ dsOld'     = [dsOld EXCEPT !.at = "writing"]
    /\ dsSlipped' = (dsSlipped \/ dsOld.file = "retired"
                     \/ dsBoot.at \in {"copy", "prune", "rename", "retire"})
    /\ UNCHANGED <<dsLegacy, dsRetired, dsMarker, dsFinal, dsTmp, dsBoot, dsWritten, dsRevived>>

OldCommits(t) ==
    /\ dsOld.at = "writing"
    /\ Cardinality(dsWritten) < MaxLegacyRows
    /\ LET row == Row(Cardinality(dsWritten) + 1, t)
       IN /\ dsWritten' = dsWritten \union {row}
          /\ IF dsOld.file = "legacy"
             THEN dsLegacy' = [dsLegacy EXCEPT !.rows = @ \union {row}] /\ UNCHANGED dsRetired
             ELSE dsRetired' = [dsRetired EXCEPT !.rows = @ \union {row}] /\ UNCHANGED dsLegacy
    /\ dsOld' = [dsOld EXCEPT !.at = "idle"]
    /\ UNCHANGED <<dsMarker, dsFinal, dsTmp, dsBoot, dsSlipped, dsRevived>>

OldStops ==
    /\ dsOld.at # "off"
    /\ dsOld' = OldOff
    /\ UNCHANGED <<dsLegacy, dsRetired, dsMarker, dsFinal, dsTmp, dsBoot, dsWritten,
                   dsSlipped, dsRevived>>

--------------------------------------------------------------------------------
\* The first directory: an install of v1 with a row per table, or a fresh one.
FirstRows(kind) == IF kind = "none" THEN {}
                   ELSE {Row(1, t) : t \in {Head(StoreFiles)} \union (Tables(kind) \ Files)}

SplitInit ==
    /\ \E kind \in LegacyKinds :
          /\ dsLegacy  = [exists |-> kind # "none", kind |-> kind, rows |-> FirstRows(kind)]
          /\ dsWritten = FirstRows(kind)
    /\ dsRetired = Absent
    /\ dsMarker  = FALSE
    /\ dsFinal   = [f \in Files |-> Absent]
    /\ dsTmp     = [f \in Files |-> Absent]
    /\ dsBoot    = Off
    /\ dsOld     = OldOff
    /\ dsSlipped = FALSE
    /\ dsRevived = FALSE

SplitNext ==
    \/ SplitBoot \/ WriteMarker \/ Clear \/ Probe \/ Copy \/ Prune \/ Rename \/ Retire \/ Unmark \/ Dies
    \/ \E f \in Files : StoreWrites(f)
    \/ OldOpens \/ OldBegins \/ OldStops
    \/ \E t \in Tables(dsLegacy.kind) : OldCommits(t)

SplitSpec == SplitInit /\ [][SplitNext]_splitVars

--------------------------------------------------------------------------------
InFinal == UNION {dsFinal[f].rows : f \in Files}

\* What the split promises holds while no old binary began a write after the
\* probe gave its lock back, and none made an events.db under a left marker.
SplitUndisturbed == ~dsSlipped /\ ~dsRevived

(***************************************************************************)
(* No row is lost: wherever the split is cut short, every row that was     *)
(* committed is in events.db or in a per-store file, the two places the    *)
(* next boot reads (db.rs: "crash-safe").                                  *)
(***************************************************************************)
NothingLost == SplitUndisturbed => dsWritten \subseteq dsLegacy.rows \union InFinal

(***************************************************************************)
(* A daemon that is up on the split layout has every row of every table in *)
(* its stores: the stores are never opened on part of a split, nor on one  *)
(* that dropped the tables of a newer schema.                              *)
(***************************************************************************)
UpHasEverything ==
    SplitUndisturbed /\ At("up") /\ ~dsLegacy.exists => dsWritten = InFinal

(***************************************************************************)
(* A row leaves a per-store file only when events.db still has it: a rerun *)
(* deletes its own partial copies, never stores that were in use (the      *)
(* Conflict refusal of split_legacy_events_db).                            *)
(***************************************************************************)
ClearsOnlyCopies ==
    [][SplitUndisturbed => \A f \in Files : dsFinal[f].rows \ dsFinal'[f].rows \subseteq dsLegacy.rows]_splitVars
================================================================================
