---------------------------- MODULE ServiceProofs ----------------------------
(***************************************************************************)
(* Proofs about services around the dispatcher: the one-time split of the   *)
(* legacy database, for any number of stores, rows, crashes and reruns; and *)
(* the requests an MCP server makes of the host under a tool call's         *)
(* deadline; and the ledger of scheduled maintenance.                       *)
(***************************************************************************)
EXTENDS DbSplit, ServerRequests, Maintenance, TLAPS

(***************************************************************************)
(* The split.  While the daemon is between the probe and the commit point    *)
(* every committed row is still in events.db, and the copies made so far     *)
(* hold exactly their stores' rows; events.db and the stores together hold   *)
(* everything at all times.                                                  *)
(***************************************************************************)
Phases == {"off", "mark", "clear", "probe", "copy", "prune", "rename", "retire", "unmark", "up"}
Marked == {"clear", "probe", "copy", "prune", "rename", "retire"}
Sealed == {"copy", "prune", "rename", "retire"}

\* A file that is not there has no rows.
Stored == {x \in [exists : BOOLEAN, rows : SUBSET dsWritten] : ~x.exists => x.rows = {}}
Layouts == [exists : BOOLEAN, kind : {"known", "ahead", "bare", "none"}, rows : SUBSET dsWritten]
Binaries == [at : {"off", "idle", "writing"}, file : {"legacy", "retired"}]

\* What a store's copy of the legacy file keeps.
Share(f) == Holding({r \in dsLegacy.rows : r.table = f})

SplitShape ==
    /\ dsBoot.at \in Phases
    /\ dsBoot.at \in {"clear", "copy", "prune", "rename"} => dsBoot.k \in Plan
    /\ dsFinal \in [Files -> Stored]
    /\ dsTmp \in [Files -> Stored]
    /\ dsLegacy \in Layouts
    /\ ~dsLegacy.exists => dsLegacy.rows = {} /\ dsLegacy.kind # "ahead"
    /\ dsLegacy.kind # "ahead" => \A r \in dsLegacy.rows : r.table \in Files
    /\ dsOld \in Binaries
    /\ dsOld.at # "off" /\ dsOld.file = "legacy" => dsLegacy.exists
    /\ dsBoot.at \in Marked \cup {"mark"} => dsLegacy.exists
    /\ dsBoot.at \in Marked => dsMarker
    /\ dsBoot.at = "up" => ~dsMarker /\ \A f \in Files : dsFinal[f].exists
    /\ dsBoot.at = "mark" => ~Conflict
    /\ dsBoot.at \in Sealed => dsLegacy.kind # "ahead"

\* No old binary writes to a file the split has sealed or retired.
NoSlip ==
    /\ dsBoot.at \in Sealed => ~(dsOld.at = "writing" /\ dsOld.file = "legacy")
    /\ dsOld.file = "retired" => dsOld.at # "writing"

\* The plan so far: which copies are made, and which have their final name.
Progress ==
    /\ dsBoot.at = "copy" => \A i \in Plan : i < dsBoot.k => dsTmp[StoreFiles[i]] = Share(StoreFiles[i])
    /\ dsBoot.at = "prune" =>
          /\ \A i \in Plan : i < dsBoot.k => dsTmp[StoreFiles[i]] = Share(StoreFiles[i])
          /\ dsTmp[Here] = Holding(dsLegacy.rows)
    /\ dsBoot.at = "rename" =>
          /\ \A i \in Plan : i < dsBoot.k => dsFinal[StoreFiles[i]] = Share(StoreFiles[i])
          /\ \A i \in Plan : i >= dsBoot.k => dsTmp[StoreFiles[i]] = Share(StoreFiles[i])
    /\ dsBoot.at = "retire" => \A f \in Files : dsFinal[f] = Share(f)

\* Under a marker everything is still in events.db.
LegacyIsWhole ==
    /\ dsMarker /\ dsLegacy.exists => dsWritten \subseteq dsLegacy.rows
    /\ dsBoot.at = "unmark" => ~dsLegacy.exists

SplitInv ==
    /\ SplitShape
    /\ SplitUndisturbed => NoSlip /\ Progress /\ LegacyIsWhole
                             /\ dsWritten \subseteq dsLegacy.rows \union InFinal


\* The plan, and what a file may hold.
LEMMA PlanSteps ==
    /\ 1 \in Plan
    /\ \A k \in Plan : k < Len(StoreFiles) => k + 1 \in Plan
    /\ \A k \in Plan : StoreFiles[k] \in Files
    /\ Absent \in Stored
    /\ \A R \in SUBSET dsWritten : Holding(R) \in Stored
<1>1. 1 \in Plan /\ \A k \in Plan : k < Len(StoreFiles) => k + 1 \in Plan
  BY SplitAssumption
<1>2. \A k \in Plan : StoreFiles[k] \in Files
  BY Zenon DEF Files
<1>3. Absent \in Stored /\ \A R \in SUBSET dsWritten : Holding(R) \in Stored
  BY Zenon DEF Absent, Holding, Stored
<1> QED  BY Zenon, <1>1, <1>2, <1>3

\* Moving on to the next file of the plan, or past the last one.
LEMMA Refilled ==
    ASSUME NEW R, NEW S
    PROVE  [Holding(R) EXCEPT !.rows = S] = Holding(S)
<1> DEFINE x == [Holding(R) EXCEPT !.rows = S]
<1>1. x \in [exists : BOOLEAN, rows : {S}] /\ x.exists = TRUE /\ x.rows = S
  BY Zenon DEF Holding
<1>2. ASSUME NEW y \in [exists : BOOLEAN, rows : {S}], y.exists = TRUE, y.rows = S
      PROVE  y = [exists |-> TRUE, rows |-> S]
  BY Zenon, <1>2
<1> QED  BY Zenon, <1>1, <1>2 DEF Holding

LEMMA NextFile ==
    ASSUME NEW pc, NEW next, NEW n, dsBoot.k \in Plan,
           IF dsBoot.k < Len(StoreFiles) THEN GoTo(pc, dsBoot.k + 1) ELSE GoTo(next, n)
    PROVE  \/ dsBoot'.at = pc /\ dsBoot'.k = dsBoot.k + 1 /\ dsBoot'.k \in Plan
           \/ dsBoot'.at = next /\ dsBoot'.k = n /\ dsBoot.k = Len(StoreFiles)
<1>1. dsBoot.k \in 1 .. Len(StoreFiles) /\ Len(StoreFiles) \in Nat
  BY Zenon, SplitAssumption
<1>2. CASE dsBoot.k < Len(StoreFiles)
  BY <1>2, PlanSteps DEF GoTo
<1>3. CASE ~(dsBoot.k < Len(StoreFiles))
  BY <1>1, <1>3 DEF GoTo
<1> QED  BY Zenon, <1>2, <1>3

LEMMA SameRows ==
    ASSUME UNCHANGED dsWritten
    PROVE  Stored' = Stored /\ Layouts' = Layouts
BY Zenon DEF Stored, Layouts

\* Nothing but the daemon's place changes.
LEMMA ShapePlace ==
    ASSUME SplitShape, UNCHANGED <<dsLegacy, dsMarker, dsFinal, dsTmp, dsOld, dsWritten>>,
           dsBoot'.at \in Phases,
           dsBoot'.at \in {"clear", "copy", "prune", "rename"} => dsBoot'.k \in Plan,
           dsBoot'.at \in Marked \cup {"mark"} => dsLegacy.exists,
           dsBoot'.at \in Marked => dsMarker,
           dsBoot'.at # "up", dsBoot'.at = "mark" => ~Conflict,
           dsBoot'.at \in Sealed => dsLegacy.kind # "ahead"
    PROVE  SplitShape'
<1>1. Stored' = Stored /\ Layouts' = Layouts
  BY Zenon, SameRows
<1> QED  BY ZenonT(30), <1>1 DEF SplitShape, Conflict, Leftover

\* The boot's steps keep the shape.
LEMMA ShapeBoot ==
    ASSUME SplitShape,
           SplitBoot \/ WriteMarker \/ Clear \/ Probe \/ Copy \/ Prune \/ Rename \/ Retire \/ Unmark \/ Dies
    PROVE  SplitShape'
<1>1. CASE SplitBoot
  <2>1. UNCHANGED <<dsLegacy, dsMarker, dsFinal, dsTmp, dsOld, dsWritten>>
    BY Zenon, <1>1 DEF SplitBoot
  <2>2. \/ dsBoot'.at = "off"
        \/ dsBoot'.at = "mark" /\ dsLegacy.exists /\ ~Conflict
        \/ dsBoot'.at = "unmark"
    BY <1>1 DEF SplitBoot, GoTo, At
  <2> QED  BY Zenon, <2>1, <2>2, ShapePlace DEF Phases, Marked, Sealed
<1>2. CASE WriteMarker
  <2>1. /\ dsBoot.at = "mark" /\ dsBoot'.at = "clear" /\ dsBoot'.k = 1 /\ dsMarker'
        /\ UNCHANGED <<dsLegacy, dsFinal, dsTmp, dsOld, dsWritten>>
    BY Zenon, <1>2 DEF WriteMarker, At, GoTo
  <2> QED  BY ZenonT(30), <2>1, PlanSteps, SameRows DEF SplitShape, Phases, Marked, Sealed
<1>3. CASE Clear
  <2>0. dsBoot.at = "clear" /\ dsBoot.k \in Plan /\ Here \in Files
    BY Zenon, <1>3, PlanSteps DEF Clear, At, SplitShape, Here
  <2>1. /\ UNCHANGED <<dsLegacy, dsMarker, dsOld, dsWritten>>
        /\ dsFinal' = [dsFinal EXCEPT ![Here] = Absent] /\ dsTmp' = [dsTmp EXCEPT ![Here] = Absent]
    BY Zenon, <1>3 DEF Clear, remove_db_files
  <2>2. dsBoot'.at \in {"clear", "probe"} /\ (dsBoot'.at = "clear" => dsBoot'.k \in Plan)
    BY <1>3, <2>0, NextFile DEF Clear
  <2>3. dsFinal' \in [Files -> Stored] /\ dsTmp' \in [Files -> Stored]
    BY Zenon, <2>0, <2>1, PlanSteps DEF SplitShape
  <2> QED  BY ZenonT(30), <2>0, <2>1, <2>2, <2>3, SameRows DEF SplitShape, Phases, Marked, Sealed
<1>4. CASE Probe
  <2>1. UNCHANGED <<dsLegacy, dsMarker, dsFinal, dsTmp, dsOld, dsWritten>>
    BY Zenon, <1>4 DEF Probe
  <2>2. \/ dsBoot'.at = "off"
        \/ dsBoot'.at = "copy" /\ dsBoot'.k = 1 /\ dsLegacy.kind # "ahead"
    BY <1>4 DEF Probe, GoTo, Off, NotAhead
  <2>3. dsLegacy.exists /\ dsMarker
    BY Zenon, <1>4 DEF Probe, At, SplitShape, Marked
  <2> QED  BY ZenonT(30), <2>1, <2>2, <2>3, PlanSteps, ShapePlace DEF Phases, Marked, Sealed
<1>5. CASE Copy
  <2>0. dsBoot.at = "copy" /\ dsBoot.k \in Plan /\ Here \in Files
    BY Zenon, <1>5, PlanSteps DEF Copy, At, SplitShape, Here
  <2>1. /\ UNCHANGED <<dsLegacy, dsMarker, dsOld, dsWritten, dsFinal>>
        /\ dsTmp' = [dsTmp EXCEPT ![Here] = Holding(dsLegacy.rows)]
        /\ dsBoot'.at = "prune" /\ dsBoot'.k = dsBoot.k
    BY Zenon, <1>5 DEF Copy, GoTo
  <2>2. dsTmp' \in [Files -> Stored]
    <3>1. Holding(dsLegacy.rows) \in Stored
      BY Zenon, PlanSteps DEF SplitShape, Layouts
    <3> QED  BY Zenon, <2>0, <2>1, <3>1 DEF SplitShape
  <2> QED  BY ZenonT(30), <2>0, <2>1, <2>2, SameRows DEF SplitShape, Phases, Marked, Sealed
<1>6. CASE Prune
  <2>0. dsBoot.at = "prune" /\ dsBoot.k \in Plan /\ Here \in Files
    BY Zenon, <1>6, PlanSteps DEF Prune, At, SplitShape, Here
  <2>1. UNCHANGED <<dsLegacy, dsMarker, dsOld, dsWritten, dsFinal>>
    BY Zenon, <1>6 DEF Prune
  <2>2. /\ dsBoot'.at \in {"off", "copy", "rename"}
        /\ (dsBoot'.at \in {"copy", "rename"} => dsBoot'.k \in Plan)
    <3>1. CASE dsLegacy.kind = "bare"
      BY <1>6, <3>1 DEF Prune, Off
    <3>2. CASE dsLegacy.kind # "bare"
      BY Zenon, <1>6, <2>0, <3>2, NextFile, PlanSteps DEF Prune
    <3> QED  BY Zenon, <3>1, <3>2
  <2>3. dsTmp' \in [Files -> Stored]
    <3>1. dsTmp[Here] \in Stored /\ dsTmp \in [Files -> Stored]
      BY Zenon, <2>0 DEF SplitShape
    <3>2. [dsTmp[Here] EXCEPT !.rows = {r \in @ : r.table = Here}] \in Stored
      BY Zenon, <3>1 DEF Stored
    <3>3. \/ dsTmp' = dsTmp
          \/ dsTmp' = [dsTmp EXCEPT ![Here] = [dsTmp[Here] EXCEPT !.rows = {r \in @ : r.table = Here}]]
      BY Zenon, <1>6 DEF Prune
    <3> QED  BY Zenon, <3>1, <3>2, <3>3
  <2> QED  BY ZenonT(30), <2>0, <2>1, <2>2, <2>3, SameRows DEF SplitShape, Phases, Marked, Sealed
<1>7. CASE Rename
  <2>0. dsBoot.at = "rename" /\ dsBoot.k \in Plan /\ Here \in Files
    BY Zenon, <1>7, PlanSteps DEF Rename, At, SplitShape, Here
  <2>1. /\ UNCHANGED <<dsLegacy, dsMarker, dsOld, dsWritten>>
        /\ dsFinal' = [dsFinal EXCEPT ![Here] = dsTmp[Here]] /\ dsTmp' = [dsTmp EXCEPT ![Here] = Absent]
    BY Zenon, <1>7 DEF Rename
  <2>2. dsBoot'.at \in {"rename", "retire"} /\ (dsBoot'.at = "rename" => dsBoot'.k \in Plan)
    BY <1>7, <2>0, NextFile DEF Rename
  <2>3. dsFinal' \in [Files -> Stored] /\ dsTmp' \in [Files -> Stored]
    BY Zenon, <2>0, <2>1, PlanSteps DEF SplitShape
  <2> QED  BY ZenonT(30), <2>0, <2>1, <2>2, <2>3, SameRows DEF SplitShape, Phases, Marked, Sealed
<1>8. CASE Retire
  <2>1. /\ dsLegacy' = [exists |-> FALSE, kind |-> "known", rows |-> {}]
        /\ dsOld' = IF dsOld.at # "off" THEN [dsOld EXCEPT !.file = "retired"] ELSE dsOld
        /\ dsBoot'.at = "unmark" /\ UNCHANGED <<dsFinal, dsTmp, dsWritten>>
    BY Zenon, <1>8 DEF Retire, GoTo
  <2>2. /\ dsLegacy'.rows = {} /\ ~dsLegacy'.exists /\ dsLegacy' \in Layouts
        /\ dsLegacy'.kind # "ahead"
    BY Zenon, <2>1 DEF Layouts
  <2>3. dsOld' \in Binaries /\ ~(dsOld'.at # "off" /\ dsOld'.file = "legacy")
    BY Zenon, <2>1 DEF SplitShape, Binaries
  <2> QED  BY ZenonT(30), <2>1, <2>2, <2>3, SameRows DEF SplitShape, Phases, Marked, Sealed
<1>9. CASE Unmark
  <2>1. /\ ~dsMarker' /\ dsBoot'.at = "up" /\ UNCHANGED <<dsLegacy, dsTmp, dsOld, dsWritten>>
        /\ dsFinal' = [f \in Files |-> IF dsFinal[f].exists THEN dsFinal[f] ELSE Holding({})]
    BY Zenon, <1>9 DEF Unmark, GoTo
  <2>2. dsFinal' \in [Files -> Stored] /\ \A f \in Files : dsFinal'[f].exists
    <3>1. Holding({}) \in Stored /\ Holding({}).exists
      BY Zenon, PlanSteps DEF Holding
    <3> QED  BY Zenon, <2>1, <3>1 DEF SplitShape
  <2> QED  BY ZenonT(30), <2>1, <2>2, SameRows DEF SplitShape, Phases, Marked, Sealed
<1>10. CASE Dies
  BY Zenon, <1>10, ShapePlace DEF Dies, Off, Phases, Marked, Sealed
<1> QED  BY Zenon, <1>1, <1>2, <1>3, <1>4, <1>5, <1>6, <1>7, <1>8, <1>9, <1>10

\* So do a write of the daemon and the old binary's.
LEMMA ShapeWrites ==
    ASSUME SplitShape,
           \/ \E f \in Files : StoreWrites(f)
           \/ OldOpens \/ OldBegins \/ OldStops
           \/ \E t \in Tables(dsLegacy.kind) : OldCommits(t)
    PROVE  SplitShape'
<1>0. dsWritten \subseteq dsWritten' => Stored \subseteq Stored' /\ Layouts \subseteq Layouts'
  BY Zenon DEF Stored, Layouts
<1>1. ASSUME NEW f \in Files, StoreWrites(f) PROVE SplitShape'
  <2>1. PICK row : /\ dsFinal' = [dsFinal EXCEPT ![f].rows = @ \union {row}]
                   /\ dsWritten' = dsWritten \union {row}
    BY Zenon, <1>1 DEF StoreWrites
  <2>2. /\ dsBoot.at = "up" /\ UNCHANGED <<dsLegacy, dsMarker, dsTmp, dsBoot, dsOld>>
    BY Zenon, <1>1 DEF StoreWrites, At
  <2>3. dsFinal[f] \in Stored /\ dsFinal[f].exists /\ dsFinal \in [Files -> Stored]
    BY Zenon, <2>2 DEF SplitShape
  <2>4. [dsFinal[f] EXCEPT !.rows = @ \union {row}] \in Stored'
    BY Zenon, <2>1, <2>3 DEF Stored
  <2>5. /\ dsFinal' \in [Files -> Stored'] /\ dsTmp' \in [Files -> Stored']
    BY Zenon, <1>0, <2>1, <2>2, <2>3, <2>4 DEF SplitShape
  <2>6. \A g \in Files : dsFinal'[g].exists = dsFinal[g].exists
    BY Zenon, <2>1, <2>3 DEF Stored
  <2> QED  BY ZenonT(30), <1>0, <2>1, <2>2, <2>5, <2>6 DEF SplitShape, Phases, Marked, Sealed
<1>2. CASE OldOpens
  <2>1. /\ dsOld' = [at |-> "idle", file |-> "legacy"] /\ UNCHANGED <<dsMarker, dsFinal, dsTmp, dsBoot, dsWritten>>
        /\ dsLegacy' = IF dsLegacy.exists THEN dsLegacy
                       ELSE [exists |-> TRUE, kind |-> "known", rows |-> {}]
    BY Zenon, <1>2 DEF OldOpens
  <2>2. dsOld' \in Binaries
    BY Zenon, <2>1 DEF Binaries
  <2>3. /\ dsLegacy' \in Layouts /\ dsLegacy'.exists
        /\ \/ dsLegacy'.kind = dsLegacy.kind /\ dsLegacy'.rows = dsLegacy.rows
           \/ dsLegacy'.kind = "known" /\ dsLegacy'.rows = {}
    BY Zenon, <2>1 DEF SplitShape, Layouts
  <2> QED  BY ZenonT(30), <2>1, <2>2, <2>3, SameRows DEF SplitShape, Phases, Marked, Sealed, Conflict, Leftover
<1>3. CASE OldBegins
  <2>1. /\ dsOld.at = "idle" /\ dsOld' = [dsOld EXCEPT !.at = "writing"]
        /\ UNCHANGED <<dsLegacy, dsMarker, dsFinal, dsTmp, dsBoot, dsWritten>>
    BY Zenon, <1>3 DEF OldBegins
  <2>2. dsOld' \in Binaries /\ dsOld'.file = dsOld.file
    BY Zenon, <2>1 DEF SplitShape, Binaries
  <2> QED  BY ZenonT(30), <2>1, <2>2, SameRows DEF SplitShape, Conflict, Leftover
<1>4. CASE OldStops
  <2>1. dsOld' = OldOff /\ UNCHANGED <<dsLegacy, dsMarker, dsFinal, dsTmp, dsBoot, dsWritten>>
    BY Zenon, <1>4 DEF OldStops
  <2>2. dsOld' \in Binaries /\ dsOld'.at = "off"
    BY Zenon, <2>1 DEF OldOff, Binaries
  <2> QED  BY ZenonT(30), <2>1, <2>2, SameRows DEF SplitShape, Conflict, Leftover
<1>5. ASSUME NEW t \in Tables(dsLegacy.kind), OldCommits(t) PROVE SplitShape'
  <2>1. PICK row : /\ row.table = t /\ dsWritten' = dsWritten \union {row}
                   /\ \/ dsLegacy' = [dsLegacy EXCEPT !.rows = @ \union {row}] /\ dsOld.file = "legacy"
                      \/ dsLegacy' = dsLegacy
    BY Zenon, <1>5 DEF OldCommits, Row
  <2>2. /\ dsOld.at = "writing" /\ dsOld' = [dsOld EXCEPT !.at = "idle"]
        /\ UNCHANGED <<dsMarker, dsFinal, dsTmp, dsBoot>>
    BY Zenon, <1>5 DEF OldCommits
  <2>3. /\ dsFinal' \in [Files -> Stored'] /\ dsTmp' \in [Files -> Stored']
    BY Zenon, <1>0, <2>1, <2>2 DEF SplitShape
  <2>4. /\ dsLegacy'.kind = dsLegacy.kind /\ dsLegacy'.exists = dsLegacy.exists
        /\ dsLegacy'.rows \subseteq dsLegacy.rows \union {row}
        /\ ~dsLegacy.exists => dsLegacy' = dsLegacy
        /\ dsLegacy' \in Layouts'
    BY Zenon, <2>1, <2>2 DEF SplitShape, Layouts
  <2>5. dsLegacy.kind # "ahead" => row.table \in Files
    BY Zenon, <2>1 DEF Tables
  <2>6. dsOld' \in Binaries /\ dsOld'.file = dsOld.file
    BY Zenon, <2>2 DEF SplitShape, Binaries
  <2> QED  BY ZenonT(30), <2>1, <2>2, <2>3, <2>4, <2>5, <2>6
           DEF SplitShape, Phases, Marked, Sealed, Conflict, Leftover
<1> QED  BY Zenon, <1>1, <1>2, <1>3, <1>4, <1>5

\* The undisturbed part, step by step.  Whole is what NothingLost says.
Whole == dsWritten \subseteq dsLegacy.rows \union InFinal

\* No step takes a disturbance back.
LEMMA DisturbedStays ==
    ASSUME SplitNext, SplitUndisturbed'
    PROVE  SplitUndisturbed
<1>1. CASE SplitBoot \/ WriteMarker \/ Clear \/ Probe \/ Copy \/ Prune \/ Rename \/ Retire \/ Unmark \/ Dies
  <2>1. UNCHANGED <<dsSlipped, dsRevived>>
    BY Zenon, <1>1 DEF SplitBoot, WriteMarker, Clear, Probe, Copy, Prune, Rename, Retire,
       Unmark, Dies
  <2> QED  BY Zenon, <2>1 DEF SplitUndisturbed
<1>2. CASE \/ \E f \in Files : StoreWrites(f)
           \/ OldStops \/ \E t \in Tables(dsLegacy.kind) : OldCommits(t)
  <2>1. UNCHANGED <<dsSlipped, dsRevived>>
    BY Zenon, <1>2 DEF StoreWrites, OldStops, OldCommits
  <2> QED  BY Zenon, <2>1 DEF SplitUndisturbed
<1>3. CASE OldOpens \/ OldBegins
  <2>1. \/ dsSlipped' = dsSlipped
        \/ \E b \in BOOLEAN : dsSlipped' = (dsSlipped \/ b)
    BY Zenon, <1>3 DEF OldOpens, OldBegins
  <2>2. \/ dsRevived' = dsRevived
        \/ \E b \in BOOLEAN : dsRevived' = (dsRevived \/ b)
    BY Zenon, <1>3 DEF OldOpens, OldBegins
  <2>3. dsSlipped => dsSlipped'
    BY Zenon, <2>1
  <2>4. dsRevived => dsRevived'
    BY Zenon, <2>2
  <2> QED  BY Zenon, <2>3, <2>4 DEF SplitUndisturbed
<1> QED  BY Zenon, <1>1, <1>2, <1>3 DEF SplitNext

\* The boot's steps keep old binaries off the sealed file: the probe refuses one
\* that is writing, and the commit point finds none.
LEMMA NoSlipBoot ==
    ASSUME SplitShape, NoSlip,
           SplitBoot \/ WriteMarker \/ Clear \/ Probe \/ Copy \/ Prune \/ Rename \/ Retire \/ Unmark \/ Dies
    PROVE  NoSlip'
<1>1. CASE SplitBoot \/ WriteMarker \/ Unmark \/ Dies
  <2>1. (UNCHANGED dsOld /\ dsBoot'.at \notin Sealed) \/ UNCHANGED <<dsOld, dsBoot>>
    BY <1>1 DEF SplitBoot, WriteMarker, Unmark, Dies, GoTo, Off, Sealed
  <2> QED  BY Zenon, <2>1 DEF NoSlip
<1>2. CASE Clear
  <2>1. UNCHANGED dsOld /\ dsBoot'.at \in {"clear", "probe"}
    BY Zenon, <1>2, NextFile DEF Clear, SplitShape, At
  <2> QED  BY Zenon, <2>1 DEF NoSlip, Sealed
<1>3. CASE Probe
  <2>1. UNCHANGED dsOld /\ (ProbeFree \/ dsBoot'.at = "off")
    BY <1>3 DEF Probe, Off
  <2> QED  BY Zenon, <2>1 DEF NoSlip, Sealed, ProbeFree
<1>4. CASE Copy \/ Prune \/ Rename
  <2>1. UNCHANGED dsOld /\ dsBoot.at \in Sealed
    BY Zenon, <1>4 DEF Copy, Prune, Rename, At, Sealed
  <2> QED  BY Zenon, <2>1 DEF NoSlip
<1>5. CASE Retire
  <2>1. /\ dsBoot.at \in Sealed /\ dsBoot'.at = "unmark"
        /\ dsOld' = IF dsOld.at # "off" THEN [dsOld EXCEPT !.file = "retired"] ELSE dsOld
    BY Zenon, <1>5 DEF Retire, GoTo, At, Sealed
  <2>2. dsOld \in Binaries /\ dsOld.at # "writing"
    BY Zenon, <2>1 DEF SplitShape, NoSlip, Binaries
  <2>3. dsOld'.at # "writing"
    BY Zenon, <2>1, <2>2 DEF Binaries
  <2> QED  BY Zenon, <2>1, <2>3 DEF NoSlip, Sealed
<1> QED  BY Zenon, <1>1, <1>2, <1>3, <1>4, <1>5

LEMMA NoSlipWrites ==
    ASSUME SplitShape, NoSlip, SplitUndisturbed',
           \/ \E f \in Files : StoreWrites(f)
           \/ OldOpens \/ OldBegins \/ OldStops
           \/ \E t \in Tables(dsLegacy.kind) : OldCommits(t)
    PROVE  NoSlip'
<1>1. CASE \E f \in Files : StoreWrites(f)
  BY Zenon, <1>1 DEF StoreWrites, NoSlip
<1>2. CASE OldOpens \/ OldStops \/ \E t \in Tables(dsLegacy.kind) : OldCommits(t)
  <2>1. UNCHANGED dsBoot /\ dsOld'.at # "writing"
    <3>1. UNCHANGED dsBoot
      BY Zenon, <1>2 DEF OldOpens, OldStops, OldCommits
    <3>2. dsOld' \in {[at |-> "idle", file |-> "legacy"], OldOff, [dsOld EXCEPT !.at = "idle"]}
      BY Zenon, <1>2 DEF OldOpens, OldStops, OldCommits
    <3>3. dsOld \in Binaries
      BY Zenon DEF SplitShape
    <3>4. dsOld'.at # "writing"
      BY <3>2, <3>3 DEF OldOff, Binaries
    <3> QED  BY Zenon, <3>1, <3>4
  <2> QED  BY Zenon, <2>1 DEF NoSlip
<1>3. CASE OldBegins
  <2>1. /\ UNCHANGED dsBoot /\ dsOld' = [dsOld EXCEPT !.at = "writing"]
        /\ dsOld.file # "retired" /\ dsBoot.at \notin Sealed
    BY Zenon, <1>3 DEF OldBegins, SplitUndisturbed, Sealed
  <2>2. dsOld'.file # "retired"
    BY Zenon, <2>1 DEF SplitShape, Binaries
  <2> QED  BY Zenon, <2>1, <2>2 DEF NoSlip
<1> QED  BY Zenon, <1>1, <1>2, <1>3

\* The plan advances: each copy holds its store's share of events.db, and takes
\* its final name whole.
LEMMA ProgressBoot ==
    ASSUME SplitShape, Progress,
           SplitBoot \/ WriteMarker \/ Clear \/ Probe \/ Copy \/ Prune \/ Rename \/ Retire \/ Unmark \/ Dies
    PROVE  Progress'
<1>0. \A f : UNCHANGED dsLegacy => Share(f)' = Share(f)
  BY Zenon DEF Share
<1>1. CASE SplitBoot \/ WriteMarker \/ Retire \/ Unmark \/ Dies
  <2>1. dsBoot'.at \notin Sealed \/ UNCHANGED <<dsBoot, dsLegacy, dsFinal, dsTmp>>
    <3>1. CASE SplitBoot
      BY <3>1 DEF SplitBoot, GoTo, Sealed
    <3>2. CASE WriteMarker \/ Retire \/ Unmark \/ Dies
      BY <3>2 DEF WriteMarker, Retire, Unmark, Dies, GoTo, Off, Sealed
    <3> QED  BY Zenon, <1>1, <3>1, <3>2
  <2>2. CASE dsBoot'.at \notin Sealed
    BY Zenon, <2>2 DEF Progress, Sealed
  <2>3. CASE UNCHANGED <<dsBoot, dsLegacy, dsFinal, dsTmp>>
    <3>1. Here' = Here
      BY Zenon, <2>3 DEF Here
    <3> QED  BY Zenon, <1>0, <2>3, <3>1 DEF Progress
  <2> QED  BY Zenon, <2>1, <2>2, <2>3
<1>2. CASE Clear
  <2>1. dsBoot'.at \in {"clear", "probe"}
    BY Zenon, <1>2, NextFile DEF Clear, SplitShape, At
  <2> QED  BY Zenon, <2>1 DEF Progress
<1>3. CASE Probe
  <2>1. dsBoot'.at = "off" \/ (dsBoot'.at = "copy" /\ dsBoot'.k = 1)
    BY <1>3 DEF Probe, Off, GoTo
  <2>2. \A i \in Plan : ~(i < 1)
    BY SplitAssumption
  <2> QED  BY Zenon, <2>1, <2>2 DEF Progress
<1>4. CASE Copy
  <2>1. /\ dsBoot.at = "copy" /\ dsBoot'.at = "prune" /\ dsBoot'.k = dsBoot.k
        /\ dsBoot.k \in Plan /\ Here \in Files /\ Here' = Here /\ UNCHANGED dsLegacy
        /\ dsTmp' = [dsTmp EXCEPT ![Here] = Holding(dsLegacy.rows)]
    BY Zenon, <1>4, PlanSteps DEF Copy, At, SplitShape, Here, GoTo
  <2>2. dsTmp'[Here] = Holding(dsLegacy.rows)
    BY Zenon, <2>1 DEF SplitShape
  <2>3. ASSUME NEW i \in Plan, i < dsBoot.k PROVE dsTmp'[StoreFiles[i]] = dsTmp[StoreFiles[i]]
    <3>1. StoreFiles[i] # Here /\ StoreFiles[i] \in Files
      BY <2>1, <2>3, PlanSteps, SplitAssumption DEF Here
    <3> QED  BY Zenon, <2>1, <3>1 DEF SplitShape
  <2> QED  BY Zenon, <1>0, <2>1, <2>2, <2>3 DEF Progress
<1>5. CASE Prune
  <2>1. /\ dsBoot.at = "prune" /\ dsBoot.k \in Plan /\ Here \in Files /\ UNCHANGED dsLegacy
    BY Zenon, <1>5, PlanSteps DEF Prune, At, SplitShape, Here
  <2>2. CASE dsLegacy.kind = "bare"
    BY <1>5, <2>2 DEF Prune, Off, Progress
  <2>3. CASE dsLegacy.kind # "bare"
    <3>1. dsTmp' = [dsTmp EXCEPT ![Here].rows = {r \in @ : r.table = Here}]
      BY Zenon, <1>5, <2>3 DEF Prune
    <3>2. dsTmp'[Here] = Share(Here)
      <4>1. dsTmp[Here] = Holding(dsLegacy.rows) /\ dsTmp \in [Files -> Stored]
        BY Zenon, <2>1 DEF Progress, SplitShape
      <4>2. dsTmp'[Here] = [dsTmp[Here] EXCEPT !.rows = {r \in @ : r.table = Here}]
        BY Zenon, <2>1, <3>1, <4>1
      <4>3. dsTmp[Here].rows = dsLegacy.rows
        BY <4>1 DEF Holding
      <4>4. dsTmp'[Here] = [dsTmp[Here] EXCEPT !.rows = {r \in dsLegacy.rows : r.table = Here}]
        BY Zenon, <4>2, <4>3
      <4>5. [Holding(dsLegacy.rows) EXCEPT !.rows = {r \in dsLegacy.rows : r.table = Here}]
               = Holding({r \in dsLegacy.rows : r.table = Here})
        BY Zenon, Refilled
      <4> QED  BY Zenon, <4>1, <4>4, <4>5 DEF Share
    <3>3. ASSUME NEW i \in Plan, i < dsBoot.k PROVE dsTmp'[StoreFiles[i]] = Share(StoreFiles[i])
      <4>1. StoreFiles[i] # Here /\ StoreFiles[i] \in Files
        BY <2>1, <3>3, PlanSteps, SplitAssumption DEF Here
      <4>2. dsTmp[StoreFiles[i]] = Share(StoreFiles[i])
        BY Zenon, <2>1, <3>3 DEF Progress
      <4> QED  BY Zenon, <2>1, <3>1, <4>1, <4>2 DEF SplitShape
    <3>4. \A i \in Plan : i <= dsBoot.k => dsTmp'[StoreFiles[i]] = Share(StoreFiles[i])
      <4>1. \A i \in Plan : i <= dsBoot.k => i < dsBoot.k \/ StoreFiles[i] = Here
        BY <2>1, SplitAssumption DEF Here
      <4> QED  BY Zenon, <4>1, <3>2, <3>3
    <3>5. \/ dsBoot'.at = "copy" /\ dsBoot'.k = dsBoot.k + 1
          \/ dsBoot'.at = "rename" /\ dsBoot'.k = 1 /\ dsBoot.k = Len(StoreFiles)
      BY Zenon, <1>5, <2>1, <2>3, NextFile DEF Prune
    <3>6. CASE dsBoot'.at = "copy" /\ dsBoot'.k = dsBoot.k + 1
      <4>1. \A i \in Plan : i < dsBoot.k + 1 => i <= dsBoot.k
        BY <2>1, SplitAssumption
      <4> QED  BY Zenon, <1>0, <2>1, <3>4, <3>6, <4>1 DEF Progress
    <3>7. CASE dsBoot'.at = "rename" /\ dsBoot'.k = 1 /\ dsBoot.k = Len(StoreFiles)
      <4>1. \A i \in Plan : i <= dsBoot.k /\ ~(i < 1)
        BY <2>1, <3>7, SplitAssumption
      <4> QED  BY Zenon, <1>0, <2>1, <3>4, <3>7, <4>1 DEF Progress
    <3> QED  BY Zenon, <3>5, <3>6, <3>7
  <2> QED  BY Zenon, <2>2, <2>3
<1>6. CASE Rename
  <2>1. /\ dsBoot.at = "rename" /\ dsBoot.k \in Plan /\ Here \in Files /\ UNCHANGED dsLegacy
        /\ dsFinal' = [dsFinal EXCEPT ![Here] = dsTmp[Here]]
        /\ dsTmp' = [dsTmp EXCEPT ![Here] = Absent]
    BY Zenon, <1>6, PlanSteps DEF Rename, At, SplitShape, Here
  <2>2. /\ \A i \in Plan : i < dsBoot.k => dsFinal[StoreFiles[i]] = Share(StoreFiles[i])
        /\ \A i \in Plan : i >= dsBoot.k => dsTmp[StoreFiles[i]] = Share(StoreFiles[i])
    BY Zenon, <2>1 DEF Progress
  <2>3. dsFinal'[Here] = Share(Here)
    <3>1. dsBoot.k >= dsBoot.k
      BY <2>1, SplitAssumption
    <3> QED  BY Zenon, <2>1, <2>2, <3>1 DEF SplitShape, Here
  <2>4. ASSUME NEW i \in Plan, i <= dsBoot.k PROVE dsFinal'[StoreFiles[i]] = Share(StoreFiles[i])
    <3>1. i < dsBoot.k \/ StoreFiles[i] = Here
      BY <2>1, <2>4, SplitAssumption DEF Here
    <3>2. StoreFiles[i] \in Files
      BY Zenon, PlanSteps
    <3> QED  BY Zenon, <2>1, <2>2, <2>3, <3>1, <3>2 DEF SplitShape
  <2>5. ASSUME NEW i \in Plan, i >= dsBoot.k + 1 PROVE dsTmp'[StoreFiles[i]] = Share(StoreFiles[i])
    <3>1. StoreFiles[i] # Here /\ StoreFiles[i] \in Files /\ i >= dsBoot.k
      BY <2>1, <2>5, PlanSteps, SplitAssumption DEF Here
    <3> QED  BY Zenon, <2>1, <2>2, <3>1 DEF SplitShape
  <2>6. \/ dsBoot'.at = "rename" /\ dsBoot'.k = dsBoot.k + 1
        \/ dsBoot'.at = "retire" /\ dsBoot.k = Len(StoreFiles)
    BY Zenon, <1>6, <2>1, NextFile DEF Rename
  <2>7. CASE dsBoot'.at = "rename" /\ dsBoot'.k = dsBoot.k + 1
    <3>1. \A i \in Plan : i < dsBoot.k + 1 => i <= dsBoot.k
      BY <2>1, SplitAssumption
    <3>2. /\ \A i \in Plan : i < dsBoot'.k => dsFinal'[StoreFiles[i]] = Share(StoreFiles[i])'
          /\ \A i \in Plan : i >= dsBoot'.k => dsTmp'[StoreFiles[i]] = Share(StoreFiles[i])'
      BY Zenon, <1>0, <2>1, <2>4, <2>5, <2>7, <3>1
    <3> QED  BY Zenon, <2>7, <3>2 DEF Progress
  <2>8. CASE dsBoot'.at = "retire" /\ dsBoot.k = Len(StoreFiles)
    <3>1. \A i \in Plan : i <= dsBoot.k
      BY <2>1, <2>8, SplitAssumption
    <3>2. \A f \in Files : dsFinal'[f] = Share(f)
      BY Zenon, <2>4, <3>1 DEF Files
    <3> QED  BY Zenon, <1>0, <2>1, <2>8, <3>2 DEF Progress
  <2> QED  BY Zenon, <2>6, <2>7, <2>8
<1> QED  BY Zenon, <1>1, <1>2, <1>3, <1>4, <1>5, <1>6

\* The rest of the system leaves a sealed events.db and the plan alone.
LEMMA ProgressWrites ==
    ASSUME SplitShape, NoSlip, Progress,
           \/ \E f \in Files : StoreWrites(f)
           \/ OldOpens \/ OldBegins \/ OldStops
           \/ \E t \in Tables(dsLegacy.kind) : OldCommits(t)
    PROVE  Progress'
<1>0. \A f : UNCHANGED dsLegacy => Share(f)' = Share(f)
  BY Zenon DEF Share
<1>1. UNCHANGED <<dsBoot, dsTmp>>
  BY Zenon DEF StoreWrites, OldOpens, OldBegins, OldStops, OldCommits
<1>2. CASE dsBoot.at \notin Sealed
  BY Zenon, <1>1, <1>2 DEF Progress, Sealed
<1>3. CASE dsBoot.at \in Sealed
  <2>1. dsLegacy.exists /\ dsBoot.at # "up"
    BY Zenon, <1>3 DEF SplitShape, Sealed, Marked
  <2>2. ~(dsOld.at = "writing" /\ dsOld.file = "legacy") /\ (dsOld.file = "retired" => dsOld.at # "writing")
    BY Zenon, <1>3 DEF NoSlip
  <2>3. dsOld.at # "writing"
    BY Zenon, <2>2 DEF SplitShape, Binaries
  <2>4. UNCHANGED <<dsLegacy, dsFinal>>
    BY Zenon, <2>1, <2>3 DEF StoreWrites, OldOpens, OldBegins, OldStops, OldCommits, At
  <2>5. Here' = Here
    BY Zenon, <1>1 DEF Here
  <2> QED  BY Zenon, <1>0, <1>1, <2>4, <2>5 DEF Progress
<1> QED  BY Zenon, <1>2, <1>3

\* Every row of every store is in InFinal.
LEMMA InFinalHas ==
    ASSUME NEW f \in Files
    PROVE  dsFinal[f].rows \subseteq InFinal
BY Zenon DEF InFinal

\* Under the marker events.db keeps everything that was committed, and the boot
\* loses nothing.
LEMMA WholeBoot ==
    ASSUME SplitShape, Progress, LegacyIsWhole, Whole,
           SplitBoot \/ WriteMarker \/ Clear \/ Probe \/ Copy \/ Prune \/ Rename \/ Retire \/ Unmark \/ Dies
    PROVE  LegacyIsWhole' /\ Whole'
<1>1. CASE SplitBoot \/ Probe \/ Copy \/ Prune \/ Dies
  <2>1. UNCHANGED <<dsLegacy, dsFinal, dsMarker, dsWritten>>
    BY Zenon, <1>1 DEF SplitBoot, Probe, Copy, Prune, Dies
  <2>2. dsBoot'.at = "unmark" => ~dsLegacy.exists
    <3>1. CASE SplitBoot
      BY <3>1 DEF SplitBoot, GoTo, At
    <3>2. CASE Probe \/ Copy \/ Dies
      BY <3>2 DEF Probe, Copy, Dies, GoTo, Off
    <3>3. CASE Prune
      BY <3>3, NextFile DEF Prune, Off, SplitShape, At
    <3> QED  BY Zenon, <1>1, <3>1, <3>2, <3>3
  <2>3. InFinal' = InFinal
    BY Zenon, <2>1 DEF InFinal
  <2> QED  BY Zenon, <2>1, <2>2, <2>3 DEF LegacyIsWhole, Whole
<1>2. CASE WriteMarker
  <2>1. /\ dsBoot.at = "mark" /\ dsBoot'.at = "clear" /\ UNCHANGED <<dsLegacy, dsFinal, dsWritten>>
    BY Zenon, <1>2 DEF WriteMarker, GoTo, At
  <2>2. dsWritten \subseteq dsLegacy.rows
    <3>1. CASE dsMarker
      BY Zenon, <2>1, <3>1 DEF SplitShape, LegacyIsWhole
    <3>2. CASE ~dsMarker
      <4>1. \A f \in Files : ~dsFinal[f].exists
        BY Zenon, <2>1, <3>2 DEF SplitShape, Conflict, Leftover
      <4>2. \A f \in Files : dsFinal[f].rows = {}
        BY Zenon, <4>1 DEF SplitShape, Stored
      <4>3. InFinal = {}
        BY Zenon, <4>2 DEF InFinal
      <4> QED  BY Zenon, <4>3 DEF Whole
    <3> QED  BY Zenon, <3>1, <3>2
  <2> QED  BY Zenon, <2>1, <2>2 DEF LegacyIsWhole, Whole
<1>3. CASE Clear \/ Rename
  <2>1. /\ dsBoot.at \in Marked /\ UNCHANGED <<dsLegacy, dsMarker, dsWritten>>
    BY Zenon, <1>3 DEF Clear, Rename, At, Marked
  <2>2. dsWritten \subseteq dsLegacy.rows
    BY Zenon, <2>1 DEF SplitShape, LegacyIsWhole
  <2>3. dsBoot'.at # "unmark"
    <3>1. dsBoot.k \in Plan
      BY Zenon, <1>3 DEF Clear, Rename, SplitShape, At
    <3>2. \/ IF dsBoot.k < Len(StoreFiles) THEN GoTo("clear", dsBoot.k + 1) ELSE GoTo("probe", 0)
          \/ IF dsBoot.k < Len(StoreFiles) THEN GoTo("rename", dsBoot.k + 1) ELSE GoTo("retire", 0)
      BY Zenon, <1>3 DEF Clear, Rename
    <3>3. dsBoot'.at \in {"clear", "probe", "rename", "retire"}
      BY Zenon, <3>1, <3>2, NextFile
    <3> QED  BY <3>3
  <2> QED  BY Zenon, <2>1, <2>2, <2>3 DEF LegacyIsWhole, Whole
<1>4. CASE Retire
  <2>1. /\ dsBoot.at = "retire" /\ ~dsLegacy'.exists /\ UNCHANGED <<dsFinal, dsWritten>>
    BY Zenon, <1>4 DEF Retire, At
  <2>2. dsWritten \subseteq dsLegacy.rows /\ dsLegacy.kind # "ahead"
    BY Zenon, <2>1 DEF SplitShape, LegacyIsWhole, Marked, Sealed
  <2>3. ASSUME NEW r \in dsWritten PROVE r \in InFinal'
    <3>1. r \in dsLegacy.rows /\ r.table \in Files
      BY Zenon, <2>2, <2>3 DEF SplitShape
    <3>2. dsFinal[r.table] = Share(r.table)
      BY Zenon, <2>1, <3>1 DEF Progress
    <3>3. r \in dsFinal[r.table].rows
      BY <3>1, <3>2 DEF Share, Holding
    <3> QED  BY Zenon, <2>1, <3>1, <3>3 DEF InFinal
  <2> QED  BY Zenon, <2>1, <2>3 DEF LegacyIsWhole, Whole
<1>5. CASE Unmark
  <2>1. /\ ~dsMarker' /\ dsBoot'.at = "up" /\ UNCHANGED <<dsLegacy, dsWritten>>
        /\ dsFinal' = [f \in Files |-> IF dsFinal[f].exists THEN dsFinal[f] ELSE Holding({})]
    BY Zenon, <1>5 DEF Unmark, GoTo
  <2>2. ASSUME NEW f \in Files PROVE dsFinal[f].rows \subseteq dsFinal'[f].rows
    BY Zenon, <2>1 DEF SplitShape, Stored
  <2>3. InFinal \subseteq InFinal'
    BY Zenon, <2>2 DEF InFinal
  <2> QED  BY Zenon, <2>1, <2>3 DEF LegacyIsWhole, Whole
<1> QED  BY Zenon, <1>1, <1>2, <1>3, <1>4, <1>5

\* So do the other writers; a new events.db under a marker is a disturbance.
LEMMA WholeWrites ==
    ASSUME SplitShape, NoSlip, LegacyIsWhole, Whole, SplitUndisturbed',
           \/ \E f \in Files : StoreWrites(f)
           \/ OldOpens \/ OldBegins \/ OldStops
           \/ \E t \in Tables(dsLegacy.kind) : OldCommits(t)
    PROVE  LegacyIsWhole' /\ Whole'
<1>1. ASSUME NEW f \in Files, StoreWrites(f) PROVE LegacyIsWhole' /\ Whole'
  <2>1. PICK row : /\ dsFinal' = [dsFinal EXCEPT ![f].rows = @ \union {row}]
                   /\ dsWritten' = dsWritten \union {row}
    BY Zenon, <1>1 DEF StoreWrites
  <2>2. dsBoot.at = "up" /\ UNCHANGED <<dsLegacy, dsMarker, dsBoot>> /\ ~dsMarker
    BY Zenon, <1>1 DEF StoreWrites, At, SplitShape
  <2>3. \A g \in Files : dsFinal[g].rows \subseteq dsFinal'[g].rows
    BY Zenon, <2>1 DEF SplitShape, Stored
  <2>4. row \in dsFinal'[f].rows
    BY <2>1 DEF SplitShape, Stored
  <2>5. InFinal \subseteq InFinal' /\ row \in InFinal'
    BY Zenon, <2>3, <2>4 DEF InFinal
  <2> QED  BY Zenon, <2>1, <2>2, <2>5 DEF LegacyIsWhole, Whole
<1>2. CASE OldOpens
  <2>1. /\ UNCHANGED <<dsMarker, dsFinal, dsBoot, dsWritten>>
        /\ dsLegacy' = IF dsLegacy.exists THEN dsLegacy
                       ELSE [exists |-> TRUE, kind |-> "known", rows |-> {}]
    BY Zenon, <1>2 DEF OldOpens
  <2>2. dsRevived' = (dsRevived \/ (~dsLegacy.exists /\ (dsMarker \/ dsBoot.at = "unmark")))
    BY Zenon, <1>2 DEF OldOpens, At
  <2>3. ~dsLegacy.exists => ~dsMarker /\ dsBoot.at # "unmark"
    BY Zenon, <2>2 DEF SplitUndisturbed
  <2>4. dsLegacy'.rows = dsLegacy.rows /\ (dsLegacy.exists => dsLegacy' = dsLegacy)
    BY Zenon, <2>1 DEF SplitShape
  <2>5. InFinal' = InFinal
    BY Zenon, <2>1 DEF InFinal
  <2> QED  BY Zenon, <2>1, <2>3, <2>4, <2>5 DEF LegacyIsWhole, Whole
<1>3. CASE OldBegins \/ OldStops
  <2>1. UNCHANGED <<dsLegacy, dsMarker, dsFinal, dsBoot, dsWritten>>
    BY Zenon, <1>3 DEF OldBegins, OldStops
  <2>2. InFinal' = InFinal
    BY Zenon, <2>1 DEF InFinal
  <2> QED  BY Zenon, <2>1, <2>2 DEF LegacyIsWhole, Whole
<1>4. ASSUME NEW t \in Tables(dsLegacy.kind), OldCommits(t) PROVE LegacyIsWhole' /\ Whole'
  <2>1. dsOld.at = "writing" /\ UNCHANGED <<dsMarker, dsFinal, dsBoot>>
    BY Zenon, <1>4 DEF OldCommits
  <2>2. dsOld.file = "legacy"
    BY Zenon, <2>1 DEF NoSlip, SplitShape, Binaries
  <2>3. PICK row : /\ dsWritten' = dsWritten \union {row}
                   /\ dsLegacy' = [dsLegacy EXCEPT !.rows = @ \union {row}]
    BY Zenon, <1>4, <2>2 DEF OldCommits
  <2>4. dsLegacy'.rows = dsLegacy.rows \union {row} /\ dsLegacy'.exists = dsLegacy.exists
    BY Zenon, <2>3 DEF SplitShape, Layouts
  <2>5. InFinal' = InFinal
    BY Zenon, <2>1 DEF InFinal
  <2> QED  BY Zenon, <2>1, <2>3, <2>4, <2>5 DEF LegacyIsWhole, Whole
<1> QED  BY Zenon, <1>1, <1>2, <1>3, <1>4

\* Where a first boot starts.
LEMMA SplitStarts == SplitInit => SplitInv
<1> SUFFICES ASSUME SplitInit PROVE SplitInv
  BY Zenon
<1>1. PICK kind \in LegacyKinds :
          /\ dsLegacy  = [exists |-> kind # "none", kind |-> kind, rows |-> FirstRows(kind)]
          /\ dsWritten = FirstRows(kind)
  BY Zenon DEF SplitInit
<1>2. /\ dsBoot.at = "off" /\ ~dsMarker /\ dsOld \in Binaries /\ dsOld.at = "off" /\ dsOld.file = "legacy"
      /\ dsFinal = [f \in Files |-> Absent] /\ dsTmp = [f \in Files |-> Absent]
  BY Zenon DEF SplitInit, Off, OldOff, Binaries
<1>3. /\ dsLegacy \in Layouts /\ dsLegacy.rows = FirstRows(kind) /\ dsLegacy.kind = kind
      /\ ~dsLegacy.exists => kind = "none"
  BY Zenon, <1>1, SplitAssumption DEF Layouts
<1>4. dsFinal \in [Files -> Stored] /\ dsTmp \in [Files -> Stored]
  BY Zenon, <1>2, PlanSteps
<1>5. /\ kind = "none" => FirstRows(kind) = {}
      /\ kind # "ahead" => \A r \in FirstRows(kind) : r.table \in Files
  <2>1. Head(StoreFiles) \in Files
    BY PlanSteps, SplitAssumption DEF Plan
  <2> QED  BY <2>1 DEF FirstRows, Row, Tables
<1>6. SplitShape
  BY Zenon, <1>2, <1>3, <1>4, <1>5 DEF SplitShape, Phases, Marked, Sealed
<1>7. NoSlip /\ Progress /\ LegacyIsWhole
  BY Zenon, <1>2 DEF NoSlip, Progress, LegacyIsWhole, Sealed
<1> QED  BY Zenon, <1>1, <1>3, <1>6, <1>7 DEF SplitInv, Whole

\* One step of the split, of the daemon or of an old binary.
LEMMA SplitStep == SplitInv /\ [SplitNext]_splitVars => SplitInv'
<1> SUFFICES ASSUME SplitInv, [SplitNext]_splitVars PROVE SplitInv'
  BY Zenon
<1>1. CASE SplitNext
  <2>1. SplitShape'
    BY Zenon, <1>1, ShapeBoot, ShapeWrites DEF SplitNext, SplitInv
  <2>2. ASSUME SplitUndisturbed' PROVE NoSlip' /\ Progress' /\ LegacyIsWhole' /\ Whole'
    <3>1. SplitShape /\ NoSlip /\ Progress /\ LegacyIsWhole /\ Whole
      BY Zenon, <1>1, <2>2, DisturbedStays DEF SplitInv, Whole
    <3>2. CASE SplitBoot \/ WriteMarker \/ Clear \/ Probe \/ Copy \/ Prune \/ Rename \/ Retire \/ Unmark \/ Dies
      BY Zenon, <3>1, <3>2, NoSlipBoot, ProgressBoot, WholeBoot
    <3>3. CASE \/ \E f \in Files : StoreWrites(f)
               \/ OldOpens \/ OldBegins \/ OldStops
               \/ \E t \in Tables(dsLegacy.kind) : OldCommits(t)
      BY Zenon, <2>2, <3>1, <3>3, NoSlipWrites, ProgressWrites, WholeWrites
    <3> QED  BY Zenon, <1>1, <3>2, <3>3 DEF SplitNext
  <2> QED  BY Zenon, <2>1, <2>2 DEF SplitInv, Whole
<1>2. CASE UNCHANGED splitVars
  <2>1. /\ UNCHANGED <<dsLegacy, dsRetired, dsMarker, dsFinal, dsTmp, dsBoot, dsOld, dsWritten>>
        /\ UNCHANGED <<dsSlipped, dsRevived>>
    BY Zenon, <1>2 DEF splitVars
  <2>2. /\ Stored' = Stored /\ Layouts' = Layouts /\ Here' = Here /\ InFinal' = InFinal
        /\ Conflict' = Conflict /\ SplitUndisturbed' = SplitUndisturbed /\ \A f : Share(f)' = Share(f)
    BY Zenon, <2>1, SameRows DEF Here, InFinal, Conflict, Leftover, SplitUndisturbed, Share
  <2>3. SplitShape' = SplitShape
    BY Zenon, <2>1, <2>2 DEF SplitShape
  <2>4. NoSlip' = NoSlip /\ LegacyIsWhole' = LegacyIsWhole
    BY Zenon, <2>1 DEF NoSlip, LegacyIsWhole
  <2>5. Progress' = Progress
    BY Zenon, <2>1, <2>2 DEF Progress
  <2> QED  BY Zenon, <2>1, <2>2, <2>3, <2>4, <2>5 DEF SplitInv
<1> QED  BY Zenon, <1>1, <1>2

\* The files of the split at every step of every run.
THEOREM SplitHolds == SplitSpec => []SplitInv
BY SplitStarts, SplitStep, PTL DEF SplitSpec

\* split_legacy_events_db is crash-safe for any list of stores: wherever it is cut
\* short, and however often it is run again, every row a binary committed is in
\* events.db or in a per-store file, while no old binary writes behind the probe.
THEOREM SplitLosesNothing == SplitSpec => []NothingLost
<1>1. SplitInv => NothingLost
  BY Zenon DEF SplitInv, NothingLost
<1> QED  BY <1>1, SplitHolds, PTL

\* A daemon that opened the split stores opened them on every row there is.
THEOREM SplitIsComplete == SplitSpec => []UpHasEverything
<1>1. SplitInv => UpHasEverything
  <2> SUFFICES ASSUME SplitInv, SplitUndisturbed, ~dsLegacy.exists PROVE dsWritten = InFinal
    BY Zenon DEF UpHasEverything
  <2>1. dsWritten \subseteq InFinal
    BY Zenon DEF SplitInv, SplitShape
  <2>2. \A f \in Files : dsFinal[f].rows \subseteq dsWritten
    BY Zenon DEF SplitInv, SplitShape, Stored
  <2>3. InFinal \subseteq dsWritten
    BY Zenon, <2>2 DEF InFinal
  <2> QED  BY Zenon, <2>1, <2>3
<1> QED  BY <1>1, SplitHolds, PTL

\* A rerun deletes its own copies and never a store in use: what leaves a
\* per-store file is still in events.db.
THEOREM SplitClearsCopies == SplitSpec => ClearsOnlyCopies
<1>1. SplitInv /\ [SplitNext]_splitVars =>
        [SplitUndisturbed => \A f \in Files : dsFinal[f].rows \ dsFinal'[f].rows \subseteq dsLegacy.rows]_splitVars
  <2> SUFFICES ASSUME SplitInv, SplitNext, SplitUndisturbed, NEW f \in Files
               PROVE  dsFinal[f].rows \ dsFinal'[f].rows \subseteq dsLegacy.rows
    BY Zenon
  <2>1. dsFinal[f].rows \subseteq dsWritten /\ dsFinal \in [Files -> Stored]
    BY Zenon DEF SplitInv, SplitShape, Stored
  <2>2. CASE Clear \/ Rename
    <3>1. dsWritten \subseteq dsLegacy.rows
      BY Zenon, <2>2 DEF Clear, Rename, At, SplitInv, SplitShape, LegacyIsWhole, Marked
    <3> QED  BY Zenon, <2>1, <3>1
  <2>3. CASE UNCHANGED dsFinal
    BY Zenon, <2>3
  <2>4. CASE Unmark
    BY Zenon, <2>1, <2>4 DEF Unmark, Stored
  <2>5. ASSUME NEW g \in Files, StoreWrites(g) PROVE dsFinal[f].rows \subseteq dsFinal'[f].rows
    <3>1. PICK row : dsFinal' = [dsFinal EXCEPT ![g].rows = @ \union {row}]
      BY Zenon, <2>5 DEF StoreWrites
    <3> QED  BY Zenon, <2>1, <3>1 DEF Stored
  <2>6. \/ Clear \/ Rename \/ Unmark \/ UNCHANGED dsFinal \/ \E g \in Files : StoreWrites(g)
    BY Zenon DEF SplitNext, SplitBoot, WriteMarker, Probe, Copy, Prune, Retire, Dies,
                 OldOpens, OldBegins, OldStops, OldCommits
  <2>7. CASE \E g \in Files : StoreWrites(g)
    BY Zenon, <2>5, <2>7
  <2> QED  BY Zenon, <2>2, <2>3, <2>4, <2>6, <2>7
<1> QED  BY <1>1, SplitHolds, PTL DEF SplitSpec, ClearsOnlyCopies

--------------------------------------------------------------------------------
(***************************************************************************)
(* Server requests under a tool call.  A request is in one place: not yet    *)
(* sent, on the channel, being serviced, or answered; and a model call is    *)
(* out only while one is being serviced.                                     *)
(***************************************************************************)
Asked(i) == [id |-> i, server |-> srScript[i].server, kind |-> srScript[i].kind]
Asks     == {Asked(i) : i \in RequestIds}
Jobs     == [req : Asks \cup {NoRequest}, at : Nat, tries : Nat, flight : BOOLEAN]
Spends   == [total : Nat, sampling : Nat, elicitation : Nat]

ServiceShape ==
    /\ srPhase \in {"turn", "select", "serve", "grace", "alone", "ended"}
    /\ srJob \in Jobs
    /\ srPhase # "serve" => srJob = Idle
    /\ srCost \in Spends /\ srTurns \in Nat

\* The oneshot of a request is open exactly while it is queued or serviced.
Channelled ==
    /\ srReply \in [RequestIds -> {"unsent", "open", "accepted", "declined"}]
    /\ srQueue \in Seq(Asks)
    /\ \A k \in DOMAIN srQueue : srReply[srQueue[k].id] = "open"
    /\ \A k, l \in DOMAIN srQueue : srQueue[k].id = srQueue[l].id => k = l
    /\ srPhase = "serve" =>
          /\ srJob.req \in Asks /\ srReply[srJob.req.id] = "open"
          /\ \A k \in DOMAIN srQueue : srQueue[k].id # srJob.req.id
    /\ srUnjudged \subseteq {i \in RequestIds : srReply[i] = "declined"}

\* The ledger counts the calls since the last one that was answered.
Counted ==
    /\ srStreak \in Nat /\ srOutcomes \in Seq({"ok", "error", "timeout"})
    /\ srStreak <= Len(srOutcomes)
    /\ \A k \in Len(srOutcomes) - srStreak + 1 .. Len(srOutcomes) : srOutcomes[k] = "timeout"
    /\ srStreak < Len(srOutcomes) => srOutcomes[Len(srOutcomes) - srStreak] # "timeout"
    /\ srTool \in {"none", "running", "ok", "error", "timeout"}
    /\ srPhase \in {"select", "serve", "grace", "alone"} => srTool # "none"

RequestsInv == ServiceShape /\ EveryCallIsAttributed /\ Channelled /\ Counted

LEMMA IdleJob == Idle \in Jobs /\ Idle.flight = FALSE
BY Zenon DEF Idle, Jobs

\* A job is changed field by field.
LEMMA JobMoves ==
    ASSUME srJob \in Jobs
    PROVE  /\ \A b \in BOOLEAN :
                LET next == [srJob EXCEPT !.at = @ + 1, !.tries = 0, !.flight = b]
                IN next \in Jobs /\ next.req = srJob.req /\ next.flight = b
           /\ \A b \in BOOLEAN :
                LET next == [srJob EXCEPT !.tries = @ + 1, !.flight = b]
                IN next \in Jobs /\ next.req = srJob.req /\ next.flight = b
           /\ \A b \in BOOLEAN :
                LET next == [srJob EXCEPT !.flight = b]
                IN next \in Jobs /\ next.req = srJob.req /\ next.flight = b
<1>1. ASSUME NEW a \in Nat, NEW n \in Nat, NEW b \in BOOLEAN
      PROVE  LET next == [srJob EXCEPT !.at = a, !.tries = n, !.flight = b]
             IN next \in Jobs /\ next.req = srJob.req /\ next.flight = b
  BY Zenon DEF Jobs
<1>2. ASSUME NEW n \in Nat, NEW b \in BOOLEAN
      PROVE  LET next == [srJob EXCEPT !.tries = n, !.flight = b]
             IN next \in Jobs /\ next.req = srJob.req /\ next.flight = b
  BY Zenon DEF Jobs
<1>3. ASSUME NEW b \in BOOLEAN
      PROVE  LET next == [srJob EXCEPT !.flight = b]
             IN next \in Jobs /\ next.req = srJob.req /\ next.flight = b
  BY Zenon DEF Jobs
<1>4. srJob.at + 1 \in Nat /\ srJob.tries + 1 \in Nat /\ 0 \in Nat
  BY DEF Jobs
<1> QED  BY Zenon, <1>1, <1>2, <1>3, <1>4

\* The runner leaves: every open oneshot is declined, and the rest is dropped.
LEMMA EndsKeeps ==
    ASSUME RequestsInv, Ends, UNCHANGED <<srScript, srUnjudged>>, srCost' \in Spends, srTurns' \in Nat
    PROVE  (ServiceShape /\ EveryCallIsAttributed /\ Channelled)'
<1>1. /\ srPhase' = "ended" /\ srJob' = Idle /\ srQueue' = <<>> /\ RequestIds' = RequestIds /\ Asks' = Asks
      /\ srReply' = [i \in RequestIds |-> IF srReply[i] = "open" THEN "declined" ELSE srReply[i]]
  BY Zenon DEF Ends, RequestIds, Asks, Asked
<1>2. Jobs' = Jobs
  BY Zenon, <1>1 DEF Jobs
<1>3. ServiceShape'
  BY Zenon, <1>1, <1>2, IdleJob DEF RequestsInv, ServiceShape
<1>4. EveryCallIsAttributed'
  BY Zenon, <1>1 DEF EveryCallIsAttributed
<1>5. Channelled'
  <2>1. srReply' \in [RequestIds -> {"unsent", "open", "accepted", "declined"}]
    BY Zenon, <1>1 DEF RequestsInv, Channelled
  <2>2. srUnjudged \subseteq {i \in RequestIds : srReply'[i] = "declined"}
    BY Zenon, <1>1 DEF RequestsInv, Channelled
  <2>3. srQueue' \in Seq(Asks) /\ DOMAIN srQueue' = {}
    BY <1>1
  <2> QED  BY Zenon, <1>1, <2>1, <2>2, <2>3 DEF Channelled
<1> QED  BY Zenon, <1>3, <1>4, <1>5

\* The same names in the next state.
LEMMA SameScript ==
    ASSUME UNCHANGED srScript
    PROVE  RequestIds' = RequestIds /\ Asks' = Asks /\ Jobs' = Jobs
BY Zenon DEF RequestIds, Asks, Asked, Jobs

\* The request of the job in service is answered.
LEMMA ReplyKeeps ==
    ASSUME RequestsInv, srPhase = "serve", NEW answer \in {"accepted", "declined"}, Reply(answer),
           UNCHANGED <<srScript, srQueue>>,
           srUnjudged' = srUnjudged \/ (answer = "declined" /\ srUnjudged' = srUnjudged \union {srJob.req.id})
    PROVE  /\ Channelled' /\ srJob' = Idle /\ srJob' \in Jobs'
           /\ srPhase' \in {"select", "grace"}
<1>1. /\ srReply' = [srReply EXCEPT ![srJob.req.id] = answer] /\ srJob' = Idle
      /\ srPhase' \in {"select", "grace"}
  BY Zenon DEF Reply, BackToLoop
<1>2. /\ srJob.req.id \in RequestIds /\ srReply[srJob.req.id] = "open"
      /\ \A k \in DOMAIN srQueue : srQueue[k].id # srJob.req.id
      /\ \A k \in DOMAIN srQueue : srQueue[k].id \in RequestIds
  <2>1. srJob.req \in Asks /\ \A k \in DOMAIN srQueue : srQueue[k] \in Asks
    BY DEF RequestsInv, Channelled
  <2>2. \A x \in Asks : x.id \in RequestIds
    BY DEF Asks, Asked
  <2> QED  BY Zenon, <2>1, <2>2 DEF RequestsInv, Channelled
<1>3. srReply' \in [RequestIds -> {"unsent", "open", "accepted", "declined"}]
  BY Zenon, <1>1, <1>2 DEF RequestsInv, Channelled
<1>4. \A k \in DOMAIN srQueue : srReply'[srQueue[k].id] = "open"
  BY Zenon, <1>1, <1>2 DEF RequestsInv, Channelled
<1>5. srUnjudged' \subseteq {i \in RequestIds : srReply'[i] = "declined"}
  BY <1>1, <1>2 DEF RequestsInv, Channelled
<1> QED  BY Zenon, <1>1, <1>3, <1>4, <1>5, SameScript, IdleJob DEF RequestsInv, Channelled

\* A step of the servicing passed.
LEMMA StepKeeps ==
    ASSUME RequestsInv, srPhase = "serve", StepPassed, UNCHANGED <<srScript, srQueue, srUnjudged>>
    PROVE  /\ Channelled' /\ srJob' \in Jobs' /\ srJob'.flight = FALSE
           /\ srPhase' \in {"serve", "select", "grace"}
           /\ srPhase' # "serve" => srJob' = Idle
<1>1. CASE Reply("accepted")
  BY Zenon, <1>1, ReplyKeeps, IdleJob
<1>2. CASE /\ srJob' = [srJob EXCEPT !.at = @ + 1, !.tries = 0, !.flight = FALSE]
           /\ UNCHANGED <<srReply, srPhase>>
  <2>1. srJob' \in Jobs /\ srJob'.req = srJob.req /\ srJob'.flight = FALSE
    BY Zenon, <1>2, JobMoves DEF RequestsInv, ServiceShape
  <2>2. Channelled'
    BY Zenon, <1>2, <2>1, SameScript DEF RequestsInv, Channelled
  <2> QED  BY Zenon, <1>2, <2>1, <2>2, SameScript
<1> QED  BY Zenon, <1>1, <1>2 DEF StepPassed

\* A step that leaves the channel alone, and takes up no request.
LEMMA ChannelKept ==
    ASSUME Channelled, UNCHANGED <<srScript, srReply, srQueue, srUnjudged>>,
           srPhase' = "serve" => srPhase = "serve" /\ srJob'.req = srJob.req
    PROVE  Channelled'
BY Zenon, SameScript DEF Channelled

\* The tool call is over.
LEMMA CallOverKeeps ==
    ASSUME RequestsInv, srPhase # "serve", srPhase # "ended", NEW result, CallOver(result), UNCHANGED srScript
    PROVE  (ServiceShape /\ EveryCallIsAttributed /\ Channelled)'
<1>1. UNCHANGED <<srCost, srTurns, srOwed, srUnjudged>> /\ srJob = Idle
  BY Zenon DEF CallOver, RequestsInv, ServiceShape
<1>2. CASE Ends
  BY Zenon, <1>1, <1>2, EndsKeeps DEF RequestsInv, ServiceShape
<1>3. CASE srPhase' = "turn" /\ UNCHANGED <<srQueue, srReply, srJob>>
  <2>1. Channelled'
    BY Zenon, <1>1, <1>3, ChannelKept DEF RequestsInv
  <2>2. ServiceShape'
    BY Zenon, <1>1, <1>3, SameScript DEF RequestsInv, ServiceShape
  <2>3. EveryCallIsAttributed'
    BY Zenon, <1>1, <1>3 DEF RequestsInv, EveryCallIsAttributed
  <2> QED  BY Zenon, <2>1, <2>2, <2>3
<1> QED  BY Zenon, <1>2, <1>3 DEF CallOver

\* The agent's own turn.
LEMMA TurnKeeps ==
    ASSUME RequestsInv, AgentTurn, UNCHANGED srScript
    PROVE  (ServiceShape /\ EveryCallIsAttributed /\ Channelled)'
<1>1. UNCHANGED <<srOwed, srUnjudged>> /\ srJob = Idle /\ srPhase = "turn" /\ srCost \in Spends /\ srTurns \in Nat
  BY Zenon DEF AgentTurn, RequestsInv, ServiceShape
<1>2. CASE Ends /\ UNCHANGED <<srCost, srTurns>>
  BY Zenon, <1>1, <1>2, EndsKeeps
<1>3. CASE srCost' = [srCost EXCEPT !.total = @ + 1] /\ srTurns' = srTurns + 1
  <2>1. /\ srCost' \in Spends /\ srTurns' \in Nat
        /\ srCost'.total = srCost.total + 1 /\ srCost'.sampling = srCost.sampling
        /\ srCost'.elicitation = srCost.elicitation
    <3>1. srCost.total + 1 \in Nat /\ srTurns + 1 \in Nat
      BY <1>1 DEF Spends
    <3> QED  BY Zenon, <1>1, <1>3, <3>1 DEF Spends
  <2>2. CASE Ends
    BY Zenon, <1>1, <2>1, <2>2, EndsKeeps
  <2>3. CASE srPhase' = "select" /\ UNCHANGED <<srQueue, srReply, srJob>>
    <3>1. Channelled'
      BY Zenon, <1>1, <2>3, ChannelKept DEF RequestsInv
    <3>2. ServiceShape'
      BY Zenon, <1>1, <2>1, <2>3, SameScript DEF RequestsInv, ServiceShape
    <3>3. srCost.total = srTurns + srCost.sampling + srCost.elicitation /\ srOwed = IF srJob.flight THEN 1 ELSE 0
      BY Zenon, <1>1 DEF RequestsInv, EveryCallIsAttributed
    <3>4. srCost'.total = srTurns' + srCost'.sampling + srCost'.elicitation
      BY <1>1, <1>3, <2>1, <3>3 DEF Spends
    <3>5. EveryCallIsAttributed'
      BY Zenon, <1>1, <2>3, <3>3, <3>4 DEF EveryCallIsAttributed
    <3> QED  BY Zenon, <3>1, <3>2, <3>5
  <2> QED  BY Zenon, <1>1, <1>2, <1>3, <2>2, <2>3 DEF AgentTurn
<1> QED  BY Zenon, <1>2, <1>3 DEF AgentTurn

\* A request is queued, and leaves the queue refused or to be serviced.
LEMMA AskKeeps ==
    ASSUME RequestsInv, NEW i \in RequestIds, Ask(i), UNCHANGED srScript
    PROVE  Channelled'
<1>1. /\ srReply[i] = "unsent" /\ srReply' = [srReply EXCEPT ![i] = "open"]
      /\ srQueue' = Append(srQueue, Asked(i)) /\ UNCHANGED <<srPhase, srJob, srUnjudged>>
  BY Zenon DEF Ask, Asked
<1>2. /\ srReply \in [RequestIds -> {"unsent", "open", "accepted", "declined"}] /\ srQueue \in Seq(Asks)
      /\ \A k \in DOMAIN srQueue : srReply[srQueue[k].id] = "open"
      /\ \A k, l \in DOMAIN srQueue : srQueue[k].id = srQueue[l].id => k = l
      /\ srUnjudged \subseteq {j \in RequestIds : srReply[j] = "declined"}
  BY Zenon DEF RequestsInv, Channelled
<1>3. Asked(i) \in Asks /\ Asked(i).id = i
  BY Zenon DEF Asks, Asked
<1>4. \A k \in DOMAIN srQueue : srQueue[k].id \in RequestIds \ {i}
  BY <1>1, <1>2 DEF Asks, Asked
<1>5. /\ srQueue' \in Seq(Asks) /\ DOMAIN srQueue' = DOMAIN srQueue \cup {Len(srQueue) + 1}
      /\ \A k \in DOMAIN srQueue : srQueue'[k] = srQueue[k]
      /\ srQueue'[Len(srQueue) + 1] = Asked(i)
  BY <1>1, <1>2, <1>3
<1>6. \A k, l \in DOMAIN srQueue' : srQueue'[k].id = srQueue'[l].id => k = l
  BY <1>2, <1>3, <1>4, <1>5
<1>7. /\ srReply' \in [RequestIds -> {"unsent", "open", "accepted", "declined"}]
      /\ srReply'[i] = "open" /\ \A j \in RequestIds \ {i} : srReply'[j] = srReply[j]
  BY Zenon, <1>1, <1>2
<1>8. \A k \in DOMAIN srQueue' : srReply'[srQueue'[k].id] = "open"
  BY <1>2, <1>3, <1>4, <1>5, <1>7
<1>9. srUnjudged' \subseteq {j \in RequestIds : srReply'[j] = "declined"}
  BY Zenon, <1>1, <1>2, <1>7
<1>10. srPhase' = "serve" =>
          /\ srJob'.req \in Asks /\ srReply'[srJob'.req.id] = "open"
          /\ \A k \in DOMAIN srQueue' : srQueue'[k].id # srJob'.req.id
  <2> SUFFICES ASSUME srPhase = "serve"
               PROVE  /\ srJob.req \in Asks /\ srReply'[srJob.req.id] = "open"
                      /\ \A k \in DOMAIN srQueue' : srQueue'[k].id # srJob.req.id
    BY Zenon, <1>1
  <2>1. /\ srJob.req \in Asks /\ srReply[srJob.req.id] = "open"
        /\ \A k \in DOMAIN srQueue : srQueue[k].id # srJob.req.id
    BY Zenon DEF RequestsInv, Channelled
  <2>2. srJob.req.id \in RequestIds \ {i}
    BY <1>1, <2>1 DEF Asks, Asked
  <2> QED  BY Zenon, <1>3, <1>5, <1>7, <2>1, <2>2
<1> QED  BY Zenon, <1>5, <1>6, <1>7, <1>8, <1>9, <1>10, SameScript DEF Channelled

\* The head of the queue, and what is left of it.
LEMMA HeadAndTail ==
    ASSUME NEW S, NEW q \in Seq(S), q # <<>>
    PROVE  /\ Head(q) \in S /\ Tail(q) \in Seq(S)
           /\ 1 \in DOMAIN q /\ Head(q) = q[1]
           /\ \A k \in DOMAIN Tail(q) : k + 1 \in DOMAIN q /\ Tail(q)[k] = q[k + 1] /\ k + 1 # 1
OBVIOUS

\* The select takes the request at the head of the channel.
LEMMA PollKeeps ==
    ASSUME RequestsInv, srPhase = "select", srQueue # <<>>, srQueue' = Tail(srQueue),
           UNCHANGED <<srScript, srUnjudged>>,
           \/ /\ srJob' = [Idle EXCEPT !.req = Head(srQueue), !.at = 1]
              /\ srPhase' = "serve" /\ UNCHANGED srReply
           \/ /\ srReply' = [srReply EXCEPT ![Head(srQueue).id] = "declined"]
              /\ UNCHANGED <<srJob, srPhase>>
    PROVE  Channelled'
<1> DEFINE req == Head(srQueue)
<1>1. /\ srReply \in [RequestIds -> {"unsent", "open", "accepted", "declined"}] /\ srQueue \in Seq(Asks)
      /\ \A k \in DOMAIN srQueue : srReply[srQueue[k].id] = "open"
      /\ \A k, l \in DOMAIN srQueue : srQueue[k].id = srQueue[l].id => k = l
      /\ srUnjudged \subseteq {j \in RequestIds : srReply[j] = "declined"}
  BY Zenon DEF RequestsInv, Channelled
<1>2. /\ req \in Asks /\ srQueue' \in Seq(Asks)
      /\ \A k \in DOMAIN srQueue' : k + 1 \in DOMAIN srQueue /\ srQueue'[k] = srQueue[k + 1] /\ k + 1 # 1
      /\ 1 \in DOMAIN srQueue /\ req = srQueue[1]
  BY <1>1, HeadAndTail
<1>3. /\ req.id \in RequestIds /\ srReply[req.id] = "open"
      /\ \A k \in DOMAIN srQueue' : srQueue'[k].id # req.id
  <2>1. \A k \in DOMAIN srQueue' : srQueue'[k].id # req.id
    BY Zenon, <1>1, <1>2
  <2>2. req.id \in RequestIds
    BY <1>2 DEF Asks, Asked
  <2> QED  BY Zenon, <1>1, <1>2, <2>1, <2>2
<1>4. \A k, l \in DOMAIN srQueue' : srQueue'[k].id = srQueue'[l].id => k = l
  BY <1>1, <1>2
<1>5. CASE /\ srJob' = [Idle EXCEPT !.req = req, !.at = 1]
           /\ srPhase' = "serve" /\ UNCHANGED srReply
  <2>1. srJob'.req = req
    BY Zenon, <1>5 DEF Idle
  <2>2. \A k \in DOMAIN srQueue' : srReply[srQueue'[k].id] = "open"
    BY <1>1, <1>2
  <2> QED  BY Zenon, <1>1, <1>2, <1>3, <1>4, <1>5, <2>1, <2>2, SameScript DEF Channelled
<1>6. CASE /\ srReply' = [srReply EXCEPT ![req.id] = "declined"]
           /\ UNCHANGED <<srJob, srPhase>>
  <2>1. /\ srReply' \in [RequestIds -> {"unsent", "open", "accepted", "declined"}]
        /\ srUnjudged \subseteq {j \in RequestIds : srReply'[j] = "declined"}
    BY Zenon, <1>1, <1>3, <1>6
  <2>2. \A k \in DOMAIN srQueue' : srQueue'[k].id \in RequestIds
    BY <1>2 DEF Asks, Asked
  <2>3. \A k \in DOMAIN srQueue' : srReply'[srQueue'[k].id] = "open"
    BY <1>1, <1>2, <1>3, <1>6, <2>2
  <2> QED  BY Zenon, <1>2, <1>4, <1>6, <2>1, <2>3, SameScript DEF Channelled
<1> QED  BY Zenon, <1>5, <1>6

LEMMA TakenUp ==
    ASSUME NEW req \in Asks
    PROVE  [Idle EXCEPT !.req = req, !.at = 1] \in Jobs /\ [Idle EXCEPT !.req = req, !.at = 1].flight = FALSE
BY Zenon DEF Idle, Jobs

\* A call settles: what it cost is in the total and in its capability's account.
LEMMA ChargedOnce ==
    ASSUME srCost \in Spends, srTurns \in Nat, NEW kind, NEW cost, cost = Charged(Capability(kind)),
           srCost.total = srTurns + srCost.sampling + srCost.elicitation
    PROVE  cost \in Spends /\ cost.total = srTurns + cost.sampling + cost.elicitation
<1>1. /\ srCost.total \in Nat /\ srCost.sampling \in Nat /\ srCost.elicitation \in Nat
      /\ srCost.total + 1 \in Nat /\ srCost.sampling + 1 \in Nat /\ srCost.elicitation + 1 \in Nat
  BY DEF Spends
<1>2. ASSUME NEW a \in Nat, NEW b \in Nat, cost = [srCost EXCEPT !.total = a, !.sampling = b]
      PROVE  cost \in Spends /\ cost.total = a /\ cost.sampling = b /\ cost.elicitation = srCost.elicitation
  BY Zenon, <1>2 DEF Spends
<1>3. ASSUME NEW a \in Nat, NEW b \in Nat, cost = [srCost EXCEPT !.total = a, !.elicitation = b]
      PROVE  cost \in Spends /\ cost.total = a /\ cost.elicitation = b /\ cost.sampling = srCost.sampling
  BY Zenon, <1>3 DEF Spends
<1>4. CASE Capability(kind) = "sampling"
  <2>1. cost = [srCost EXCEPT !.total = srCost.total + 1, !.sampling = srCost.sampling + 1]
    BY Zenon, <1>4 DEF Charged
  <2>2. /\ cost \in Spends /\ cost.total = srCost.total + 1 /\ cost.sampling = srCost.sampling + 1
        /\ cost.elicitation = srCost.elicitation
    BY Zenon, <1>1, <1>2, <2>1
  <2> QED  BY <1>1, <2>2
<1>5. CASE Capability(kind) = "elicitation"
  <2>1. cost = [srCost EXCEPT !.total = srCost.total + 1, !.elicitation = srCost.elicitation + 1]
    BY Zenon, <1>5 DEF Charged
  <2>2. /\ cost \in Spends /\ cost.total = srCost.total + 1 /\ cost.elicitation = srCost.elicitation + 1
        /\ cost.sampling = srCost.sampling
    BY Zenon, <1>1, <1>3, <2>1
  <2> QED  BY <1>1, <2>2
<1> QED  BY Zenon, <1>4, <1>5 DEF Capability

\* The steps of the servicing.
LEMMA ServingKeeps ==
    ASSUME RequestsInv, UNCHANGED srScript,
           \/ DecideLocally \/ DispatchCall
           \/ \E said \in {"good", "denied", "unparseable", "failed"} : CallReturns(said)
    PROVE  (ServiceShape /\ EveryCallIsAttributed /\ Channelled)'
<1>0. /\ srPhase = "serve" /\ srJob \in Jobs /\ srCost \in Spends /\ srTurns \in Nat
      /\ srOwed = (IF srJob.flight THEN 1 ELSE 0)
      /\ srCost.total = srTurns + srCost.sampling + srCost.elicitation
  <2>1. srPhase = "serve"
    BY Zenon DEF DecideLocally, DispatchCall, CallReturns
  <2> QED  BY Zenon, <2>1 DEF RequestsInv, ServiceShape, EveryCallIsAttributed
<1>1. ASSUME /\ srJob' \in Jobs' /\ (srPhase' # "serve" => srJob' = Idle)
             /\ srPhase' \in {"serve", "select", "grace"}
             /\ srCost' \in Spends /\ UNCHANGED srTurns
             /\ srCost'.total = srTurns + srCost'.sampling + srCost'.elicitation
             /\ srOwed' = (IF srJob'.flight THEN 1 ELSE 0)
      PROVE  (ServiceShape /\ EveryCallIsAttributed)'
  <2>1. ServiceShape'
    BY Zenon, <1>0, <1>1, SameScript DEF ServiceShape
  <2>2. EveryCallIsAttributed'
    BY Zenon, <1>1 DEF EveryCallIsAttributed
  <2> QED  BY Zenon, <2>1, <2>2
<1>2. CASE DecideLocally
  <2>1. ~srJob.flight /\ UNCHANGED <<srQueue, srCost, srTurns, srOwed>>
    BY Zenon, <1>2 DEF DecideLocally
  <2>2. srOwed' = 0
    BY Zenon, <1>0, <2>1
  <2>3. CASE StepPassed /\ UNCHANGED srUnjudged
    <3>1. /\ Channelled' /\ srJob' \in Jobs' /\ srJob'.flight = FALSE
          /\ srPhase' \in {"serve", "select", "grace"} /\ (srPhase' # "serve" => srJob' = Idle)
      BY Zenon, <1>0, <2>1, <2>3, StepKeeps
    <3>2. srOwed' = (IF srJob'.flight THEN 1 ELSE 0)
      BY Zenon, <2>2, <3>1
    <3> QED  BY Zenon, <1>0, <1>1, <2>1, <3>1, <3>2
  <2>4. CASE Reply("declined") /\ srUnjudged' = srUnjudged \union {srJob.req.id}
    <3>1. /\ Channelled' /\ srJob' = Idle /\ srJob' \in Jobs' /\ srPhase' \in {"select", "grace"}
      BY Zenon, <1>0, <2>1, <2>4, ReplyKeeps
    <3>2. srOwed' = (IF srJob'.flight THEN 1 ELSE 0)
      BY Zenon, <2>2, <3>1, IdleJob
    <3> QED  BY Zenon, <1>0, <1>1, <2>1, <3>1, <3>2
  <2> QED  BY Zenon, <1>2, <2>3, <2>4 DEF DecideLocally
<1>3. CASE DispatchCall
  <2>1. /\ ~srJob.flight /\ srJob' = [srJob EXCEPT !.flight = TRUE] /\ srOwed' = srOwed + 1
        /\ UNCHANGED <<srPhase, srQueue, srReply, srUnjudged, srCost, srTurns>>
    BY Zenon, <1>3 DEF DispatchCall
  <2>2. srJob' \in Jobs /\ srJob'.req = srJob.req /\ srJob'.flight = TRUE
    BY Zenon, <1>0, <2>1, JobMoves
  <2>3. srOwed' = (IF srJob'.flight THEN 1 ELSE 0)
    BY <1>0, <2>1, <2>2
  <2>4. Channelled'
    BY Zenon, <2>1, <2>2, ChannelKept DEF RequestsInv
  <2> QED  BY Zenon, <1>0, <1>1, <2>1, <2>2, <2>3, <2>4, SameScript
<1>4. ASSUME NEW said \in {"good", "denied", "unparseable", "failed"}, CallReturns(said)
      PROVE  (ServiceShape /\ EveryCallIsAttributed /\ Channelled)'
  <2>1. /\ srJob.flight /\ srOwed' = srOwed - 1 /\ UNCHANGED <<srQueue, srTurns>>
        /\ srCost' = IF said = "failed" THEN srCost ELSE Charged(Capability(srJob.req.kind))
    BY Zenon, <1>4 DEF CallReturns
  <2>2. srOwed' = 0
    BY <1>0, <2>1
  <2>3. srCost' \in Spends /\ srCost'.total = srTurns + srCost'.sampling + srCost'.elicitation
    BY Zenon, <1>0, <2>1, ChargedOnce
  <2>4. srUnjudged' = srUnjudged \/ srUnjudged' = srUnjudged \union {srJob.req.id}
    BY Zenon, <1>4 DEF CallReturns
  <2>5. CASE Reply("declined")
    <3>1. /\ Channelled' /\ srJob' = Idle /\ srJob' \in Jobs' /\ srPhase' \in {"select", "grace"}
      BY Zenon, <1>0, <2>1, <2>4, <2>5, ReplyKeeps
    <3>2. srOwed' = (IF srJob'.flight THEN 1 ELSE 0)
      BY Zenon, <2>2, <3>1, IdleJob
    <3> QED  BY Zenon, <1>0, <1>1, <2>1, <2>3, <3>1, <3>2
  <2>6. CASE StepPassed /\ UNCHANGED srUnjudged
    <3>1. /\ Channelled' /\ srJob' \in Jobs' /\ srJob'.flight = FALSE
          /\ srPhase' \in {"serve", "select", "grace"} /\ (srPhase' # "serve" => srJob' = Idle)
      BY Zenon, <1>0, <2>1, <2>6, StepKeeps
    <3>2. srOwed' = (IF srJob'.flight THEN 1 ELSE 0)
      BY Zenon, <2>2, <3>1
    <3> QED  BY Zenon, <1>0, <1>1, <2>1, <2>3, <3>1, <3>2
  <2>7. CASE /\ srJob' = [srJob EXCEPT !.tries = @ + 1, !.flight = FALSE]
             /\ UNCHANGED <<srReply, srPhase, srUnjudged>>
    <3>1. srJob' \in Jobs /\ srJob'.req = srJob.req /\ srJob'.flight = FALSE
      BY Zenon, <1>0, <2>7, JobMoves
    <3>2. srOwed' = (IF srJob'.flight THEN 1 ELSE 0)
      BY Zenon, <2>2, <3>1
    <3>3. Channelled'
      BY Zenon, <2>1, <2>7, <3>1, ChannelKept DEF RequestsInv
    <3> QED  BY Zenon, <1>0, <1>1, <2>1, <2>3, <2>7, <3>1, <3>2, <3>3, SameScript
  <2>8. \/ Reply("declined") \/ (StepPassed /\ UNCHANGED srUnjudged)
        \/ /\ srJob' = [srJob EXCEPT !.tries = @ + 1, !.flight = FALSE]
           /\ UNCHANGED <<srReply, srPhase, srUnjudged>>
    <3> DEFINE judge  == Step = "llm"
               bad    == (judge /\ said # "good") \/ said \in {"failed", "denied"}
               again  == said = "unparseable" /\ ~judge
               passed == ~bad
    <3>1. srUnjudged' = IF bad THEN srUnjudged \union {srJob.req.id} ELSE srUnjudged
      BY Zenon, <1>4 DEF CallReturns
    <3>2. \/ /\ said = "unparseable" /\ srJob.tries + 1 < (IF judge THEN EVALUATOR_MAX_RETRIES
                      ELSE IF srJob.req.kind = "sampling" THEN 1 ELSE ELICITATION_MAX_RETRIES)
             /\ srJob' = [srJob EXCEPT !.tries = @ + 1, !.flight = FALSE] /\ UNCHANGED <<srReply, srPhase>>
          \/ /\ (IF judge THEN Verdict(said) ELSE AnswerStands(said)) /\ StepPassed
          \/ Reply("declined")
      BY Zenon, <1>4 DEF CallReturns
    <3>3. said = "unparseable" /\ srJob.tries + 1 < (IF judge THEN EVALUATOR_MAX_RETRIES
                      ELSE IF srJob.req.kind = "sampling" THEN 1 ELSE ELICITATION_MAX_RETRIES) => ~bad
      BY <1>0 DEF EVALUATOR_MAX_RETRIES, Jobs
    <3>4. (IF judge THEN Verdict(said) ELSE AnswerStands(said)) => ~bad
      BY Zenon DEF Verdict, AnswerStands
    <3> QED  BY Zenon, <3>1, <3>2, <3>3, <3>4
  <2> QED  BY Zenon, <2>5, <2>6, <2>7, <2>8
<1> QED  BY Zenon, <1>2, <1>3, <1>4

\* One step of the invocation keeps the requests in their places.
LEMMA PlacesStep ==
    ASSUME RequestsInv, RequestsStep, UNCHANGED srScript
    PROVE  (ServiceShape /\ EveryCallIsAttributed /\ Channelled)'
<1>1. CASE AgentTurn
  BY Zenon, <1>1, TurnKeeps
<1>2. CASE Expire \/ ServersLeave \/ \E result \in {"ok", "error", "timeout"} : ToolReturns(result)
  <2>1. UNCHANGED <<srPhase, srQueue, srReply, srJob, srCost, srTurns, srOwed, srUnjudged>>
    BY Zenon, <1>2 DEF Expire, ServersLeave, ToolReturns
  <2>2. ServiceShape' /\ EveryCallIsAttributed'
    BY Zenon, <2>1, SameScript DEF RequestsInv, ServiceShape, EveryCallIsAttributed
  <2> QED  BY Zenon, <2>1, <2>2, ChannelKept DEF RequestsInv
<1>3. CASE Poll
  <2>1. srPhase = "select" /\ srJob = Idle
    BY Zenon, <1>3 DEF Poll, RequestsInv, ServiceShape
  <2>2. CASE \E result : CallOver(result)
    BY Zenon, <2>1, <2>2, CallOverKeeps
  <2>3. CASE /\ srPhase' = "alone"
             /\ UNCHANGED <<srQueue, srReply, srJob, srCost, srTurns, srOwed, srUnjudged>>
    <3>1. ServiceShape' /\ EveryCallIsAttributed'
      BY Zenon, <2>1, <2>3, SameScript DEF RequestsInv, ServiceShape, EveryCallIsAttributed
    <3>2. Channelled'
      BY Zenon, <2>3, ChannelKept DEF RequestsInv
    <3> QED  BY Zenon, <3>1, <3>2
  <2>4. CASE /\ srQueue # <<>> /\ srQueue' = Tail(srQueue)
             /\ \/ /\ srJob' = [Idle EXCEPT !.req = Head(srQueue), !.at = 1]
                   /\ srPhase' = "serve" /\ UNCHANGED srReply
                \/ /\ srReply' = [srReply EXCEPT ![Head(srQueue).id] = "declined"]
                   /\ UNCHANGED <<srJob, srPhase>>
             /\ UNCHANGED <<srCost, srTurns, srOwed, srUnjudged>>
    <3>1. Channelled'
      BY Zenon, <2>1, <2>4, PollKeeps
    <3>2. Head(srQueue) \in Asks
      BY Zenon, <2>4, HeadAndTail DEF RequestsInv, Channelled
    <3>3. /\ srJob' \in Jobs /\ srJob'.flight = FALSE /\ srPhase' \in {"serve", "select"}
          /\ srPhase' # "serve" => srJob' = Idle
      BY Zenon, <2>1, <2>4, <3>2, TakenUp, IdleJob
    <3>4. srOwed' = (IF srJob'.flight THEN 1 ELSE 0)
      <4>1. srOwed = (IF srJob.flight THEN 1 ELSE 0)
        BY Zenon, <2>1 DEF RequestsInv, EveryCallIsAttributed
      <4> QED  BY Zenon, <2>1, <2>4, <3>3, <4>1, IdleJob
    <3>5. ServiceShape' /\ EveryCallIsAttributed'
      BY Zenon, <2>1, <2>4, <3>3, <3>4, SameScript DEF RequestsInv, ServiceShape,
         EveryCallIsAttributed
    <3> QED  BY Zenon, <3>1, <3>5
  <2> QED  BY Zenon, <1>3, <2>2, <2>3, <2>4 DEF Poll
<1>4. CASE AwaitTool
  <2>1. srPhase # "serve" /\ srPhase # "ended" /\ \E result : CallOver(result)
    BY Zenon, <1>4 DEF AwaitTool
  <2> QED  BY Zenon, <2>1, CallOverKeeps
<1>5. CASE InfrastructureFails
  <2>1. Ends /\ UNCHANGED <<srCost, srTurns, srUnjudged>>
    BY Zenon, <1>5 DEF InfrastructureFails
  <2> QED  BY Zenon, <2>1, EndsKeeps DEF RequestsInv, ServiceShape
<1>6. ASSUME NEW i \in RequestIds, Ask(i) PROVE (ServiceShape /\ EveryCallIsAttributed /\ Channelled)'
  <2>1. UNCHANGED <<srPhase, srJob, srCost, srTurns, srOwed>>
    BY Zenon, <1>6 DEF Ask
  <2>2. ServiceShape' /\ EveryCallIsAttributed'
    BY Zenon, <2>1, SameScript DEF RequestsInv, ServiceShape, EveryCallIsAttributed
  <2> QED  BY Zenon, <1>6, <2>2, AskKeeps
<1>7. CASE \/ DecideLocally \/ DispatchCall
           \/ \E said \in {"good", "denied", "unparseable", "failed"} : CallReturns(said)
  BY Zenon, <1>7, ServingKeeps
<1> QED  BY Zenon, <1>1, <1>2, <1>3, <1>4, <1>5, <1>6, <1>7 DEF RequestsStep

\* The ledger after one more call.
LEMMA CountedOnce ==
    ASSUME Counted, NEW result \in {"ok", "error", "timeout"},
           srStreak' = StreakAfter(result), srOutcomes' = Append(srOutcomes, result),
           srTool' = "none", srPhase' \in {"turn", "ended"}
    PROVE  Counted'
<1>1. /\ srOutcomes' \in Seq({"ok", "error", "timeout"}) /\ Len(srOutcomes') = Len(srOutcomes) + 1
      /\ \A k \in 1 .. Len(srOutcomes) : srOutcomes'[k] = srOutcomes[k]
      /\ srOutcomes'[Len(srOutcomes) + 1] = result /\ Len(srOutcomes) \in Nat
  BY DEF Counted
<1>2. srStreak' = IF result = "timeout" THEN srStreak + 1 ELSE 0
  BY Zenon DEF StreakAfter
<1>3. /\ srStreak' \in Nat /\ srStreak' <= Len(srOutcomes')
      /\ \A k \in Len(srOutcomes') - srStreak' + 1 .. Len(srOutcomes') : srOutcomes'[k] = "timeout"
      /\ srStreak' < Len(srOutcomes') => srOutcomes'[Len(srOutcomes') - srStreak'] # "timeout"
  <2>1. CASE result = "timeout"
    BY <1>1, <1>2, <2>1 DEF Counted
  <2>2. CASE result # "timeout"
    BY <1>1, <1>2, <2>2 DEF Counted
  <2> QED  BY Zenon, <2>1, <2>2
<1> QED  BY Zenon, <1>1, <1>3 DEF Counted

\* The ledger elsewhere: a call is under way in the phases of a call only.
LEMMA CountedStep ==
    ASSUME RequestsInv, RequestsStep
    PROVE  Counted'
<1>0. /\ Counted /\ srTool \in {"none", "running", "ok", "error", "timeout"}
      /\ srPhase \in {"select", "serve", "grace", "alone"} => srTool # "none"
      /\ srPhase \in {"turn", "select", "serve", "grace", "alone", "ended"}
  BY Zenon DEF RequestsInv, Counted, ServiceShape
<1>1. ASSUME NEW result \in {"ok", "error", "timeout"}, CallOver(result) PROVE Counted'
  BY Zenon, <1>0, <1>1, CountedOnce DEF CallOver, Ends
<1>2. ASSUME UNCHANGED <<srStreak, srOutcomes>>, srTool' \in {"none", "running", "ok", "error", "timeout"},
             srPhase' \in {"select", "serve", "grace", "alone"} => srTool' # "none"
      PROVE  Counted'
  BY Zenon, <1>0, <1>2 DEF Counted
<1>3. CASE AgentTurn
  BY Zenon, <1>2, <1>3 DEF AgentTurn, Ends
<1>4. CASE Expire \/ ServersLeave \/ \E i \in RequestIds : Ask(i)
  <2>1. UNCHANGED <<srStreak, srOutcomes, srTool, srPhase>>
    BY Zenon, <1>4 DEF Expire, ServersLeave, Ask
  <2> QED  BY Zenon, <1>0, <1>2, <2>1
<1>5. ASSUME NEW result \in {"ok", "error", "timeout"}, ToolReturns(result) PROVE Counted'
  BY Zenon, <1>2, <1>5 DEF ToolReturns
<1>6. CASE Poll
  <2>1. srPhase = "select"
    BY Zenon, <1>6 DEF Poll
  <2>2. CASE UNCHANGED <<srStreak, srOutcomes, srTool>>
    BY Zenon, <1>0, <1>2, <2>1, <2>2
  <2>3. CASE (srTool # "running" /\ CallOver(srTool)) \/ CallOver("timeout")
    BY Zenon, <1>0, <1>1, <2>1, <2>3
  <2> QED  BY Zenon, <1>6, <2>2, <2>3 DEF Poll
<1>7. CASE AwaitTool
  <2>1. /\ srPhase \in {"alone", "grace"}
        /\ (srTool # "running" /\ CallOver(srTool)) \/ CallOver("timeout")
    BY Zenon, <1>7 DEF AwaitTool
  <2> QED  BY Zenon, <1>0, <1>1, <2>1
<1>8. CASE InfrastructureFails
  BY Zenon, <1>2, <1>8 DEF InfrastructureFails, Ends
<1>9. CASE \/ DecideLocally \/ DispatchCall
           \/ \E said \in {"good", "denied", "unparseable", "failed"} : CallReturns(said)
  <2>1. srPhase = "serve" /\ UNCHANGED <<srStreak, srOutcomes, srTool>>
    BY Zenon, <1>9 DEF DecideLocally, DispatchCall, CallReturns
  <2> QED  BY Zenon, <1>0, <1>2, <2>1
<1> QED  BY Zenon, <1>3, <1>4, <1>5, <1>6, <1>7, <1>8, <1>9 DEF RequestsStep

LEMMA RequestsHold == RequestsSpec => []RequestsInv
<1>1. RequestsInit => RequestsInv
  <2> SUFFICES ASSUME RequestsInit PROVE RequestsInv
    BY Zenon
  <2>1. ServiceShape /\ EveryCallIsAttributed
    <3>1. srCost \in Spends /\ srCost.total = 0 /\ srCost.sampling = 0 /\ srCost.elicitation = 0
      BY Zenon DEF RequestsInit, Spends
    <3>2. srOwed = (IF srJob.flight THEN 1 ELSE 0)
      BY Zenon, IdleJob DEF RequestsInit
    <3> QED  BY <3>1, <3>2, IdleJob DEF RequestsInit, ServiceShape, EveryCallIsAttributed
  <2>2. Channelled
    BY DEF RequestsInit, Channelled
  <2>3. Counted
    BY DEF RequestsInit, Counted
  <2> QED  BY Zenon, <2>1, <2>2, <2>3 DEF RequestsInv
<1>2. RequestsInv /\ [RequestsNext]_reqVars => RequestsInv'
  <2> SUFFICES ASSUME RequestsInv, [RequestsNext]_reqVars PROVE RequestsInv'
    BY Zenon
  <2>1. CASE RequestsNext
    BY Zenon, <2>1, PlacesStep, CountedStep DEF RequestsNext, RequestsInv
  <2>2. CASE UNCHANGED reqVars
    <3>1. UNCHANGED <<srPhase, srTool, srPast, srScript, srOpen, srQueue, srReply, srJob, srCost, srTurns,
                      srOwed, srUnjudged, srStreak, srOutcomes>>
      BY Zenon, <2>2 DEF reqVars
    <3> QED  BY Zenon, <3>1, ChannelKept, SameScript
             DEF RequestsInv, ServiceShape, EveryCallIsAttributed, Counted
  <2> QED  BY Zenon, <2>1, <2>2
<1> QED  BY <1>1, <1>2, PTL DEF RequestsSpec

\* While the invocation lives every model call a server asked for is settled, and
\* every unit spent is the agent's own or in the account of the capability that
\* spent it: the deadline of run_tool never drops a servicing with a call out.
THEOREM CallsAreAttributed == RequestsSpec => []EveryCallIsAttributed
<1>1. RequestsInv => EveryCallIsAttributed
  BY Zenon DEF RequestsInv
<1> QED  BY <1>1, RequestsHold, PTL

\* The evaluators fail closed: a request whose judge denied, failed or gave no
\* verdict is never answered with a result.
THEOREM UnjudgedIsDeclined == RequestsSpec => []JudgesFailClosed
<1>1. RequestsInv => JudgesFailClosed
  BY Zenon DEF RequestsInv, Channelled, JudgesFailClosed
<1> QED  BY <1>1, RequestsHold, PTL

\* TimeoutLedger counts calls that timed out in a row: the streak is at its limit
\* exactly when the last calls all timed out, an error being an answer.
THEOREM StreakIsTheLastCalls == RequestsSpec => []StreakIsConsecutive
<1>1. RequestsInv => StreakIsConsecutive
  <2> SUFFICES ASSUME Counted PROVE StreakIsConsecutive
    BY Zenon DEF RequestsInv
  <2>1. Len(srOutcomes) \in Nat /\ srStreak \in Nat /\ TimeoutLimit \in Nat
    BY TimeoutLimitAssumption DEF Counted
  <2> QED  BY <2>1 DEF Counted, StreakIsConsecutive
<1> QED  BY <1>1, RequestsHold, PTL

--------------------------------------------------------------------------------
(***************************************************************************)
(* Scheduled maintenance.  The ledger is the last runs of this process; an   *)
(* entry without a held outcome is one whose outcome is on the log, except   *)
(* while its run is being settled.                                           *)
(***************************************************************************)
Results   == [outcome : {"succeeded", "failed", "refused"}, signals : {0, 1}]
Settles   == [at : {"settle"}, cmd : Commands, res : Results]
Signals   == [at : {"signals"}, cmd : Commands, left : {0, 1}]
Answering == [at : {"ack", "nak"}, cmd : Commands]

JobShape ==
    /\ mtJob \in Settles \cup Signals \cup Answering \cup {NoJob}
    /\ mtDue \in [Commands -> Nat] /\ mtAcked \subseteq Commands
    /\ mtOutcomes \in [RunIds -> Nat] /\ mtSignals \in [RunIds -> Nat] /\ mtRuns \in [RunIds -> Nat]

\* order is the tail of mtRan, and entries is defined on its ids.
LedgerIsTail ==
    /\ mtRan \in Seq(RunIds) /\ mtLedger.order \in Seq(RunIds)
    /\ mtLedger = [order |-> mtLedger.order, entries |-> mtLedger.entries]
    /\ Len(mtLedger.order) = IF Len(mtRan) <= LedgerSize THEN Len(mtRan) ELSE LedgerSize
    /\ \A k \in 1 .. Len(mtLedger.order) :
          mtLedger.order[k] = mtRan[Len(mtRan) - Len(mtLedger.order) + k]
    /\ mtLedger.entries \in [Ids(mtLedger.order) -> Results \cup {None}]
    /\ RunsOnceWithinLedger

Settling(r) == mtJob.at = "settle" /\ RunOf[mtJob.cmd] = r

LedgerTells ==
    /\ mtJob.at \in {"settle", "signals"} => RunOf[mtJob.cmd] \in Ids(mtLedger.order)
    /\ mtJob.at \in {"signals", "ack"} => mtOutcomes[RunOf[mtJob.cmd]] > 0
    /\ \A r \in Ids(mtLedger.order) :
          mtLedger.entries[r] = None => mtOutcomes[r] > 0 \/ Settling(r)
    /\ AckedIsRecorded

\* Signals a run of this process may still publish.
Held(r) == IF r \in Ids(mtLedger.order) THEN mtLedger.entries[r].signals ELSE 0
Owed(r) == IF Settling(r) THEN mtJob.res.signals
           ELSE IF mtJob.at = "signals" /\ RunOf[mtJob.cmd] = r THEN mtJob.left
           ELSE Held(r)

SignalsOwed == \A r \in RunIds : mtSignals[r] + Owed(r) <= mtRuns[r]

MaintenanceInv == JobShape /\ LedgerIsTail /\ LedgerTells /\ SignalsOwed

\* A run that is not in the ledger starts: it takes the place of the oldest one.
LEMMA LedgerStarts ==
    ASSUME LedgerIsTail, NEW id \in RunIds, ~Known(mtLedger, id),
           mtLedger' = ledger_start(mtLedger, id), mtRan' = Append(mtRan, id)
    PROVE  /\ LedgerIsTail'
           /\ id \in Ids(mtLedger'.order) /\ mtLedger'.entries[id] = None
           /\ \A r \in Ids(mtLedger'.order) \ {id} :
                 r \in Ids(mtLedger.order) /\ mtLedger'.entries[r] = mtLedger.entries[r]
<1> DEFINE kept == IF Len(mtLedger.order) >= LedgerSize THEN Tail(mtLedger.order) ELSE mtLedger.order
           last == Len(mtRan)
<1> HIDE DEF kept, last
<1>1. /\ mtRan \in Seq(RunIds) /\ mtLedger.order \in Seq(RunIds) /\ last \in Nat /\ Len(mtLedger.order) \in Nat
      /\ LedgerSize \in Nat \ {0}
      /\ Len(mtLedger.order) = IF last <= LedgerSize THEN last ELSE LedgerSize
      /\ \A k \in 1 .. Len(mtLedger.order) : mtLedger.order[k] = mtRan[last - Len(mtLedger.order) + k]
      /\ mtLedger.entries \in [Ids(mtLedger.order) -> Results \cup {None}]
  BY LedgerAssumption DEF LedgerIsTail, last
<1>2. /\ mtLedger' = [order   |-> Append(kept, id),
                      entries |-> [i \in Ids(kept) \union {id} |-> IF i = id THEN None ELSE mtLedger.entries[i]]]
  BY Zenon DEF ledger_start, kept
<1>3. /\ mtLedger'.order = Append(kept, id)
      /\ mtLedger'.entries = [i \in Ids(kept) \union {id} |-> IF i = id THEN None ELSE mtLedger.entries[i]]
      /\ mtLedger' = [order |-> mtLedger'.order, entries |-> mtLedger'.entries]
  BY <1>2
<1>4. /\ kept \in Seq(RunIds) /\ Len(kept) \in Nat
      /\ Len(kept) = IF last < LedgerSize THEN last ELSE LedgerSize - 1
      /\ \A k \in 1 .. Len(kept) : kept[k] = mtRan[last - Len(kept) + k]
      /\ \A k \in 1 .. Len(kept) : kept[k] \in Ids(mtLedger.order)
  <2>1. CASE Len(mtLedger.order) >= LedgerSize
    <3>1. /\ kept = Tail(mtLedger.order) /\ mtLedger.order # <<>> /\ Len(mtLedger.order) = LedgerSize
      BY <1>1, <2>1 DEF kept
    <3>2. /\ kept \in Seq(RunIds) /\ Len(kept) = LedgerSize - 1
          /\ \A k \in 1 .. Len(kept) : kept[k] = mtLedger.order[k + 1] /\ k + 1 \in 1 .. Len(mtLedger.order)
      BY <1>1, <3>1
    <3>3. \A k \in 1 .. Len(kept) : kept[k] \in Ids(mtLedger.order)
      <4>1. DOMAIN mtLedger.order = 1 .. Len(mtLedger.order)
        BY <1>1
      <4> QED  BY Zenon, <3>2, <4>1 DEF Ids
    <3>4. /\ Len(mtLedger.order) = LedgerSize /\ Len(kept) = LedgerSize - 1 /\ last \in Nat
          /\ LedgerSize \in Nat \ {0} /\ ~(last < LedgerSize) /\ Len(kept) \in Nat
      BY <1>1, <3>1, <3>2
    <3>5. ASSUME NEW k \in 1 .. Len(kept) PROVE kept[k] = mtRan[last - Len(kept) + k]
      <4>1. last - Len(mtLedger.order) + (k + 1) = last - Len(kept) + k
        BY <3>4
      <4> QED  BY Zenon, <1>1, <3>2, <4>1
    <3> QED  BY Zenon, <3>2, <3>3, <3>4, <3>5
  <2>2. CASE ~(Len(mtLedger.order) >= LedgerSize)
    <3>1. kept = mtLedger.order
      BY Zenon, <2>2 DEF kept
    <3>2. \A k \in 1 .. Len(kept) : kept[k] \in Ids(mtLedger.order)
      BY <1>1, <3>1 DEF Ids
    <3>3. Len(kept) = IF last < LedgerSize THEN last ELSE LedgerSize - 1
      BY <1>1, <2>2, <3>1
    <3> QED  BY Zenon, <1>1, <3>1, <3>2, <3>3
  <2> QED  BY Zenon, <2>1, <2>2
<1>5. /\ mtLedger'.order \in Seq(RunIds) /\ Len(mtLedger'.order) = Len(kept) + 1
      /\ \A k \in 1 .. Len(kept) : mtLedger'.order[k] = kept[k]
      /\ mtLedger'.order[Len(kept) + 1] = id /\ DOMAIN mtLedger'.order = 1 .. Len(kept) + 1
      /\ DOMAIN kept = 1 .. Len(kept)
  BY <1>3, <1>4
<1>6. /\ mtRan' \in Seq(RunIds) /\ Len(mtRan') = last + 1 /\ mtRan'[last + 1] = id
      /\ \A k \in 1 .. last : mtRan'[k] = mtRan[k]
  BY <1>1 DEF last
<1>7. Ids(mtLedger'.order) = Ids(kept) \union {id}
  <2>1. \A k \in 1 .. Len(kept) + 1 : k \in 1 .. Len(kept) \/ k = Len(kept) + 1
    BY <1>4
  <2>2. /\ \A k \in 1 .. Len(kept) : k \in 1 .. Len(kept) + 1
        /\ Len(kept) + 1 \in 1 .. Len(kept) + 1
    BY <1>4
  <2> QED  BY ZenonT(30), <1>5, <2>1, <2>2 DEF Ids
<1>8. Ids(kept) \subseteq Ids(mtLedger.order)
  BY Zenon, <1>4, <1>5 DEF Ids
<1>9. /\ mtLedger'.entries \in [Ids(mtLedger'.order) -> Results \cup {None}]
      /\ mtLedger'.entries[id] = None
      /\ \A r \in Ids(mtLedger'.order) \ {id} :
            r \in Ids(mtLedger.order) /\ mtLedger'.entries[r] = mtLedger.entries[r]
  BY <1>1, <1>3, <1>7, <1>8
<1>10. /\ Len(mtLedger'.order) = IF Len(mtRan') <= LedgerSize THEN Len(mtRan') ELSE LedgerSize
       /\ \A k \in 1 .. Len(mtLedger'.order) :
            mtLedger'.order[k] = mtRan'[Len(mtRan') - Len(mtLedger'.order) + k]
  <2>1. /\ last \in Nat /\ Len(kept) \in Nat /\ LedgerSize \in Nat \ {0}
        /\ Len(kept) = IF last < LedgerSize THEN last ELSE LedgerSize - 1
        /\ Len(mtLedger'.order) = Len(kept) + 1 /\ Len(mtRan') = last + 1
    BY Zenon, <1>1, <1>4, <1>5, <1>6
  <2>2. ASSUME NEW k \in 1 .. Len(kept)
        PROVE  mtLedger'.order[k] = mtRan'[Len(mtRan') - Len(mtLedger'.order) + k]
    <3>1. /\ last - Len(kept) + k \in 1 .. last
          /\ Len(mtRan') - Len(mtLedger'.order) + k = last - Len(kept) + k
      BY <2>1
    <3> QED  BY Zenon, <1>4, <1>5, <1>6, <3>1
  <2>3. mtLedger'.order[Len(kept) + 1] = mtRan'[Len(mtRan') - Len(mtLedger'.order) + (Len(kept) + 1)]
    <3>1. Len(mtRan') - Len(mtLedger'.order) + (Len(kept) + 1) = last + 1
      BY <2>1
    <3> QED  BY Zenon, <1>5, <1>6, <3>1
  <2>4. \A k \in 1 .. Len(mtLedger'.order) : k \in 1 .. Len(kept) \/ k = Len(kept) + 1
    BY <2>1
  <2>5. Len(mtLedger'.order) = IF Len(mtRan') <= LedgerSize THEN Len(mtRan') ELSE LedgerSize
    BY <2>1
  <2> QED  BY Zenon, <2>2, <2>3, <2>4, <2>5
<1>11. \A i \in 1 .. last : mtRan[i] = id => last + 1 - i > LedgerSize
  <2> SUFFICES ASSUME NEW i \in 1 .. last, mtRan[i] = id, ~(last + 1 - i > LedgerSize) PROVE FALSE
    BY Zenon
  <2> DEFINE k == i - (last - Len(mtLedger.order))
  <2>0. /\ last \in Nat /\ Len(mtLedger.order) \in Nat /\ LedgerSize \in Nat \ {0}
        /\ Len(mtLedger.order) = IF last <= LedgerSize THEN last ELSE LedgerSize
        /\ DOMAIN mtLedger.order = 1 .. Len(mtLedger.order)
    BY <1>1
  <2>1. k \in 1 .. Len(mtLedger.order) /\ last - Len(mtLedger.order) + k = i
    BY <2>0
  <2>2. mtLedger.order[k] = id /\ k \in DOMAIN mtLedger.order
    <3>1. mtLedger.order[k] = mtRan[last - Len(mtLedger.order) + k]
      BY Zenon, <1>1, <2>1
    <3> QED  BY Zenon, <2>0, <2>1, <3>1
  <2>3. id \in Ids(mtLedger.order)
    BY Zenon, <2>2 DEF Ids
  <2> QED  BY Zenon, <1>1, <2>3 DEF Known
<1>12. RunsOnceWithinLedger'
  <2>1. \A i, j \in 1 .. last : i < j /\ mtRan[i] = mtRan[j] => j - i > LedgerSize
    BY <1>1 DEF LedgerIsTail, RunsOnceWithinLedger, last
  <2> SUFFICES ASSUME NEW i \in 1 .. last + 1, NEW j \in 1 .. last + 1, i < j, mtRan'[i] = mtRan'[j]
               PROVE  j - i > LedgerSize
    BY <1>6 DEF RunsOnceWithinLedger
  <2>2. CASE j = last + 1
    BY <1>1, <1>6, <1>11, <2>2
  <2>3. CASE j # last + 1
    BY <1>1, <1>6, <2>1, <2>3
  <2> QED  BY Zenon, <2>2, <2>3
<1> QED  BY Zenon, <1>3, <1>5, <1>6, <1>7, <1>9, <1>10, <1>12 DEF LedgerIsTail

\* hold and resolved write one entry.
LEMMA LedgerSets ==
    ASSUME LedgerIsTail, NEW id \in Ids(mtLedger.order), NEW slot \in Results \cup {None},
           mtLedger' = ledger_set(mtLedger, id, slot), UNCHANGED mtRan
    PROVE  /\ LedgerIsTail' /\ mtLedger'.order = mtLedger.order
           /\ mtLedger'.entries[id] = slot
           /\ \A r \in Ids(mtLedger.order) \ {id} : mtLedger'.entries[r] = mtLedger.entries[r]
<1>1. /\ mtLedger = [order |-> mtLedger.order, entries |-> mtLedger.entries]
      /\ mtLedger.entries \in [Ids(mtLedger.order) -> Results \cup {None}]
  BY Zenon DEF LedgerIsTail
<1>2. mtLedger' = [mtLedger EXCEPT !.entries[id] = slot]
  BY Zenon, <1>1 DEF ledger_set, Known
<1>3. /\ mtLedger'.order = mtLedger.order /\ mtLedger'.entries = [mtLedger.entries EXCEPT ![id] = slot]
      /\ mtLedger' = [order |-> mtLedger'.order, entries |-> mtLedger'.entries]
  BY Zenon, <1>1, <1>2
<1>4. /\ mtLedger'.entries \in [Ids(mtLedger.order) -> Results \cup {None}] /\ mtLedger'.entries[id] = slot
      /\ \A r \in Ids(mtLedger.order) \ {id} : mtLedger'.entries[r] = mtLedger.entries[r]
  BY Zenon, <1>1, <1>3
<1>5. RunsOnceWithinLedger'
  BY Zenon DEF LedgerIsTail, RunsOnceWithinLedger
<1> QED  BY ZenonT(60), <1>3, <1>4, <1>5 DEF LedgerIsTail

\* A run's result is never the mark of a resolved entry.
LEMMA ResultsAreHeld ==
    /\ None \notin Results /\ None.signals = 0
    /\ \A token : resolve(token) # {} /\ resolve(token) \subseteq Results
    /\ \A x \in Results \cup {None} : x.signals \in {0, 1}
<1>1. None \notin Results /\ None.signals = 0 /\ \A x \in Results \cup {None} : x.signals \in {0, 1}
  BY DEF None, Results
<1>2. Resolved("refused", 0) \in Results
  BY Zenon DEF Resolved, Results
<1>3. \A token : task_run(token) \subseteq Results
  BY DEF task_run, Resolved, Results
<1> QED  BY Zenon, <1>1, <1>2, <1>3 DEF resolve

\* The fields of a job.
LEMMA JobFields ==
    ASSUME JobShape
    PROVE  /\ mtJob = NoJob <=> mtJob.at = "idle"
           /\ mtJob.at \in {"idle", "settle", "signals", "ack", "nak"}
           /\ mtJob.at # "idle" => mtJob.cmd \in Commands /\ RunOf[mtJob.cmd] \in RunIds
           /\ mtJob.at = "settle" => mtJob.res \in Results
           /\ mtJob.at = "signals" => mtJob.left \in {0, 1} /\ mtJob \in Signals
<1>1. /\ mtJob = NoJob <=> mtJob.at = "idle"
      /\ mtJob.at \in {"idle", "settle", "signals", "ack", "nak"}
      /\ mtJob.at # "idle" => mtJob.cmd \in Commands
      /\ mtJob.at = "settle" => mtJob.res \in Results
      /\ mtJob.at = "signals" => mtJob.left \in {0, 1} /\ mtJob \in Signals
  <2>1. \/ mtJob \in Settles \/ mtJob \in Signals \/ mtJob \in Answering \/ mtJob = NoJob
    BY Zenon DEF JobShape
  <2>2. NoJob.at = "idle"
    BY Zenon DEF NoJob
  <2>3. CASE mtJob \in Settles
    BY Zenon, <2>2, <2>3 DEF Settles
  <2>4. CASE mtJob \in Signals
    BY Zenon, <2>2, <2>4 DEF Signals
  <2>5. CASE mtJob \in Answering
    BY Zenon, <2>2, <2>5 DEF Answering
  <2> QED  BY Zenon, <2>1, <2>2, <2>3, <2>4, <2>5
<1> QED  BY Zenon, <1>1 DEF RunIds

\* A job of each kind.
LEMMA JobKinds ==
    ASSUME NEW c \in Commands
    PROVE  /\ \A res \in Results : [at |-> "settle", cmd |-> c, res |-> res] \in Settles
           /\ \A n \in {0, 1} : [at |-> "signals", cmd |-> c, left |-> n] \in Signals
           /\ [at |-> "ack", cmd |-> c] \in Answering /\ [at |-> "nak", cmd |-> c] \in Answering
BY Zenon DEF Settles, Signals, Answering

\* One more of a counted run.
LEMMA OneMore ==
    ASSUME NEW S, NEW f \in [S -> Nat], NEW x \in S
    PROVE  /\ [f EXCEPT ![x] = @ + 1] \in [S -> Nat] /\ [f EXCEPT ![x] = @ + 1][x] = f[x] + 1
           /\ \A y \in S \ {x} : [f EXCEPT ![x] = @ + 1][y] = f[y]
           /\ \A y \in S : f[y] <= [f EXCEPT ![x] = @ + 1][y]
           /\ \A y \in S : f[y] > 0 => [f EXCEPT ![x] = @ + 1][y] > 0
OBVIOUS

\* What the ledger knows, and what it owes.
LEMMA OwedIsSmall ==
    ASSUME JobShape, LedgerIsTail
    PROVE  /\ \A r : Known(mtLedger, r) <=> r \in Ids(mtLedger.order)
           /\ \A r : Held(r) \in {0, 1} /\ Owed(r) \in {0, 1}
<1>1. mtLedger.entries \in [Ids(mtLedger.order) -> Results \cup {None}]
  BY Zenon DEF LedgerIsTail
<1>2. \A r : Held(r) \in {0, 1}
  BY Zenon, <1>1, ResultsAreHeld DEF Held
<1>3. \A r : Owed(r) \in {0, 1}
  BY Zenon, <1>2, JobFields, ResultsAreHeld DEF Owed, Settling
<1> QED  BY Zenon, <1>1, <1>2, <1>3 DEF Known

LEMMA OwedIsSmallNext == (JobShape /\ LedgerIsTail => \A r : Held(r) \in {0, 1} /\ Owed(r) \in {0, 1})'
<1>1. JobShape /\ LedgerIsTail => \A r : Held(r) \in {0, 1} /\ Owed(r) \in {0, 1}
  BY Zenon, OwedIsSmall
<1> QED  BY <1>1, PTL

\* A step that owes no more, and publishes no signal.
LEMMA OwesNoMore ==
    ASSUME JobShape, LedgerIsTail, SignalsOwed, (JobShape /\ LedgerIsTail)',
           UNCHANGED <<mtSignals, mtRuns>>,
           \A r \in RunIds : Owed(r)' <= Owed(r)
    PROVE  SignalsOwed'
<1>1. \A r \in RunIds : Owed(r) \in {0, 1} /\ Owed(r)' \in {0, 1}
  BY Zenon, OwedIsSmall, OwedIsSmallNext
<1> SUFFICES ASSUME NEW r \in RunIds PROVE mtSignals[r] + Owed(r)' <= mtRuns[r]
  BY Zenon DEF SignalsOwed
<1>2. /\ mtSignals[r] \in Nat /\ mtRuns[r] \in Nat /\ Owed(r) \in {0, 1} /\ Owed(r)' \in {0, 1}
      /\ Owed(r)' <= Owed(r) /\ mtSignals[r] + Owed(r) <= mtRuns[r]
  BY Zenon, <1>1 DEF JobShape, SignalsOwed
<1> QED  BY <1>2

\* A delivery is answered from the ledger, or starts a run.
LEMMA HandleKeeps ==
    ASSUME MaintenanceInv, NEW c \in Commands, Handle(c)
    PROVE  MaintenanceInv'
<1> DEFINE id == RunOf[c]
<1>0. /\ JobShape /\ LedgerIsTail /\ LedgerTells /\ SignalsOwed /\ id \in RunIds
      /\ mtJob = NoJob /\ mtJob.at = "idle" /\ mtDue[c] > 0
      /\ mtDue' = [mtDue EXCEPT ![c] = @ - 1] /\ UNCHANGED <<mtAcked, mtOutcomes, mtSignals>>
  BY Zenon, JobFields DEF Handle, MaintenanceInv, RunIds
<1>1. mtDue' \in [Commands -> Nat]
  BY <1>0 DEF JobShape
<1>2. \A r \in Ids(mtLedger.order) : mtLedger.entries[r] = None => mtOutcomes[r] > 0
  BY Zenon, <1>0 DEF LedgerTells, Settling
<1>3. \A r : Owed(r) = Held(r)
  BY Zenon, <1>0 DEF Owed, Settling
<1>4. AckedIsRecorded'
  BY Zenon, <1>0 DEF LedgerTells, AckedIsRecorded
<1>5. CASE Known(mtLedger, id)
  <2>1. id \in Ids(mtLedger.order) /\ UNCHANGED <<mtLedger, mtRan, mtRuns>>
    BY Zenon, <1>0, <1>5, OwedIsSmall DEF Handle
  <2>2. LedgerIsTail' /\ \A r : Held(r)' = Held(r)
    BY Zenon, <1>0, <2>1 DEF LedgerIsTail, RunsOnceWithinLedger, Held
  <2>3. CASE mtLedger.entries[id] = None
    <3>1. mtJob' = [at |-> "ack", cmd |-> c]
      BY Zenon, <1>5, <2>3 DEF Handle
    <3>2. mtJob'.at = "ack" /\ mtJob'.cmd = c /\ mtJob' \in Answering
      BY Zenon, <3>1, JobKinds
    <3>3. JobShape'
      BY Zenon, <1>0, <1>1, <2>1, <3>2 DEF JobShape
    <3>4. LedgerTells'
      BY Zenon, <1>0, <1>2, <1>4, <2>1, <2>3, <3>2 DEF LedgerTells
    <3>5. \A r : Owed(r)' = Owed(r)
      BY Zenon, <1>3, <2>2, <3>2 DEF Owed, Settling
    <3>6. SignalsOwed'
      BY Zenon, <1>0, <2>1, <3>5 DEF SignalsOwed
    <3> QED  BY Zenon, <2>2, <3>3, <3>4, <3>6 DEF MaintenanceInv
  <2>4. CASE mtLedger.entries[id] # None
    <3>1. mtJob' = [at |-> "settle", cmd |-> c, res |-> mtLedger.entries[id]] /\ mtLedger.entries[id] \in Results
      <4>1. mtLedger.entries[id] \in Results
        BY Zenon, <1>0, <2>1, <2>4 DEF LedgerIsTail
      <4> QED  BY Zenon, <1>5, <2>4, <4>1 DEF Handle
    <3>2. mtJob'.at = "settle" /\ mtJob'.cmd = c /\ mtJob'.res = mtLedger.entries[id] /\ mtJob' \in Settles
      BY Zenon, <3>1, JobKinds
    <3>3. JobShape'
      BY Zenon, <1>0, <1>1, <2>1, <3>2 DEF JobShape
    <3>4. LedgerTells'
      BY Zenon, <1>0, <1>2, <1>4, <2>1, <3>2 DEF LedgerTells
    <3>5. \A r : Owed(r)' = Owed(r)
      BY Zenon, <1>3, <2>1, <2>2, <3>2 DEF Owed, Settling, Held
    <3>6. SignalsOwed'
      BY Zenon, <1>0, <2>1, <3>5 DEF SignalsOwed
    <3> QED  BY Zenon, <2>2, <3>3, <3>4, <3>6 DEF MaintenanceInv
  <2> QED  BY Zenon, <2>3, <2>4
<1>6. CASE ~Known(mtLedger, id)
  <2>1. /\ mtLedger' = ledger_start(mtLedger, id) /\ mtRan' = Append(mtRan, id)
        /\ mtRuns' = [mtRuns EXCEPT ![id] = @ + 1]
        /\ \E res \in resolve(TaskOf[c]) : mtJob' = [at |-> "settle", cmd |-> c, res |-> res]
    BY Zenon, <1>6 DEF Handle
  <2>2. /\ LedgerIsTail' /\ id \in Ids(mtLedger'.order) /\ mtLedger'.entries[id] = None
        /\ \A r \in Ids(mtLedger'.order) \ {id} :
              r \in Ids(mtLedger.order) /\ mtLedger'.entries[r] = mtLedger.entries[r]
    BY Zenon, <1>0, <1>6, <2>1, LedgerStarts
  <2>3. /\ mtRuns' \in [RunIds -> Nat] /\ mtRuns'[id] = mtRuns[id] + 1
        /\ \A r \in RunIds \ {id} : mtRuns'[r] = mtRuns[r]
    <3>1. mtRuns \in [RunIds -> Nat]
      BY Zenon, <1>0 DEF JobShape
    <3> QED  BY Zenon, <1>0, <2>1, <3>1, OneMore
  <2>4. PICK res \in Results : mtJob' = [at |-> "settle", cmd |-> c, res |-> res]
    BY Zenon, <2>1, ResultsAreHeld
  <2>5. mtJob'.at = "settle" /\ mtJob'.cmd = c /\ mtJob'.res = res /\ mtJob' \in Settles
    BY Zenon, <2>4, JobKinds
  <2>6. JobShape'
    BY Zenon, <1>0, <1>1, <2>3, <2>5 DEF JobShape
  <2>7. LedgerTells'
    <3>1. \A r \in Ids(mtLedger'.order) : mtLedger'.entries[r] = None => mtOutcomes'[r] > 0 \/ RunOf[mtJob'.cmd] = r
      BY Zenon, <1>0, <1>2, <2>2, <2>5
    <3> QED  BY Zenon, <1>4, <2>2, <2>5, <3>1 DEF LedgerTells, Settling
  <2>8. ASSUME NEW r \in RunIds PROVE mtSignals'[r] + Owed(r)' <= mtRuns'[r]
    <3>1. /\ mtSignals[r] \in Nat /\ mtRuns[r] \in Nat /\ mtSignals[r] + Owed(r) <= mtRuns[r]
          /\ Owed(r) \in {0, 1} /\ Owed(r)' \in {0, 1} /\ mtSignals'[r] = mtSignals[r]
      BY Zenon, <1>0, <2>2, <2>6, OwedIsSmall, OwedIsSmallNext DEF JobShape, SignalsOwed
    <3>2. CASE r = id
      BY <2>3, <3>1, <3>2
    <3>3. CASE r # id
      <4>1. Owed(r)' = Held(r)'
        BY Zenon, <2>5, <3>3 DEF Owed, Settling
      <4>2. Held(r)' = 0 \/ Held(r)' = Held(r)
        BY Zenon, <2>2, <3>3 DEF Held
      <4>3. Owed(r) = Held(r) /\ mtRuns'[r] = mtRuns[r]
        BY Zenon, <1>3, <2>3, <3>3
      <4> QED  BY <3>1, <4>1, <4>2, <4>3
    <3> QED  BY Zenon, <3>2, <3>3
  <2> QED  BY Zenon, <2>2, <2>6, <2>7, <2>8 DEF MaintenanceInv, SignalsOwed
<1> QED  BY Zenon, <1>5, <1>6

\* The outcome of a run is published, or held.
LEMMA SettleKeeps ==
    ASSUME MaintenanceInv, Settle
    PROVE  MaintenanceInv'
<1> DEFINE id == RunOf[mtJob.cmd]
<1>0. /\ JobShape /\ LedgerIsTail /\ LedgerTells /\ SignalsOwed /\ mtJob.at = "settle"
      /\ mtJob.cmd \in Commands /\ id \in RunIds /\ mtJob.res \in Results /\ mtJob.res # None
      /\ mtJob.res.signals \in {0, 1} /\ id \in Ids(mtLedger.order)
      /\ UNCHANGED <<mtAcked, mtDue, mtRan, mtSignals, mtRuns>>
  BY Zenon, JobFields, ResultsAreHeld DEF Settle, MaintenanceInv, LedgerTells
<1>1. \A r : Owed(r) = IF id = r THEN mtJob.res.signals ELSE Held(r)
  BY Zenon, <1>0 DEF Owed, Settling
<1>2. ASSUME mtOutcomes' \in {mtOutcomes, [mtOutcomes EXCEPT ![id] = @ + 1]}
      PROVE  /\ mtOutcomes' \in [RunIds -> Nat] /\ AckedIsRecorded'
             /\ \A r \in RunIds : mtOutcomes[r] > 0 => mtOutcomes'[r] > 0
  <2>1. mtOutcomes' \in [RunIds -> Nat] /\ \A r \in RunIds : mtOutcomes[r] > 0 => mtOutcomes'[r] > 0
    <3>1. CASE mtOutcomes' = mtOutcomes
      BY Zenon, <1>0, <3>1 DEF JobShape
    <3>2. CASE mtOutcomes' = [mtOutcomes EXCEPT ![id] = @ + 1]
      BY Zenon, <1>0, <3>2, OneMore DEF JobShape
    <3> QED  BY Zenon, <1>2, <3>1, <3>2
  <2>2. \A d \in mtAcked : RunOf[d] \in RunIds
    BY Zenon, <1>0 DEF JobShape, RunIds
  <2> QED  BY Zenon, <1>0, <2>1, <2>2 DEF LedgerTells, AckedIsRecorded
<1>3. Ids(mtLedger.order) \subseteq RunIds
  BY <1>0 DEF LedgerIsTail, Ids
<1>4. CASE /\ mtOutcomes' = [mtOutcomes EXCEPT ![id] = @ + 1]
           /\ mtJob' = [at |-> "signals", cmd |-> mtJob.cmd, left |-> mtJob.res.signals]
           /\ UNCHANGED mtLedger
  <2>1. mtJob'.at = "signals" /\ mtJob'.cmd = mtJob.cmd /\ mtJob'.left = mtJob.res.signals /\ mtJob' \in Signals
    BY Zenon, <1>0, <1>4, JobKinds
  <2>2. LedgerIsTail' /\ \A r : Held(r)' = Held(r)
    BY Zenon, <1>0, <1>4 DEF LedgerIsTail, RunsOnceWithinLedger, Held
  <2>3. JobShape'
    BY Zenon, <1>0, <1>2, <1>4, <2>1 DEF JobShape
  <2>4. mtOutcomes'[id] > 0
    <3>1. mtOutcomes'[id] = mtOutcomes[id] + 1 /\ mtOutcomes[id] \in Nat
      BY Zenon, <1>0, <1>4, OneMore DEF JobShape
    <3> QED  BY <3>1
  <2>5. LedgerTells'
    <3>1. \A r \in Ids(mtLedger.order) : mtLedger.entries[r] = None => mtOutcomes'[r] > 0
      BY Zenon, <1>0, <1>2, <1>3, <1>4, <2>4 DEF LedgerTells, Settling
    <3> QED  BY Zenon, <1>0, <1>2, <1>4, <2>1, <2>4, <3>1 DEF LedgerTells
  <2>6. \A r : Owed(r)' = Owed(r)
    BY Zenon, <1>1, <2>1, <2>2 DEF Owed, Settling
  <2>7. SignalsOwed'
    BY Zenon, <1>0, <2>6 DEF SignalsOwed
  <2> QED  BY Zenon, <2>2, <2>3, <2>5, <2>7 DEF MaintenanceInv
<1>5. CASE /\ mtOutcomes' \in {mtOutcomes, [mtOutcomes EXCEPT ![id] = @ + 1]}
           /\ mtLedger' = ledger_set(mtLedger, id, mtJob.res)
           /\ mtJob' = [at |-> "nak", cmd |-> mtJob.cmd]
  <2>1. mtJob'.at = "nak" /\ mtJob'.cmd = mtJob.cmd /\ mtJob' \in Answering
    BY Zenon, <1>0, <1>5, JobKinds
  <2>2. /\ LedgerIsTail' /\ mtLedger'.order = mtLedger.order /\ mtLedger'.entries[id] = mtJob.res
        /\ \A r \in Ids(mtLedger.order) \ {id} : mtLedger'.entries[r] = mtLedger.entries[r]
    BY Zenon, <1>0, <1>5, LedgerSets
  <2>3. JobShape'
    BY Zenon, <1>0, <1>2, <1>5, <2>1 DEF JobShape
  <2>4. LedgerTells'
    <3>1. ASSUME NEW r \in Ids(mtLedger.order), mtLedger'.entries[r] = None PROVE mtOutcomes'[r] > 0
      <4>1. r # id
        BY Zenon, <1>0, <2>2, <3>1
      <4>2. mtLedger.entries[r] = None
        BY Zenon, <2>2, <3>1, <4>1
      <4> QED  BY Zenon, <1>0, <1>2, <1>3, <1>5, <4>1, <4>2 DEF LedgerTells, Settling
    <3> QED  BY Zenon, <1>0, <1>2, <1>5, <2>1, <2>2, <3>1 DEF LedgerTells
  <2>5. \A r : Owed(r)' = Owed(r)
    <3>1. \A r : Owed(r)' = Held(r)'
      BY Zenon, <2>1 DEF Owed, Settling
    <3>2. \A r : Held(r)' = IF id = r THEN mtJob.res.signals ELSE Held(r)
      BY Zenon, <1>0, <2>2 DEF Held
    <3> QED  BY Zenon, <1>1, <3>1, <3>2
  <2>6. SignalsOwed'
    BY Zenon, <1>0, <2>5 DEF SignalsOwed
  <2> QED  BY Zenon, <2>2, <2>3, <2>4, <2>6 DEF MaintenanceInv
<1> QED  BY Zenon, <1>4, <1>5 DEF Settle

\* A signal is published or dropped; the last one resolves the entry.
LEMMA SignalsKeep ==
    ASSUME MaintenanceInv, PublishSignals
    PROVE  MaintenanceInv'
<1> DEFINE id == RunOf[mtJob.cmd]
<1>0. /\ JobShape /\ LedgerIsTail /\ LedgerTells /\ SignalsOwed /\ mtJob.at = "signals"
      /\ mtJob.cmd \in Commands /\ id \in RunIds /\ mtJob.left \in {0, 1} /\ mtJob \in Signals
      /\ id \in Ids(mtLedger.order) /\ mtOutcomes[id] > 0
      /\ UNCHANGED <<mtAcked, mtDue, mtRan, mtOutcomes, mtRuns>>
  BY Zenon, JobFields DEF PublishSignals, MaintenanceInv, LedgerTells
<1>1. \A r : Owed(r) = IF id = r THEN mtJob.left ELSE Held(r)
  BY Zenon, <1>0 DEF Owed, Settling
<1>2. AckedIsRecorded' /\ \A r \in Ids(mtLedger.order) : mtLedger.entries[r] = None => mtOutcomes[r] > 0
  BY Zenon, <1>0 DEF LedgerTells, AckedIsRecorded, Settling
<1>3. CASE mtJob.left > 0
  <2>1. /\ mtJob' = [mtJob EXCEPT !.left = @ - 1] /\ UNCHANGED mtLedger
        /\ mtSignals' \in {mtSignals, [mtSignals EXCEPT ![id] = @ + 1]}
    BY Zenon, <1>3 DEF PublishSignals
  <2>2. mtJob.left = 1
    BY <1>0, <1>3
  <2>3. mtJob'.at = "signals" /\ mtJob'.cmd = mtJob.cmd /\ mtJob'.left = 0 /\ mtJob' \in Signals
    <3>1. mtJob' = [mtJob EXCEPT !.left = 0]
      BY <2>1, <2>2
    <3> QED  BY Zenon, <1>0, <3>1 DEF Signals
  <2>4. LedgerIsTail' /\ \A r : Held(r)' = Held(r)
    BY Zenon, <1>0, <2>1 DEF LedgerIsTail, RunsOnceWithinLedger, Held
  <2>5. mtSignals' \in [RunIds -> Nat]
    <3>1. CASE mtSignals' = mtSignals
      BY Zenon, <1>0, <3>1 DEF JobShape
    <3>2. CASE mtSignals' = [mtSignals EXCEPT ![id] = @ + 1]
      BY Zenon, <1>0, <3>2, OneMore DEF JobShape
    <3> QED  BY Zenon, <2>1, <3>1, <3>2
  <2>6. JobShape'
    BY Zenon, <1>0, <2>3, <2>5 DEF JobShape
  <2>7. LedgerTells'
    BY Zenon, <1>0, <1>2, <2>1, <2>3 DEF LedgerTells
  <2>8. ASSUME NEW r \in RunIds PROVE mtSignals'[r] + Owed(r)' <= mtRuns'[r]
    <3>1. /\ mtSignals[r] \in Nat /\ mtRuns[r] \in Nat /\ mtSignals[r] + Owed(r) <= mtRuns[r]
          /\ Owed(r) \in {0, 1} /\ mtRuns'[r] = mtRuns[r]
      BY Zenon, <1>0, OwedIsSmall DEF JobShape, SignalsOwed
    <3>2. Owed(r)' = IF id = r THEN 0 ELSE Held(r)
      BY Zenon, <2>3, <2>4 DEF Owed, Settling
    <3>3. CASE r = id
      <4>1. mtSignals'[r] \in {mtSignals[r], mtSignals[r] + 1}
        BY Zenon, <1>0, <2>1, <3>3 DEF JobShape
      <4>2. Owed(r) = 1 /\ Owed(r)' = 0
        BY Zenon, <1>1, <2>2, <3>2, <3>3
      <4> QED  BY <3>1, <4>1, <4>2
    <3>4. CASE r # id
      <4>1. mtSignals'[r] = mtSignals[r]
        BY Zenon, <1>0, <2>1, <3>4 DEF JobShape
      <4>2. Owed(r)' = Owed(r)
        BY Zenon, <1>1, <3>2, <3>4
      <4> QED  BY Zenon, <3>1, <4>1, <4>2
    <3> QED  BY Zenon, <3>3, <3>4
  <2> QED  BY Zenon, <2>4, <2>6, <2>7, <2>8 DEF MaintenanceInv, SignalsOwed
<1>4. CASE ~(mtJob.left > 0)
  <2>1. /\ mtJob' = [at |-> "ack", cmd |-> mtJob.cmd] /\ mtLedger' = ledger_set(mtLedger, id, None)
        /\ UNCHANGED mtSignals
    BY Zenon, <1>4 DEF PublishSignals
  <2>2. mtJob'.at = "ack" /\ mtJob'.cmd = mtJob.cmd /\ mtJob' \in Answering
    BY Zenon, <1>0, <2>1, JobKinds
  <2>3. /\ LedgerIsTail' /\ mtLedger'.order = mtLedger.order /\ mtLedger'.entries[id] = None
        /\ \A r \in Ids(mtLedger.order) \ {id} : mtLedger'.entries[r] = mtLedger.entries[r]
    BY Zenon, <1>0, <2>1, LedgerSets
  <2>4. JobShape'
    BY Zenon, <1>0, <2>1, <2>2 DEF JobShape
  <2>5. LedgerTells'
    <3>1. \A r \in Ids(mtLedger.order) : mtLedger'.entries[r] = None => mtOutcomes[r] > 0
      BY Zenon, <1>0, <1>2, <2>3
    <3> QED  BY Zenon, <1>0, <1>2, <2>2, <2>3, <3>1 DEF LedgerTells
  <2>6. \A r \in RunIds : Owed(r)' <= Owed(r)
    <3>1. \A r : Owed(r)' = Held(r)'
      BY Zenon, <2>2 DEF Owed, Settling
    <3>2. \A r : Held(r)' = IF id = r THEN 0 ELSE Held(r)
      BY Zenon, <1>0, <2>3, ResultsAreHeld DEF Held
    <3>3. mtJob.left = 0 /\ \A r : Held(r) \in {0, 1}
      BY <1>0, <1>4, OwedIsSmall
    <3> QED  BY <1>1, <3>1, <3>2, <3>3
  <2>7. SignalsOwed'
    BY Zenon, <1>0, <2>1, <2>3, <2>4, <2>6, OwesNoMore
  <2> QED  BY Zenon, <2>3, <2>4, <2>5, <2>7 DEF MaintenanceInv
<1> QED  BY Zenon, <1>3, <1>4

\* An answer, a lapse and a death.
LEMMA RestKeeps ==
    ASSUME MaintenanceInv, Answered \/ Lapse \/ Die
    PROVE  MaintenanceInv'
<1>0. /\ JobShape /\ LedgerIsTail /\ LedgerTells /\ SignalsOwed
      /\ UNCHANGED <<mtOutcomes, mtSignals, mtRuns>>
  BY Zenon DEF Answered, Lapse, Die, MaintenanceInv
<1>1. CASE Answered
  <2>1. /\ mtJob.at \in {"ack", "nak"} /\ mtJob' = NoJob /\ mtJob.cmd \in Commands
        /\ UNCHANGED <<mtLedger, mtRan>>
        /\ \/ mtJob.at = "ack" /\ mtAcked' = mtAcked \union {mtJob.cmd} /\ UNCHANGED mtDue
           \/ mtDue' = [mtDue EXCEPT ![mtJob.cmd] = @ + 1] /\ UNCHANGED mtAcked
    BY Zenon, <1>0, <1>1, JobFields DEF Answered
  <2>2. mtJob'.at = "idle"
    BY Zenon, <2>1 DEF NoJob
  <2>3. mtDue' \in [Commands -> Nat] /\ mtAcked' \subseteq Commands
    <3>1. CASE UNCHANGED mtAcked /\ mtDue' = [mtDue EXCEPT ![mtJob.cmd] = @ + 1]
      BY Zenon, <1>0, <2>1, <3>1, OneMore DEF JobShape
    <3>2. CASE UNCHANGED mtDue /\ mtAcked' = mtAcked \union {mtJob.cmd}
      BY Zenon, <1>0, <2>1, <3>2 DEF JobShape
    <3> QED  BY Zenon, <2>1, <3>1, <3>2
  <2>4. JobShape'
    BY Zenon, <1>0, <2>1, <2>3 DEF JobShape
  <2>5. LedgerIsTail' /\ \A r : Held(r)' = Held(r)
    BY Zenon, <1>0, <2>1 DEF LedgerIsTail, RunsOnceWithinLedger, Held
  <2>6. AckedIsRecorded'
    BY Zenon, <1>0, <2>1 DEF LedgerTells, AckedIsRecorded
  <2>7. LedgerTells'
    BY Zenon, <1>0, <2>1, <2>2, <2>6 DEF LedgerTells, Settling
  <2>8. \A r : Owed(r)' = Owed(r)
    BY Zenon, <2>1, <2>2, <2>5 DEF Owed, Settling
  <2>9. SignalsOwed'
    BY Zenon, <1>0, <2>8 DEF SignalsOwed
  <2> QED  BY Zenon, <2>4, <2>5, <2>7, <2>9 DEF MaintenanceInv
<1>2. CASE Lapse
  <2>1. /\ mtJob.cmd \in Commands /\ mtDue' = [mtDue EXCEPT ![mtJob.cmd] = @ + 1]
        /\ UNCHANGED <<mtLedger, mtRan, mtAcked, mtJob>>
    BY Zenon, <1>0, <1>2, JobFields DEF Lapse
  <2>2. mtDue' \in [Commands -> Nat]
    <3>1. mtDue \in [Commands -> Nat]
      BY Zenon, <1>0 DEF JobShape
    <3> QED  BY Zenon, <1>0, <2>1, <3>1, OneMore
  <2>3. JobShape'
    BY Zenon, <1>0, <2>1, <2>2 DEF JobShape
  <2> QED  BY Zenon, <1>0, <2>1, <2>3
           DEF MaintenanceInv, LedgerIsTail, RunsOnceWithinLedger, LedgerTells, AckedIsRecorded, SignalsOwed,
               Owed, Held, Settling
<1>3. CASE Die
  <2>1. /\ mtLedger' = EmptyLedger /\ mtJob' = NoJob /\ mtRan' = <<>> /\ UNCHANGED mtAcked
        /\ mtDue' = [c \in Commands |-> IF c \in mtAcked \/ ~MaintenanceOn THEN 0 ELSE 1]
    BY Zenon, <1>3 DEF Die
  <2>2. /\ mtJob'.at = "idle" /\ mtDue' \in [Commands -> Nat]
    BY Zenon, <2>1 DEF NoJob
  <2>3. /\ mtLedger'.order = <<>> /\ mtLedger'.entries = <<>> /\ Ids(mtLedger'.order) = {}
        /\ mtLedger' = [order |-> mtLedger'.order, entries |-> mtLedger'.entries]
    BY <2>1 DEF EmptyLedger, Ids
  <2>4. JobShape'
    BY Zenon, <1>0, <2>1, <2>2 DEF JobShape
  <2>5. RunsOnceWithinLedger'
    BY <2>1 DEF RunsOnceWithinLedger
  <2>6. mtLedger'.entries \in [Ids(mtLedger'.order) -> Results \cup {None}]
    BY <2>3
  <2>7. LedgerIsTail'
    BY <2>1, <2>3, <2>5, <2>6, LedgerAssumption DEF LedgerIsTail
  <2>8. LedgerTells'
    BY Zenon, <1>0, <2>1, <2>2, <2>3 DEF LedgerTells, AckedIsRecorded
  <2>9. \A r \in RunIds : Owed(r)' <= Owed(r)
    <3>1. \A r : Owed(r)' = 0
      BY Zenon, <2>2, <2>3 DEF Owed, Settling, Held
    <3>2. \A r : Owed(r) \in {0, 1}
      BY Zenon, <1>0, OwedIsSmall
    <3> QED  BY <3>1, <3>2
  <2>10. SignalsOwed'
    BY Zenon, <1>0, <2>4, <2>7, <2>9, OwesNoMore
  <2> QED  BY Zenon, <2>4, <2>7, <2>8, <2>10 DEF MaintenanceInv
<1> QED  BY Zenon, <1>1, <1>2, <1>3

LEMMA MaintenanceHolds == MaintenanceSpec => []MaintenanceInv
<1>1. MaintenanceInit => MaintenanceInv
  <2> SUFFICES ASSUME MaintenanceInit PROVE MaintenanceInv
    BY Zenon
  <2>1. /\ mtJob = NoJob /\ mtJob.at = "idle" /\ mtAcked = {} /\ mtRan = <<>> /\ mtLedger = EmptyLedger
    BY Zenon DEF MaintenanceInit, NoJob
  <2>2. /\ mtLedger.order = <<>> /\ mtLedger.entries = <<>> /\ Ids(mtLedger.order) = {}
        /\ mtLedger = [order |-> mtLedger.order, entries |-> mtLedger.entries]
    BY <2>1 DEF EmptyLedger, Ids
  <2>3. /\ mtDue \in [Commands -> Nat] /\ mtOutcomes \in [RunIds -> Nat] /\ mtSignals \in [RunIds -> Nat]
        /\ mtRuns \in [RunIds -> Nat] /\ \A r \in RunIds : mtSignals[r] = 0 /\ mtRuns[r] = 0
    BY Zenon DEF MaintenanceInit
  <2>4. JobShape
    BY Zenon, <2>1, <2>3 DEF JobShape
  <2>5. RunsOnceWithinLedger
    BY <2>1 DEF RunsOnceWithinLedger
  <2>6. mtLedger.entries \in [Ids(mtLedger.order) -> Results \cup {None}]
    BY <2>2
  <2>7. LedgerIsTail
    BY <2>1, <2>2, <2>5, <2>6, LedgerAssumption DEF LedgerIsTail
  <2>8. LedgerTells
    BY Zenon, <2>1, <2>2 DEF LedgerTells, AckedIsRecorded
  <2>9. \A r \in RunIds : Owed(r) = 0
    BY Zenon, <2>1, <2>2 DEF Owed, Settling, Held
  <2>10. SignalsOwed
    BY <2>3, <2>9 DEF SignalsOwed
  <2> QED  BY Zenon, <2>4, <2>7, <2>8, <2>10 DEF MaintenanceInv
<1>2. MaintenanceInv /\ [MaintenanceNext]_maintVars => MaintenanceInv'
  <2> SUFFICES ASSUME MaintenanceInv, [MaintenanceNext]_maintVars PROVE MaintenanceInv'
    BY Zenon
  <2>1. CASE MaintenanceNext
    BY Zenon, <2>1, HandleKeeps, SettleKeeps, SignalsKeep, RestKeeps DEF MaintenanceNext
  <2>2. CASE UNCHANGED maintVars
    <3>1. UNCHANGED <<mtAcked, mtDue, mtLedger, mtJob, mtRan, mtOutcomes, mtSignals, mtRuns>>
      BY Zenon, <2>2 DEF maintVars
    <3> QED  BY Zenon, <3>1
             DEF MaintenanceInv, JobShape, LedgerIsTail, RunsOnceWithinLedger, LedgerTells, AckedIsRecorded,
                 SignalsOwed, Owed, Held, Settling
  <2> QED  BY Zenon, <2>1, <2>2
<1> QED  BY <1>1, <1>2, PTL DEF MaintenanceSpec

\* A redelivered maintenance command is answered from RunLedger and not run again,
\* for a ledger of any size, until that many other runs have started since.
THEOREM RedeliveriesAreAnswered == MaintenanceSpec => []RunsOnceWithinLedger
<1>1. MaintenanceInv => RunsOnceWithinLedger
  BY Zenon DEF MaintenanceInv, LedgerIsTail
<1> QED  BY <1>1, MaintenanceHolds, PTL

\* The consumer acks a command only when its outcome is on the log.
THEOREM AcksFollowOutcomes == MaintenanceSpec => []AckedIsRecorded
<1>1. MaintenanceInv => AckedIsRecorded
  BY Zenon DEF MaintenanceInv, LedgerTells
<1> QED  BY <1>1, MaintenanceHolds, PTL

\* However often an outcome is published again, the signals of its run go out once.
THEOREM SignalsFollowRuns == MaintenanceSpec => []SignalsOncePerRun
<1>1. MaintenanceInv => SignalsOncePerRun
  <2> SUFFICES ASSUME MaintenanceInv, NEW r \in RunIds PROVE mtSignals[r] <= mtRuns[r]
    BY Zenon DEF SignalsOncePerRun
  <2>1. /\ mtSignals[r] \in Nat /\ mtRuns[r] \in Nat /\ mtSignals[r] + Owed(r) <= mtRuns[r]
        /\ Owed(r) \in {0, 1}
    BY Zenon, OwedIsSmall DEF MaintenanceInv, JobShape, SignalsOwed
  <2> QED  BY <2>1
<1> QED  BY <1>1, MaintenanceHolds, PTL
=============================================================================
