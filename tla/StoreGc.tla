-------------------------------- MODULE StoreGc --------------------------------
(***************************************************************************)
(* The processes of fq-store that share the index (NameIndex) and the      *)
(* content directory: Repository::put and Repository::bind                 *)
(* (repository.rs), ReferenceCollector::collect (collector.rs) and         *)
(* ReachabilityAuditor::audit (audit.rs) over FilesystemStore (fs.rs).     *)
(* `fq-cas` starts a process per command, so a put, an alias, a removal    *)
(* and a gc run concurrently and each may be killed between two steps.     *)
(* Every await that reads or writes the index or the directory ends a      *)
(* step.                                                                   *)
(*                                                                         *)
(* An object is the set of its block hashes.  The reap grace is longer     *)
(* than any operation that is still running: time moves past it (Age) only *)
(* while no writer is in flight.  What a process may meet is an            *)
(* environment, chosen at the start:                                       *)
(*   steady    nothing fails, one writer runs at a time, and an alias      *)
(*             names an object that is bound when it begins;               *)
(*   recovery  as steady, but the writer or the sweep may be killed or may *)
(*             fail, and no write begins before an audit has passed over   *)
(*             what was left;                                              *)
(*   any       no restriction.                                             *)
(***************************************************************************)
EXTENDS NameIndex

CONSTANTS Writers,       \* processes that put, alias and remove
          BlocksOf,      \* the block hashes of each object
          Environments,  \* which of the environments above a run allows
          MaxOps,        \* bound: operations begun
          MaxSweeps,     \* bound: gc runs
          MaxKills       \* bound: processes killed and operations failed

ASSUME StoreAssumption ==
    /\ BlocksOf \in [Objects -> SUBSET Hashes]
    /\ Environments \subseteq {"steady", "recovery", "any"}
    /\ MaxOps \in Nat /\ MaxSweeps \in Nat /\ MaxKills \in Nat

VARIABLES
    manifests,  \* objects/: content id -> the block generations its manifest lists
    files,      \* blocks/: the block files present
    fresh,      \* files and manifests modified less than a grace ago
    writer,     \* each writer's operation
    sweep,      \* the gc process
    env,        \* the environment of this behaviour
    unswept,    \* recovery: what was cut short is "left", being "swept", or "none"
    calm,       \* history: audits completed since anything else happened, -1 while
                \* the running one shares the store
    ops, sweeps, kills

diskVars  == <<manifests, files, fresh>>
boundVars == <<env, unswept, calm, ops, sweeps, kills>>
storeVars == <<indexVars, diskVars, writer, sweep, boundVars>>

Idle == [pc |-> "idle"]
NoSweep == [pc |-> "idle"]

StoreInit ==
    /\ IndexInit
    /\ manifests = <<>> /\ files = {} /\ fresh = {}
    /\ writer = [w \in Writers |-> Idle]
    /\ sweep = NoSweep
    /\ env \in Environments
    /\ unswept = "none" /\ calm = 0
    /\ ops = 0 /\ sweeps = 0 /\ kills = 0

At(w, p)    == writer[w].pc = p
Quiet       == \A w \in Writers : At(w, "idle")
Disturb     == calm' = IF sweep.pc = "idle" THEN 0 ELSE -1
Goto(w, p)  == writer' = [writer EXCEPT ![w].pc = p]
Leave(w)    == writer' = [writer EXCEPT ![w] = Idle]
MayBegin    == ops < MaxOps /\ unswept = "none"

\* The order of a set of pending items is the order of rows or chunks: fixed.
First(S) == CHOOSE x \in S : TRUE

--------------------------------------------------------------------------------
(***************************************************************************)
(* Writers.                                                                *)
(***************************************************************************)

Begin(w, op, n, o, hashes) ==
    /\ At(w, "idle") /\ MayBegin
    /\ env # "any" => Quiet
    /\ writer' = [writer EXCEPT ![w] =
          [pc |-> "block", op |-> op, name |-> n, cid |-> o, todo |-> hashes,
           reserved |-> {}, gen |-> 0, prev |-> 0]]
    /\ ops' = ops + 1 /\ Disturb
    /\ UNCHANGED <<indexVars, diskVars, sweep, env, unswept, sweeps, kills>>

Put(w, n, o) == Begin(w, "put", n, o, BlocksOf[o])

\* An alias takes its hashes from the manifest; without one it ends (NotFound).
Alias(w, n, o) ==
    /\ o \in DOMAIN manifests
    /\ env # "any" => NameRefs(o) > 0
    /\ Begin(w, "alias", n, o, {k[1] : k \in manifests[o]})

Holding(w, k) == [writer EXCEPT ![w].todo = @ \ {k[1]}, ![w].reserved = @ \cup {k},
                                ![w].pc = "block"]

\* reserve_block.  When nothing is available a put goes on to mint; an alias ends
\* in Conflict and keeps what it reserved so far.
ReserveBlock(w) ==
    /\ At(w, "block") /\ writer[w].todo # {}
    /\ LET h == First(writer[w].todo)
       IN  \/ \E g \in Available(h) :
                 blocks' = Reserved(h) /\ writer' = Holding(w, <<h, g>>)
           \/ /\ Available(h) = {} /\ UNCHANGED blocks
              /\ IF writer[w].op = "put" THEN Goto(w, "generation") ELSE Leave(w)
    /\ UNCHANGED <<versions, objects, edges, diskVars, sweep, boundVars>>

PickGeneration(w) ==
    /\ At(w, "generation")
    /\ LET g == NextGeneration(First(writer[w].todo))
       IN  /\ g \in Gens
           /\ writer' = [writer EXCEPT ![w].pc = "write", ![w].gen = g]
    /\ UNCHANGED <<indexVars, diskVars, sweep, boundVars>>

\* write_block: a file that is already there is kept, with its age.
WriteBlock(w) ==
    /\ At(w, "write")
    /\ LET k == <<First(writer[w].todo), writer[w].gen>>
       IN  /\ files' = files \cup {k}
           /\ fresh' = IF k \in files THEN fresh ELSE fresh \cup {k}
    /\ Goto(w, "mint")
    /\ UNCHANGED <<indexVars, manifests, sweep, boundVars>>

MintBlock(w) ==
    /\ At(w, "mint")
    /\ LET h == First(writer[w].todo)
           k == <<h, writer[w].gen>>
       IN  IF MintRefused(h, writer[w].gen)
             THEN Goto(w, "block") /\ UNCHANGED blocks
             ELSE blocks' = With(blocks, k, NewRow) /\ writer' = Holding(w, k)
    /\ UNCHANGED <<versions, objects, edges, diskVars, sweep, boundVars>>

\* reserve_object.  A put that is refused tries again (up to MAX_RESERVE_ATTEMPTS).
ReserveObject(w) ==
    /\ At(w, "block") /\ writer[w].todo = {}
    /\ LET o == writer[w].cid
       IN  /\ ~ReserveRefused(o, writer[w].op = "put")
           /\ objects' = ReservedObject(o)
           /\ writer' = [writer EXCEPT ![w].pc = "manifest",
                                       ![w].prev = ReservedObject(o)[o].rc - 1]
    /\ UNCHANGED <<versions, edges, blocks, diskVars, sweep, boundVars>>

\* Conflict: the object is claimed (or, for an alias, gone).
RefusedObject(w) ==
    /\ At(w, "block") /\ writer[w].todo = {}
    /\ ReserveRefused(writer[w].cid, writer[w].op = "put")
    /\ blocks' = Release(blocks, writer[w].reserved)
    /\ Leave(w)
    /\ UNCHANGED <<versions, objects, edges, diskVars, sweep, boundVars>>

\* Any failure past the object reserve gives both reservations back.
GiveBack(w) ==
    /\ objects' = Release(objects, {writer[w].cid})
    /\ blocks' = Release(blocks, writer[w].reserved)
    /\ Leave(w)
    /\ UNCHANGED <<versions, edges, diskVars, sweep>>

\* write_object replaces the manifest; an alias only checks that one is there.
WriteManifest(w) ==
    /\ At(w, "manifest") /\ writer[w].op = "put"
    /\ manifests' = With(manifests, writer[w].cid, writer[w].reserved)
    /\ fresh' = fresh \cup {writer[w].cid}
    /\ Goto(w, "bind")
    /\ UNCHANGED <<indexVars, files, sweep, boundVars>>

Revalidate(w) ==
    /\ At(w, "manifest") /\ writer[w].op = "alias"
    /\ IF writer[w].cid \in DOMAIN manifests
         THEN Goto(w, "bind") /\ UNCHANGED <<indexVars, diskVars, sweep>>
         ELSE GiveBack(w)
    /\ UNCHANGED boundVars

BindName(w) ==
    /\ At(w, "bind")
    /\ Bind(writer[w].name, writer[w].cid, writer[w].reserved, writer[w].prev)
    /\ Leave(w)
    /\ UNCHANGED <<diskVars, sweep, boundVars>>

UnbindName(n) ==
    /\ MayBegin /\ versions[n] # <<>>
    /\ Unbind(n)
    /\ ops' = ops + 1 /\ Disturb
    /\ UNCHANGED <<diskVars, writer, sweep, env, unswept, sweeps, kills>>

MayFail(w) ==
    /\ kills < MaxKills /\ ~At(w, "idle")
    /\ env # "steady"

CutShort ==
    /\ kills' = kills + 1 /\ Disturb
    /\ unswept' = IF env = "recovery" THEN "left" ELSE unswept
    /\ UNCHANGED <<env, ops, sweeps>>

\* write_object or bind returns an error.
FailPut(w) ==
    /\ MayFail(w) /\ writer[w].pc \in {"manifest", "bind"}
    /\ GiveBack(w)
    /\ CutShort

\* The writer's process is killed, or an error before the object reserve leaves
\* `put` by `?`: what it reserved stays reserved.
KillWriter(w) ==
    /\ MayFail(w)
    /\ Leave(w)
    /\ CutShort
    /\ UNCHANGED <<indexVars, diskVars, sweep>>

WriterStep(w) ==
    \/ \E n \in Names, o \in Objects : Put(w, n, o) \/ Alias(w, n, o)
    \/ ReserveBlock(w) \/ PickGeneration(w) \/ WriteBlock(w) \/ MintBlock(w)
    \/ ReserveObject(w) \/ RefusedObject(w)
    \/ WriteManifest(w) \/ Revalidate(w) \/ BindName(w)
    \/ FailPut(w) \/ KillWriter(w)

--------------------------------------------------------------------------------
(***************************************************************************)
(* The gc process: reconcile, collect, reap.                               *)
(***************************************************************************)

DriftOfBlocks ==
    {[table |-> "blocks", key |-> k, want |-> LiveRefs(k)] :
        k \in {j \in DOMAIN blocks : blocks[j].rc > LiveRefs(j)}}

Drift ==
    {[table |-> "blocks", key |-> k, want |-> LiveRefs(k)] :
        k \in {j \in DOMAIN blocks : blocks[j].rc > LiveRefs(j)}}
    \cup {[table |-> "objects", key |-> o, want |-> NameRefs(o)] :
        o \in {p \in DOMAIN objects : objects[p].rc > NameRefs(p)}}

\* A grace has passed since anything was last written.
AllAged ==
    /\ fresh = {}
    /\ \A k \in DOMAIN blocks : ~blocks[k].recent
    /\ \A o \in DOMAIN objects : ~objects[o].recent

SweepAt(p)     == sweep.pc = p
SweepTo(p, S)  == sweep' = [pc |-> p, todo |-> S]
SweepDone(x)   == sweep' = [sweep EXCEPT !.todo = @ \ {x}]
SweepOther     == UNCHANGED <<writer, boundVars>>

\* Phase 1 reads one snapshot and then reconciles row by row.
StartSweep ==
    /\ SweepAt("idle") /\ sweeps < MaxSweeps
    /\ SweepTo("reconcile", Drift)
    /\ sweeps' = sweeps + 1
    /\ unswept' = IF unswept = "left" /\ AllAged THEN "swept" ELSE unswept
    /\ calm' = IF Quiet /\ AllAged THEN calm ELSE -1
    /\ UNCHANGED <<indexVars, diskVars, writer, env, ops, kills>>

Reconcile ==
    /\ SweepAt("reconcile") /\ sweep.todo # {}
    /\ LET d == First(sweep.todo)
       IN  /\ blocks' = IF d.table = "blocks" THEN Reconciled(blocks, d.key, d.want) ELSE blocks
           /\ objects' = IF d.table = "objects" THEN Reconciled(objects, d.key, d.want) ELSE objects
           /\ SweepDone(d)
    /\ UNCHANGED <<versions, edges, diskVars>> /\ SweepOther

ListObjects ==
    /\ SweepAt("reconcile") /\ sweep.todo = {}
    /\ SweepTo("objects", {[key |-> o, mine |-> ~objects[o].available] : o \in Dead(objects)})
    /\ UNCHANGED <<indexVars, diskVars>> /\ SweepOther

OwnedAsListed(t, x) == x.key \in DOMAIN t

\* An orphaned claim is adopted as listed; an available row is claimed first.
Owned(t, x) == x.mine \/ Claimable(t, x.key)

ClaimObject ==
    /\ SweepAt("objects") /\ sweep.todo # {}
    /\ LET x == First(sweep.todo)
       IN  /\ objects' = IF ~x.mine /\ Claimable(objects, x.key) THEN Claimed(objects, x.key) ELSE objects
           /\ sweep' = IF Owned(objects, x)
                         THEN [sweep EXCEPT !.pc = "unlinkObject"]
                         ELSE [sweep EXCEPT !.todo = @ \ {x}]
    /\ UNCHANGED <<versions, edges, blocks, diskVars>> /\ SweepOther

UnlinkObject ==
    /\ SweepAt("unlinkObject")
    /\ LET o == First(sweep.todo).key
       IN  manifests' = Without(manifests, o) /\ fresh' = fresh \ {o}
    /\ sweep' = [sweep EXCEPT !.pc = "deleteObject"]
    /\ UNCHANGED <<indexVars, files>> /\ SweepOther

DeleteObjectRow ==
    /\ SweepAt("deleteObject")
    /\ DeleteObject(First(sweep.todo).key)
    /\ sweep' = [pc |-> "objects", todo |-> sweep.todo \ {First(sweep.todo)}]
    /\ UNCHANGED <<versions, blocks, diskVars>> /\ SweepOther

ListBlocks ==
    /\ SweepAt("objects") /\ sweep.todo = {}
    /\ SweepTo("blocks", {[key |-> k, mine |-> ~blocks[k].available] : k \in Dead(blocks)})
    /\ UNCHANGED <<indexVars, diskVars>> /\ SweepOther

ClaimBlock ==
    /\ SweepAt("blocks") /\ sweep.todo # {}
    /\ LET x == First(sweep.todo)
       IN  /\ blocks' = IF ~x.mine /\ Claimable(blocks, x.key) THEN Claimed(blocks, x.key) ELSE blocks
           /\ sweep' = IF Owned(blocks, x)
                         THEN [sweep EXCEPT !.pc = "unlinkBlock"]
                         ELSE [sweep EXCEPT !.todo = @ \ {x}]
    /\ UNCHANGED <<versions, objects, edges, diskVars>> /\ SweepOther

UnlinkBlock ==
    /\ SweepAt("unlinkBlock")
    /\ LET k == First(sweep.todo).key
       IN  files' = files \ {k} /\ fresh' = fresh \ {k}
    /\ sweep' = [sweep EXCEPT !.pc = "deleteBlock"]
    /\ UNCHANGED <<indexVars, manifests>> /\ SweepOther

DeleteBlockRow ==
    /\ SweepAt("deleteBlock")
    /\ LET x == First(sweep.todo)
       IN  /\ blocks' = IF Deletable(blocks, x.key) THEN Without(blocks, x.key) ELSE blocks
           /\ sweep' = [pc |-> "blocks", todo |-> sweep.todo \ {x}]
    /\ UNCHANGED <<versions, objects, edges, diskVars>> /\ SweepOther

\* Phase 3: the rows are read first, the directories afterwards.
ReadRows ==
    /\ SweepAt("blocks") /\ sweep.todo = {}
    /\ SweepTo("list", DOMAIN blocks \cup DOMAIN objects)
    /\ UNCHANGED <<indexVars, diskVars>> /\ SweepOther

ListFiles ==
    /\ SweepAt("list")
    /\ SweepTo("reap", ((files \cup DOMAIN manifests) \ sweep.todo) \ fresh)
    /\ UNCHANGED <<indexVars, diskVars>> /\ SweepOther

ReapFile ==
    /\ SweepAt("reap") /\ sweep.todo # {}
    /\ LET x == First(sweep.todo)
       IN  /\ files' = files \ {x}
           /\ manifests' = IF x \in DOMAIN manifests THEN Without(manifests, x) ELSE manifests
           /\ fresh' = fresh \ {x}
           /\ SweepDone(x)
    /\ UNCHANGED indexVars /\ SweepOther

EndSweep ==
    /\ SweepAt("reap") /\ sweep.todo = {}
    /\ sweep' = NoSweep
    /\ unswept' = IF unswept = "swept" THEN "none" ELSE unswept
    /\ calm' = IF calm < 2 THEN calm + 1 ELSE calm
    /\ UNCHANGED <<indexVars, diskVars, writer, env, ops, sweeps, kills>>

KillSweep ==
    /\ ~SweepAt("idle") /\ env # "steady" /\ kills < MaxKills
    /\ sweep' = NoSweep
    /\ CutShort
    /\ UNCHANGED <<indexVars, diskVars, writer>>

SweepStep ==
    \/ StartSweep \/ Reconcile
    \/ ListObjects \/ ClaimObject \/ UnlinkObject \/ DeleteObjectRow
    \/ ListBlocks \/ ClaimBlock \/ UnlinkBlock \/ DeleteBlockRow
    \/ ReadRows \/ ListFiles \/ ReapFile \/ EndSweep

\* A grace passes.  An audit fixes its cutoffs when it begins, so rows do not age
\* under it.
Aged(t) == [k \in DOMAIN t |-> [t[k] EXCEPT !.recent = FALSE]]

Age ==
    /\ Quiet /\ SweepAt("idle")
    /\ blocks' = Aged(blocks) /\ objects' = Aged(objects) /\ fresh' = {}
    /\ UNCHANGED <<versions, edges, manifests, files, writer, sweep, boundVars>>

StoreNext ==
    \/ \E w \in Writers : WriterStep(w)
    \/ \E n \in Names : UnbindName(n)
    \/ SweepStep \/ KillSweep
    \/ Age

StoreSpec == StoreInit /\ [][StoreNext]_storeVars

--------------------------------------------------------------------------------
(***************************************************************************)
(* Properties.                                                             *)
(***************************************************************************)

\* The tables and directories hold what they should, and no reference count is
\* negative (verify.rs, NegativeRefcount).
StoreTypeOK ==
    /\ IndexTypeOK
    /\ DOMAIN manifests \subseteq Objects /\ Range(manifests) \subseteq SUBSET BlockKeys
    /\ files \subseteq BlockKeys /\ fresh \subseteq files \cup DOMAIN manifests
    /\ unswept \in {"none", "left", "swept"}

\* What FilesystemStore::get returns: an object whose manifest and blocks are there.
Readable(o) == o \in DOMAIN manifests /\ manifests[o] \subseteq files

\* The claim of `fq-cas gc` (cli.rs): safe on a live store, it never removes anything
\* a live name still needs.  Every version of every bound name can be read.
NoLostLiveBlock == \A n \in Names : \A o \in Range(versions[n]) : Readable(o)

\* What a client is promised, NameStore: a name keeps its versions, each readable,
\* until it is removed, and no gc step is visible.  Outside the serial environments
\* only the bindings are looked at.
Lost == "lost"
Version(n, i) ==
    IF env # "any" => Readable(versions[n][i]) THEN versions[n][i] ELSE Lost

Store == INSTANCE NameStore
         WITH Contents <- Objects, history <- [n \in Names |-> [i \in DOMAIN versions[n] |-> Version(n, i)]]

ImplementsNameStore == Store!Spec

\* Writers that converge on a hash converge on one generation: mint_block refuses a
\* second available one even when two processes mint at once (verify.rs, I1).
OneAvailableGeneration == \A h \in Hashes : Cardinality(Available(h)) <= 1

InFlight(o) ==
    Cardinality({w \in Writers : writer[w].pc \in {"manifest", "bind"} /\ writer[w].cid = o})
Held(k) == Cardinality({w \in Writers : ~At(w, "idle") /\ k \in writer[w].reserved})

\* A count is never below the names, edges and running writers that rely on the row,
\* in any environment and whatever the audit reconciles beside them: a row somebody
\* holds is not collected (verify.rs, I3 to I5, and audit.rs phase 1).
CountsCoverHolders ==
    /\ \A o \in Objects :
          LET n == NameRefs(o) + InFlight(o)
          IN  n > 0 => o \in DOMAIN objects /\ objects[o].rc >= n /\ objects[o].available
    /\ \A k \in BlockKeys :
          LET n == LiveRefs(k) + Held(k)
          IN  n > 0 => k \in DOMAIN blocks /\ blocks[k].rc >= n /\ blocks[k].available

\* The oracle of verify.rs, kind by kind; at rest an object's count equals its names.
Violations(atRest) ==
    {<<"LostLiveBlock", n>> : n \in {m \in Names : versions[m] # <<>> /\
        (Current(m) \notin DOMAIN manifests \/ ~(edges[Current(m)] \subseteq files))}}
    \cup {<<"ObjectRefcountDrift", o>> : o \in {p \in DOMAIN objects :
        objects[p].rc < NameRefs(p) \/ (atRest /\ objects[p].rc # NameRefs(p))}}
    \cup {<<"BlockRefcountTooLow", k>> : k \in {j \in BlockKeys : LiveRefs(j) > 0 /\
        (j \notin DOMAIN blocks \/ blocks[j].rc < LiveRefs(j))}}
    \cup {<<"MultipleAvailableGenerations", h>> : h \in {g \in Hashes : Cardinality(Available(g)) > 1}}
    \cup {<<"ClaimedBlockHasRefs", k>> : k \in {j \in DOMAIN blocks : ~blocks[j].available /\ blocks[j].rc # 0}}

\* Nothing is left to reconcile, collect or reap.
Clean ==
    /\ Violations(TRUE) = {}
    /\ \A k \in DOMAIN blocks : blocks[k].rc = LiveRefs(k)
    /\ Dead(objects) = {} /\ Dead(blocks) = {}
    /\ files = DOMAIN blocks /\ DOMAIN manifests = DOMAIN objects

\* Whatever writers left behind when they failed or were killed, two audits that run
\* a grace later on an otherwise idle store reclaim it all (audit.rs).
AuditsConverge == calm = 2 => Clean
================================================================================
