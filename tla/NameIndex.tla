------------------------------- MODULE NameIndex -------------------------------
(***************************************************************************)
(* The storage index of fq-store (index.rs): the mutable layer of names    *)
(* over the immutable content store.  Each SqliteNameIndex method is one   *)
(* SQLite transaction, so each is one operator on the tables here; the     *)
(* processes that call them are in StoreGc.                                *)
(*                                                                         *)
(* A table with a primary key is a function whose domain is the set of     *)
(* rows.  `recent` stands for touched_at: a row is recent until a reap     *)
(* grace has passed since a writer last reserved or minted it.             *)
(***************************************************************************)
EXTENDS Integers, FiniteSets, Sequences, Functions

CONSTANTS Names,     \* names a client binds
          Objects,   \* content ids
          Hashes,    \* block hashes
          MaxGen     \* bound: the largest generation of a block ever minted

ASSUME IndexAssumption == MaxGen \in Nat

Gens      == 0 .. MaxGen
BlockKeys == Hashes \X Gens

VARIABLES
    versions,  \* name_versions: the versions of each name, oldest first
    objects,   \* objects: content id -> row
    edges,     \* object_blocks: the block generations each object references
    blocks     \* blocks: <<hash, generation>> -> row

indexVars == <<versions, objects, edges, blocks>>

Row    == [rc : Nat, available : BOOLEAN, recent : BOOLEAN]
NewRow == [rc |-> 1, available |-> TRUE, recent |-> TRUE]

Without(t, k) == Restrict(t, DOMAIN t \ {k})
With(t, k, r) == [x \in DOMAIN t \cup {k} |-> IF x = k THEN r ELSE t[x]]
Touch(r)      == [r EXCEPT !.rc = @ + 1, !.recent = TRUE]

\* `UPDATE ... SET refcount = refcount - 1` for each key of ks that has a row.
Release(t, ks) == [k \in DOMAIN t |-> IF k \in ks THEN [t[k] EXCEPT !.rc = @ - 1] ELSE t[k]]

IndexInit ==
    /\ versions = [n \in Names |-> <<>>]
    /\ objects = <<>>
    /\ edges = [o \in Objects |-> {}]
    /\ blocks = <<>>

Current(n)  == versions[n][Len(versions[n])]
Bound(n, o) == Cardinality({i \in DOMAIN versions[n] : versions[n][i] = o})

\* The name-version rows that reference an object: its true reference count.
NameRefs(o) ==
    Cardinality(UNION {{<<n, i>> : i \in {j \in DOMAIN versions[n] : versions[n][j] = o}} :
                       n \in Names})

\* The generations of a hash a writer may reserve.
Available(h) == {g \in Gens : <<h, g>> \in DOMAIN blocks /\ blocks[<<h, g>>].available}

Reserved(h) == [k \in DOMAIN blocks |->
                   IF k[1] = h /\ blocks[k].available THEN Touch(blocks[k]) ELSE blocks[k]]

\* The smallest generation that has no row (MaxGen + 1 when the bound is used up).
NextGeneration(h) ==
    CHOOSE g \in 0 .. MaxGen + 1 : /\ <<h, g>> \notin DOMAIN blocks
                                   /\ \A f \in 0 .. g - 1 : <<h, f>> \in DOMAIN blocks

MintRefusedByKey(h, g) == <<h, g>> \in DOMAIN blocks

\* mint_block inserts only while no generation is available and the key is free.
MintRefused(h, g) == Available(h) # {} \/ <<h, g>> \in DOMAIN blocks

\* A claimed object is refused; an absent one only a put may create.
ReserveRefused(o, create) ==
    IF o \in DOMAIN objects THEN ~objects[o].available ELSE ~create

ReservedObject(o) == With(objects, o, IF o \in DOMAIN objects THEN Touch(objects[o]) ELSE NewRow)

\* Edges are keyed by (object, block): an edge to another generation stays.
NewEdges(o, reserved) ==
    [edges EXCEPT ![o] = @ \cup {k \in reserved : ~ \E e \in @ : e[1] = k[1]}]

Bind(n, o, reserved, prev) ==
    IF versions[n] # <<>> /\ Current(n) = o
      THEN /\ objects' = Release(objects, {o})
           /\ blocks' = Release(blocks, reserved)
           /\ UNCHANGED <<versions, edges>>
      ELSE /\ versions' = [versions EXCEPT ![n] = Append(@, o)]
           /\ edges' = IF prev = 0 THEN NewEdges(o, reserved) ELSE edges
           /\ blocks' = IF prev = 0 THEN blocks ELSE Release(blocks, reserved)
           /\ UNCHANGED objects

\* The objects whose last references go with name n.
Dying(n) == {o \in DOMAIN objects : Bound(n, o) > 0 /\ objects[o].rc = Bound(n, o)}

Unbind(n) ==
    /\ versions' = [versions EXCEPT ![n] = <<>>]
    /\ objects' = [o \in DOMAIN objects |-> [objects[o] EXCEPT !.rc = @ - Bound(n, o)]]
    /\ blocks' = [k \in DOMAIN blocks |->
                     [blocks[k] EXCEPT !.rc = @ - Cardinality({o \in Dying(n) : k \in edges[o]})]]
    /\ edges' = [o \in Objects |-> IF o \in Dying(n) THEN {} ELSE edges[o]]

--------------------------------------------------------------------------------
(***************************************************************************)
(* The collector's and the auditor's transactions, on either table.        *)
(***************************************************************************)

Dead(t)         == {k \in DOMAIN t : t[k].rc = 0}
Claimable(t, k) == k \in DOMAIN t /\ t[k].rc = 0 /\ t[k].available
Claimed(t, k)   == [t EXCEPT ![k].available = FALSE]
Deletable(t, k) == k \in DOMAIN t /\ t[k].rc = 0 /\ ~t[k].available

ReconciledAtOnce(t, k, want) ==
    IF k \in DOMAIN t /\ t[k].rc > want THEN [t EXCEPT ![k].rc = want] ELSE t

ReconciledBelow(t, k, want) ==
    IF k \in DOMAIN t /\ t[k].rc > want /\ ~t[k].recent
      THEN [t EXCEPT ![k].rc = want - 1] ELSE t

\* reconcile_block and reconcile_object: only drift, and only past the grace.
Reconciled(t, k, want) ==
    IF k \in DOMAIN t /\ t[k].rc > want /\ ~t[k].recent
      THEN [t EXCEPT ![k].rc = want] ELSE t

DeleteObject(o) ==
    /\ objects' = IF Deletable(objects, o) THEN Without(objects, o) ELSE objects
    /\ edges' = IF Deletable(objects, o) THEN [edges EXCEPT ![o] = {}] ELSE edges

\* derived_refcounts: the live objects that reference a block generation.
LiveRefs(k) == Cardinality({o \in DOMAIN objects : objects[o].rc > 0 /\ k \in edges[o]})

\* The tables hold what their schema says, and no reference count is negative.
IndexTypeOK ==
    /\ versions \in [Names -> Seq(Objects)]
    /\ DOMAIN objects \subseteq Objects /\ Range(objects) \subseteq Row
    /\ edges \in [Objects -> SUBSET BlockKeys]
    /\ DOMAIN blocks \subseteq BlockKeys /\ Range(blocks) \subseteq Row
================================================================================
