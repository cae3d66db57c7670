--------------------------------- MODULE Pricing ---------------------------------
(***************************************************************************)
(* The price list of a running daemon: pricing/accept.rs decides what of a *)
(* fetched LiteLLM document is accepted, pricing/live.rs loads and caches  *)
(* it, pricing/refresh.rs swaps it under running invocations,              *)
(* pricing/episodes.rs decides what an operator is told, and the daemon's  *)
(* pricing.rs layers OpenRouter's catalogue and the configured overrides   *)
(* over it and refuses to start without a price for every declared model.  *)
(*                                                                         *)
(* A document maps models to entries; an entry has an input price and a    *)
(* cache price, either of which it may not state.  The SHA-256 digest of a *)
(* document is the document.  Context windows, commits and ETags are left  *)
(* out: nothing is decided by them.                                        *)
(***************************************************************************)
EXTENDS Integers, Sequences, FiniteSets, TLC

CONSTANTS Documents,   \* what the upstream may answer with
          FirstCaches, \* documents the disk may hold before the first start
          Catalogues,  \* OpenRouter's answers: [ok, whole, doc]
          Routed,      \* models declared under an OpenRouter provider
          KeyOf,       \* LiteLLM's openrouter/<id> key, by routed model
          Overrides,   \* [providers.<name>.pricing]: prices by model
          Declared,    \* the models the providers declare
          MaxDrift,    \* max_drift_ratio
          MaxAge,      \* [pricing] max_age
          MaxDay,      \* bound: the clock
          MaxLoads     \* bound: loads, at a start or by a refresh

VARIABLES disk,     \* pricing.json: readable or not, and the document
          side,     \* pricing.provenance.json: [known, doc, at]
          orDisk,   \* openrouter-pricing.json: [ok, doc]
          up,       \* the daemon runs
          served,   \* ServedPricing: [entries, prov]
          overlay,  \* PricingOverlay
          open,     \* PricingEpisodes: the conditions raised and not resolved
          told,     \* the signals this process handed to its publisher
          last,     \* history: what the last load found, [failed, stale, refused]
          call,     \* the model of the LLM call in flight, if any
          day, loads

priceVars == <<disk, side, orDisk, up, served, overlay, open, told, last, call, day, loads>>

Unstated == -1
NoProv   == [known |-> FALSE, doc |-> <<>>, at |-> 0]
NoLoad   == [failed |-> FALSE, stale |-> FALSE, refused |-> {}]

--------------------------------------------------------------------------------
(***************************************************************************)
(* Acceptance.                                                             *)
(***************************************************************************)
is_positive(p) == p > 0

\* PriceField::ORDER: the field a refusal names is the first that failed.
FieldOrder == <<"input", "cache">>
FirstOf(bad) == FieldOrder[CHOOSE i \in DOMAIN FieldOrder :
                     FieldOrder[i] \in bad /\ \A j \in 1 .. i - 1 : FieldOrder[j] \notin bad]

\* An entry is a price list when it states an input price.
from_litellm_document(doc) ==
    [m \in {n \in DOMAIN doc : doc[n].input # Unstated} |-> doc[m]]

Implausible(e) == {f \in {"input", "cache"} : e[f] # Unstated /\ ~is_positive(e[f])}

judge_admission(e) == Implausible(e) = {}

\* A field that is dropped is no change; one that is new is judged on its own.
Drifts(old, new) == new > MaxDrift * old \/ old > MaxDrift * new

\* (A bound on rises only.)
judge_change_up(old, new) ==
    {f \in {"input", "cache"} :
        /\ new[f] # Unstated
        /\ ~is_positive(new[f]) \/ (old[f] # Unstated /\ new[f] > MaxDrift * old[f])}

judge_change(old, new) ==
    {f \in {"input", "cache"} :
        /\ new[f] # Unstated
        /\ \/ ~is_positive(new[f])
           \/ old[f] # Unstated /\ Drifts(old[f], new[f])}

\* A prior that fails the plausibility floor is no prior.
PriorAny(prior, m) == m \in DOMAIN prior
Prior(prior, m) == m \in DOMAIN prior /\ judge_admission(prior[m])

Refused(prior, cand, m) ==
    IF Prior(prior, m) THEN judge_change(prior[m], cand[m]) ELSE Implausible(cand[m])

accept(prior, cand) ==
    LET bad  == {m \in DOMAIN cand : Refused(prior, cand, m) # {}}
        gone == {m \in bad : ~Prior(prior, m)}
    IN  [entries  |-> [m \in DOMAIN cand \ gone |-> IF m \in bad THEN prior[m] ELSE cand[m]],
         refusals |-> {[model |-> m, field |-> FirstOf(Refused(prior, cand, m)),
                        admission |-> m \in gone] : m \in bad}]

\* The bytes that are cached: the fetched document, spliced.
accepted_document_raw(prior, fetched, refusals) == fetched

accepted_document(prior, fetched, refusals) ==
    LET kept == {r.model : r \in {x \in refusals : ~x.admission /\ x.model \in DOMAIN prior}}
        out  == {r.model : r \in refusals} \ kept
    IN  [m \in DOMAIN fetched \ out |-> IF m \in kept THEN prior[m] ELSE fetched[m]]

--------------------------------------------------------------------------------
(***************************************************************************)
(* The load: read the cache, accept or fall back, write the cache.         *)
(***************************************************************************)

\* read_cache: a sidecar that names other bytes is dropped.
read_provenance == IF disk.ok /\ side.known /\ side.doc = disk.doc THEN side ELSE NoProv

last_known_good ==
    LET p == read_provenance
    IN  [entries |-> from_litellm_document(disk.doc), prov |-> p, refusals |-> {},
         failed |-> TRUE, stale |-> p.known /\ day - p.at > MaxAge]

settle(fetched) ==
    IF ~fetched.ok THEN last_known_good
    ELSE LET a == accept(from_litellm_document(disk.doc), from_litellm_document(fetched.doc))
             d == accepted_document(disk.doc, fetched.doc, a.refusals)
         IN  [entries |-> a.entries, prov |-> [known |-> TRUE, doc |-> d, at |-> day],
              refusals |-> a.refusals, failed |-> FALSE, stale |-> FALSE]

\* The document is written, then the sidecar.  A write that fails half way leaves
\* a file that does not parse.
write_cache(load, wrote) ==
    IF load.failed THEN UNCHANGED <<disk, side>>
    ELSE /\ disk' = CASE wrote \in {"both", "bare"} -> [ok |-> TRUE, doc |-> load.prov.doc]
                      [] wrote = "torn"             -> [ok |-> FALSE, doc |-> <<>>]
                      [] OTHER                      -> disk
         /\ side' = IF wrote = "both" THEN load.prov ELSE side

Answers == {[ok |-> TRUE, doc |-> d] : d \in Documents} \cup {[ok |-> FALSE, doc |-> <<>>]}

--------------------------------------------------------------------------------
(***************************************************************************)
(* What an operator is told.                                               *)
(***************************************************************************)
Keys(refusals) == {<<"refused", r.model, r.field>> : r \in {x \in refusals : ~x.admission}}

\* AcceptedLoad::signals, as the conditions they report.
signals(load) ==
    (IF load.failed THEN {<<"fetch">>} ELSE {})
        \cup Keys(load.refusals) \cup (IF load.stale THEN {<<"stale">>} ELSE {})

\* A load that accepted a document ends both standing conditions; a refusal ends
\* with the first load that does not make it.
Ended(load) ==
    {k \in open : IF k[1] = "refused" THEN k \notin Keys(load.refusals)
                  ELSE IF k[1] = "stale" THEN ~load.failed /\ ~load.stale ELSE ~load.failed}

edges_repeat(load) ==
    /\ open' = (open \cup signals(load)) \ Ended(load)
    /\ told' = told \o <<[raise |-> signals(load), close |-> Ended(load)]>>

\* Recurrences are dropped, recoveries added.
edges(load) ==
    LET raised == signals(load) \ open
        ended  == Ended(load)
    IN  /\ open' = (open \cup raised) \ ended
        /\ told' = told \o <<[raise |-> raised, close |-> ended]>>

Note(load) == last' = [failed |-> load.failed, stale |-> load.stale,
                       refused |-> Keys(load.refusals)]

--------------------------------------------------------------------------------
(***************************************************************************)
(* A start.                                                                *)
(***************************************************************************)

\* load_source: what was fetched is written before it is parsed.
load_source(cat) ==
    LET kept == IF cat.ok THEN [ok |-> cat.whole, doc |-> cat.doc] ELSE orDisk
    IN  /\ orDisk' = kept

Catalogue == IF orDisk'.ok THEN orDisk'.doc ELSE <<>>

\* Each routed model: the catalogue's price, the prefixed key's, or its own.
price_openrouter_models(t) ==
    LET FromKey(m) == m \notin DOMAIN t /\ KeyOf[m] \in DOMAIN t
        ms == {m \in Routed : m \in DOMAIN Catalogue \/ FromKey(m) \/ m \in DOMAIN t}
    IN  [m \in ms |-> IF m \in DOMAIN Catalogue THEN Catalogue[m]
                      ELSE IF FromKey(m) THEN t[KeyOf[m]] ELSE t[m]]

\* The overrides win, and every declared model is priced.
build_validated_pricing(lay) == Overrides @@ lay

validate_model_registry(t) == \A m \in Declared : m \in DOMAIN t

Boot(fetched, cat, wrote) ==
    /\ ~up /\ loads < MaxLoads
    /\ LET load  == settle(fetched)
           lay   == build_validated_pricing(price_openrouter_models(load.entries))
           table == lay @@ load.entries
       IN  /\ load_source(cat)
           /\ write_cache(load, wrote)
           /\ IF validate_model_registry(table)
                THEN /\ up' = TRUE
                     /\ served' = [entries |-> table, prov |-> load.prov]
                     /\ overlay' = lay
                     /\ edges(load) /\ Note(load)
                ELSE UNCHANGED <<up, served, overlay, open, told, last>>
    /\ loads' = loads + 1
    /\ UNCHANGED <<call, day>>

--------------------------------------------------------------------------------
(***************************************************************************)
(* A refresh.                                                              *)
(***************************************************************************)

\* The result starts as the served table, takes what was accepted, then the overlay.
merge_fresh(acc) == [entries |-> overlay @@ acc.entries, prov |-> acc.prov]
merge(acc) == [entries |-> overlay @@ acc.entries @@ served.entries, prov |-> acc.prov]

Refresh(fetched, wrote) ==
    /\ up /\ loads < MaxLoads
    /\ LET load == settle(fetched)
       IN  /\ write_cache(load, wrote)
           /\ edges(load) /\ Note(load)
           /\ served' = merge(load)
    /\ loads' = loads + 1
    /\ UNCHANGED <<orDisk, up, overlay, call, day>>

--------------------------------------------------------------------------------
(***************************************************************************)
(* Calls, time and the end of the process.                                 *)
(***************************************************************************)

\* unpriced_model_refusal lets the call through; the cost is read at its end.
Call(m) ==
    /\ up /\ call = {} /\ m \in DOMAIN served.entries
    /\ call' = call \cup {m}
    /\ UNCHANGED <<disk, side, orDisk, up, served, overlay, open, told, last, day, loads>>

Answer(m) ==
    /\ up /\ m \in call
    /\ call' = call \ {m}
    /\ UNCHANGED <<disk, side, orDisk, up, served, overlay, open, told, last, day, loads>>

Stop ==
    /\ up
    /\ up' = FALSE /\ call' = {} /\ open' = {} /\ told' = <<>> /\ last' = NoLoad
    /\ served' = [entries |-> <<>>, prov |-> NoProv] /\ overlay' = <<>>
    /\ UNCHANGED <<disk, side, orDisk, day, loads>>

DayPasses ==
    /\ day < MaxDay /\ loads < MaxLoads
    /\ day' = day + 1
    /\ UNCHANGED <<disk, side, orDisk, up, served, overlay, open, told, last, call, loads>>

PricingInit ==
    /\ disk \in {[ok |-> TRUE, doc |-> d] : d \in FirstCaches}
    /\ side = NoProv
    /\ orDisk = [ok |-> FALSE, doc |-> <<>>]
    /\ up = FALSE /\ served = [entries |-> <<>>, prov |-> NoProv] /\ overlay = <<>>
    /\ open = {} /\ told = <<>> /\ last = NoLoad
    /\ call = {} /\ day = 0 /\ loads = 0

Writes == {"both", "bare", "torn", "none"}

PricingNext ==
    \/ \E f \in Answers, c \in Catalogues, w \in Writes : Boot(f, c, w)
    \/ \E f \in Answers, w \in Writes : Refresh(f, w)
    \/ \E m \in Declared : Call(m) \/ Answer(m)
    \/ Stop \/ DayPasses

--------------------------------------------------------------------------------
(***************************************************************************)
(* Properties.                                                             *)
(***************************************************************************)

\* From one accepted document to the next, a price that is stated in both moves by
\* at most the ratio, in either direction, and never to zero (accept.rs's drift
\* bound, whichever of a start or a refresh wrote it).
DriftBounded ==
    [][\A m \in DOMAIN disk.doc \cap DOMAIN disk'.doc :
          LET old == disk.doc[m] new == disk'.doc[m]
          IN  judge_admission(old) /\ old.input # Unstated /\ new.input # Unstated
                => \A f \in {"input", "cache"} : old[f] # Unstated /\ new[f] # Unstated
                     => is_positive(new[f]) /\ ~Drifts(old[f], new[f])]_disk

\* No accepted document holds a price of zero, whichever route the model took into
\* it: admission, a refused change, or a prior from before acceptance existed.
AcceptedIsPlausible ==
    read_provenance.known =>
        LET t == from_litellm_document(disk.doc)
        IN  \A m \in DOMAIN t : judge_admission(t[m])

\* A served price is configuration's where configuration covers the model, and
\* otherwise that of the document the table cites wherever that document lists the
\* model (merge, accepted_document: the bytes say what acceptance decided).
CitedTablePriced ==
    up => LET t == from_litellm_document(served.prov.doc)
          IN  /\ \A m \in DOMAIN Overrides : served.entries[m] = Overrides[m]
              /\ \A m \in DOMAIN overlay : served.entries[m] = overlay[m]
              /\ served.prov.known => \A m \in DOMAIN t \ DOMAIN overlay :
                                          m \in DOMAIN served.entries /\ served.entries[m] = t[m]

\* A refresh never takes a price away: a call that was let through because its model
\* was priced still finds a price when it ends, and every declared model keeps one.
AdmittedStaysPriced == up => (call \cup Declared) \subseteq DOMAIN served.entries

\* Within one process a condition is raised once and closed once before it is raised
\* again, and after a load that accepted a document the conditions still open are
\* exactly the changes it refused; after one that failed, the failure is open, and
\* so is the staleness it found (PricingEpisodes::edges).
EpisodesPaired ==
    LET Edges(k) == SelectSeq([i \in DOMAIN told |->
                        IF k \in told[i].raise THEN 1 ELSE IF k \in told[i].close THEN 0 ELSE -1],
                        LAMBDA x : x # -1)
        Seen == UNION {told[i].raise \cup told[i].close : i \in DOMAIN told}
    IN  /\ \A k \in Seen : \A i \in DOMAIN Edges(k) : Edges(k)[i] = i % 2
        /\ up => IF last.failed
                   THEN <<"fetch">> \in open /\ (last.stale => <<"stale">> \in open)
                   ELSE open = last.refused
================================================================================
