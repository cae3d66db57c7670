------------------------------ MODULE EdgeProofs ------------------------------
(***************************************************************************)
(* Proofs about the edge: the calls a daemon answers (EdgeCalls), for every *)
(* roster of operations, every token and any number of events and restarts; *)
(* and the identity it serves them under (Pairing), for any number of       *)
(* clients, identities and kills.                                           *)
(***************************************************************************)
EXTENDS EdgeCalls, Pairing, FiniteSetTheorems, TLAPS

(***************************************************************************)
(* The catalogue: the three tables of the registry agree, name by name.     *)
(***************************************************************************)
TablesAgree ==
    /\ \A d \in ecEntries : \A n \in Claimed(d) : n \in DOMAIN ecNames /\ ecNames[n] = d
    /\ \A n \in DOMAIN ecNames : /\ ecNames[n] \in ecEntries /\ n \in Claimed(ecNames[n])
                                 /\ n \in DOMAIN ecHandlers \cup DOMAIN ecStreams
    /\ \A n \in DOMAIN ecHandlers : n \in DOMAIN ecNames /\ ecHandlers[n] = ecNames[n]
    /\ \A n \in DOMAIN ecStreams : n \in DOMAIN ecNames /\ ecStreams[n] = ecNames[n]

\* A registration that may_register lets through keeps the tables in agreement.
LEMMA RegisterKeepsTables ==
    ASSUME TablesAgree, RegisterNext
    PROVE  TablesAgree'
<1> DEFINE d == Head(ecRoster)
<1>1. CASE ~may_register(d)
  BY Zenon, <1>1 DEF RegisterNext, TablesAgree
<1>2. CASE may_register(d)
  <2> DEFINE C == Claimed(d)  S == Streamed(d)
  <2>1. C \cap DOMAIN ecNames = {} /\ S \subseteq C
    BY Zenon, <1>2 DEF may_register, Streamed
  <2>2. /\ ecEntries' = ecEntries \cup {d}
        /\ ecNames' = bind(ecNames, C, d)
        /\ ecHandlers' = bind(ecHandlers, C \ S, d)
        /\ ecStreams' = bind(ecStreams, S, d)
    BY Zenon, <1>2 DEF RegisterNext
  <2> HIDE DEF d, C, S
  <2>3. /\ DOMAIN ecNames' = DOMAIN ecNames \cup C
        /\ \A n \in C : ecNames'[n] = d
        /\ \A n \in DOMAIN ecNames : ecNames'[n] = ecNames[n]
    BY Zenon, <2>1, <2>2 DEF bind
  <2>4. /\ DOMAIN ecHandlers' = DOMAIN ecHandlers \cup (C \ S)
        /\ \A n \in C \ S : ecHandlers'[n] = d
        /\ \A n \in DOMAIN ecHandlers : ecHandlers'[n] = ecHandlers[n]
    <3>1. DOMAIN ecHandlers \cap C = {}
      BY Zenon, <2>1 DEF TablesAgree
    <3> QED  BY Zenon, <2>2, <3>1 DEF bind
  <2>5. /\ DOMAIN ecStreams' = DOMAIN ecStreams \cup S
        /\ \A n \in S : ecStreams'[n] = d
        /\ \A n \in DOMAIN ecStreams : ecStreams'[n] = ecStreams[n]
    <3>1. DOMAIN ecStreams \cap S = {}
      BY Zenon, <2>1 DEF TablesAgree
    <3> QED  BY Zenon, <2>2, <3>1 DEF bind
  <2>6. \A e : Claimed(e)' = Claimed(e)
    BY Zenon DEF Claimed, derived_ops, IsResource
  <2>7. Claimed(d) = C
    BY Zenon DEF C
  <2>8. ASSUME NEW e \in ecEntries', NEW n \in Claimed(e)
        PROVE  n \in DOMAIN ecNames' /\ ecNames'[n] = e
    BY Zenon, <2>1, <2>2, <2>3, <2>7, <2>8 DEF TablesAgree
  <2>9. ASSUME NEW n \in DOMAIN ecNames'
        PROVE  /\ ecNames'[n] \in ecEntries' /\ n \in Claimed(ecNames'[n])
               /\ n \in DOMAIN ecHandlers' \cup DOMAIN ecStreams'
    BY <2>1, <2>2, <2>3, <2>4, <2>5, <2>7, <2>9 DEF TablesAgree
  <2>10. \A n \in DOMAIN ecHandlers' : n \in DOMAIN ecNames' /\ ecHandlers'[n] = ecNames'[n]
    BY Zenon, <2>1, <2>3, <2>4 DEF TablesAgree
  <2>11. \A n \in DOMAIN ecStreams' : n \in DOMAIN ecNames' /\ ecStreams'[n] = ecNames'[n]
    BY Zenon, <2>1, <2>3, <2>5 DEF TablesAgree
  <2> QED  BY Zenon, <2>6, <2>8, <2>9, <2>10, <2>11 DEF TablesAgree
<1> QED  BY Zenon, <1>1, <1>2

(***************************************************************************)
(* The calls: a mark never passes its store, so what a gate let through is   *)
(* in the store; and a call past authorize is covered by the token.         *)
(***************************************************************************)
CallRecords ==
    [at : {"idle", "asked", "gated", "answered"}, op : Askable, via : {"invoke", "next_batch"},
     min : Nat, waits : SUBSET Marks, seen : Nat, ran : ecEntries \cup {NoDecl},
     answer : {"none", "catalogue", "denied", "not_registered", "invalid_input", "lagging",
               "output"}]

CallTypeOK ==
    /\ ecTail \in Nat /\ ecReceipt \in Nat
    /\ ecStore \in [Marks -> Nat] /\ ecMark \in [Marks -> Nat]
    /\ ecToken \in [grants : {RootGrants}, checks : SUBSET Narrowings]
    /\ ecCall \in CallRecords

Authorized == ecCall.op \in DOMAIN ecNames /\ allows(ecToken, AuthorityOf(ecCall.op))

CallIsGuarded ==
    /\ \A m \in Marks : ecMark[m] <= ecStore[m]
    /\ ecCall.at = "idle" => ecCall = NoEdgeCall
    /\ ecCall.at # "idle" => ecUp = "serving"
    /\ ecCall.at # "answered" => ecCall.answer = "none"
    /\ ecCall.via = "next_batch" => ecCall.min = 0
    /\ ecCall.at = "gated"
         => /\ \A m \in Marks \ ecCall.waits : ecCall.min <= ecStore[m]
            /\ Authorized

CallsInv == CallTypeOK /\ TablesAgree /\ CallIsGuarded /\ HandlerIsCovered /\ GatedReadSeesWrite

\* An empty registry and no call in hand satisfy the invariant.
LEMMA CallsInitInv == CallsInit => CallsInv
<1> SUFFICES ASSUME CallsInit PROVE CallsInv
  BY Zenon
<1>1. TablesAgree
  BY Zenon DEF CallsInit, TablesAgree
<1>2. CallTypeOK
  <2>1. NoOperation \in Askable /\ NoDecl \in ecEntries \cup {NoDecl} /\ {} \in SUBSET Marks
    BY Zenon DEF Askable
  <2>2. NoEdgeCall \in CallRecords
    BY Zenon, <2>1 DEF CallRecords, NoEdgeCall
  <2> QED  BY Zenon, <2>2 DEF CallsInit, CallTypeOK
<1>3. CallIsGuarded
  BY DEF CallsInit, CallIsGuarded, NoEdgeCall, Marks
<1>4. HandlerIsCovered /\ GatedReadSeesWrite
  BY Zenon DEF CallsInit, HandlerIsCovered, GatedReadSeesWrite, NoEdgeCall
<1> QED  BY Zenon, <1>1, <1>2, <1>3, <1>4 DEF CallsInv

\* Registration happens before the first call.
LEMMA RegisterKeepsCalls ==
    ASSUME CallsInv, RegisterNext
    PROVE  CallsInv'
<1>1. ecCall = NoEdgeCall /\ ecCall' = NoEdgeCall /\ NoOperation \in Askable'
  BY Zenon DEF CallsInv, CallIsGuarded, RegisterNext, Askable
<1>2. TablesAgree'
  BY Zenon, RegisterKeepsTables DEF CallsInv
<1>3. CallTypeOK'
  <2>1. NoEdgeCall \in CallRecords'
    BY Zenon, <1>1 DEF CallRecords, NoEdgeCall
  <2> QED  BY Zenon, <1>1, <2>1 DEF CallsInv, CallTypeOK, RegisterNext, foldVars
<1>4. CallIsGuarded'
  BY Zenon, <1>1 DEF CallsInv, CallIsGuarded, RegisterNext, foldVars, NoEdgeCall
<1>5. HandlerIsCovered' /\ GatedReadSeesWrite'
  BY Zenon, <1>1 DEF HandlerIsCovered, GatedReadSeesWrite, NoEdgeCall
<1> QED  BY Zenon, <1>2, <1>3, <1>4, <1>5 DEF CallsInv

\* What a step that leaves the catalogue alone keeps of it.
LEMMA CatalogueKept ==
    ASSUME CallsInv, UNCHANGED catalogue
    PROVE  /\ TablesAgree' /\ Askable' = Askable
           /\ ecNames' = ecNames /\ ecEntries' = ecEntries /\ ecUp' = ecUp
           /\ \A op : AuthorityOf(op)' = AuthorityOf(op)
           /\ \A d : Claimed(d)' = Claimed(d)
<1>1. \A d : Claimed(d)' = Claimed(d)
  BY Zenon DEF Claimed, derived_ops, IsResource
<1> QED  BY Zenon, <1>1 DEF CallsInv, TablesAgree, catalogue, Askable, AuthorityOf

\* The consumers' own steps, and a restart, never move a mark past its store.
LEMMA FoldKeepsCalls ==
    ASSUME CallsInv, \/ \E m \in Marks : HandleEvent(m) \/ MarkFollows(m)
                     \/ Restart
    PROVE  CallsInv'
<1>1. UNCHANGED catalogue /\ ecToken' = ecToken /\ ecReceipt' = ecReceipt /\ ecTail' = ecTail
  BY Zenon DEF HandleEvent, MarkFollows, Restart
<1>2. /\ ecStore' \in [Marks -> Nat] /\ ecMark' \in [Marks -> Nat]
      /\ \A m \in Marks : ecMark'[m] <= ecStore'[m] /\ ecStore[m] <= ecStore'[m]
  BY DEF CallsInv, CallTypeOK, CallIsGuarded, HandleEvent, MarkFollows, Restart
<1>3. ecCall' = ecCall \/ ecCall' = NoEdgeCall
  BY Zenon DEF HandleEvent, MarkFollows, Restart
<1>4. NoEdgeCall \in CallRecords
  <2>1. NoOperation \in Askable
    BY Zenon DEF Askable
  <2> QED  BY Zenon, <2>1 DEF CallRecords, NoEdgeCall
<1>5. CallTypeOK'
  <2>1. CallRecords' = CallRecords
    BY Zenon, <1>1, CatalogueKept DEF CallRecords
  <2> QED  BY Zenon, <1>1, <1>2, <1>3, <1>4, <2>1 DEF CallsInv, CallTypeOK
<1>6. CASE ecCall' = NoEdgeCall
  <2>1. CallIsGuarded' /\ HandlerIsCovered' /\ GatedReadSeesWrite'
    BY Zenon, <1>2, <1>6 DEF CallIsGuarded, HandlerIsCovered, GatedReadSeesWrite, NoEdgeCall
  <2> QED  BY Zenon, <1>1, <1>5, <2>1, CatalogueKept DEF CallsInv
<1>7. CASE ecCall' = ecCall
  <2>1. GatedReadSeesWrite'
    BY Zenon, <1>7 DEF CallsInv, GatedReadSeesWrite
  <2>2. HandlerIsCovered'
    BY Zenon, <1>1, <1>7, CatalogueKept DEF CallsInv, HandlerIsCovered
  <2>3. ASSUME ecCall.at = "gated", NEW m \in Marks \ ecCall.waits
        PROVE  ecCall.min <= ecStore'[m]
    <3>1. ecCall.min \in Nat /\ ecStore[m] \in Nat /\ ecStore'[m] \in Nat
      BY Zenon, <1>2 DEF CallsInv, CallTypeOK, CallRecords
    <3>2. ecCall.min <= ecStore[m] /\ ecStore[m] <= ecStore'[m]
      BY Zenon, <1>2, <2>3 DEF CallsInv, CallIsGuarded
    <3> QED  BY <3>1, <3>2
  <2>4. Authorized' = Authorized
    BY Zenon, <1>1, <1>7 DEF Authorized, AuthorityOf, allows, catalogue
  <2>5. CallIsGuarded'
    BY Zenon, <1>1, <1>2, <1>7, <2>3, <2>4, CatalogueKept DEF CallsInv, CallIsGuarded
  <2> QED  BY Zenon, <1>1, <1>5, <2>1, <2>2, <2>5, CatalogueKept DEF CallsInv
<1> QED  BY Zenon, <1>3, <1>6, <1>7

\* What a step of a call has to show when the catalogue and the stores stand still.
LEMMA CallStep ==
    ASSUME CallsInv, UNCHANGED <<catalogue, ecStore, ecMark>>,
           ecTail' \in Nat, ecReceipt' \in Nat,
           ecToken' \in [grants : {RootGrants}, checks : SUBSET Narrowings],
           ecCall' \in CallRecords,
           ecCall'.at = "idle" => ecCall' = NoEdgeCall,
           ecCall'.at # "idle" => ecUp = "serving",
           ecCall'.at # "answered" => ecCall'.answer = "none",
           ecCall'.via = "next_batch" => ecCall'.min = 0,
           ecCall'.at = "gated" => Authorized',
           ecCall'.at = "gated" => \A m \in Marks \ ecCall'.waits : ecCall'.min <= ecStore[m],
           HandlerIsCovered', GatedReadSeesWrite'
    PROVE  CallsInv'
<1>1. CallRecords' = CallRecords
  BY Zenon, CatalogueKept DEF CallRecords
<1>2. CallTypeOK'
  BY Zenon, <1>1 DEF CallsInv, CallTypeOK
<1>3. CallIsGuarded'
  BY Zenon, CatalogueKept DEF CallsInv, CallIsGuarded
<1> QED  BY Zenon, <1>2, <1>3, CatalogueKept DEF CallsInv

\* NarrowToken only adds a check.
LEMMA NarrowKeepsCalls ==
    ASSUME CallsInv, NEW gs \in Narrowings, NarrowToken(gs)
    PROVE  CallsInv'
<1>1. ecCall = NoEdgeCall /\ ecCall' = NoEdgeCall /\ ecCall \in CallRecords
  BY Zenon DEF CallsInv, CallIsGuarded, CallTypeOK, NarrowToken
<1>2. ecToken' \in [grants : {RootGrants}, checks : SUBSET Narrowings]
  BY Zenon DEF CallsInv, CallTypeOK, NarrowToken, attenuate
<1>3. HandlerIsCovered' /\ GatedReadSeesWrite'
  BY Zenon, <1>1 DEF HandlerIsCovered, GatedReadSeesWrite, NoEdgeCall
<1>4. /\ UNCHANGED <<catalogue, ecStore, ecMark>> /\ ecTail' \in Nat /\ ecReceipt' \in Nat
  BY Zenon DEF CallsInv, CallTypeOK, NarrowToken, foldVars
<1>5. /\ ecCall'.at = "idle" /\ ecCall'.answer = "none" /\ ecCall'.via = "invoke"
  BY Zenon, <1>1 DEF NoEdgeCall
<1> QED  BY Zenon, <1>1, <1>2, <1>3, <1>4, <1>5, CallStep

\* A new request, gated or not.
LEMMA RequestKeepsCalls ==
    ASSUME CallsInv, NEW op \in Askable, NEW via \in {"invoke", "next_batch"}, NEW g \in BOOLEAN,
           Request(op, via, g)
    PROVE  CallsInv'
<1>1. /\ ecCall' = [at |-> "asked", op |-> op, via |-> via, min |-> IF g THEN ecReceipt ELSE 0,
                    waits |-> {}, seen |-> 0, ran |-> NoDecl, answer |-> "none"]
      /\ ecUp = "serving" /\ (g => via = "invoke")
      /\ UNCHANGED <<catalogue, ecStore, ecMark, ecToken, ecTail, ecReceipt>>
  BY Zenon DEF Request, NoEdgeCall, foldVars
<1>2. ecReceipt \in Nat /\ ecTail \in Nat
      /\ ecToken \in [grants : {RootGrants}, checks : SUBSET Narrowings]
  BY Zenon DEF CallsInv, CallTypeOK
<1>3. ecCall' \in CallRecords
  BY Zenon, <1>1, <1>2 DEF CallRecords
<1>4. HandlerIsCovered' /\ GatedReadSeesWrite'
  BY Zenon, <1>1 DEF HandlerIsCovered, GatedReadSeesWrite
<1>5. /\ ecCall'.at = "asked" /\ ecCall'.answer = "none"
      /\ ecCall'.via = "next_batch" => ecCall'.min = 0
  BY Zenon, <1>1
<1> QED  BY Zenon, <1>1, <1>2, <1>3, <1>4, <1>5, CallStep

\* A reply other than an output ends the call and vouches for nothing.
LEMMA RefusalKeepsCalls ==
    ASSUME CallsInv, ecCall.at \in {"asked", "gated"},
           NEW why \in {"catalogue", "denied", "not_registered", "invalid_input", "lagging"},
           Reply(why), UNCHANGED <<catalogue, ecStore, ecMark, ecToken, ecTail, ecReceipt>>
    PROVE  CallsInv'
<1>1. /\ ecCall' \in CallRecords /\ ecCall'.at = "answered" /\ ecCall'.answer = why
      /\ ecCall'.via = ecCall.via /\ ecCall'.min = ecCall.min
  BY Zenon DEF CallsInv, CallTypeOK, CallRecords, Reply
<1>2. HandlerIsCovered' /\ GatedReadSeesWrite'
  BY Zenon, <1>1 DEF HandlerIsCovered, GatedReadSeesWrite
<1>3. /\ ecTail' \in Nat /\ ecReceipt' \in Nat
      /\ ecToken' \in [grants : {RootGrants}, checks : SUBSET Narrowings]
  BY Zenon DEF CallsInv, CallTypeOK
<1>4. ecUp = "serving" /\ (ecCall'.via = "next_batch" => ecCall'.min = 0)
  BY Zenon, <1>1 DEF CallsInv, CallIsGuarded
<1> QED  BY Zenon, <1>1, <1>2, <1>3, <1>4, CallStep

\* invoke and next_batch: a call reaches its gate only past authorize.
LEMMA AdmitKeepsCalls ==
    ASSUME CallsInv, AdmitRequest
    PROVE  CallsInv'
<1>1. UNCHANGED <<catalogue, ecStore, ecMark, ecToken, ecTail, ecReceipt>> /\ ecCall.at = "asked"
  BY Zenon DEF AdmitRequest, foldVars
<1>2. \/ \E why \in {"catalogue", "denied", "not_registered", "invalid_input", "lagging"} :
             Reply(why)
      \/ /\ authorize(ecCall.op) = "ok" /\ ecCall.min > 0
         /\ ecCall' = [ecCall EXCEPT !.at = "gated", !.waits = Marks]
      \/ /\ authorize(ecCall.op) = "ok" /\ ~(ecCall.via = "invoke" /\ ecCall.min > 0)
         /\ ecCall' = [ecCall EXCEPT !.at = "gated", !.waits = {}]
      \/ /\ authorize(ecCall.op) = "ok" /\ ecCall.via = "next_batch"
         /\ ecCall' = [ecCall EXCEPT !.at = "gated"]
  <2>1. authorize(ecCall.op) \in {"not_registered", "denied", "ok"}
    BY Zenon DEF authorize
  <2>2. ecCall.via = "invoke" \/ ecCall.via = "next_batch"
    BY Zenon DEF CallsInv, CallTypeOK, CallRecords
  <2>3. CASE ecCall.via = "invoke"
    BY Zenon, <2>1, <2>3 DEF AdmitRequest, invoke
  <2>4. CASE ecCall.via = "next_batch"
    BY Zenon, <2>1, <2>4 DEF AdmitRequest, next_batch
  <2> QED  BY Zenon, <2>2, <2>3, <2>4
<1>3. CASE \E why \in {"catalogue", "denied", "not_registered", "invalid_input", "lagging"} :
               Reply(why)
  BY Zenon, <1>1, <1>3, RefusalKeepsCalls
<1>4. CASE authorize(ecCall.op) = "ok" /\ ecCall'.at = "gated" /\ ecCall' \in CallRecords
           /\ ecCall'.op = ecCall.op /\ ecCall'.via = ecCall.via /\ ecCall'.min = ecCall.min
           /\ ecCall'.answer = ecCall.answer
           /\ (ecCall.min = 0 \/ ecCall'.waits = Marks)
  <2>1. Authorized'
    BY Zenon, <1>1, <1>4 DEF Authorized, authorize, allows, AuthorityOf, catalogue
  <2>2. /\ ecUp = "serving" /\ ecCall.answer = "none"
        /\ ecCall.via = "next_batch" => ecCall.min = 0
    BY Zenon, <1>1 DEF CallsInv, CallIsGuarded
  <2>3. /\ ecTail' \in Nat /\ ecReceipt' \in Nat /\ ecStore \in [Marks -> Nat]
        /\ ecToken' \in [grants : {RootGrants}, checks : SUBSET Narrowings]
    BY Zenon, <1>1 DEF CallsInv, CallTypeOK
  <2>4. \A m \in Marks \ ecCall'.waits : ecCall'.min <= ecStore[m]
    BY <1>4, <2>3
  <2>5. HandlerIsCovered' /\ GatedReadSeesWrite'
    BY Zenon, <1>4, <2>2 DEF HandlerIsCovered, GatedReadSeesWrite
  <2> QED  BY Zenon, <1>1, <1>4, <2>1, <2>2, <2>3, <2>4, <2>5, CallStep
<1>5. ecCall \in CallRecords /\ (ecCall.via = "next_batch" => ecCall.min = 0)
  BY Zenon DEF CallsInv, CallTypeOK, CallIsGuarded
<1> QED
  <2>1. \A w \in SUBSET Marks : LET c == [ecCall EXCEPT !.at = "gated", !.waits = w] IN
            /\ c \in CallRecords /\ c.at = "gated" /\ c.op = ecCall.op /\ c.via = ecCall.via
            /\ c.min = ecCall.min /\ c.answer = ecCall.answer /\ c.waits = w
    BY Zenon, <1>5 DEF CallRecords
  <2>2. LET c == [ecCall EXCEPT !.at = "gated"] IN
            /\ c \in CallRecords /\ c.at = "gated" /\ c.op = ecCall.op /\ c.via = ecCall.via
            /\ c.min = ecCall.min /\ c.answer = ecCall.answer
    BY Zenon, <1>5 DEF CallRecords
  <2>3. ecCall.min \in Nat /\ ecCall.via \in {"invoke", "next_batch"}
    BY Zenon, <1>5 DEF CallRecords
  <2>4. CASE /\ authorize(ecCall.op) = "ok" /\ ecCall.min > 0
             /\ ecCall' = [ecCall EXCEPT !.at = "gated", !.waits = Marks]
    BY Zenon, <1>4, <2>1, <2>4
  <2>5. CASE /\ authorize(ecCall.op) = "ok" /\ ~(ecCall.via = "invoke" /\ ecCall.min > 0)
             /\ ecCall' = [ecCall EXCEPT !.at = "gated", !.waits = {}]
    <3>1. ecCall.min = 0
      BY <1>5, <2>3, <2>5
    <3> QED  BY Zenon, <1>4, <2>1, <2>5, <3>1
  <2>6. CASE /\ authorize(ecCall.op) = "ok" /\ ecCall.via = "next_batch"
             /\ ecCall' = [ecCall EXCEPT !.at = "gated"]
    BY Zenon, <1>4, <1>5, <2>2, <2>6
  <2> QED  BY Zenon, <1>2, <1>3, <2>4, <2>5, <2>6

\* The gate falls open mark by mark, each time on a mark at the receipt or past it.
LEMMA WaitKeepsCalls ==
    ASSUME CallsInv, NEW m \in Marks, WaitFor(m)
    PROVE  CallsInv'
<1>1. /\ UNCHANGED <<catalogue, ecStore, ecMark, ecToken, ecTail, ecReceipt>>
      /\ ecCall.at = "gated" /\ ecMark[m] >= ecCall.min
      /\ ecCall' = [ecCall EXCEPT !.waits = ecCall.waits \ {m}]
  BY Zenon DEF WaitFor, Horizon, foldVars
<1>2. /\ ecCall' \in CallRecords /\ ecCall'.at = "gated" /\ ecCall'.waits = ecCall.waits \ {m}
      /\ ecCall'.op = ecCall.op /\ ecCall'.via = ecCall.via /\ ecCall'.min = ecCall.min
      /\ ecCall'.answer = ecCall.answer /\ ecCall.min \in Nat
  BY Zenon, <1>1 DEF CallsInv, CallTypeOK, CallRecords
<1>3. /\ ecTail' \in Nat /\ ecReceipt' \in Nat
      /\ ecStore \in [Marks -> Nat] /\ ecMark \in [Marks -> Nat]
      /\ ecToken' \in [grants : {RootGrants}, checks : SUBSET Narrowings]
  BY Zenon, <1>1 DEF CallsInv, CallTypeOK
<1>4. /\ ecUp = "serving" /\ ecCall.answer = "none"
      /\ ecCall.via = "next_batch" => ecCall.min = 0
      /\ Authorized /\ ecMark[m] <= ecStore[m]
      /\ \A k \in Marks \ ecCall.waits : ecCall.min <= ecStore[k]
  BY Zenon, <1>1 DEF CallsInv, CallIsGuarded
<1>5. Authorized'
  BY Zenon, <1>1, <1>2, <1>4 DEF Authorized, allows, AuthorityOf, catalogue
<1>6. ecCall.min <= ecStore[m]
  BY <1>1, <1>2, <1>3, <1>4
<1>7. \A k \in Marks \ ecCall'.waits : ecCall'.min <= ecStore[k]
  BY Zenon, <1>2, <1>4, <1>6
<1>8. HandlerIsCovered' /\ GatedReadSeesWrite'
  BY Zenon, <1>2, <1>4 DEF HandlerIsCovered, GatedReadSeesWrite
<1> QED  BY Zenon, <1>1, <1>2, <1>3, <1>4, <1>5, <1>7, <1>8, CallStep

\* The handler runs on the entry authorize looked at, and a read finds both stores at
\* the receipt or past it.
LEMMA HandlerKeepsCalls ==
    ASSUME CallsInv, RunHandler
    PROVE  CallsInv'
<1> DEFINE table == IF ecCall.via = "invoke" THEN ecHandlers ELSE ecStreams
           d == table[ecCall.op]
<1>1. /\ UNCHANGED <<catalogue, ecStore, ecMark, ecToken>>
      /\ ecCall.at = "gated" /\ ecCall.waits = {}
  BY Zenon DEF RunHandler
<1>2. /\ ecTail \in Nat /\ ecReceipt \in Nat
      /\ ecStore \in [Marks -> Nat] /\ ecCall \in CallRecords
      /\ ecToken \in [grants : {RootGrants}, checks : SUBSET Narrowings]
      /\ ecCall.min \in Nat
  BY Zenon DEF CallsInv, CallTypeOK, CallRecords
<1>3. CASE ecCall.op \notin DOMAIN table
  <2>1. Reply("not_registered") /\ UNCHANGED <<ecTail, ecReceipt>>
    BY Zenon, <1>3 DEF RunHandler
  <2> QED  BY Zenon, <1>1, <2>1, RefusalKeepsCalls
<1>4. CASE ecCall.op \in DOMAIN table
  <2>1. /\ ecTail' \in Nat /\ ecReceipt' \in Nat
        /\ ecCall' = [ecCall EXCEPT !.at = "answered", !.answer = "output", !.ran = d,
                                    !.seen = Seen]
    BY <1>2, <1>4 DEF RunHandler
  <2>2. ecCall.op \in DOMAIN ecNames /\ d = ecNames[ecCall.op]
    BY Zenon, <1>4 DEF CallsInv, TablesAgree
  <2>3. d \in ecEntries /\ ecCall.op \in Claimed(d)
    BY Zenon, <2>2 DEF CallsInv, TablesAgree
  <2>4. Seen \in Nat
    BY Zenon, <1>2 DEF Seen, Marks
  <2> HIDE DEF d, table
  <2>5. /\ ecCall' \in CallRecords /\ ecCall'.at = "answered" /\ ecCall'.ran = d
        /\ ecCall'.seen = Seen /\ ecCall'.op = ecCall.op /\ ecCall'.via = ecCall.via
        /\ ecCall'.min = ecCall.min
    BY Zenon, <1>2, <2>1, <2>3, <2>4 DEF CallRecords
  <2>6. \A m \in Marks : ecCall.min <= ecStore[m]
    BY Zenon, <1>1 DEF CallsInv, CallIsGuarded
  <2>7. GatedReadSeesWrite'
    <3>1. ecCall.min <= Seen
      BY Zenon, <1>2, <2>6 DEF Seen, Marks
    <3> QED  BY Zenon, <1>2, <2>4, <2>5, <3>1 DEF GatedReadSeesWrite
  <2>8. \E g \in RootGrants : GrantCovers(g, AuthorityOf(ecCall.op))
    <3>1. Authorized /\ ecToken.grants = RootGrants
      BY Zenon, <1>1, <1>2 DEF CallsInv, CallIsGuarded
    <3> QED  BY Zenon, <3>1 DEF Authorized, allows
  <2>9. HandlerIsCovered'
    <3>1. AuthorityOf(ecCall.op)' = AuthorityOf(ecCall.op)
      BY Zenon, <1>1, <2>5 DEF AuthorityOf, catalogue
    <3>2. Claimed(ecCall.ran)' = Claimed(d)
      BY Zenon, <2>5 DEF Claimed, derived_ops, IsResource
    <3>3. ecNames'[ecCall'.op] = d
      BY Zenon, <1>1, <2>2, <2>5 DEF catalogue
    <3> QED  BY Zenon, <2>3, <2>5, <2>8, <3>1, <3>2, <3>3 DEF HandlerIsCovered
  <2>10. ecUp = "serving" /\ (ecCall.via = "next_batch" => ecCall.min = 0)
    BY Zenon, <1>1 DEF CallsInv, CallIsGuarded
  <2> QED  BY Zenon, <1>1, <1>2, <2>1, <2>5, <2>7, <2>9, <2>10, CallStep
<1> QED  BY Zenon, <1>3, <1>4

\* Every step keeps the invariant.
LEMMA CallsNextInv == CallsInv /\ [CallsNext]_callVars => CallsInv'
<1> SUFFICES ASSUME CallsInv, [CallsNext]_callVars PROVE CallsInv'
  BY Zenon
<1>1. CASE RegisterNext
  BY Zenon, <1>1, RegisterKeepsCalls
<1>2. ASSUME NEW gs \in Narrowings, NarrowToken(gs) PROVE CallsInv'
  BY Zenon, <1>2, NarrowKeepsCalls
<1>3. ASSUME NEW op \in Askable, NEW via \in {"invoke", "next_batch"}, NEW g \in BOOLEAN,
             Request(op, via, g)
      PROVE  CallsInv'
  BY Zenon, <1>3, RequestKeepsCalls
<1>4. CASE AdmitRequest
  BY Zenon, <1>4, AdmitKeepsCalls
<1>5. CASE Lagging
  <2>1. /\ ecCall.at = "gated" /\ Reply("lagging")
        /\ UNCHANGED <<catalogue, ecStore, ecMark, ecToken, ecTail, ecReceipt>>
    BY Zenon, <1>5 DEF Lagging, foldVars
  <2> QED  BY Zenon, <2>1, RefusalKeepsCalls
<1>6. CASE RunHandler
  BY Zenon, <1>6, HandlerKeepsCalls
<1>7. CASE ReplySent
  <2>1. /\ ecCall' = NoEdgeCall
        /\ UNCHANGED <<catalogue, ecStore, ecMark, ecToken, ecTail, ecReceipt>>
    BY Zenon, <1>7 DEF ReplySent, foldVars
  <2>2. NoEdgeCall \in CallRecords
    <3>1. NoOperation \in Askable
      BY Zenon DEF Askable
    <3> QED  BY Zenon, <3>1 DEF CallRecords, NoEdgeCall
  <2>3. /\ ecTail' \in Nat /\ ecReceipt' \in Nat
        /\ ecToken' \in [grants : {RootGrants}, checks : SUBSET Narrowings]
    BY Zenon, <2>1 DEF CallsInv, CallTypeOK
  <2>4. ecCall'.at = "idle" /\ ecCall'.answer = "none" /\ ecCall'.via = "invoke"
    BY Zenon, <2>1 DEF NoEdgeCall
  <2>5. HandlerIsCovered' /\ GatedReadSeesWrite'
    BY Zenon, <2>4 DEF HandlerIsCovered, GatedReadSeesWrite
  <2> QED  BY Zenon, <2>1, <2>2, <2>3, <2>4, <2>5, CallStep
<1>8. ASSUME NEW m \in Marks, WaitFor(m) PROVE CallsInv'
  BY Zenon, <1>8, WaitKeepsCalls
<1>9. ASSUME Restart \/ \E m \in Marks : HandleEvent(m) \/ MarkFollows(m) PROVE CallsInv'
  BY Zenon, <1>9, FoldKeepsCalls
<1>10. CASE UNCHANGED callVars
  <2>1. UNCHANGED <<catalogue, ecStore, ecMark, ecToken, ecTail, ecReceipt, ecCall>>
    BY Zenon, <1>10 DEF callVars, foldVars
  <2>2. Authorized' = Authorized
    BY Zenon, <2>1 DEF Authorized, AuthorityOf, allows, catalogue
  <2>3. HandlerIsCovered' /\ GatedReadSeesWrite'
    BY Zenon, <2>1, CatalogueKept DEF CallsInv, HandlerIsCovered, GatedReadSeesWrite
  <2>4. CallTypeOK' /\ CallIsGuarded'
    <3>1. CallRecords' = CallRecords
      BY Zenon, <2>1, CatalogueKept DEF CallRecords
    <3> QED  BY Zenon, <2>1, <2>2, <3>1, CatalogueKept DEF CallsInv, CallTypeOK, CallIsGuarded
  <2> QED  BY Zenon, <2>1, <2>3, <2>4, CatalogueKept DEF CallsInv
<1> QED  BY Zenon, <1>1, <1>2, <1>3, <1>4, <1>5, <1>6, <1>7, <1>8, <1>9, <1>10 DEF CallsNext

\* The tables agree and the call in hand is guarded, at every moment of a run.
THEOREM CallsInvariant == CallsSpec => []CallsInv
<1> QED  BY CallsInitInv, CallsNextInv, PTL DEF CallsSpec

\* Read your writes, whatever the number of events, restarts and consumers' delays: a
\* read gated on a receipt (server.rs, Horizon::wait_for) answers from stores that both
\* hold the command's event.
THEOREM GatedReadsAreFresh == CallsSpec => []GatedReadSeesWrite
<1>1. CallsInv => GatedReadSeesWrite
  BY Zenon DEF CallsInv
<1> QED  BY <1>1, CallsInvariant, PTL

\* For every roster and every narrowing of the token: the handler that ran is the one
\* of the entry that authorize judged, and a grant of the root token covers it.
THEOREM OnlyCoveredHandlersRun == CallsSpec => []HandlerIsCovered
<1>1. CallsInv => HandlerIsCovered
  BY Zenon DEF CallsInv
<1> QED  BY <1>1, CallsInvariant, PTL

\* For every roster: no registration shadows an earlier one (Registry::register).
THEOREM NoEntryIsShadowed == CallsSpec => []EntriesReachable
<1>1. CallsInv => EntriesReachable
  BY Zenon DEF CallsInv, TablesAgree, EntriesReachable
<1> QED  BY <1>1, CallsInvariant, PTL

(***************************************************************************)
(* The identity's files.  What a start finds is nothing, a partial save, a   *)
(* torn certificate, or a certificate whose token was written before it.    *)
(***************************************************************************)
Sealed == pgDir["cert"] \notin {None, Torn}

MintedLeft  == {<<"key", "root", "token", "cert">>, <<"root", "token", "cert">>,
                <<"token", "cert">>, <<"cert">>, << >>}
AdoptedLeft == {<<"key", "root", "cert">>, <<"root", "cert">>, <<"cert">>, << >>}

IdentityTypeOK ==
    /\ pgDir \in [Parts4 -> Nat \cup {Torn}]
    /\ pgMinted \in Nat /\ pgOld \in Nat /\ pgOld <= pgMinted
    /\ pgLegacy \in {None, pgOld}
    /\ pgDaemon \in [at : {"down", "saving", "serving"}, id : Nat, todo : MintedLeft \cup AdoptedLeft]

\* A daemon that saves writes its own identity's parts in order, the token before
\* the certificate unless the identity is the older release's.
SavingInOrder ==
    pgDaemon.at = "saving" =>
        /\ pgDaemon.id # None
        /\ pgDaemon.todo = << >> => pgDir["cert"] = pgDaemon.id
        /\ pgDaemon.todo # << >> => ~Sealed
        /\ \/ /\ pgDaemon.id # pgOld /\ pgLegacy = None /\ pgDaemon.todo \in MintedLeft
              /\ pgDaemon.todo \in {<<"cert">>, << >>} => pgDir["token"] = pgDaemon.id
           \/ /\ pgDaemon.id = pgLegacy /\ pgLegacy = pgOld /\ pgDaemon.todo \in AdoptedLeft

IdentityInv ==
    /\ IdentityTypeOK
    /\ SavingInOrder
    /\ (Sealed /\ pgDir["cert"] # pgOld) => pgDir["token"] = pgDir["cert"]
    /\ Serving => pgDaemon.id = pgDir["cert"] /\ Sealed
    /\ pgServed \subseteq (IF Sealed THEN {pgDir["cert"]} ELSE {pgLegacy} \ {None})

\* The tails save walks through.
LEMMA SaveTails ==
    /\ \A t \in MintedLeft \ {<< >>} :
           /\ Tail(t) \in MintedLeft
           /\ Head(t) = "cert" <=> t = <<"cert">>
           /\ Head(t) = "token" <=> Tail(t) = <<"cert">>
           /\ Head(t) \in Parts4 /\ (Tail(t) = << >> <=> t = <<"cert">>)
    /\ \A t \in AdoptedLeft \ {<< >>} :
           /\ Tail(t) \in AdoptedLeft
           /\ Head(t) = "cert" <=> t = <<"cert">>
           /\ Head(t) \in Parts4 /\ (Tail(t) = << >> <=> t = <<"cert">>)
<1>1. /\ Tail(<<"key", "root", "token", "cert">>) = <<"root", "token", "cert">>
      /\ Head(<<"key", "root", "token", "cert">>) = "key"
  OBVIOUS
<1>2. /\ Tail(<<"root", "token", "cert">>) = <<"token", "cert">>
      /\ Head(<<"root", "token", "cert">>) = "root"
  OBVIOUS
<1>3. Tail(<<"token", "cert">>) = <<"cert">> /\ Head(<<"token", "cert">>) = "token"
  OBVIOUS
<1>4. Tail(<<"cert">>) = << >> /\ Head(<<"cert">>) = "cert"
  OBVIOUS
<1>5. /\ Tail(<<"key", "root", "cert">>) = <<"root", "cert">>
      /\ Head(<<"key", "root", "cert">>) = "key"
  OBVIOUS
<1>6. Tail(<<"root", "cert">>) = <<"cert">> /\ Head(<<"root", "cert">>) = "root"
  OBVIOUS
<1>7. /\ <<"key", "root", "token", "cert">> # <<"cert">>
      /\ <<"root", "token", "cert">> # <<"cert">> /\ <<"token", "cert">> # <<"cert">>
      /\ <<"root", "token", "cert">> # << >> /\ <<"token", "cert">> # << >>
      /\ <<"cert">> # << >> /\ <<"key", "root", "cert">> # <<"cert">>
      /\ <<"root", "cert">> # <<"cert">> /\ <<"root", "cert">> # << >>
  BY Zenon
<1>8. ASSUME NEW t \in MintedLeft \ {<< >>}
      PROVE  /\ Tail(t) \in MintedLeft /\ (Head(t) = "cert" <=> t = <<"cert">>)
             /\ Head(t) = "token" <=> Tail(t) = <<"cert">>
             /\ Head(t) \in Parts4 /\ (Tail(t) = << >> <=> t = <<"cert">>)
  <2>1. CASE t = <<"key", "root", "token", "cert">>
    BY Zenon, <2>1, <1>1, <1>7 DEF MintedLeft, Parts4
  <2>2. CASE t = <<"root", "token", "cert">>
    BY Zenon, <2>2, <1>2, <1>7 DEF MintedLeft, Parts4
  <2>3. CASE t = <<"token", "cert">>
    BY Zenon, <2>3, <1>3, <1>7 DEF MintedLeft, Parts4
  <2>4. CASE t = <<"cert">>
    BY Zenon, <2>4, <1>4, <1>7 DEF MintedLeft, Parts4
  <2> QED  BY Zenon, <2>1, <2>2, <2>3, <2>4 DEF MintedLeft
<1>9. ASSUME NEW t \in AdoptedLeft \ {<< >>}
      PROVE  /\ Tail(t) \in AdoptedLeft /\ (Head(t) = "cert" <=> t = <<"cert">>)
             /\ Head(t) \in Parts4 /\ (Tail(t) = << >> <=> t = <<"cert">>)
  <2>1. CASE t = <<"key", "root", "cert">>
    BY Zenon, <2>1, <1>5, <1>7 DEF AdoptedLeft, Parts4
  <2>2. CASE t = <<"root", "cert">>
    BY Zenon, <2>2, <1>6, <1>7 DEF AdoptedLeft, Parts4
  <2>3. CASE t = <<"cert">>
    BY Zenon, <2>3, <1>4, <1>7 DEF AdoptedLeft, Parts4
  <2> QED  BY Zenon, <2>1, <2>2, <2>3 DEF AdoptedLeft
<1> QED  BY Zenon, <1>8, <1>9

\* A fresh host, and one an older release left its identity on, satisfy it.
LEMMA IdentityInitInv == PairingInit => IdentityInv
<1> SUFFICES ASSUME PairingInit PROVE IdentityInv
  BY Zenon
<1>1. IdentityTypeOK
  BY DEF PairingInit, IdentityTypeOK, Empty, NotUp, None, Torn, MintedLeft
<1> QED  BY Zenon, <1>1 DEF PairingInit, IdentityInv, SavingInOrder, Sealed, Serving, Empty, NotUp, None,
             Torn, Parts4

\* A start serves what is sealed, or begins to save over an empty directory.
LEMMA LoadKeepsIdentity ==
    ASSUME IdentityInv, LoadOrAdopt
    PROVE  IdentityInv'
<1>1. pgDir' = pgDir /\ pgLegacy' = pgLegacy /\ pgOld' = pgOld /\ pgDaemon.at = "down"
  BY Zenon DEF LoadOrAdopt
<1>2. << >> \in MintedLeft /\ SaveMinted \in MintedLeft /\ SaveAdopted \in AdoptedLeft
      /\ SaveMinted # << >> /\ SaveAdopted # << >> /\ SaveMinted # <<"cert">>
  BY Zenon DEF MintedLeft, AdoptedLeft, SaveMinted, SaveAdopted
<1>3. CASE Whole
  <2>1. /\ Sealed /\ pgMinted' = pgMinted
        /\ pgDaemon' = [at |-> "serving", id |-> pgDir["cert"], todo |-> << >>]
        /\ pgServed' = pgServed \cup {pgDir["cert"]}
    BY Zenon, <1>3 DEF LoadOrAdopt, Loads, ServeAs, Sealed
  <2>2. IdentityTypeOK'
    BY Zenon, <1>1, <1>2, <2>1 DEF IdentityInv, IdentityTypeOK, Sealed, Parts4
  <2> QED  BY Zenon, <1>1, <2>1, <2>2 DEF IdentityInv, SavingInOrder, Sealed, Serving
<1>4. CASE ~Whole /\ pgLegacy # None
  <2>1. /\ pgDaemon' = [at |-> "saving", id |-> pgLegacy, todo |-> SaveAdopted]
        /\ pgMinted' = pgMinted /\ pgServed' = pgServed /\ ~Sealed
    BY Zenon, <1>4 DEF LoadOrAdopt, Whole, Sealed
  <2>2. IdentityTypeOK'
    BY <1>1, <1>2, <2>1 DEF IdentityInv, IdentityTypeOK, None
  <2>3. pgLegacy = pgOld
    BY Zenon, <1>4 DEF IdentityInv, IdentityTypeOK
  <2> QED  BY Zenon, <1>1, <1>2, <1>4, <2>1, <2>2, <2>3 DEF IdentityInv, SavingInOrder, Sealed, Serving
<1>5. CASE ~Whole /\ pgLegacy = None
  <2>1. /\ pgDaemon' = [at |-> "saving", id |-> pgMinted + 1, todo |-> SaveMinted]
        /\ pgMinted' = pgMinted + 1 /\ pgServed' = pgServed /\ ~Sealed
    BY Zenon, <1>5 DEF LoadOrAdopt, Whole, Sealed
  <2>2. IdentityTypeOK'
    BY <1>1, <1>2, <2>1 DEF IdentityInv, IdentityTypeOK, None
  <2>3. pgMinted + 1 # None /\ pgMinted + 1 # pgOld
    BY DEF IdentityInv, IdentityTypeOK, None
  <2>4. SaveMinted \notin {<<"cert">>, << >>}
    BY Zenon, <1>2
  <2> QED  BY Zenon, <1>1, <1>2, <1>5, <2>1, <2>2, <2>3, <2>4
           DEF IdentityInv, SavingInOrder, Sealed, Serving
<1> QED  BY Zenon, <1>3, <1>4, <1>5

\* One file of a save: the certificate is filled only beside its token.
LEMMA SaveKeepsIdentity ==
    ASSUME IdentityInv, SaveFile
    PROVE  IdentityInv'
<1> DEFINE f == Head(pgDaemon.todo)
<1>1. /\ pgLegacy' = pgLegacy /\ pgOld' = pgOld /\ pgMinted' = pgMinted /\ pgServed' = pgServed
      /\ pgDaemon.at = "saving" /\ pgDaemon.todo # << >> /\ ~Sealed
  BY Zenon DEF SaveFile, IdentityInv, SavingInOrder
<1>2. /\ pgDaemon.todo \in MintedLeft \cup AdoptedLeft /\ pgDaemon.id \in Nat
      /\ pgDir \in [Parts4 -> Nat \cup {Torn}]
  BY Zenon DEF IdentityInv, IdentityTypeOK
<1>3. f \in Parts4 /\ (f = "cert" <=> pgDaemon.todo = <<"cert">>)
      /\ (Tail(pgDaemon.todo) = << >> <=> pgDaemon.todo = <<"cert">>)
      /\ Tail(pgDaemon.todo) \in MintedLeft \cup AdoptedLeft
  BY Zenon, <1>1, <1>2, SaveTails
<1>4. CASE f # "cert" /\ pgDir[f] # None
  <2>1. pgDaemon' = NotUp /\ pgDir' = pgDir
    BY Zenon, <1>4 DEF SaveFile
  <2>2. IdentityTypeOK'
    BY Zenon, <1>1, <2>1 DEF IdentityInv, IdentityTypeOK, NotUp, None, MintedLeft
  <2> QED  BY Zenon, <1>1, <2>1, <2>2 DEF IdentityInv, SavingInOrder, Sealed, Serving, NotUp
<1>5. CASE f = "cert" /\ pgDir[f] = None
  <2>1. pgDir' = [pgDir EXCEPT !["cert"] = Torn] /\ pgDaemon' = pgDaemon
    BY Zenon, <1>5 DEF SaveFile
  <2>2. IdentityTypeOK' /\ pgDir'["cert"] = Torn /\ pgDir'["token"] = pgDir["token"]
    BY Zenon, <1>1, <2>1 DEF IdentityInv, IdentityTypeOK, Parts4
  <2> QED  BY Zenon, <1>1, <2>1, <2>2 DEF IdentityInv, SavingInOrder, Sealed, Serving
<1>6. CASE f = "cert" /\ pgDir[f] # None
  <2>1. /\ pgDir' = [pgDir EXCEPT !["cert"] = pgDaemon.id]
        /\ pgDaemon' = [pgDaemon EXCEPT !.todo = Tail(pgDaemon.todo)]
    BY Zenon, <1>6 DEF SaveFile
  <2>2. /\ IdentityTypeOK' /\ pgDir'["cert"] = pgDaemon.id /\ pgDir'["token"] = pgDir["token"]
        /\ pgDaemon'.at = "saving" /\ pgDaemon'.id = pgDaemon.id
        /\ pgDaemon'.todo = << >>
    BY Zenon, <1>1, <1>2, <1>3, <1>6, <2>1 DEF IdentityInv, IdentityTypeOK, Parts4
  <2>3. pgDaemon.id # None /\ pgDaemon.id # Torn
    BY <1>1, <1>2 DEF IdentityInv, SavingInOrder, Torn
  <2>4. \/ pgDaemon.id # pgOld /\ pgLegacy = None /\ pgDir["token"] = pgDaemon.id
        \/ pgDaemon.id = pgLegacy /\ pgLegacy = pgOld
    BY Zenon, <1>1, <1>3, <1>6 DEF IdentityInv, SavingInOrder
  <2>5. pgServed \subseteq {pgDaemon.id}
    BY Zenon, <1>1, <2>4 DEF IdentityInv
  <2>6. Sealed' /\ ~Serving'
    BY Zenon, <2>2, <2>3 DEF Sealed, Serving
  <2>7. SavingInOrder'
    <3>1. << >> \in MintedLeft /\ << >> \in AdoptedLeft
      BY Zenon DEF MintedLeft, AdoptedLeft
    <3> QED  BY Zenon, <1>1, <2>2, <2>3, <2>4, <3>1 DEF SavingInOrder
  <2> QED  BY Zenon, <1>1, <2>2, <2>4, <2>5, <2>6, <2>7 DEF IdentityInv
<1>7. CASE f # "cert" /\ pgDir[f] = None
  <2>1. /\ pgDir' = [pgDir EXCEPT ![f] = pgDaemon.id]
        /\ pgDaemon' = [pgDaemon EXCEPT !.todo = Tail(pgDaemon.todo)]
    BY Zenon, <1>7 DEF SaveFile
  <2> HIDE DEF f
  <2>2. /\ IdentityTypeOK' /\ pgDir'["cert"] = pgDir["cert"]
        /\ (f = "token" => pgDir'["token"] = pgDaemon.id)
        /\ pgDaemon'.at = "saving" /\ pgDaemon'.id = pgDaemon.id
        /\ pgDaemon'.todo = Tail(pgDaemon.todo)
    BY Zenon, <1>1, <1>2, <1>3, <1>7, <2>1 DEF IdentityInv, IdentityTypeOK, Parts4
  <2>3. Tail(pgDaemon.todo) # << >> /\ Sealed' = Sealed
    BY Zenon, <1>3, <1>7, <2>2 DEF Sealed
  <2>4. /\ pgDaemon.todo \in MintedLeft
             => /\ Tail(pgDaemon.todo) \in MintedLeft
                /\ Tail(pgDaemon.todo) = <<"cert">> => f = "token"
        /\ pgDaemon.todo \in AdoptedLeft => Tail(pgDaemon.todo) \in AdoptedLeft
    BY Zenon, <1>1, SaveTails DEF f
  <2>5. SavingInOrder'
    BY Zenon, <1>1, <2>2, <2>3, <2>4 DEF IdentityInv, SavingInOrder
  <2> QED  BY Zenon, <1>1, <2>2, <2>3, <2>5 DEF IdentityInv, Serving, Sealed
<1> QED  BY Zenon, <1>4, <1>5, <1>6, <1>7

\* The rest of the daemon's steps and the operator's deletions.
LEMMA RestKeepsIdentity ==
    ASSUME IdentityInv,
           \/ Saved \/ DaemonKilled \/ DeleteDirectory \/ DeleteLegacy \/ UNCHANGED identityVars
    PROVE  IdentityInv'
<1>1. << >> \in MintedLeft /\ 0 \in Nat
  BY Zenon DEF MintedLeft
<1>2. CASE Saved
  <2>1. /\ pgDaemon' = [at |-> "serving", id |-> pgDaemon.id, todo |-> << >>]
        /\ pgServed' = pgServed \cup {pgDaemon.id} /\ pgDaemon.at = "saving"
        /\ UNCHANGED <<pgDir, pgLegacy, pgMinted, pgOld>> /\ pgDaemon.todo = << >>
    BY Zenon, <1>2 DEF Saved, ServeAs
  <2>2. IdentityTypeOK'
    BY Zenon, <1>1, <2>1 DEF IdentityInv, IdentityTypeOK
  <2>3. pgDir["cert"] = pgDaemon.id /\ pgDaemon.id # None /\ pgDaemon.id \in Nat
    BY Zenon, <2>1 DEF IdentityInv, SavingInOrder, IdentityTypeOK
  <2>4. Sealed
    BY <2>3 DEF Sealed, Torn
  <2> QED  BY Zenon, <2>1, <2>2, <2>3, <2>4 DEF IdentityInv, SavingInOrder, Sealed, Serving
<1>3. CASE DaemonKilled
  <2>1. pgDaemon' = NotUp /\ UNCHANGED <<pgDir, pgLegacy, pgMinted, pgServed, pgOld>>
    BY Zenon, <1>3 DEF DaemonKilled
  <2>2. IdentityTypeOK'
    BY Zenon, <1>1, <2>1 DEF IdentityInv, IdentityTypeOK, NotUp, None
  <2> QED  BY Zenon, <2>1, <2>2 DEF IdentityInv, SavingInOrder, Sealed, Serving, NotUp
<1>4. CASE DeleteDirectory
  <2>1. /\ pgDir' = Empty /\ pgServed' = {} /\ pgDaemon.at = "down"
        /\ UNCHANGED <<pgLegacy, pgMinted, pgDaemon, pgOld>>
    BY Zenon, <1>4 DEF DeleteDirectory
  <2>2. IdentityTypeOK' /\ ~Sealed'
    BY Zenon, <2>1 DEF IdentityInv, IdentityTypeOK, Empty, Sealed, Parts4, None
  <2> QED  BY Zenon, <2>1, <2>2 DEF IdentityInv, SavingInOrder, Serving
<1>5. CASE DeleteLegacy
  <2>1. /\ pgLegacy' = None /\ pgDaemon.at = "serving"
        /\ UNCHANGED <<pgDir, pgMinted, pgDaemon, pgServed, pgOld>>
    BY Zenon, <1>5 DEF DeleteLegacy
  <2> QED  BY Zenon, <2>1 DEF IdentityInv, IdentityTypeOK, SavingInOrder, Sealed, Serving
<1>6. CASE UNCHANGED identityVars
  BY Zenon, <1>6 DEF identityVars, IdentityInv, IdentityTypeOK, SavingInOrder, Sealed, Serving
<1> QED  BY Zenon, <1>2, <1>3, <1>4, <1>5, <1>6

(***************************************************************************)
(* The clients' file: whoever stores holds the lock and read the file as it *)
(* stands.                                                                  *)
(***************************************************************************)
ClientInv ==
    /\ pgFile \in [Daemons -> Nat] /\ pgPaired \subseteq Daemons
    /\ pgClient \in [Clients -> [at : {"away", "dialling", "locking", "storing"}, id : Nat,
                                 read : [Daemons -> Nat]]]
    /\ \A c \in Clients : pgClient[c].at # "away" => pgClient[c].id # None
    /\ \A c \in Clients : pgClient[c].at = "storing" => pgLock = {c} /\ pgClient[c].read = pgFile
    /\ PairingsKept

\* No client runs and no pairing is stored at first.
LEMMA ClientInitInv == PairingInit => ClientInv
<1> SUFFICES ASSUME PairingInit PROVE ClientInv
  BY Zenon
<1>1. [a \in Daemons |-> None] \in [Daemons -> Nat]
  BY Zenon DEF None
<1>2. Away \in [at : {"away", "dialling", "locking", "storing"}, id : Nat, read : [Daemons -> Nat]]
  BY Zenon, <1>1 DEF Away, None
<1> QED  BY Zenon, <1>1, <1>2 DEF PairingInit, ClientInv, PairingsKept, Away

\* A client's own steps keep its file.
LEMMA ClientKeepsFile ==
    ASSUME ClientInv, IdentityInv, NEW c \in Clients,
           Expect(c) \/ Dial(c) \/ LockFile(c) \/ Store(c) \/ ClientKilled(c)
    PROVE  ClientInv'
<1> DEFINE CR == [at : {"away", "dialling", "locking", "storing"}, id : Nat,
                  read : [Daemons -> Nat]]
           a == AddressOf[c]
<1>1. a \in Daemons
  BY Zenon DEF Daemons
<1>2. [x \in Daemons |-> None] \in [Daemons -> Nat]
  BY Zenon DEF None
<1>3. Away \in CR /\ Away.at = "away"
  BY Zenon, <1>2 DEF Away, None
<1>4. CASE Expect(c)
  <2>1. PICK id \in {pgFile[a], AnswersAt(a)} \ {None} :
            pgClient' = [pgClient EXCEPT ![c] = [pgClient[c] EXCEPT !.at = "dialling", !.id = id]]
    BY Zenon, <1>4 DEF Expect
  <2>2. id \in Nat /\ id # None
    BY <1>1, <2>1 DEF AnswersAt, ClientInv, IdentityInv, IdentityTypeOK, None
  <2>3. pgFile' = pgFile /\ pgLock' = pgLock /\ pgPaired' = pgPaired
    BY Zenon, <1>4 DEF Expect
  <2>4. /\ pgClient' \in [Clients -> CR]
        /\ \A d \in Clients \ {c} : pgClient'[d] = pgClient[d]
        /\ pgClient'[c].at = "dialling" /\ pgClient'[c].id # None
    <3>1. pgClient \in [Clients -> CR] /\ pgClient[c] \in CR
      BY Zenon DEF ClientInv
    <3>2. LET r == [pgClient[c] EXCEPT !.at = "dialling", !.id = id]
          IN  r \in CR /\ r.at = "dialling" /\ r.id = id
      BY Zenon, <2>2, <3>1
    <3> QED  BY Zenon, <2>1, <2>2, <3>1, <3>2
  <2> QED  BY Zenon, <2>3, <2>4 DEF ClientInv, PairingsKept
<1>5. CASE Dial(c)
  <2>1. /\ pgFile' = pgFile /\ pgLock' = pgLock /\ pgPaired' = pgPaired
        /\ pgClient[c].at = "dialling" /\ pgClient \in [Clients -> CR] /\ pgClient[c] \in CR
    BY Zenon, <1>5 DEF Dial, ClientInv
  <2>2. PICK r : /\ pgClient' = [pgClient EXCEPT ![c] = r]
                 /\ r = Away \/ r = [pgClient[c] EXCEPT !.at = "locking"]
    BY Zenon, <1>5 DEF Dial
  <2>3. r \in CR /\ r.at # "storing" /\ (r.at # "away" => r.id = pgClient[c].id)
    BY Zenon, <1>3, <2>1, <2>2
  <2>4. /\ pgClient' \in [Clients -> CR] /\ pgClient'[c] = r
        /\ \A d \in Clients \ {c} : pgClient'[d] = pgClient[d]
    BY Zenon, <2>1, <2>2, <2>3
  <2> QED  BY ZenonT(60), <2>1, <2>3, <2>4 DEF ClientInv, PairingsKept
<1>6. CASE LockFile(c)
  <2>1. /\ pgFile' = pgFile /\ pgLock = {} /\ pgLock' = {c} /\ pgPaired' = pgPaired
        /\ pgClient[c].at = "locking" /\ pgClient[c] \in CR
        /\ pgClient' = [pgClient EXCEPT ![c] = [pgClient[c] EXCEPT !.at = "storing",
                                                                   !.read = pgFile]]
    BY Zenon, <1>6 DEF LockFile, ClientInv
  <2>2. /\ pgClient' \in [Clients -> CR] /\ pgClient'[c].at = "storing"
        /\ pgClient'[c].id = pgClient[c].id /\ pgClient'[c].read = pgFile
        /\ \A d \in Clients \ {c} : pgClient'[d] = pgClient[d]
    BY Zenon, <2>1 DEF ClientInv
  <2>3. \A d \in Clients : pgClient[d].at # "storing"
    BY Zenon, <2>1 DEF ClientInv
  <2> QED  BY Zenon, <2>1, <2>2, <2>3 DEF ClientInv, PairingsKept
<1>7. CASE Store(c)
  <2>1. /\ pgFile' = [pgClient[c].read EXCEPT ![a] = pgClient[c].id]
        /\ pgPaired' = pgPaired \cup {a} /\ pgClient[c].at = "storing"
        /\ pgClient' = [pgClient EXCEPT ![c] = Away]
    BY Zenon, <1>7 DEF Store
  <2>2. /\ pgLock = {c} /\ pgClient[c].read = pgFile /\ pgClient[c].id # None
        /\ pgClient[c].id \in Nat
    BY Zenon, <2>1 DEF ClientInv
  <2>3. /\ pgFile' \in [Daemons -> Nat] /\ pgFile'[a] # None
        /\ \A b \in Daemons \ {a} : pgFile'[b] = pgFile[b]
    BY Zenon, <1>1, <2>1, <2>2 DEF ClientInv
  <2>4. /\ pgClient' \in [Clients -> CR] /\ pgClient'[c] = Away
        /\ \A d \in Clients \ {c} : pgClient'[d] = pgClient[d]
    BY Zenon, <1>3, <2>1 DEF ClientInv
  <2>5. \A d \in Clients \ {c} : pgClient[d].at # "storing"
    BY Zenon, <2>2 DEF ClientInv
  <2>6. \A d \in Clients : /\ pgClient'[d].at # "away" => pgClient'[d].id # None
                          /\ pgClient'[d].at # "storing"
    <3>1. \A d \in Clients : pgClient[d].at # "away" => pgClient[d].id # None
      BY Zenon DEF ClientInv
    <3> QED  BY Zenon, <1>3, <2>4, <2>5, <3>1
  <2>7. pgPaired' \subseteq Daemons /\ PairingsKept'
    <3>1. pgPaired \subseteq Daemons /\ PairingsKept
      BY Zenon DEF ClientInv
    <3> QED  BY Zenon, <1>1, <2>1, <2>3, <3>1 DEF PairingsKept
  <2> QED  BY Zenon, <2>3, <2>4, <2>6, <2>7 DEF ClientInv
<1>8. CASE ClientKilled(c)
  <2>1. /\ pgFile' = pgFile /\ pgPaired' = pgPaired /\ pgLock' = pgLock \ {c}
        /\ pgClient' = [pgClient EXCEPT ![c] = Away]
    BY Zenon, <1>8 DEF ClientKilled
  <2>2. /\ pgClient' \in [Clients -> CR] /\ pgClient'[c] = Away
        /\ \A d \in Clients \ {c} : pgClient'[d] = pgClient[d]
    BY Zenon, <1>3, <2>1 DEF ClientInv
  <2>3. ASSUME NEW d \in Clients \ {c}, pgLock = {d} PROVE pgLock' = {d}
    BY Zenon, <2>1, <2>3
  <2> QED  BY Zenon, <1>3, <2>1, <2>2, <2>3 DEF ClientInv, PairingsKept
<1> QED  BY Zenon, <1>4, <1>5, <1>6, <1>7, <1>8

PairingInv == IdentityInv /\ ClientInv

\* Every step keeps the invariant: the daemon's leave the clients' file alone, and the clients' the identity.
LEMMA PairingNextInv == PairingInv /\ [PairingNext]_pairingVars => PairingInv'
<1> SUFFICES ASSUME PairingInv, [PairingNext]_pairingVars PROVE PairingInv'
  BY Zenon
<1>1. CASE LoadOrAdopt
  <2>1. UNCHANGED clientVars
    BY Zenon, <1>1 DEF LoadOrAdopt
  <2>2. ClientInv'
    BY Zenon, <2>1 DEF PairingInv, ClientInv, clientVars, PairingsKept
  <2> QED  BY Zenon, <1>1, <2>2, LoadKeepsIdentity DEF PairingInv
<1>2. CASE SaveFile
  <2>1. UNCHANGED clientVars
    BY Zenon, <1>2 DEF SaveFile
  <2>2. ClientInv'
    BY Zenon, <2>1 DEF PairingInv, ClientInv, clientVars, PairingsKept
  <2> QED  BY Zenon, <1>2, <2>2, SaveKeepsIdentity DEF PairingInv
<1>3. CASE Saved \/ DaemonKilled \/ DeleteDirectory \/ DeleteLegacy \/ UNCHANGED pairingVars
  <2>1. UNCHANGED clientVars
    BY Zenon, <1>3 DEF Saved, DaemonKilled, DeleteDirectory, DeleteLegacy, pairingVars,
       clientVars
  <2>2. ClientInv'
    BY Zenon, <2>1 DEF PairingInv, ClientInv, clientVars, PairingsKept
  <2>3. \/ Saved \/ DaemonKilled \/ DeleteDirectory \/ DeleteLegacy \/ UNCHANGED identityVars
    BY Zenon, <1>3 DEF pairingVars, identityVars
  <2> QED  BY Zenon, <2>2, <2>3, RestKeepsIdentity DEF PairingInv
<1>4. ASSUME NEW c \in Clients,
             Expect(c) \/ Dial(c) \/ LockFile(c) \/ Store(c) \/ ClientKilled(c)
      PROVE  PairingInv'
  <2>1. UNCHANGED identityVars
    BY Zenon, <1>4 DEF Expect, Dial, LockFile, Store, ClientKilled
  <2> QED  BY Zenon, <1>4, <2>1, ClientKeepsFile, RestKeepsIdentity DEF PairingInv
<1> QED  BY Zenon, <1>1, <1>2, <1>3, <1>4 DEF PairingNext

\* The files of the identity and of the clients are never in another state.
THEOREM PairingInvariant == PairingSpec => []PairingInv
<1>1. PairingInit => PairingInv
  BY Zenon, IdentityInitInv, ClientInitInv DEF PairingInv
<1> QED  BY <1>1, PairingNextInv, PTL DEF PairingSpec

\* Whatever kills, deletions and adoptions happen: an identity this host minted
\* (save_minted) is served only with its own admin token beside it on disk.
THEOREM MintedIsPairable == PairingSpec => []TokenBesideIdentity
<1>1. PairingInv => TokenBesideIdentity
  BY Zenon DEF PairingInv, IdentityInv, TokenBesideIdentity
<1> QED  BY <1>1, PairingInvariant, PTL

\* For every number of kills and identities: between two deletions of the directory
\* (load_or_adopt) the daemon serves one identity, the one clients have pinned.
THEOREM OneIdentityServed == PairingSpec => []PinsHold
<1>1. PairingInv => PinsHold
  <2> SUFFICES ASSUME PairingInv PROVE Cardinality(pgServed) <= 1
    BY Zenon DEF PinsHold
  <2>1. PICK x : pgServed \subseteq {x}
    BY Zenon DEF PairingInv, IdentityInv
  <2>2. IsFiniteSet({x}) /\ Cardinality({x}) = 1
    BY Zenon, FS_Singleton
  <2>3. Cardinality(pgServed) <= Cardinality({x})
    BY Zenon, <2>1, <2>2, FS_Subset
  <2> QED  BY Zenon, <2>2, <2>3
<1> QED  BY <1>1, PairingInvariant, PTL

\* For any number of connects and daemons: a pairing that store_connection reported
\* is never written over by a connect that read the file earlier.
THEOREM ReportedPairingsStay == PairingSpec => []PairingsKept
<1>1. PairingInv => PairingsKept
  BY Zenon DEF PairingInv, ClientInv
<1> QED  BY <1>1, PairingInvariant, PTL
===============================================================================
