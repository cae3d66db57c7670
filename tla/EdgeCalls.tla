------------------------------- MODULE EdgeCalls -------------------------------
(***************************************************************************)
(* What happens to a request once its connection is authenticated: the      *)
(* catalogue it is resolved in (fq-ops registry.rs, fq-edge registry.rs),   *)
(* the token that must cover it (fq-edge auth.rs), and the gate that makes  *)
(* a read wait for the caller's own write (fq-edge server.rs, fq-runtime    *)
(* watermark.rs) while two consumers fold the log into the stores the read  *)
(* will look at.                                                            *)
(*                                                                          *)
(* An operation's name is <<domain, verb>>.  A declaration is               *)
(* [kind, domain, verb, needs]: an atom, a view or a synthetic claims the   *)
(* names its kind derives, a command or a report its own.                   *)
(***************************************************************************)
EXTENDS Naturals, FiniteSets, Sequences

CONSTANTS Rosters,      \* the sequences of declarations operator_registry may may_register
          RootGrants,   \* the grants of the token the client starts from
          Narrowings,   \* what the client may attenuate it to
          MaxReceipts,    \* bound: events in the log
          MaxEdgeRestarts   \* bound: restarts of the daemon

NoOperation      == <<"none", "none">>
NoDecl    == [kind |-> "none", domain |-> "none", verb |-> "none", needs |-> "none"]
Catalogue == <<"operation", "list">>
Marks     == {"projection", "coordination"}

VARIABLES ecRoster,    \* what is still to may_register
          ecEntries,   \* the declarations registered
          ecNames,     \* name -> the entry resolve finds
          ecHandlers,  \* name -> the declaration whose handler is bound, for invoke
          ecStreams,   \* the same for next_batch
          ecUp,        \* "registering", "serving" or "failed"
          ecTail,      \* the log's last sequence
          ecStore,     \* consumer -> the last event in its store
          ecDue,       \* consumers whose mark is still to follow their store
          ecMark,      \* consumer -> its watermark
          ecToken,     \* [grants, checks] of the client
          ecCall,      \* the request in hand
          ecReceipt,   \* the watermark of the client's last command
          ecRestarts

catalogue == <<ecRoster, ecEntries, ecNames, ecHandlers, ecStreams, ecUp>>
foldVars  == <<ecTail, ecStore, ecDue, ecMark>>
callVars  == <<catalogue, foldVars, ecToken, ecCall, ecReceipt, ecRestarts>>

NoEdgeCall == [at |-> "idle", op |-> NoOperation, via |-> "invoke", min |-> 0, waits |-> {}, seen |-> 0,
          ran |-> NoDecl, answer |-> "none"]

CallsInit ==
    /\ ecRoster \in Rosters
    /\ ecEntries = {} /\ ecUp = "registering"
    /\ ecNames = [n \in {} |-> NoDecl] /\ ecHandlers = ecNames /\ ecStreams = ecNames
    /\ ecTail = 0 /\ ecDue = {}
    /\ ecStore = [f \in Marks |-> 0] /\ ecMark = [f \in Marks |-> 0]
    /\ ecToken = [grants |-> RootGrants, checks |-> {}]
    /\ ecCall = NoEdgeCall /\ ecReceipt = 0 /\ ecRestarts = 0

-----------------------------------------------------------------------------
IsResource(d) == d.kind \in {"atom", "view", "synthetic"}

derived_ops(d) == {<<d.domain, v>> : v \in CASE d.kind = "atom"      -> {"get", "list", "stream"}
                                             [] d.kind = "view"      -> {"get", "list"}
                                             [] d.kind = "synthetic" -> {"get"}
                                             [] OTHER                -> {}}
Claimed(d) == IF IsResource(d) THEN derived_ops(d) ELSE {<<d.domain, d.verb>>}

\* Registry::may_register refuses a second resource of a domain and a second
\* claim on a name.
DomainFree(d) == ~(IsResource(d) /\ \E e \in ecEntries : IsResource(e) /\ e.domain = d.domain)
may_register_by_domain(d) == DomainFree(d)
may_register(d)           == DomainFree(d) /\ Claimed(d) \cap DOMAIN ecNames = {}

\* bind, and the stream half of EdgeRegistry::atom.
bind(table, names, d) == [n \in DOMAIN table \cup names |-> IF n \in names THEN d ELSE table[n]]
Streamed(d)           == {n \in Claimed(d) : d.kind = "atom" /\ n[2] = "stream"}

\* EdgeRegistry::command, report, synthetic, view and atom: may_register, then bind.
\* A refusal ends the start.
RegisterNext ==
    /\ ecUp = "registering" /\ ecRoster # <<>>
    /\ LET d == Head(ecRoster) IN
         IF may_register(d)
         THEN /\ ecEntries' = ecEntries \cup {d}
              /\ ecNames' = bind(ecNames, Claimed(d), d)
              /\ ecHandlers' = bind(ecHandlers, Claimed(d) \ Streamed(d), d)
              /\ ecStreams' = bind(ecStreams, Streamed(d), d)
              /\ ecRoster' = Tail(ecRoster)
              /\ ecUp' = IF Tail(ecRoster) = <<>> THEN "serving" ELSE "registering"
         ELSE /\ ecUp' = "failed"
              /\ UNCHANGED <<ecRoster, ecEntries, ecNames, ecHandlers, ecStreams>>
    /\ UNCHANGED <<foldVars, ecToken, ecCall, ecReceipt, ecRestarts>>

\* Registry::resolve: category and authority of a name some entry claimed.
CategoryOf(op)  == LET d == ecNames[op] IN IF IsResource(d) THEN op[2] ELSE d.kind
AuthorityOf(op) == LET d == ecNames[op]
                   IN  <<IF d.kind = "command" THEN d.needs ELSE "read", d.domain>>

-----------------------------------------------------------------------------
\* attenuate appends a check block; VerifiedToken::allows wants a grant of the
\* authority block and every check.
GrantCovers(g, need) == (g[1] = "*" \/ g[1] = need[1]) /\ (g[2] = "*" \/ g[2] = need[2])
attenuate_as_grants(t, gs) == [t EXCEPT !.grants = @ \cup gs]
attenuate(t, gs)           == [t EXCEPT !.checks = @ \cup {gs}]
allows(t, need) == /\ \E g \in t.grants : GrantCovers(g, need)
                   /\ \A c \in t.checks : \E g \in c : GrantCovers(g, need)

NarrowToken(gs) ==
    /\ ecUp = "serving" /\ ecCall.at = "idle" /\ ecToken.checks = {}
    /\ ecToken' = attenuate(ecToken, gs)
    /\ UNCHANGED <<catalogue, foldVars, ecCall, ecReceipt, ecRestarts>>

-----------------------------------------------------------------------------
Reply(why) == ecCall' = [ecCall EXCEPT !.at = "answered", !.answer = why]

\* A client asks; it may gate the request on the receipt it holds.
Request(op, via, gated) ==
    /\ ecUp = "serving" /\ ecCall.at = "idle" /\ (gated => ecReceipt > 0 /\ via = "invoke")
    /\ ecCall' = [NoEdgeCall EXCEPT !.at = "asked", !.op = op, !.via = via,
                               !.min = IF gated THEN ecReceipt ELSE 0]
    /\ UNCHANGED <<catalogue, foldVars, ecToken, ecReceipt, ecRestarts>>

authorize(op) == IF op \notin DOMAIN ecNames THEN "not_registered"
                 ELSE IF ~allows(ecToken, AuthorityOf(op)) THEN "denied" ELSE "ok"

\* invoke up to its gate.
invoke(op) ==
    IF op = Catalogue
      THEN Reply(IF allows(ecToken, <<"read", "operation">>) THEN "catalogue" ELSE "denied")
    ELSE IF authorize(op) # "ok" THEN Reply(authorize(op))
    ELSE IF CategoryOf(op) = "stream" THEN Reply("invalid_input")
    ELSE IF ecCall.min > 0 /\ CategoryOf(op) \notin {"get", "list"} THEN Reply("invalid_input")
    ELSE ecCall' = [ecCall EXCEPT !.at = "gated", !.waits = IF ecCall.min > 0 THEN Marks ELSE {}]

next_batch(op) ==
    IF authorize(op) # "ok" THEN Reply(authorize(op))
    ELSE IF CategoryOf(op) # "stream" THEN Reply("invalid_input")
    ELSE ecCall' = [ecCall EXCEPT !.at = "gated"]

AdmitRequest ==
    /\ ecCall.at = "asked"
    /\ IF ecCall.via = "invoke" THEN invoke(ecCall.op) ELSE next_batch(ecCall.op)
    /\ UNCHANGED <<catalogue, foldVars, ecToken, ecReceipt, ecRestarts>>

\* Horizon::wait_for: one mark after the other, under one deadline.
HorizonOfFirst(m) == ecCall' = [ecCall EXCEPT !.waits = {}]
Horizon(m)        == ecCall' = [ecCall EXCEPT !.waits = @ \ {m}]

WaitFor(m) ==
    /\ ecCall.at = "gated" /\ m \in ecCall.waits
    /\ m = "coordination" => "projection" \notin ecCall.waits
    /\ ecMark[m] >= ecCall.min
    /\ Horizon(m)
    /\ UNCHANGED <<catalogue, foldVars, ecToken, ecReceipt, ecRestarts>>

Lagging ==
    /\ ecCall.at = "gated" /\ ecCall.waits # {}
    /\ Reply("lagging")
    /\ UNCHANGED <<catalogue, foldVars, ecToken, ecReceipt, ecRestarts>>

\* The handler: a command publishes and its receipt bears the event's sequence;
\* a read looks at both stores.
Seen == IF ecStore["projection"] <= ecStore["coordination"]
          THEN ecStore["projection"] ELSE ecStore["coordination"]

RunHandler ==
    /\ ecCall.at = "gated" /\ ecCall.waits = {}
    /\ LET table == IF ecCall.via = "invoke" THEN ecHandlers ELSE ecStreams IN
         IF ecCall.op \notin DOMAIN table
         THEN Reply("not_registered") /\ UNCHANGED <<ecTail, ecReceipt>>
         ELSE LET d == table[ecCall.op] IN
              /\ d.kind = "command" => ecTail < MaxReceipts
              /\ ecTail' = IF d.kind = "command" THEN ecTail + 1 ELSE ecTail
              /\ ecReceipt' = IF d.kind = "command" THEN ecTail + 1 ELSE ecReceipt
              /\ ecCall' = [ecCall EXCEPT !.at = "answered", !.answer = "output",
                                          !.ran = d, !.seen = Seen]
    /\ UNCHANGED <<catalogue, ecStore, ecDue, ecMark, ecToken, ecRestarts>>

ReplySent ==
    /\ ecCall.at = "answered"
    /\ ecCall' = NoEdgeCall
    /\ UNCHANGED <<catalogue, foldVars, ecToken, ecReceipt, ecRestarts>>

-----------------------------------------------------------------------------
\* A consumer's handler commits the next event; then its mark follows.
HandleEvent(m) ==
    /\ m \notin ecDue /\ ecStore[m] < ecTail
    /\ ecStore' = [ecStore EXCEPT ![m] = @ + 1]
    /\ ecDue' = ecDue \cup {m}
    /\ UNCHANGED <<catalogue, ecTail, ecMark, ecToken, ecCall, ecReceipt, ecRestarts>>

MarkFollows(m) ==
    /\ m \in ecDue
    /\ ecMark' = [ecMark EXCEPT ![m] = IF ecStore[m] > @ THEN ecStore[m] ELSE @]
    /\ ecDue' = ecDue \ {m}
    /\ UNCHANGED <<catalogue, ecTail, ecStore, ecToken, ecCall, ecReceipt, ecRestarts>>

\* The marks are the process's own: they begin at zero, and only what is
\* delivered after the restart (an unacked event again included) moves them.
Restart ==
    /\ ecUp = "serving" /\ ecRestarts < MaxEdgeRestarts
    /\ ecRestarts' = ecRestarts + 1
    /\ ecMark' = [m \in Marks |-> 0]
    /\ ecCall' = NoEdgeCall
    /\ UNCHANGED <<catalogue, ecTail, ecStore, ecDue, ecToken, ecReceipt>>

Askable == DOMAIN ecNames \cup {Catalogue, NoOperation}

CallsNext ==
    \/ RegisterNext
    \/ \E gs \in Narrowings : NarrowToken(gs)
    \/ \E op \in Askable, via \in {"invoke", "next_batch"}, g \in BOOLEAN : Request(op, via, g)
    \/ AdmitRequest \/ Lagging \/ RunHandler \/ ReplySent \/ Restart
    \/ \E m \in Marks : WaitFor(m) \/ HandleEvent(m) \/ MarkFollows(m)

CallsSpec == CallsInit /\ [][CallsNext]_callVars

-----------------------------------------------------------------------------
(* Whatever a client narrows its token to, the handler that runs is one of  *)
(* the name it asked for, and one the root token covers: the description    *)
(* authorize looked at and the handler invoke found are the same entry's.   *)
HandlerIsCovered ==
    ecCall.answer = "output"
        => /\ ecCall.op \in Claimed(ecCall.ran) /\ ecCall.ran = ecNames[ecCall.op]
           /\ \E g \in RootGrants : GrantCovers(g, AuthorityOf(ecCall.op))

(* A registry that was built is whole: every name an entry claims resolves  *)
(* to that entry and dispatches to its handler, so no later registration    *)
(* took an earlier one's place.                                             *)
EntriesReachable ==
    \A d \in ecEntries : \A n \in Claimed(d) :
        /\ ecNames[n] = d
        /\ IF n \in DOMAIN ecHandlers THEN ecHandlers[n] = d ELSE ecStreams[n] = d

(* Read-your-writes: a read gated on a command's receipt sees the command's *)
(* event in every store the views join, across restarts of the daemon.      *)
GatedReadSeesWrite == ecCall.answer = "output" => ecCall.seen >= ecCall.min
=============================================================================
