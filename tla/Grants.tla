--------------------------------- MODULE Grants ---------------------------------
(***************************************************************************)
(* The access-control vocabulary of fq-store and the decisions made from   *)
(* it: scopes over dotted names, delegation support, the liveness pass     *)
(* over a grant table, and what a capability token permits.  A dotted name *)
(* is the sequence of its segments.                                        *)
(***************************************************************************)
EXTENDS Naturals, FiniteSets, SequencesExt

CONSTANTS Agents,      \* agent ids (valid ones: no dots)
          Operator,    \* the root grantor
          Resources    \* the dotted names asked about

Verbs == {"read", "write", "delete", "list", "grant"}

\* Scope: one exact name, or a namespace and everything below it.
NameScope(p)      == [kind |-> "name", path |-> p]
NamespaceScope(p) == [kind |-> "namespace", path |-> p]
Scopes            == [kind : {"name", "namespace"}, path : Resources]

\* Principal::owns: system.agents.<id> and below.
Owns(a, path) == IsPrefix(<<"agents", a>>, path)

Covers(scope, path) ==
    IF scope.kind = "name" THEN scope.path = path ELSE IsPrefix(scope.path, path)

\* A namespace is covered only by a namespace at or above it.
CoversScope(scope, other) ==
    IF other.kind = "name" THEN Covers(scope, other.path)
    ELSE scope.kind = "namespace" /\ IsPrefix(scope.path, other.path)

Grant == [grantor : Agents \cup {Operator}, grantee : Agents,
          verbs : SUBSET Verbs, scope : Scopes]

\* The delegation-support predicate.
SupportsAnyVerbs(sup, g) ==
    "grant" \in sup.verbs /\ CoversScope(sup.scope, g.scope)

Supports(sup, g) ==
    /\ "grant" \in sup.verbs
    /\ g.verbs \subseteq sup.verbs
    /\ CoversScope(sup.scope, g.scope)

\* live_ids and recompute_liveness: one forward pass in id order over a grant
\* table (a function from ids), every grant standing on an earlier live one.
LiveIdsInAnyOrder(table, revoked) ==
    {i \in DOMAIN table \ revoked :
        table[i].grantor = Operator
            \/ \E j \in DOMAIN table \ revoked :
                   table[j].grantee = table[i].grantor /\ Supports(table[j], table[i])}

LiveIds(table, revoked) ==
    LET top == IF DOMAIN table = {} THEN 0 ELSE CHOOSE i \in DOMAIN table : \A j \in DOMAIN table : j <= i
        Stands(i, live) ==
            /\ i \in DOMAIN table \ revoked
            /\ \/ table[i].grantor = Operator
               \/ \E j \in live : table[j].grantee = table[i].grantor
                                  /\ Supports(table[j], table[i])
        pass[i \in 0 .. top] ==
            IF i = 0 THEN {}
            ELSE pass[i - 1] \cup (IF Stands(i, pass[i - 1]) THEN {i} ELSE {})
    IN  pass[top]

\* can: own scope, or a live grant held by the agent.
Can(table, live, a, verb, path) ==
    \/ Owns(a, path)
    \/ \E i \in live : table[i].grantee = a /\ verb \in table[i].verbs
                       /\ Covers(table[i].scope, path)

--------------------------------------------------------------------------------
\* Tokens: the principal, the rights flattened at mint time, the checks that
\* attenuation appended, and whether the expiry has passed.

NoScope == [kind |-> "any", path |-> <<>>]

\* mint: one right per verb and scope of the principal's live grants.
MintToken(table, live, a) ==
    [principal |-> a, expired |-> FALSE, checks |-> {},
     rights |-> {[verb |-> v, scope |-> table[i].scope] :
                    <<i, v>> \in {p \in live \X Verbs : table[p[1]].grantee = a
                                                       /\ p[2] \in table[p[1]].verbs}}]

\* attenuate: append a block of checks; every earlier one keeps applying.
AttenuateToken(t, scope, verbs) ==
    [t EXCEPT !.checks = @ \cup {[scope |-> scope, verbs |-> verbs]}]

\* The datalog test of a name or namespace against the operation's resource
\* and scope kind, in the checks and in the allow policies.
TestByString(scope, ref) ==
    IF scope.kind = "name" THEN ref.path = scope.path ELSE IsPrefix(scope.path, ref.path)

Test(scope, ref) ==
    IF scope.kind = "name" THEN ref.kind = "name" /\ ref.path = scope.path
    ELSE IsPrefix(scope.path, ref.path)

Permits(t, verb, ref) ==
    /\ ~t.expired
    /\ \A c \in t.checks : verb \in c.verbs /\ (c.scope # NoScope => Test(c.scope, ref))

Authorizes(t, verb, ref) ==
    Permits(t, verb, ref) /\ \E r \in t.rights : r.verb = verb /\ Test(r.scope, ref)
================================================================================
