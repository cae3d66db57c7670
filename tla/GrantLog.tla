-------------------------------- MODULE GrantLog --------------------------------
(***************************************************************************)
(* The grant-event log of fq-store with its projection, the outbox pump    *)
(* that fans events out to the bus, and the gate through which token       *)
(* bearers delegate and revoke.  A gate call reads the projection in one   *)
(* transaction and appends in a later one.                                 *)
(***************************************************************************)
EXTENDS Grants

CONSTANTS Offers,      \* the grants somebody may try to issue
          Cuts,        \* the attenuations a bearer may apply: [scope, verbs]
          Drainers,    \* concurrent outbox pumps
          MaxEvents,   \* bound: events in the log
          MaxBus       \* bound: publications

VARIABLES log,        \* grant_events: seq of [kind |-> "granted", grant] or [kind |-> "revoked", id]
          projected,  \* projected_grants: id -> grant
          withdrawn,  \* projected_revocations
          liveIds,    \* projected_grants.live
          cursor,     \* projection_cursor.applied_seq
          opened,     \* the database is open
          bearer,     \* a token in circulation, and the one it was cut from
          request,    \* a gate call past its checks, its append still to come
          marked,     \* seqs with published = 1
          feed,       \* what the bus acknowledged, in order
          pump        \* per drainer, the pending seqs still to do; sent: the first is published

projection == <<projected, withdrawn, liveIds, cursor>>
grantVars  == <<log, projection, opened, bearer, request, marked, feed, pump>>

NoRequest == [kind |-> "none"]
NoToken   == [principal |-> Operator, expired |-> TRUE, checks |-> {}, rights |-> {}]

AtRest      == [todo |-> <<>>, sent |-> FALSE]

Granted(g) == [kind |-> "granted", grant |-> g]
Revoked(i) == [kind |-> "revoked", id |-> i]

\* A log of any length written before the projection existed.
GrantInit ==
    /\ log \in {<<>>} \cup {<<Granted(g)>> : g \in Offers}
    /\ projected = <<>>
    /\ withdrawn = {}
    /\ liveIds = {}
    /\ cursor = 0
    /\ opened = FALSE
    /\ bearer = [token |-> NoToken, parent |-> NoToken]
    /\ request = NoRequest
    /\ marked = {}
    /\ feed = <<>>
    /\ pump = [d \in Drainers |-> AtRest]

\* apply_events_after: fold the events past the cursor into the tables, then
\* recompute every grant's liveness and advance the cursor.
FoldAfter(events, after, table, gone) ==
    LET fresh == {i \in after + 1 .. Len(events) : events[i].kind = "granted"}
        rows  == [i \in DOMAIN table \cup fresh |->
                     IF i \in DOMAIN table THEN table[i] ELSE events[i].grant]
        dead  == gone \cup {events[i].id : i \in {j \in after + 1 .. Len(events) :
                                                     events[j].kind = "revoked"}}
    IN  /\ projected' = rows
        /\ withdrawn' = dead
        /\ liveIds' = LiveIds(rows, dead)
        /\ cursor' = IF cursor < Len(events) THEN Len(events) ELSE cursor

\* append_granted and append_revoked: event and projection in one transaction,
\* the projection from the new event alone.
Append1(e) ==
    /\ opened
    /\ Len(log) < MaxEvents
    /\ log' = Append(log, e)
    /\ FoldAfter(log', Len(log), projected, withdrawn)

OpenLog ==
    /\ ~opened
    /\ opened' = TRUE
    /\ IF Len(log) > cursor
         THEN FoldAfter(log, cursor, projected, withdrawn)
         ELSE UNCHANGED projection
    /\ UNCHANGED <<log, bearer, request, marked, feed, pump>>

\* rebuild_projection: wipe and replay, in one transaction.
RebuildGrants ==
    /\ opened
    /\ FoldAfter(log, 0, <<>>, {})
    /\ UNCHANGED <<log, opened, bearer, request, marked, feed, pump>>

OperatorGrant(g) ==
    /\ g.grantor = Operator
    /\ Append1(Granted(g))
    /\ UNCHANGED <<opened, bearer, request, marked, feed, pump>>

OperatorRevoke(i) ==
    /\ i \in DOMAIN projected
    /\ Append1(Revoked(i))
    /\ UNCHANGED <<opened, bearer, request, marked, feed, pump>>

--------------------------------------------------------------------------------
\* The gate.

Mint(a) ==
    /\ opened
    /\ bearer' = [token |-> MintToken(projected, liveIds, a), parent |-> NoToken]
    /\ UNCHANGED <<log, projection, opened, request, marked, feed, pump>>

Attenuate(c) ==
    /\ bearer.token # NoToken
    /\ bearer.parent = NoToken
    /\ bearer' = [token  |-> AttenuateToken(bearer.token, c.scope, c.verbs),
                  parent |-> bearer.token]
    /\ UNCHANGED <<log, projection, opened, request, marked, feed, pump>>

Expire ==
    /\ ~bearer.token.expired
    /\ bearer' = [bearer EXCEPT !.token.expired = TRUE]
    /\ UNCHANGED <<log, projection, opened, request, marked, feed, pump>>

\* grant: the token permits it, and a live grant of the delegator supports it.
AskGrant(g) ==
    /\ opened
    /\ request = NoRequest
    /\ g.grantor = bearer.token.principal
    /\ Permits(bearer.token, "grant", g.scope)
    /\ \E i \in liveIds : projected[i].grantee = g.grantor /\ Supports(projected[i], g)
    /\ request' = Granted(g)
    /\ UNCHANGED <<log, projection, opened, bearer, marked, feed, pump>>

\* revoke: the token's principal issued the grant, and the token permits it.
AskRevoke(i) ==
    /\ opened
    /\ request = NoRequest
    /\ i \in DOMAIN projected
    /\ projected[i].grantor = bearer.token.principal
    /\ Permits(bearer.token, "grant", projected[i].scope)
    /\ request' = Revoked(i)
    /\ UNCHANGED <<log, projection, opened, bearer, marked, feed, pump>>

Perform ==
    /\ request # NoRequest
    /\ Append1(request)
    /\ request' = NoRequest
    /\ UNCHANGED <<opened, bearer, marked, feed, pump>>

\* authorize and list: the token permits the operation and the projection
\* authorizes it.
GateAllows(verb, path) ==
    /\ Permits(bearer.token, verb, NameScope(path))
    /\ Can(projected, liveIds, bearer.token.principal, verb, path)

GateLists(path) ==
    /\ Permits(bearer.token, "list", NamespaceScope(path))
    /\ \/ Owns(bearer.token.principal, path)
       \/ \E i \in liveIds :
              /\ projected[i].grantee = bearer.token.principal
              /\ "list" \in projected[i].verbs
              /\ CoversScope(projected[i].scope, NamespaceScope(path))

--------------------------------------------------------------------------------
\* The outbox.

\* pending: the unpublished events, in log order.
Pending == SelectSeq([i \in 1 .. Len(log) |-> i], LAMBDA i : i \notin marked)

DrainStart(d) ==
    /\ opened
    /\ pump[d] = AtRest
    /\ Pending # <<>>
    /\ pump' = [pump EXCEPT ![d].todo = Pending]
    /\ UNCHANGED <<log, projection, opened, bearer, request, marked, feed>>

\* A publication the bus accepted; the mark follows in a transaction of its own.
DrainPublish(d) ==
    /\ pump[d].todo # <<>>
    /\ ~pump[d].sent
    /\ Len(feed) < MaxBus
    /\ feed' = Append(feed, Head(pump[d].todo))
    /\ pump' = [pump EXCEPT ![d].sent = TRUE]
    /\ UNCHANGED <<log, projection, opened, bearer, request, marked>>

DrainMark(d) ==
    /\ pump[d].sent
    /\ marked' = marked \cup {Head(pump[d].todo)}
    /\ pump' = [pump EXCEPT ![d] = [todo |-> Tail(@.todo), sent |-> FALSE]]
    /\ UNCHANGED <<log, projection, opened, bearer, request, feed>>

\* A bus error, or an acknowledgement that never came, ends the drain: the
\* event may or may not have reached the bus.
DrainPastError(d) ==
    /\ pump[d].todo # <<>>
    /\ pump' = [pump EXCEPT ![d] = [todo |-> Tail(@.todo), sent |-> FALSE]]
    /\ UNCHANGED <<log, projection, opened, bearer, request, marked, feed>>

DrainFail(d) ==
    /\ pump[d].todo # <<>>
    /\ pump' = [pump EXCEPT ![d] = AtRest]
    /\ UNCHANGED <<log, projection, opened, bearer, request, marked, feed>>

\* The process dies; what it had not written is gone.
KillGrantStore ==
    /\ opened
    /\ opened' = FALSE
    /\ request' = NoRequest
    /\ pump' = [d \in Drainers |-> AtRest]
    /\ UNCHANGED <<log, projection, bearer, marked, feed>>

LogNext ==
    \/ OpenLog \/ RebuildGrants \/ KillGrantStore
    \/ \E g \in Offers : OperatorGrant(g)
    \/ \E i \in 1 .. MaxEvents : OperatorRevoke(i)

GateNext ==
    \/ Perform \/ Expire
    \/ \E g \in Offers : AskGrant(g)
    \/ \E i \in 1 .. MaxEvents : AskRevoke(i)
    \/ \E a \in Agents : Mint(a)
    \/ \E c \in Cuts : Attenuate(c)

FeedNext ==
    \E d \in Drainers : DrainStart(d) \/ DrainPublish(d) \/ DrainMark(d) \/ DrainFail(d)

GrantNext == LogNext \/ GateNext \/ FeedNext

GrantSpec == GrantInit /\ [][GrantNext]_grantVars

--------------------------------------------------------------------------------

\* The ids of a line of authority through the log that ends in the grant i: an
\* operator grant first, each later one issued by the holder of the one before
\* and supported by it, and none of them revoked anywhere in the log.
ReplayGone == {log[i].id : i \in {j \in DOMAIN log : log[j].kind = "revoked"}}

LineOfAuthority(S, i) ==
    /\ i \in S
    /\ \A k \in S : k <= i /\ log[k].kind = "granted" /\ k \notin ReplayGone
    /\ \A k \in S :
          LET before == {j \in S : j < k}
              up     == CHOOSE j \in before : \A m \in before : m <= j
          IN  IF before = {} THEN log[k].grant.grantor = Operator
              ELSE /\ log[up].grant.grantee = log[k].grant.grantor
                   /\ Supports(log[up].grant, log[k].grant)

\* The projection the gate reads is at every commit the replay of the log: the
\* grants it holds live are exactly those at the end of an unrevoked line of
\* authority, however appends, the catch-up of an old database, rebuilds and
\* restarts interleave (recompute_liveness after every event, claim A5).
ProjectionIsReplay ==
    opened => liveIds = {i \in DOMAIN log : \E S \in SUBSET (1 .. i) : LineOfAuthority(S, i)}

\* What the gate lets a bearer do outside its own scope is backed by a line of
\* authority in which every grant confers that verb over that name, so one
\* revocation anywhere upstream, or a delegation wider than its delegator
\* held, leaves nothing behind (authorize, list, supports).
GateFollowsAuthority ==
    opened =>
        \A p \in Resources, v \in Verbs :
            (~Owns(bearer.token.principal, p) /\ (GateAllows(v, p) \/ (v = "list" /\ GateLists(p)))) =>
                \E i \in DOMAIN log : \E S \in SUBSET (1 .. i) :
                    /\ LineOfAuthority(S, i)
                    /\ log[i].grant.grantee = bearer.token.principal
                    /\ \A k \in S : v \in log[k].grant.verbs /\ Covers(log[k].grant.scope, p)

\* A token never says more than the scopes behind it: what it authorizes
\* offline is covered by a right it was minted with and by every scope it was
\* cut down to, for point and for subtree operations alike, and a token cut
\* from another permits no more than that one (the datalog tests of evaluate
\* and attenuate against Scope::covers_scope).
TokenNarrows ==
    \A v \in Verbs, ref \in Scopes :
        /\ Authorizes(bearer.token, v, ref) =>
              /\ \E r \in bearer.token.rights : r.verb = v /\ CoversScope(r.scope, ref)
              /\ \A c \in bearer.token.checks : c.scope # NoScope => CoversScope(c.scope, ref)
        /\ bearer.parent # NoToken /\ Permits(bearer.token, v, ref) => Permits(bearer.parent, v, ref)

\* The bus sees events in log order: none is marked that was not published,
\* and none is published before an earlier one, through failed publications,
\* lost acknowledgements, concurrent drains and restarts (drain stops at the
\* first error and leaves the rest queued).
FeedInOrder ==
    /\ \A i \in marked : Contains(feed, i)
    /\ \A k \in DOMAIN feed : \A i \in 1 .. feed[k] - 1 : \E j \in 1 .. k : feed[j] = i
================================================================================
