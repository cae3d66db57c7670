-------------------------------- MODULE McpServers --------------------------------
(***************************************************************************)
(* The MCP servers agents share: mcp/manager.rs dials them, one connection *)
(* for each transport target however many agents declare it; the watcher   *)
(* and the retry task of mcp/lifecycle.rs notice a connection that ended   *)
(* and dial again; mcp/notifications.rs rebuilds the tool registry; and    *)
(* runner/mcp.rs refuses an invocation whose servers are not answering.    *)
(*                                                                         *)
(* A connection is a number; a server's tools are the connection they were *)
(* discovered over.  Backoff is left to the scheduler.                     *)
(***************************************************************************)
EXTENDS Integers, Sequences, FiniteSets, SequencesExt

CONSTANTS DeclaredServers, \* the agents' declarations, in order: [name, target]
          RetryOn,         \* [mcp] retry_initial is not zero
          MaxDials,        \* bound: connections made
          MaxHiccups       \* bound: re-discoveries that fail on a live connection

VARIABLES mcConn,    \* the connections made: sequence of [name, target, open]
          mcHeld,    \* manager.servers, and the client view of its handles
          mcStarted, \* manager.started: target -> name
          mcStates,  \* McpServerStates: name -> state
          mcWatched, \* connections with a live watch_connection
          mcGone,    \* closures announced to the retry task
          mcPending, \* the retry task's list of servers to dial
          mcDial,    \* the round being dialled: [on, fresh]
          mcCameUp,  \* servers that came up, on their way to the drain
          mcDrain,   \* the registry rebuild in progress: [on, over]
          mcTools,   \* the installed registry: connections whose tools it has
          mcHiccups, \* history: re-discoveries that failed on a live connection
          mcPhase    \* of the daemon: "boot", "up", "down"

mcpVars == <<mcConn, mcHeld, mcStarted, mcStates, mcWatched, mcGone, mcPending, mcDial,
             mcCameUp, mcDrain, mcTools, mcHiccups, mcPhase>>

ServerNames  == {DeclaredServers[i].name : i \in DOMAIN DeclaredServers}
Targets      == {DeclaredServers[i].target : i \in DOMAIN DeclaredServers}
NoName       == "none"
NoRound      == [on |-> FALSE, fresh |-> <<>>]
NoRebuild    == [on |-> FALSE, over |-> {}]

--------------------------------------------------------------------------------
McpInit ==
    /\ mcConn = <<>>
    /\ mcHeld = {}
    /\ mcStarted = [t \in Targets |-> NoName]
    /\ mcStates = [n \in ServerNames |-> NoName]
    /\ mcWatched = {}
    /\ mcGone = <<>>
    /\ mcPending = DeclaredServers
    /\ mcDial = NoRound
    /\ mcCameUp = <<>>
    /\ mcDrain = NoRebuild
    /\ mcTools = {}
    /\ mcHiccups = 0
    /\ mcPhase = "boot"

FreshUnshared(configs) == configs

\* dial_round: a target already started, or earlier in this round, is not dialled.
Fresh(configs) ==
    LET first(i) == /\ mcStarted[configs[i].target] = NoName
                    /\ \A j \in 1 .. i - 1 : configs[j].target # configs[i].target
    IN SelectSeq([i \in DOMAIN configs |-> [configs[i] EXCEPT !.name = IF first(i) THEN @ ELSE NoName]],
                 LAMBDA c : c.name # NoName)

\* started.insert replaces the name a target was started under.
StartedWith(configs) ==
    [t \in Targets |->
        LET at == {i \in DOMAIN configs : configs[i].target = t}
        IN IF at = {} THEN mcStarted[t]
           ELSE configs[CHOOSE i \in at : \A j \in at : j <= i].name]

\* start_shared_servers at boot, and the retry task's round.
StartRound ==
    /\ ~mcDial.on
    /\ mcPending # <<>>
    /\ mcPhase = "boot" \/ (mcPhase = "up" /\ RetryOn)
    /\ LET fresh == Fresh(mcPending)
       IN /\ mcDial' = [on |-> TRUE, fresh |-> fresh]
          /\ mcStates' = [n \in ServerNames |->
                            IF \E i \in DOMAIN fresh : fresh[i].name = n
                              THEN "starting" ELSE mcStates[n]]
          /\ mcStarted' = StartedWith(mcPending)
    /\ UNCHANGED <<mcConn, mcHeld, mcWatched, mcGone, mcPending, mcCameUp, mcDrain, mcTools,
                   mcHiccups, mcPhase>>

AnnouncedNone(up) == <<>>

\* Only what take_notifications_for finds is announced.
Announced(up) == up

RegisteredUnwatched(ids) == IF mcPhase = "boot" THEN ids ELSE {}

\* register spawns a watch_connection for every connection.
Registered(ids) == ids

\* The round is over: what connected is ready and registered, what did not is
\* unavailable and stays to be dialled again.
EndRound ==
    /\ mcDial.on
    /\ \E up \in SUBSET DOMAIN mcDial.fresh :
         LET fresh == mcDial.fresh
             ups   == SetToSortSeq(up, <)
             base  == Len(mcConn)
             ids   == {base + k : k \in DOMAIN ups}
         IN /\ base + Len(ups) <= MaxDials
            /\ mcConn' = mcConn \o [k \in DOMAIN ups |->
                            [name |-> fresh[ups[k]].name, target |-> fresh[ups[k]].target,
                             open |-> TRUE]]
            /\ mcHeld' = mcHeld \union ids
            /\ mcWatched' = mcWatched \union Registered(ids)
            /\ mcStarted' = [t \in Targets |->
                               IF \E i \in DOMAIN fresh \ up : fresh[i].target = t
                                 THEN NoName ELSE mcStarted[t]]
            /\ mcStates' = [n \in ServerNames |->
                              IF \E i \in up : fresh[i].name = n THEN "ready"
                              ELSE IF \E i \in DOMAIN fresh \ up : fresh[i].name = n
                                THEN "unavailable" ELSE mcStates[n]]
            \* one configuration is kept for each failed outcome
            /\ mcPending' = SelectSeq([i \in DOMAIN fresh |->
                                [fresh[i] EXCEPT !.name = IF i \in up THEN NoName ELSE @]],
                              LAMBDA c : c.name # NoName)
            /\ IF mcPhase = "boot"
                 THEN /\ mcTools' = ids
                      /\ mcPhase' = "up"
                      /\ UNCHANGED mcCameUp
                 ELSE /\ mcCameUp' = mcCameUp \o Announced([k \in DOMAIN ups |-> fresh[ups[k]].name])
                      /\ UNCHANGED <<mcTools, mcPhase>>
    /\ mcDial' = NoRound
    /\ UNCHANGED <<mcGone, mcDrain, mcHiccups>>

--------------------------------------------------------------------------------
\* The other end goes away.
Hangup(c) ==
    /\ mcPhase = "up"
    /\ mcConn[c].open
    /\ c \in mcHeld
    /\ mcConn' = [mcConn EXCEPT ![c].open = FALSE]
    /\ UNCHANGED <<mcHeld, mcStarted, mcStates, mcWatched, mcGone, mcPending, mcDial, mcCameUp,
                   mcDrain, mcTools, mcHiccups, mcPhase>>

\* watch_connection: the poll that finds the transport closed.
watch_connection(c) ==
    /\ c \in mcWatched
    /\ mcWatched' = mcWatched \ {c}
    /\ IF c \notin mcHeld
         THEN UNCHANGED <<mcStates, mcGone>>   \* torn down in good order
         ELSE /\ ~mcConn[c].open
              /\ mcStates' = [mcStates EXCEPT ![mcConn[c].name] = "unavailable"]
              /\ mcGone' = Append(mcGone, mcConn[c].name)
    /\ UNCHANGED <<mcConn, mcHeld, mcStarted, mcPending, mcDial, mcCameUp, mcDrain, mcTools,
                   mcHiccups, mcPhase>>

NamesForgottenKept(n) == mcStarted

\* forget drops the identities started under the name.
NamesForgotten(n) == [t \in Targets |-> IF mcStarted[t] = n THEN NoName ELSE mcStarted[t]]

\* mark_gone, in the retry task: forget the server and dial its first declaration.
mark_gone ==
    /\ mcPhase = "up"
    /\ ~mcDial.on
    /\ mcGone # <<>>
    /\ mcGone' = Tail(mcGone)
    /\ LET n    == Head(mcGone)
           held == {c \in mcHeld : mcConn[c].name = n}
           decl == DeclaredServers[CHOOSE i \in DOMAIN DeclaredServers :
                      /\ DeclaredServers[i].name = n
                      /\ \A j \in 1 .. i - 1 : DeclaredServers[j].name # n]
       IN IF held = {} THEN UNCHANGED <<mcHeld, mcStarted, mcStates, mcPending>>
          ELSE /\ mcHeld' = mcHeld \ held
               /\ mcStarted' = NamesForgotten(n)
               /\ mcStates' = [mcStates EXCEPT ![n] = "unavailable"]
               /\ mcPending' = Append(mcPending, decl)
    /\ UNCHANGED <<mcConn, mcWatched, mcDial, mcCameUp, mcDrain, mcTools, mcHiccups, mcPhase>>

--------------------------------------------------------------------------------
\* drain_server_notifications: a server joined, or said that its tools changed.
\* rebuild_registry takes the client view and asks each one again.
RebuildStart ==
    /\ mcPhase = "up"
    /\ ~mcDrain.on
    /\ \/ mcCameUp # <<>> /\ mcCameUp' = Tail(mcCameUp)
       \/ /\ \E c \in mcHeld : mcConn[c].open   \* tools/list_changed
          /\ UNCHANGED mcCameUp
    /\ mcDrain' = [on |-> TRUE, over |-> mcHeld]
    /\ UNCHANGED <<mcConn, mcHeld, mcStarted, mcStates, mcWatched, mcGone, mcPending, mcDial,
                   mcTools, mcHiccups, mcPhase>>

\* install_tools: a connection that does not answer has no tools in the registry.
RebuildEnd ==
    /\ mcDrain.on
    /\ \E dumb \in {{}} \union {{c} : c \in mcDrain.over} :
         LET live == {c \in mcDrain.over : mcConn[c].open}
         IN /\ dumb \subseteq live
            /\ mcHiccups + Cardinality(dumb) <= MaxHiccups
            /\ mcHiccups' = mcHiccups + Cardinality(dumb)
            /\ mcTools' = live \ dumb
    /\ mcDrain' = NoRebuild
    /\ UNCHANGED <<mcConn, mcHeld, mcStarted, mcStates, mcWatched, mcGone, mcPending, mcDial,
                   mcCameUp, mcPhase>>

\* SharedServers::shutdown: the retry task stops, mid-round if it must, then the
\* manager closes every connection; the process and its memory end there.
StopServers ==
    /\ mcPhase = "up" /\ mcPhase' = "down"
    /\ mcConn' = <<>> /\ mcHeld' = {} /\ mcWatched' = {} /\ mcTools' = {}
    /\ mcStarted' = [t \in Targets |-> NoName]
    /\ mcStates' = [n \in ServerNames |-> NoName]
    /\ mcGone' = <<>> /\ mcPending' = <<>> /\ mcCameUp' = <<>>
    /\ mcDial' = NoRound /\ mcDrain' = NoRebuild
    /\ UNCHANGED mcHiccups

McpNext ==
    \/ StartRound \/ EndRound \/ mark_gone \/ RebuildStart \/ RebuildEnd \/ StopServers
    \/ \E c \in DOMAIN mcConn : Hangup(c) \/ watch_connection(c)

--------------------------------------------------------------------------------
\* unavailable_mcp_servers lets an invocation of an agent that declares n begin.
Admits(n) == mcStates[n] \notin {"unavailable", "starting"}

\* A name no other declaration shares a target with, or a target a name with.
Plain(n) == \A i, j \in DOMAIN DeclaredServers :
    DeclaredServers[i].name = n =>
        (DeclaredServers[j].name = n <=> DeclaredServers[j].target = DeclaredServers[i].target)

\* A server agents are refused for is always on its way back: it is dialled now, is
\* to be dialled again, or the retry task has yet to hear of its closure.
LostIsRedialled ==
    mcPhase = "up" => \A n \in ServerNames : Plain(n) /\ ~Admits(n) =>
        \/ \E i \in DOMAIN mcPending : mcPending[i].name = n
        \/ \E i \in DOMAIN mcGone : mcGone[i] = n

\* A connection that ended is noticed: it has a watcher, or its closure is announced.
DeathIsNoticed ==
    mcPhase = "up" => \A c \in mcHeld :
        c \in mcWatched \/ \E i \in DOMAIN mcGone : mcGone[i] = mcConn[c].name

\* However many agents declare a target, under however many names, the manager holds
\* one connection to it.
OneConnectionPerTarget ==
    \A c, d \in mcHeld : mcConn[c].target = mcConn[d].target => c = d

\* An invocation admitted for a server finds its tools, once what the retry task
\* announced has been drained and where no re-discovery failed on a live connection.
AdmittedHasTools ==
    mcPhase = "up" /\ mcCameUp = <<>> /\ ~mcDrain.on /\ mcHiccups = 0 =>
        \A n \in ServerNames : Plain(n) /\ mcStates[n] = "ready" =>
            \E c \in mcHeld : mcConn[c].name = n /\ (c \in mcTools \/ ~mcConn[c].open)
================================================================================
