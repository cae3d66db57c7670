------------------------------- MODULE MCServices -------------------------------
(***************************************************************************)
(* Trigger dispatch, and the services around it that share no state with   *)
(* one another, each on a small instance of its own.  A behaviour is a     *)
(* behaviour of the part chosen at the start; the others stand still.      *)
(***************************************************************************)
EXTENDS TriggerDispatch, Pricing, Maintenance, McpServers, ServerRequests, DbSplit

CONSTANTS Parts  \* the parts a run explores

VARIABLE part

serviceVars ==
    <<part, vars, priceVars, maintVars, mcpVars, reqVars, splitVars>>

\* A part that stands still starts in one state only.
ServicesInit ==
    /\ part \in Parts
    /\ Init
    /\ PricingInit /\ (part # "pricing" => disk.doc = <<>>)
    /\ MaintenanceInit
    /\ McpInit
    /\ RequestsInit /\ (part # "requests" => srScript = CHOOSE s \in Scripts : TRUE)
    /\ SplitInit /\ (part # "split" => ~dsLegacy.exists)

ServicesNext ==
    /\ UNCHANGED part
    /\ IF part = "dispatch"    THEN Next            ELSE UNCHANGED vars
    /\ IF part = "pricing"     THEN PricingNext     ELSE UNCHANGED priceVars
    /\ IF part = "maintenance" THEN MaintenanceNext ELSE UNCHANGED maintVars
    /\ IF part = "mcp"         THEN McpNext         ELSE UNCHANGED mcpVars
    /\ IF part = "requests"    THEN RequestsNext    ELSE UNCHANGED reqVars
    /\ IF part = "split"       THEN SplitNext       ELSE UNCHANGED splitVars

ServicesSpec == ServicesInit /\ [][ServicesNext]_serviceVars

\* Every queued message ends in an invocation, a recorded reason or an advisory,
\* where tokio keeps polling a spawned task and the broker keeps serving.
AnsweredIfServed == Fairness => EventuallyAnswered

--------------------------------------------------------------------------------
\* Prices: a rise and a fall past the bound, a cache price of zero, a model that is
\* not admitted, one that is no longer listed, and a cache from before acceptance.
Priced(i, c) == [input |-> i, cache |-> c]
LiteLlm == {[m |-> Priced(2, 1), or_r |-> Priced(3, -1)], [m |-> Priced(9, 1)],
            [m |-> Priced(4, 0), n |-> Priced(0, -1)], [n |-> Priced(5, 2)]}
OldCaches == {<<>>, [m |-> Priced(2, 1), n |-> Priced(0, -1)]}
RouterAnswers == {[ok |-> TRUE, whole |-> TRUE, doc |-> [r |-> Priced(7, -1)]],
                  [ok |-> TRUE, whole |-> FALSE, doc |-> <<>>]}
RouterKeys == [r |-> "or_r"]
ConfigPrices == [o |-> Priced(1, -1)]

\* Maintenance: a run delivered under two sequence numbers, and a task this build
\* does not know.
CommandRuns  == [c1 |-> "r1", c2 |-> "r2", c3 |-> "r1"]
CommandTasks == [c1 |-> "pricing_refresh", c2 |-> "vacuum", c3 |-> "pricing_refresh"]

\* MCP: two agents declare a under one target, and t2 under two names.
Decls == <<[name |-> "a", target |-> "t1"], [name |-> "a", target |-> "t1"],
           [name |-> "b", target |-> "t2"], [name |-> "c", target |-> "t2"]>>

\* Server requests: s1 may sample and elicit, s2 only elicit.
ServerGrants == [s1 |-> {"sampling", "elicitation"}, s2 |-> {"elicitation"}]
JudgesIn     == [sampling |-> <<"llm">>, elicitation |-> <<"approve_all">>]
JudgesOut    == [sampling |-> <<>>, elicitation |-> <<"llm">>]
SubBudgets   == [sampling |-> 2, elicitation |-> 3]
Rq(s, k)     == [server |-> s, kind |-> k]
FirstScript  == <<Rq("s1", "sampling"), Rq("s2", "form")>>
RequestScripts == {FirstScript, <<Rq("s2", "sampling"), Rq("s1", "url")>>,
                   <<Rq("s1", "sensitive"), Rq("s1", "sampling")>>, <<Rq("s2", "form"), Rq("s2", "form")>>}

\* The stores: two of the three files.
FilePlan == <<"worker", "control_plane">>
================================================================================
