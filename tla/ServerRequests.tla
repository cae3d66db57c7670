------------------------------ MODULE ServerRequests ------------------------------
(***************************************************************************)
(* A tool call under its deadline (runner/deadline.rs) while the MCP server*)
(* it belongs to asks the host for completions: mcp/handler.rs puts each   *)
(* request on the invocation's channel with a oneshot for the reply, and   *)
(* runner/server_request.rs gates, runs and judges it between polls of the *)
(* tool.  Every model call costs one unit; a call that fails costs none.   *)
(***************************************************************************)
EXTENDS Integers, Sequences

CONSTANTS Servers,          \* the servers started for this invocation
          Granted,          \* what each may ask for: server -> SUBSET {"sampling", "elicitation"}
          InputJudges,      \* evaluators of a request: capability -> sequence
          OutputJudges,     \* evaluators of a result: capability -> sequence
          RejectSensitive,  \* reject_sensitive_fields
          SubBudget,        \* grant.max_cost: capability -> units
          InvocationBudget, \* agent.budget()
          TimeoutLimit,     \* [tools] max_consecutive_timeouts
          Scripts,          \* what the servers ask for, in order: set of sequences of
                            \* [server, kind]
          MaxToolCalls      \* bound: tool calls made

ASSUME TimeoutLimitAssumption == TimeoutLimit \in Nat

VARIABLES srPhase,   \* "turn", "select", "serve", "grace", "alone", "ended"
          srTool,    \* the tool future: "none", "running", or the result it has ready
          srPast,    \* the call's expires_at is behind us
          srScript,  \* the requests of this behaviour
          srOpen,    \* the servers still connected
          srQueue,   \* the channel: requests not yet received
          srReply,   \* the request's oneshot: id -> "unsent", "open", "accepted", "declined"
          srJob,     \* the request being serviced: [req, at, tries, flight]
          srCost,    \* InvocationTotals: [total, sampling, elicitation]
          srTurns,   \* history: units the agent's own turns cost
          srOwed,    \* history: model calls sent and not yet settled
          srUnjudged,\* history: requests an evaluator did not approve
          srStreak,  \* TimeoutLedger
          srOutcomes \* history: how the tool calls ended

reqVars == <<srPhase, srTool, srPast, srScript, srOpen, srQueue, srReply, srJob, srCost, srTurns,
             srOwed, srUnjudged, srStreak, srOutcomes>>

RequestIds   == DOMAIN srScript
Capability(kind) == IF kind = "sampling" THEN "sampling" ELSE "elicitation"
NoRequest    == [id |-> 0, server |-> "none", kind |-> "none"]
Idle         == [req |-> NoRequest, at |-> 0, tries |-> 0, flight |-> FALSE]

ELICITATION_MAX_RETRIES == 2
EVALUATOR_MAX_RETRIES   == 1

RequestsInit ==
    /\ srPhase = "turn"
    /\ srTool = "none"
    /\ srPast = FALSE
    /\ srScript \in Scripts
    /\ srOpen = Servers
    /\ srQueue = <<>>
    /\ srReply = [i \in RequestIds |-> "unsent"]
    /\ srJob = Idle
    /\ srCost = [total |-> 0, sampling |-> 0, elicitation |-> 0]
    /\ srTurns = 0
    /\ srOwed = 0
    /\ srUnjudged = {}
    /\ srStreak = 0
    /\ srOutcomes = <<>>

--------------------------------------------------------------------------------
\* create_message and create_elicitation: the request goes on the channel.
Ask(i) ==
    /\ srPhase # "ended"
    /\ srScript[i].server \in srOpen
    /\ srReply[i] = "unsent" /\ \A j \in 1 .. i - 1 : srReply[j] # "unsent"
    /\ srReply' = [srReply EXCEPT ![i] = "open"]
    /\ srQueue' = Append(srQueue, [id |-> i, server |-> srScript[i].server,
                                   kind |-> srScript[i].kind])
    /\ UNCHANGED <<srPhase, srTool, srPast, srOpen, srJob, srCost, srTurns, srOwed, srUnjudged,
                   srStreak, srOutcomes>>

\* The last server goes away: the bridges end, what was queued is still delivered.
ServersLeave ==
    /\ srPhase # "ended"
    /\ srOpen # {}
    /\ srOpen' = {}
    /\ UNCHANGED <<srPhase, srTool, srPast, srQueue, srReply, srJob, srCost, srTurns, srOwed,
                   srUnjudged, srStreak, srOutcomes>>

\* The invocation leaves the runner: channel and oneshots are dropped, and every
\* bridge still waiting declines.
Ends ==
    /\ srPhase' = "ended"
    /\ srTool' = "none"
    /\ srPast' = FALSE
    /\ srOpen' = {}
    /\ srQueue' = <<>>
    /\ srReply' = [i \in RequestIds |-> IF srReply[i] = "open" THEN "declined" ELSE srReply[i]]
    /\ srJob' = Idle

\* An agent turn: run_model_with_llm refuses at the budget, and ends past it.
AgentTurn ==
    /\ srPhase = "turn"
    /\ IF srCost.total >= InvocationBudget \/ Len(srOutcomes) = MaxToolCalls
         THEN Ends /\ UNCHANGED <<srCost, srTurns>>
         ELSE /\ srCost' = [srCost EXCEPT !.total = @ + 1]
              /\ srTurns' = srTurns + 1
              /\ IF srCost.total + 1 > InvocationBudget
                   THEN Ends
                   ELSE /\ srPhase' = "select"
                        /\ srTool' = "running"
                        /\ srPast' = FALSE
                        /\ UNCHANGED <<srOpen, srQueue, srReply, srJob>>
    /\ UNCHANGED <<srOwed, srUnjudged, srStreak, srOutcomes>>

--------------------------------------------------------------------------------
\* The tool answers, with an error, or because its own deadline passed.
ToolReturns(result) ==
    /\ srTool = "running"
    /\ srTool' = result
    /\ UNCHANGED <<srPhase, srPast, srOpen, srQueue, srReply, srJob, srCost, srTurns, srOwed,
                   srUnjudged, srStreak, srOutcomes>>

\* expires_at passes.
Expire ==
    /\ srPhase \in {"select", "serve", "alone"}
    /\ ~srPast
    /\ srPast' = TRUE
    /\ UNCHANGED <<srPhase, srTool, srOpen, srQueue, srReply, srJob, srCost, srTurns, srOwed,
                   srUnjudged, srStreak, srOutcomes>>

StreakAfterAnswers(result) == IF result = "timeout" THEN srStreak + 1
                              ELSE IF result = "ok" THEN 0 ELSE srStreak

\* record_answer and record_timeout.
StreakAfter(result) == IF result = "timeout" THEN srStreak + 1 ELSE 0

\* run_tool takes the call's result; judge_timeout_streak may end the invocation.
CallOver(result) ==
    /\ srStreak' = StreakAfter(result)
    /\ srOutcomes' = Append(srOutcomes, result)
    /\ IF TimeoutLimit # 0 /\ StreakAfter(result) >= TimeoutLimit
         THEN Ends
         ELSE /\ srPhase' = "turn"
              /\ srTool' = "none"
              /\ srPast' = FALSE
              /\ UNCHANGED <<srOpen, srQueue, srReply, srJob>>
    /\ UNCHANGED <<srCost, srTurns, srOwed, srUnjudged>>

MayServeFirst == srTool = "running"

\* A ready result and a passed expiry are both preferred to a request.
MayServe == srTool = "running" /\ ~srPast

\* elicitation_input_chain: ValidateRequestPolicy.
RequestDenied(req) == req.kind = "sensitive" /\ RejectSensitive

\* The gate of handle_sampling and handle_elicitation: no model call on refusal.
GateLoose(req) ==
    LET cap == Capability(req.kind)
    IN /\ cap \in Granted[req.server]
       /\ srCost[cap] < SubBudget[cap]
       /\ ~RequestDenied(req)

Gate(req) ==
    LET cap == Capability(req.kind)
    IN /\ cap \in Granted[req.server]
       /\ srCost[cap] < SubBudget[cap]
       /\ srCost.total < InvocationBudget
       /\ ~RequestDenied(req)

\* The select, biased: the tool's result, then the expiry, then a request.
Poll ==
    /\ srPhase = "select"
    /\ \/ srTool # "running" /\ CallOver(srTool)
       \/ srTool = "running" /\ srPast /\ CallOver("timeout")
       \/ /\ MayServe
          /\ srQueue # <<>>
          /\ srQueue' = Tail(srQueue)
          /\ LET req == Head(srQueue)
             IN IF Gate(req)
                  THEN /\ srJob' = [Idle EXCEPT !.req = req, !.at = 1]
                       /\ srPhase' = "serve"
                       /\ UNCHANGED srReply
                  ELSE /\ srReply' = [srReply EXCEPT ![req.id] = "declined"]
                       /\ UNCHANGED <<srJob, srPhase>>
          /\ UNCHANGED <<srTool, srPast, srOpen, srCost, srTurns, srOwed, srUnjudged, srStreak,
                         srOutcomes>>
       \/ /\ MayServe
          /\ srQueue = <<>> /\ srOpen = {}
          /\ srPhase' = "alone"
          /\ UNCHANGED <<srTool, srPast, srOpen, srQueue, srReply, srJob, srCost, srTurns, srOwed,
                         srUnjudged, srStreak, srOutcomes>>

\* timeout_at on the tool alone, to expires_at or for the grace handed back; the
\* grace ends when it ends.
AwaitTool ==
    /\ srPhase \in {"alone", "grace"}
    /\ \/ srTool # "running" /\ CallOver(srTool)
       \/ /\ srTool = "running"
          /\ srPhase = "alone" => srPast
          /\ CallOver("timeout")

--------------------------------------------------------------------------------
Steps(kind) == InputJudges[Capability(kind)] \o <<"answer">> \o OutputJudges[Capability(kind)]
Step        == Steps(srJob.req.kind)[srJob.at]

\* Back in the loop; a servicing that outlived the expiry is the call's last.
BackToLoop == IF srPast THEN "grace" ELSE "select"

\* The reply goes out on the oneshot.
Reply(answer) ==
    /\ srReply' = [srReply EXCEPT ![srJob.req.id] = answer]
    /\ srJob' = Idle
    /\ srPhase' = BackToLoop

\* One step of the servicing passed: the next one, or the result is sent.
StepPassed ==
    IF srJob.at = Len(Steps(srJob.req.kind)) THEN Reply("accepted")
    ELSE /\ srJob' = [srJob EXCEPT !.at = @ + 1, !.tries = 0, !.flight = FALSE]
         /\ UNCHANGED <<srReply, srPhase>>

\* approve_all, deny_all and URL mode call no model.
DecideLocally ==
    /\ srPhase = "serve" /\ ~srJob.flight
    /\ \/ Step = "approve_all" /\ StepPassed /\ UNCHANGED srUnjudged
       \/ /\ Step = "deny_all" \/ (Step = "answer" /\ srJob.req.kind = "url")
          /\ Reply("declined")
          /\ srUnjudged' = srUnjudged \union {srJob.req.id}
    /\ UNCHANGED <<srTool, srPast, srOpen, srQueue, srCost, srTurns, srOwed, srStreak, srOutcomes>>

\* dispatch_llm sends the request.
DispatchCall ==
    /\ srPhase = "serve" /\ ~srJob.flight
    /\ Step = "llm" \/ (Step = "answer" /\ srJob.req.kind # "url")
    /\ srJob' = [srJob EXCEPT !.flight = TRUE]
    /\ srOwed' = srOwed + 1
    /\ UNCHANGED <<srPhase, srTool, srPast, srOpen, srQueue, srReply, srCost, srTurns, srUnjudged,
                   srStreak, srOutcomes>>

\* The totals, and the sub-budget the caller attributes the call to.
ChargedNoJudges(cap) == [srCost EXCEPT !.total = @ + 1,
                                       ![cap] = IF Step = "answer" THEN @ + 1 ELSE @]
Charged(cap) == [srCost EXCEPT !.total = srCost.total + 1, ![cap] = srCost[cap] + 1]

\* evaluator_verdict: no verdict denies.
VerdictOpen(said) == said \in {"good", "unparseable"}
Verdict(said)     == said = "good"

\* parse_elicitation_value and validate_against_elicitation_schema; a sampled message
\* is taken as it is.
AnswerStands(said) == said = "good" \/ (said = "unparseable" /\ srJob.req.kind = "sampling")

\* The call returns: run_structured_completion parses, validates and tries again.
CallReturns(said) ==
    /\ srPhase = "serve" /\ srJob.flight
    /\ srOwed' = srOwed - 1
    /\ srCost' = IF said = "failed" THEN srCost ELSE Charged(Capability(srJob.req.kind))
    /\ LET judge   == Step = "llm"
           retries == IF judge THEN EVALUATOR_MAX_RETRIES
                      ELSE IF srJob.req.kind = "sampling" THEN 1 ELSE ELICITATION_MAX_RETRIES
           again   == said = "unparseable" /\ srJob.tries + 1 < retries
           passed  == IF judge THEN Verdict(said) ELSE AnswerStands(said)
       IN /\ srUnjudged' = IF (judge /\ said # "good") \/ said \in {"failed", "denied"}
                             THEN srUnjudged \union {srJob.req.id} ELSE srUnjudged
          /\ IF again
               THEN /\ srJob' = [srJob EXCEPT !.tries = @ + 1, !.flight = FALSE]
                    /\ UNCHANGED <<srReply, srPhase>>
             ELSE IF passed THEN StepPassed
             ELSE Reply("declined")
    /\ UNCHANGED <<srTool, srPast, srOpen, srQueue, srTurns, srStreak, srOutcomes>>

\* A store or bus error in the servicing propagates: the invocation is over.
InfrastructureFails ==
    /\ srPhase = "serve"
    /\ Ends
    /\ UNCHANGED <<srCost, srTurns, srOwed, srUnjudged, srStreak, srOutcomes>>

RequestsStep ==
    \/ AgentTurn \/ Expire \/ Poll \/ AwaitTool \/ DecideLocally \/ DispatchCall
    \/ InfrastructureFails \/ ServersLeave
    \/ \E i \in RequestIds : Ask(i)
    \/ \E result \in {"ok", "error", "timeout"} : ToolReturns(result)
    \/ \E said \in {"good", "denied", "unparseable", "failed"} : CallReturns(said)

RequestsNext == RequestsStep /\ UNCHANGED srScript

RequestsSpec == RequestsInit /\ [][RequestsNext]_reqVars

--------------------------------------------------------------------------------
\* No request is taken up once the call's deadline is behind it, so a server that
\* always has another request ready cannot hold the call open.
ServesOnlyInTime == [][srPhase = "select" /\ srPhase' = "serve" => ~srPast]_reqVars

\* A servicing runs to its reply: the deadline never drops it with a model call out,
\* so while the invocation lives every call sent is settled, and every unit is the
\* agent's own or in the sub-budget of the capability that spent it.
EveryCallIsAttributed ==
    srPhase # "ended" =>
        /\ srOwed = (IF srJob.flight THEN 1 ELSE 0)
        /\ srCost.total = srTurns + srCost.sampling + srCost.elicitation

\* A request is only taken up below the budget, so the invocation never spends more
\* past it than the calls of one request.
SpendIsBounded ==
    LET spend(kind) == Len(SelectSeq(Steps(kind), LAMBDA j : j = "llm"))
                       + (IF kind = "sampling" THEN 1 ELSE ELICITATION_MAX_RETRIES)
    IN \E kind \in {"sampling", "form"} : srCost.total < InvocationBudget + spend(kind)

\* Nothing is sent to a server that an evaluator did not approve; a judge that gives no
\* verdict does not approve.
JudgesFailClosed == \A i \in srUnjudged : srReply[i] # "accepted"

\* The invocation ends for timeouts exactly when the last calls all timed out: a tool
\* that answers with an error has answered.
StreakIsConsecutive ==
    LET n == Len(srOutcomes)
        run == n >= TimeoutLimit /\ \A k \in n - TimeoutLimit + 1 .. n : srOutcomes[k] = "timeout"
    IN srStreak >= TimeoutLimit <=> run
================================================================================
