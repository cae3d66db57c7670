-------------------------------- MODULE Harness --------------------------------
(***************************************************************************)
(* The reducer driven by a host that answers each action as the protocol   *)
(* asks: a model turn for a model request, and the results of all the      *)
(* calls, in any order, for a tool dispatch.  Host notices arrive at any   *)
(* step boundary.                                                          *)
(***************************************************************************)
EXTENDS Reducer

CONSTANTS Turns,         \* the model turns: [calls: how many, outcome, cut]
          MaxInjected    \* bound: host notices ever queued

VARIABLES st,      \* HarnessState
          act,     \* the last NextAction
          asked,   \* model requests made so far
          handed,  \* tool call ids the provider handed out so far
          noted    \* host notices injected so far

harnessVars == <<st, act, asked, handed, noted>>

HarnessInit ==
    /\ st = EmptyState
    /\ act = Action("start", <<>>)
    /\ asked = 0
    /\ handed = 0
    /\ noted = 0

\* One call of Reducer::step: with the answer, and with zero or one notice
\* drained at this boundary.
StepWith(last) ==
    \E n \in 0 .. 1 :
        /\ noted + n <= MaxInjected
        /\ noted' = noted + n
        /\ LET notes == [i \in 1 .. n |-> noted + i + 1]
               out   == Step(st, last, notes)
           IN  /\ st' = out.state
               /\ act' = out.action
               /\ asked' = asked + (IF out.action.kind = "model" THEN 1 ELSE 0)

StartHarness ==
    /\ act.kind = "start"
    /\ StepWith(NoAnswer)
    /\ UNCHANGED handed

\* The provider names its calls with fresh ids.
ModelResponds ==
    /\ act.kind = "model"
    /\ \E s \in Turns :
           /\ StepWith(ModelAnswer([calls   |-> [i \in 1 .. s.calls |-> handed + i],
                                outcome |-> s.outcome,
                                cut     |-> s.cut]))
           /\ handed' = handed + s.calls

\* The host returns one result per call, in whatever order they finished.
Orders(n) == {p \in [1 .. n -> 1 .. n] : {p[i] : i \in 1 .. n} = 1 .. n}

ToolsReturn ==
    /\ act.kind = "tools"
    /\ \E p \in Orders(Len(act.calls)) :
           StepWith(ToolAnswers([i \in 1 .. Len(act.calls) |->
                                [id |-> act.calls[p[i]], out |-> "ok"]]))
    /\ UNCHANGED handed

HostCancels ==
    /\ act.kind \in {"model", "tools"}
    /\ StepWith(HostFailure)
    /\ UNCHANGED handed

HarnessNext == StartHarness \/ ModelResponds \/ ToolsReturn \/ HostCancels

HarnessSpec == HarnessInit /\ [][HarnessNext]_harnessVars

\* The host answers what it is asked.
HarnessFairness ==
    /\ WF_harnessVars(StartHarness)
    /\ WF_harnessVars(ModelResponds)
    /\ WF_harnessVars(ToolsReturn)

--------------------------------------------------------------------------------

\* The conversation a provider is sent is one it accepts: each assistant turn
\* with tool calls is followed at once by one message that answers exactly
\* those calls in their order, whatever order the results came in and wherever
\* host notices landed, and no results stand without their calls
\* (answer_in_call_order and the notice placement in model_response_step).
WireOrder ==
    act.kind = "model" =>
        \A i \in DOMAIN st.messages :
            LET m == st.messages[i]
            IN  /\ m.role = "assistant" /\ m.calls # <<>> =>
                      /\ i < Len(st.messages)
                      /\ AnswerIds(st.messages[i + 1].answers) = m.calls
                /\ m.role = "results" =>
                      /\ i > 1
                      /\ st.messages[i - 1].role = "assistant"

\* The agent's iteration cap bounds the model requests of a whole run, text
\* turns, truncated turns and tool turns alike (the `iteration >= max_iter`
\* stop, literal even for a cap of zero, where the opening request still goes
\* out).
CapBoundsRequests ==
    asked <= (IF MaxIterations = 0 THEN 1 ELSE MaxIterations)

\* Every notice the host injected is in the conversation exactly once when the
\* next model request goes out (append_host_notices on each of the three
\* steps).
NoticesDelivered ==
    act.kind = "model" =>
        \A n \in 2 .. noted + 1 :
            Cardinality({i \in DOMAIN st.messages : st.messages[i].note = n}) = 1

\* A run that has begun, and whose host keeps answering, ends: the harness
\* reaches a terminal action (the iteration cap is the backstop against a
\* wedged agent).
EventuallyTerminal ==
    HarnessFairness => (act.kind # "start" ~> act.kind \in {"complete", "failed"})

\* A host that answers each action as it should never gets an error back: the
\* state a step produces satisfies the invariants `save` checks, so a turn cut
\* off at max_tokens is named to the model and the run goes on.
NeverRefused == act.kind # "error"

================================================================================
