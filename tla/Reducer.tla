-------------------------------- MODULE Reducer --------------------------------
(***************************************************************************)
(* The reducer of worker/reducer/harness.rs: a pure function from the      *)
(* persisted state, the host's last answer and the host notices of a step  *)
(* to the next state and the next action.  Both the live loop and the      *)
(* replay after a restart call it, so it is written once, as operators.    *)
(*                                                                         *)
(* A message keeps its role and what ties it to other messages: the tool   *)
(* calls an assistant turn makes, the answers a results turn carries, the  *)
(* number of a host notice.  Its text is left out.                         *)
(***************************************************************************)
EXTENDS Naturals, Sequences, FiniteSets

CONSTANT MaxIterations          \* AgentConfig.max_iterations

ASSUME IterationsAssumption == MaxIterations \in Nat

MaxConsecutiveTruncations == 3

Message(role, calls, answers, note) ==
    [role |-> role, calls |-> calls, answers |-> answers, note |-> note]

SystemMessage      == Message("system", <<>>, <<>>, 0)
TriggerMessage     == Message("user", <<>>, <<>>, 0)
Assistant(calls)   == Message("assistant", calls, <<>>, 0)
ToolResults(rs)    == Message("results", <<>>, rs, 0)
\* Mutant: the boundary forgets its notices.
NoNotices(notes) == <<>>

\* append_host_notices
HostNotices(notes) == [i \in DOMAIN notes |-> Message("user", <<>>, <<>>, notes[i])]

\* The corrective notice the reducer itself writes into the transcript.
Nudge == <<1>>

\* What the host hands to a step: nothing, a model turn, tool answers, or a
\* cancellation or host error.
NoResponse       == [calls |-> <<>>, outcome |-> FALSE, cut |-> FALSE]
Answer(k, r, as) == [kind |-> k, resp |-> r, answers |-> as]
NoAnswer         == Answer("none", NoResponse, <<>>)
ModelAnswer(r)   == Answer("model", r, <<>>)
ToolAnswers(as)  == Answer("tools", NoResponse, as)
HostFailure      == Answer("cancelled", NoResponse, <<>>)

EmptyState == [phase |-> "initial", messages |-> <<>>, iteration |-> 0, cuts |-> 0]

Action(kind, calls) == [kind |-> kind, calls |-> calls]

LastMessage(s) == s.messages[Len(s.messages)]

AssistantTurns(s) == {i \in DOMAIN s.messages : s.messages[i].role = "assistant"}

\* HarnessState::validate: what each phase says about the conversation.
Valid(s) ==
    /\ s.phase = "initial" => s.messages = <<>>
    /\ s.phase = "awaiting" => s.messages # <<>> /\ LastMessage(s).role # "assistant"
    /\ s.phase = "dispatching" =>
          /\ s.messages # <<>>
          /\ LastMessage(s).role = "assistant"
          /\ LastMessage(s).calls # <<>>
    /\ s.phase = "done" => s.messages # <<>>
    /\ s.iteration >= Cardinality(AssistantTurns(s))

\* A step that returns Err; the host fails the invocation.
Refused(s) == [state |-> s, action |-> Action("error", <<>>)]

\* HarnessState::save validates before it serialises.
Save(s, act) == IF Valid(s) THEN [state |-> s, action |-> act] ELSE Refused(s)

Terminal(s, kind) == Save([s EXCEPT !.phase = "done"], Action(kind, <<>>))

InitialStep(s, notes) ==
    Save([s EXCEPT !.messages = <<SystemMessage, TriggerMessage>> \o HostNotices(notes),
                   !.phase = "awaiting"],
         Action("model", <<>>))

\* Mutant: the cap is off by one.
PastCap(s) == s.iteration > MaxIterations

\* `max_iterations` is literal: zero stops after the opening turn.
AtCap(s) == s.iteration >= MaxIterations

\* Host notices go in before the assistant message, the reducer's own
\* corrective notice after it.
ModelResponseStep(s, last, notes) ==
    LET resp    == last.resp
        counted == [s EXCEPT !.iteration = @ + 1,
                             !.messages = @ \o HostNotices(notes)]
        said    == [counted EXCEPT !.messages = Append(@, Assistant(resp.calls)),
                                   !.cuts = IF resp.cut THEN @ + 1 ELSE 0]
        told    == IF resp.cut \/ resp.calls = <<>>
                     THEN [said EXCEPT !.messages = @ \o HostNotices(Nudge)]
                     ELSE said
    IN  IF last.kind = "cancelled" THEN Terminal(s, "failed")
        ELSE IF last.kind # "model" THEN Refused(s)
        ELSE IF resp.outcome THEN Terminal(counted, "complete")
        ELSE IF said.cuts >= MaxConsecutiveTruncations THEN Terminal(said, "failed")
        ELSE IF AtCap(told) THEN Terminal(told, "failed")
        ELSE IF resp.calls = <<>>
             THEN Save([told EXCEPT !.phase = "awaiting"], Action("model", <<>>))
        ELSE Save([told EXCEPT !.phase = "dispatching"], Action("tools", resp.calls))

Times(id, ids) == Cardinality({i \in DOMAIN ids : ids[i] = id})

AnswerIds(answers) == [i \in DOMAIN answers |-> answers[i].id]

\* Mutant: results are expected in request order.
AnswersInOrder(calls, answers) == AnswerIds(answers) = calls

\* The answers match the calls one for one, repeated ids included.
Answers(calls, answers) ==
    \A id \in {calls[i] : i \in DOMAIN calls} \cup {answers[i].id : i \in DOMAIN answers} :
        Times(id, calls) = Times(id, AnswerIds(answers))

\* The position the stable sort gives answer j: after every answer whose
\* call comes earlier, and after the earlier answers to the same call.
FirstCall(calls, id) == CHOOSE i \in DOMAIN calls :
                            calls[i] = id /\ \A k \in 1 .. i - 1 : calls[k] # id

Before(calls, answers, j, k) ==
    \/ FirstCall(calls, answers[j].id) < FirstCall(calls, answers[k].id)
    \/ answers[j].id = answers[k].id /\ j < k

\* Mutant: the results ride in the order they were delivered.
AsDelivered(calls, answers) == answers

InCallOrder(calls, answers) ==
    [p \in DOMAIN answers |->
        answers[CHOOSE k \in DOMAIN answers :
            Cardinality({j \in DOMAIN answers : Before(calls, answers, j, k)}) = p - 1]]

ToolResultsStep(s, last, notes) ==
    LET calls == LastMessage(s).calls
    IN  IF last.kind = "cancelled" THEN Terminal(s, "failed")
        ELSE IF last.kind # "tools" \/ LastMessage(s).role # "assistant" THEN Refused(s)
        ELSE IF ~Answers(calls, last.answers) THEN Refused(s)
        ELSE Save([s EXCEPT !.messages =
                        Append(@, ToolResults(InCallOrder(calls, last.answers)))
                            \o HostNotices(notes),
                            !.phase = "awaiting"],
                  Action("model", <<>>))

\* Harness::step.  Loading validates too; `done` may not be stepped again.
Step(s, last, notes) ==
    IF ~Valid(s) THEN Refused(s)
    ELSE IF s.phase = "initial" THEN InitialStep(s, notes)
    ELSE IF s.phase = "awaiting" THEN ModelResponseStep(s, last, notes)
    ELSE IF s.phase = "dispatching" THEN ToolResultsStep(s, last, notes)
    ELSE Refused(s)

================================================================================
