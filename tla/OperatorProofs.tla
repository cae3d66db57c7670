----------------------------- MODULE OperatorProofs -----------------------------
(***************************************************************************)
(* Proofs about what the operator's commands leave behind: the registry a  *)
(* reload installs, the requeue of a dead letter, and the model throttle   *)
(* that makes calls wait, for any number of files, calls and callers.      *)
(***************************************************************************)
EXTENDS AgentReload, Throttle, Requeue, FiniteSetTheorems, TLAPS

--------------------------------------------------------------------------------
\* The agent registry.

LoadFields == {"at", "left", "got", "errors", "steady", "since"}

\* An agent has every check that its definition asks for.
WellMade(a) == \A i \in Configured(a.def) : a.def.mcp[i].checks \subseteq a.validation

LoadShape ==
    /\ DOMAIN arLoad = ReloadCalls
    /\ \A r \in ReloadCalls : LoadFields \subseteq DOMAIN arLoad[r]
    /\ DOMAIN arDisk = AgentFiles
    /\ arSaves \in Nat

\* A load still owes the steady ids it has not met, and each of those is in a
\* file it has yet to read; what it has met is made of whole definitions.
WalkInv ==
    \A r \in ReloadCalls : arLoad[r].at = "walking" =>
        /\ arLoad[r].left \subseteq AgentFiles
        /\ \A id \in arLoad[r].steady :
              id \in DOMAIN arLoad[r].got \/ (arDir /\ \E f \in arLoad[r].left : id \in IdsAt(f))
        /\ \A id \in DOMAIN arLoad[r].got : WellMade(arLoad[r].got[id])

\* The order of the loads: none began after the last save, and without an
\* overlap there is one at a time, begun after all that were answered.
OrderInv ==
    /\ arSince \in 0 .. arSaves /\ arPromised \in 0 .. arSaves
    /\ \A r \in Busy : arLoad[r].since \in 0 .. arSaves
    /\ ~arOverlap =>
          /\ arSince >= arPromised
          /\ \A r \in Busy : arLoad[r].since >= arPromised
          /\ \A r, q \in Busy : r = q

ReloadInv == LoadShape /\ WalkInv /\ OrderInv /\ SteadyIsServed /\ ValidationKept


\* What the builder makes of a definition keeps its checks.
LEMMA MadeWell == ASSUME NEW d PROVE WellMade(AgentOf(d))
  BY Zenon DEF WellMade, AgentOf, merge_validation

\* A file that says nothing is not an agent.
LEMMA NothingThere == ~Loadable(NoAgentFile) /\ LoadFields \subseteq DOMAIN NoLoad
                        /\ DOMAIN NoAgents = {}
  BY Zenon DEF Loadable, NoAgentFile, NoLoad, LoadFields, NoAgents

\* The first load is undisturbed.
LEMMA ReloadStart == AgentsInit => ReloadInv
<1>. SUFFICES ASSUME AgentsInit PROVE ReloadInv
  BY Zenon
<1>1. \A r \in ReloadCalls : arLoad[r].at = "idle" /\ LoadFields \subseteq DOMAIN arLoad[r]
  BY Zenon DEF AgentsInit, NoLoad, LoadFields
<1>2. LoadShape /\ WalkInv
  BY Zenon, <1>1, FilesAssumption DEF AgentsInit, LoadShape, WalkInv
<1>3. OrderInv
  BY <1>1 DEF AgentsInit, OrderInv, Busy
<1>4. DOMAIN arLive = WholeNow /\ \A id \in WholeNow : \E d : arLive[id] = AgentOf(d)
  BY Zenon DEF AgentsInit, RegistryNow
<1>5. SteadyIsServed
  BY Zenon, <1>4 DEF AgentsInit, SteadyIsServed
<1>6. \A id \in DOMAIN arLive : WellMade(arLive[id])
  BY Zenon, <1>4, MadeWell
<1>. QED
  BY Zenon, <1>2, <1>3, <1>5, <1>6 DEF ReloadInv, ValidationKept, WellMade

\* A load begins.
LEMMA StartKeeps == ASSUME ReloadInv, NEW r \in ReloadCalls, StartReload(r) PROVE ReloadInv'
<1>. USE DEF ReloadInv
<1>0. UNCHANGED <<arDisk, arDir, arSaves, arLive, arSteady, arSince, arPromised>> /\ arLoad[r].at = "idle"
  BY Zenon DEF StartReload, historyVars
<1>1. SteadyIsServed' /\ ValidationKept'
  BY Zenon, <1>0 DEF SteadyIsServed, ValidationKept, Configured
<1>2. \A f : IdsAt(f)' = IdsAt(f)
  BY <1>0 DEF IdsAt, Loadable, ServersDeclared, build, ModelOf, validate_runtime_limits
<1>3. CASE ~arDir
  <2>1. arLoad' = [arLoad EXCEPT ![r].at = "refused"] /\ arOverlap' = arOverlap
    BY Zenon, <1>3 DEF StartReload
  <2>2. /\ DOMAIN arLoad' = ReloadCalls
        /\ arLoad'[r].at = "refused" /\ LoadFields \subseteq DOMAIN arLoad'[r]
        /\ \A q \in ReloadCalls : q # r => arLoad'[q] = arLoad[q]
    BY Zenon, <2>1 DEF LoadShape, LoadFields
  <2>3. LoadShape'
    BY Zenon, <1>0, <2>2 DEF LoadShape
  <2>4. WalkInv'
    BY <1>0, <1>2, <2>2 DEF WalkInv
  <2>5. OrderInv'
    BY <1>0, <2>1, <2>2 DEF OrderInv, Busy
  <2>. QED
    BY Zenon, <1>1, <2>3, <2>4, <2>5
<1>4. CASE arDir
  <2>. DEFINE new == [NoLoad EXCEPT !.at = "walking", !.left = AgentFiles, !.steady = WholeNow,
                                    !.since = arSaves]
  <2>1. arLoad' = [arLoad EXCEPT ![r] = new] /\ arOverlap' = (arOverlap \/ Busy # {})
    BY Zenon, <1>4 DEF StartReload
  <2>2. new.at = "walking" /\ new.left = AgentFiles /\ new.steady = WholeNow /\ new.since = arSaves
        /\ new.got = NoAgents /\ LoadFields \subseteq DOMAIN new
    BY Zenon DEF NoLoad, LoadFields
  <2>. HIDE DEF new
  <2>3. /\ DOMAIN arLoad' = ReloadCalls /\ arLoad'[r] = new
        /\ \A q \in ReloadCalls : q # r => arLoad'[q] = arLoad[q]
    BY Zenon, <2>1 DEF LoadShape
  <2>4. LoadShape'
    BY Zenon, <1>0, <2>2, <2>3 DEF LoadShape
  <2>5. \A id \in WholeNow : \E f \in AgentFiles : id \in IdsAt(f)
    BY Zenon DEF WholeNow
  <2>6. WalkInv'
    BY Zenon, <1>0, <1>2, <1>4, <2>2, <2>3, <2>5, NothingThere DEF WalkInv
  <2>7. Busy' = Busy \cup {r} /\ r \notin Busy
    BY Zenon, <1>0, <2>2, <2>3 DEF Busy
  <2>8. OrderInv'
    <3>1. \A q \in Busy : q # r /\ arLoad'[q] = arLoad[q]
      BY Zenon, <2>3, <2>7 DEF Busy
    <3>2. arLoad'[r].since = arSaves /\ arSaves \in Nat
      BY Zenon, <2>2, <2>3 DEF LoadShape
    <3>3. ~arOverlap' => ~arOverlap /\ Busy = {}
      BY <2>1, Zenon
    <3>. QED
      BY <1>0, <2>7, <3>1, <3>2, <3>3 DEF OrderInv
  <2>. QED
    BY Zenon, <1>1, <2>4, <2>6, <2>8
<1>. QED
  BY Zenon, <1>3, <1>4
\* A load reads one file: the steady id it was owed from there it has now met.
LEMMA WalkKeeps ==
    ASSUME ReloadInv, NEW r \in ReloadCalls, NEW f \in AgentFiles, WalkOn(r, f)
    PROVE  ReloadInv'
<1>. USE DEF ReloadInv
<1>. DEFINE l == arLoad[r]
            n == load_file(l, f)
<1>0. /\ UNCHANGED <<arDisk, arDir, arSaves, arLive, arSteady, arSince, arPromised, arOverlap>>
      /\ l.at = "walking" /\ arLoad' = [arLoad EXCEPT ![r] = n]
  BY Zenon DEF WalkOn, historyVars
<1>1. SteadyIsServed' /\ ValidationKept'
  BY Zenon, <1>0 DEF SteadyIsServed, ValidationKept, Configured
<1>2. \A g : IdsAt(g)' = IdsAt(g)
  BY <1>0 DEF IdsAt, Loadable, ServersDeclared, build, ModelOf, validate_runtime_limits
<1>3. LoadFields \subseteq DOMAIN l
  BY Zenon DEF LoadShape
<1>4. /\ LoadFields \subseteq DOMAIN n
      /\ n.at = l.at /\ n.left = l.left \ {f} /\ n.steady = l.steady /\ n.since = l.since
  BY Zenon, <1>3 DEF load_file, LoadFields
<1>5. /\ \A id \in DOMAIN l.got : id \in DOMAIN n.got
      /\ \A id \in DOMAIN n.got : (id \in DOMAIN l.got /\ n.got[id] = l.got[id])
                                   \/ n.got[id] = AgentOf(arDisk[f])
      /\ Loadable(arDisk[f]) /\ arDir => arDisk[f].name \in DOMAIN n.got
  BY Zenon, <1>3, NothingThere DEF load_file, LoadFields
<1>. HIDE DEF n
<1>6. /\ DOMAIN arLoad' = ReloadCalls /\ arLoad'[r] = n
      /\ \A q \in ReloadCalls : q # r => arLoad'[q] = arLoad[q]
  BY Zenon, <1>0 DEF LoadShape
<1>7. LoadShape'
  BY Zenon, <1>0, <1>4, <1>6 DEF LoadShape
<1>8. \A id \in IdsAt(f) : id = arDisk[f].name /\ Loadable(arDisk[f])
  BY Zenon DEF IdsAt
<1>9. \A id \in n.steady : id \in DOMAIN n.got \/ (arDir /\ \E g \in n.left : id \in IdsAt(g))
  BY Zenon, <1>0, <1>4, <1>5, <1>8 DEF WalkInv
<1>10. \A id \in DOMAIN n.got : WellMade(n.got[id])
  BY Zenon, <1>0, <1>5, MadeWell DEF WalkInv
<1>11. WalkInv'
  BY <1>0, <1>2, <1>4, <1>6, <1>9, <1>10 DEF WalkInv
<1>12. OrderInv'
  <2>1. Busy' = Busy /\ \A q \in Busy : arLoad'[q].since = arLoad[q].since
    BY Zenon, <1>0, <1>4, <1>6 DEF Busy
  <2>. QED
    BY Zenon, <1>0, <2>1 DEF OrderInv
<1>. QED
  BY Zenon, <1>1, <1>7, <1>11, <1>12

\* The swap: all files are read, so every steady id is met.
LEMMA SwapKeeps == ASSUME ReloadInv, NEW r \in ReloadCalls, SwapRegistry(r) PROVE ReloadInv'
<1>. USE DEF ReloadInv
<1>. DEFINE l == arLoad[r]
            done == [NoLoad EXCEPT !.at = "answered"]
<1>0. /\ UNCHANGED <<arDisk, arDir, arSaves, arOverlap>>
      /\ l.at = "walking" /\ l.left = {} /\ arLoad' = [arLoad EXCEPT ![r] = done]
      /\ arPromised' = (IF l.since > arPromised THEN l.since ELSE arPromised)
      /\ arLive' = l.got /\ arSteady' = l.steady /\ arSince' = l.since
  BY Zenon DEF SwapRegistry, Installs
<1>1. done.at = "answered" /\ LoadFields \subseteq DOMAIN done
  BY Zenon DEF NoLoad, LoadFields
<1>. HIDE DEF done
<1>2. /\ DOMAIN arLoad' = ReloadCalls /\ arLoad'[r] = done
      /\ \A q \in ReloadCalls : q # r => arLoad'[q] = arLoad[q]
  BY Zenon, <1>0 DEF LoadShape
<1>3. LoadShape'
  BY Zenon, <1>0, <1>1, <1>2 DEF LoadShape
<1>4. \A g : IdsAt(g)' = IdsAt(g)
  BY <1>0 DEF IdsAt, Loadable, ServersDeclared, build, ModelOf, validate_runtime_limits
<1>5. WalkInv'
  BY <1>0, <1>1, <1>2, <1>4 DEF WalkInv
<1>6. SteadyIsServed' /\ ValidationKept'
  BY Zenon, <1>0 DEF WalkInv, SteadyIsServed, ValidationKept, WellMade, Configured
<1>7. r \in Busy /\ Busy' \subseteq Busy \ {r} /\ \A q \in Busy' : arLoad'[q] = arLoad[q]
  BY Zenon, <1>0, <1>1, <1>2 DEF Busy
<1>8. OrderInv'
  BY <1>0, <1>7 DEF OrderInv, LoadShape
<1>. QED
  BY Zenon, <1>3, <1>5, <1>6, <1>8

\* An edit takes the ids it touches from the loads' promises and nothing else.
LEMMA EditKeeps ==
    ASSUME ReloadInv, NEW ids, Unsettle(ids), arSaves' = arSaves + 1,
           UNCHANGED <<arLive, historyVars, arOverlap>>, DOMAIN arDisk' = AgentFiles,
           \A f \in AgentFiles : \A id \in IdsAt(f) \ ids : arDir => id \in IdsAt(f)' /\ arDir'
    PROVE  ReloadInv'
<1>. USE DEF ReloadInv, LoadShape
<1>1. \A r \in ReloadCalls :
          /\ LoadFields \subseteq DOMAIN arLoad'[r]
          /\ arLoad'[r].steady = arLoad[r].steady \ ids
          /\ arLoad'[r].at = arLoad[r].at /\ arLoad'[r].left = arLoad[r].left
          /\ arLoad'[r].got = arLoad[r].got /\ arLoad'[r].since = arLoad[r].since
  BY Zenon DEF Unsettle, LoadFields
<1>2. LoadShape'
  BY <1>1 DEF Unsettle
<1>4. WalkInv'
  BY <1>1 DEF WalkInv
<1>5. OrderInv'
  <2>1. Busy' = Busy
    BY Zenon, <1>1 DEF Busy
  <2>. QED
    BY <1>1, <2>1 DEF OrderInv, historyVars, Busy
<1>6. SteadyIsServed' /\ ValidationKept'
  BY Zenon DEF SteadyIsServed, ValidationKept, historyVars, Configured
<1>. QED
  BY Zenon, <1>2, <1>4, <1>5, <1>6

\* Every step keeps the invariant.
LEMMA ReloadStep == ReloadInv /\ [AgentsNext]_agentVars => ReloadInv'
<1>. SUFFICES ASSUME ReloadInv, [AgentsNext]_agentVars PROVE ReloadInv'
  BY Zenon
<1>1. CASE UNCHANGED agentVars
  <2>0. UNCHANGED <<arDisk, arDir, arSaves, arLoad, arLive, arSteady, arSince, arPromised, arOverlap>>
    BY Zenon, <1>1 DEF agentVars
  <2>1. \A g : IdsAt(g)' = IdsAt(g)
    BY <2>0 DEF IdsAt, Loadable, ServersDeclared, build, ModelOf, validate_runtime_limits
  <2>2. LoadShape' /\ OrderInv' /\ SteadyIsServed' /\ ValidationKept'
    BY Zenon, <2>0 DEF ReloadInv, LoadShape, OrderInv, Busy, SteadyIsServed,
       ValidationKept, Configured
  <2>3. WalkInv'
    BY Zenon, <2>0, <2>1 DEF ReloadInv, WalkInv, WellMade, Configured
  <2>. QED
    BY Zenon, <2>2, <2>3 DEF ReloadInv
<1>2. ASSUME NEW f \in AgentFiles, NEW d \in Definitions \cup {NoAgentFile, TornFile}, SaveAgentFile(f, d)
      PROVE  ReloadInv'
  <2>1. \A g \in AgentFiles : \A id \in IdsAt(g) \ {arDisk[f].name, d.name} :
            arDir => id \in IdsAt(g)' /\ arDir'
    <3>. SUFFICES ASSUME NEW g \in AgentFiles, NEW id \in IdsAt(g), arDir,
                         id \notin {arDisk[f].name, d.name}
                  PROVE  id \in IdsAt(g)' /\ arDir'
      BY Zenon
    <3>1. g # f
      BY Zenon DEF IdsAt
    <3>2. arDisk'[g] = arDisk[g] /\ arDir' = arDir
      BY Zenon, <1>2, <3>1 DEF SaveAgentFile, ReloadInv, LoadShape
    <3>. QED
      BY Zenon, <3>2 DEF IdsAt, Loadable, ServersDeclared, build, ModelOf,
         validate_runtime_limits
  <2>2. DOMAIN arDisk' = AgentFiles
    BY Zenon, <1>2 DEF SaveAgentFile, ReloadInv, LoadShape
  <2>. QED
    BY Zenon, <1>2, <2>1, <2>2, EditKeeps DEF SaveAgentFile
<1>3. CASE MoveDirectory
  <2>1. \A g \in AgentFiles : IdsAt(g) \subseteq UNION {IdsAt(f) : f \in AgentFiles}
    BY Zenon
  <2>2. DOMAIN arDisk' = AgentFiles
    BY Zenon, <1>3 DEF MoveDirectory, ReloadInv, LoadShape
  <2>. QED
    BY Zenon, <1>3, <2>1, <2>2, EditKeeps DEF MoveDirectory
<1>. QED
  BY Zenon, <1>1, <1>2, <1>3, StartKeeps, WalkKeeps, SwapKeeps DEF AgentsNext

\* The answer of control.reload is true: unless two reloads overlapped, what
\* was on disk when an answered one began is what the dispatcher reads.
THEOREM AnswersAreLive == AgentsSpec => []AnsweredIsLive
<1>1. ReloadInv => AnsweredIsLive
  BY DEF ReloadInv, LoadShape, OrderInv, AnsweredIsLive
<1>. QED
  BY <1>1, ReloadStart, ReloadStep, PTL DEF AgentsSpec

\* No reload leaves out an agent whose one file was whole and untouched while
\* it read, whatever the other files held and however many reloads overlapped;
\* and no agent is served without a check one of its servers asked for.
THEOREM SteadyAgentsServed == AgentsSpec => [](SteadyIsServed /\ ValidationKept)
<1>1. ReloadInv => SteadyIsServed /\ ValidationKept
  BY Zenon DEF ReloadInv
<1>. QED
  BY <1>1, ReloadStart, ReloadStep, PTL DEF AgentsSpec

--------------------------------------------------------------------------------
\* The throttle of one model.

CallerFields == {"at", "woken", "timer"}

ThrottleShape ==
    /\ DOMAIN caller = Callers
    /\ \A c \in Callers : CallerFields \subseteq DOMAIN caller[c]
    /\ {"until", "waves", "cap", "flying", "wins"} \subseteq DOMAIN model
    /\ model.flying \in Nat /\ model.cap \in 1 .. Larger(Ceiling, 1)
    /\ time \in Nat \ {0}

\* A call that waits has a cause from the moment it has looked, before it sleeps.
WaitInv ==
    \A c \in Callers :
        caller[c].at \in {"armed", "asleep"} /\ ~caller[c].woken =>
            IF caller[c].timer = NoTimer THEN model.flying >= model.cap
            ELSE caller[c].timer = model.until

\* The cap stays between one and the ceiling when it is raised or halved.
LEMMA CapBounds ==
    ASSUME NEW k \in 1 .. Larger(Ceiling, 1)
    PROVE  /\ Larger(k \div 2, 1) \in 1 .. Larger(Ceiling, 1)
           /\ Smaller(k + 1, Larger(Ceiling, 1)) \in 1 .. Larger(Ceiling, 1)
  BY ThrottleAssumption DEF Larger, Smaller

\* What a verdict does to the permits and the cap.
LEMMA VerdictNumbers ==
    ASSUME ThrottleShape, NEW asked
    PROVE  LET fields == {"until", "waves", "cap", "flying", "wins"}
               landed == Landed(model)
           IN  /\ fields \subseteq DOMAIN landed
               /\ landed.flying = (IF model.flying = 0 THEN 0 ELSE model.flying - 1)
               /\ landed.cap = model.cap /\ landed.until = model.until
               /\ fields \subseteq DOMAIN Succeeded(landed)
               /\ Succeeded(landed).flying = landed.flying
               /\ Succeeded(landed).until = model.until
               /\ Succeeded(landed).cap \in 1 .. Larger(Ceiling, 1)
               /\ Succeeded(landed).cap >= model.cap
               /\ fields \subseteq DOMAIN RateLimited(landed, asked)
               /\ RateLimited(landed, asked).flying = landed.flying
               /\ RateLimited(landed, asked).cap \in 1 .. Larger(Ceiling, 1)
               /\ RateLimited(landed, asked).cap < model.cap =>
                     ~Paused /\ RateLimited(landed, asked).waves = model.waves + 1
<1>. DEFINE landed == Landed(model)
<1>. USE DEF ThrottleShape
<1>1. /\ {"until", "waves", "cap", "flying", "wins"} \subseteq DOMAIN landed
      /\ landed.flying = (IF model.flying = 0 THEN 0 ELSE model.flying - 1)
      /\ landed.cap = model.cap /\ landed.until = model.until /\ landed.waves = model.waves
  BY Zenon DEF Landed
<1>. HIDE DEF landed
<1>2. /\ {"until", "waves", "cap", "flying", "wins"} \subseteq DOMAIN Succeeded(landed)
      /\ Succeeded(landed).flying = landed.flying
      /\ Succeeded(landed).until = landed.until
      /\ Succeeded(landed).cap \in {landed.cap, Smaller(landed.cap + 1, Larger(Ceiling, 1))}
  BY Zenon, <1>1 DEF Succeeded
<1>3. /\ {"until", "waves", "cap", "flying", "wins"} \subseteq DOMAIN RateLimited(landed, asked)
      /\ RateLimited(landed, asked).flying = landed.flying
      /\ RateLimited(landed, asked).cap = IF ~Paused THEN Larger(landed.cap \div 2, 1) ELSE landed.cap
      /\ RateLimited(landed, asked).waves = IF ~Paused THEN landed.waves + 1 ELSE landed.waves
  BY Zenon, <1>1 DEF RateLimited
<1>4. Smaller(model.cap + 1, Larger(Ceiling, 1)) >= model.cap
  BY ThrottleAssumption DEF Larger, Smaller
<1>. QED
  BY <1>1, <1>2, <1>3, <1>4, CapBounds DEF landed
\* What a turn of acquire's loop does.
LEMMA LookEffect ==
    ASSUME ThrottleShape, NEW c \in Callers, Look(c)
    PROVE  /\ DOMAIN caller' = Callers /\ CallerFields \subseteq DOMAIN caller'[c]
           /\ \A d \in Callers \ {c} : caller'[d] = caller[d]
           /\ \/ /\ ~Paused /\ model.flying < model.cap
                 /\ model' = [model EXCEPT !.flying = @ + 1] /\ caller'[c].at = "calling"
              \/ /\ Paused \/ model.flying >= model.cap
                 /\ model' = model /\ caller'[c].at = "armed" /\ ~caller'[c].woken
                 /\ caller'[c].timer = IF Paused THEN model.until ELSE NoTimer
<1>1. CASE ~Paused /\ model.flying < model.cap
  BY <1>1 DEF Look, ThrottleShape, CallerFields
<1>2. CASE ~(~Paused /\ model.flying < model.cap)
  <2>1. caller' = [caller EXCEPT ![c] = [at |-> "armed", woken |-> FALSE,
                                        timer |-> IF Paused THEN model.until ELSE NoTimer]]
        /\ model' = model
    BY <1>2, Zenon DEF Look
  <2>2. model.flying \in Nat /\ model.cap \in Nat
    BY ThrottleAssumption DEF ThrottleShape, Larger
  <2>. QED
    BY <1>2, <2>1, <2>2 DEF ThrottleShape, CallerFields
<1>. QED
  BY Zenon, <1>1, <1>2

\* What a settled call does: its permit comes back and everyone who waits is
\* notified.
LEMMA SettleEffect ==
    ASSUME ThrottleShape, NEW c \in Callers, NEW verdict, SettleCall(c, verdict)
    PROVE  /\ DOMAIN caller' = Callers
           /\ caller[c].at = "calling" /\ caller'[c].at = "idle"
           /\ \A d \in Callers :
                 /\ CallerFields \subseteq DOMAIN caller'[d]
                 /\ d # c => caller'[d].at = caller[d].at
                 /\ d # c /\ caller[d].at \in {"armed", "asleep"} => caller'[d].woken
           /\ model' = verdict /\ time' = time
<1>1. caller' = [d \in Callers |->
                   IF d = c THEN [caller[d] EXCEPT !.at = "idle"]
                   ELSE [caller[d] EXCEPT !.woken = @ \/ caller[d].at \in {"armed", "asleep"}]]
  BY Zenon DEF SettleCall, Notify
<1>2. \A d \in Callers : d # c => caller'[d] = [caller[d] EXCEPT !.woken = @ \/ caller[d].at \in {"armed", "asleep"}]
  BY Zenon, <1>1
<1>3. \A d \in Callers : d # c => /\ CallerFields \subseteq DOMAIN caller'[d]
                                  /\ caller'[d].at = caller[d].at
                                  /\ caller'[d].woken = (caller[d].woken \/ caller[d].at \in {"armed", "asleep"})
  BY ZenonT(60), <1>2 DEF ThrottleShape, CallerFields
<1>4. \A d \in Callers : d # c /\ caller[d].at \in {"armed", "asleep"} => caller'[d].woken
  BY <1>3, Zenon
<1>5. caller'[c].at = "idle" /\ CallerFields \subseteq DOMAIN caller'[c]
  BY Zenon, <1>1 DEF ThrottleShape, CallerFields
<1>. QED
  BY Zenon, <1>1, <1>3, <1>4, <1>5 DEF SettleCall

\* The three ways a call is settled, with what each leaves of the model.
LEMMA SettledHow ==
    ASSUME ThrottleShape, NEW c \in Callers, CallSucceeds(c) \/ CallFails(c) \/ CallLimited(c)
    PROVE  \E verdict :
              /\ SettleCall(c, verdict)
              /\ {"until", "waves", "cap", "flying", "wins"} \subseteq DOMAIN verdict
              /\ verdict.flying = (IF model.flying = 0 THEN 0 ELSE model.flying - 1)
              /\ verdict.cap \in 1 .. Larger(Ceiling, 1)
              /\ verdict.cap < model.cap => verdict.waves = model.waves + 1 /\ ~Paused
<1>0. model.cap \in Nat
  BY ThrottleAssumption DEF ThrottleShape, Larger
<1>1. CASE CallSucceeds(c)
  BY <1>0, <1>1, VerdictNumbers, ThrottleAssumption DEF CallSucceeds, Larger
<1>2. CASE CallFails(c)
  BY SMTT(60), <1>0, <1>2, VerdictNumbers DEF CallFails, ThrottleShape
<1>3. CASE CallLimited(c)
  <2>1. PICK asked \in RetryAfters : SettleCall(c, RateLimited(Landed(model), asked))
    BY Zenon, <1>3 DEF CallLimited
  <2>. QED
    BY Zenon, <2>1, VerdictNumbers
<1>. QED
  BY Zenon, <1>1, <1>2, <1>3

\* The waits keep their causes: a look takes a permit or leaves a cause, a
\* verdict wakes everyone, and nothing else moves the model.
LEMMA WaitStep ==
    ASSUME ThrottleShape, WaitInv, [ThrottleNext]_throttleVars
    PROVE  ThrottleShape' /\ WaitInv'
<1>0. model.flying \in Nat /\ model.cap \in Nat /\ time \in Nat \ {0}
  BY ThrottleAssumption DEF ThrottleShape, Larger
<1>1. ASSUME NEW c \in Callers, Look(c), time' = time PROVE ThrottleShape' /\ WaitInv'
  <2>1. CASE model' = [model EXCEPT !.flying = @ + 1] /\ caller'[c].at = "calling"
    <3>1. /\ {"until", "waves", "cap", "flying", "wins"} \subseteq DOMAIN model'
          /\ model'.flying = model.flying + 1 /\ model'.cap = model.cap /\ model'.until = model.until
      BY Zenon, <2>1 DEF ThrottleShape
    <3>2. ThrottleShape'
      BY <1>0, <1>1, <3>1, LookEffect DEF ThrottleShape
    <3>. QED
      BY <1>0, <1>1, <2>1, <3>1, <3>2, LookEffect DEF WaitInv
  <2>2. CASE /\ Paused \/ model.flying >= model.cap
             /\ model' = model /\ caller'[c].at = "armed"
             /\ caller'[c].timer = IF Paused THEN model.until ELSE NoTimer
    <3>1. ThrottleShape'
      BY Zenon, <1>1, <2>2, LookEffect DEF ThrottleShape
    <3>2. Paused => model.until # NoTimer
      BY <1>0 DEF Paused, NoTimer
    <3>. QED
      BY Zenon, <1>1, <2>2, <3>1, <3>2, LookEffect DEF WaitInv
  <2>. QED
    BY Zenon, <1>1, <2>1, <2>2, LookEffect
<1>2. ASSUME NEW c \in Callers, Ask(c) \/ WakeCaller(c) PROVE ThrottleShape' /\ WaitInv'
  BY Zenon, <1>1, <1>2 DEF Ask, WakeCaller
<1>3. ASSUME NEW c \in Callers, Sleep(c) \/ CallCancelled(c) PROVE ThrottleShape' /\ WaitInv'
  <2>1. /\ model' = model /\ time' = time
        /\ \E at \in {"asleep", "idle"} : caller' = [caller EXCEPT ![c].at = at]
        /\ caller[c].at \in {"armed", "asleep"}
    BY Zenon, <1>3 DEF Sleep, CallCancelled
  <2>2. /\ DOMAIN caller' = Callers /\ caller'[c].at \in {"asleep", "idle"}
        /\ caller'[c].woken = caller[c].woken /\ caller'[c].timer = caller[c].timer
        /\ CallerFields \subseteq DOMAIN caller'[c]
        /\ \A d \in Callers \ {c} : caller'[d] = caller[d]
    BY Zenon, <2>1 DEF ThrottleShape, CallerFields
  <2>. QED
    BY <2>1, <2>2 DEF ThrottleShape, WaitInv
<1>4. ASSUME NEW c \in Callers, CallSucceeds(c) \/ CallFails(c) \/ CallLimited(c)
      PROVE  ThrottleShape' /\ WaitInv'
  <2>1. PICK verdict :
              /\ SettleCall(c, verdict)
              /\ {"until", "waves", "cap", "flying", "wins"} \subseteq DOMAIN verdict
              /\ verdict.flying = (IF model.flying = 0 THEN 0 ELSE model.flying - 1)
              /\ verdict.cap \in 1 .. Larger(Ceiling, 1)
    BY Zenon, <1>4, SettledHow
  <2>2. ThrottleShape'
    BY <1>0, <2>1, SettleEffect DEF ThrottleShape
  <2>3. WaitInv'
    BY Zenon, <2>1, SettleEffect DEF WaitInv
  <2>. QED
    BY Zenon, <2>2, <2>3
<1>5. CASE TimePasses \/ UNCHANGED throttleVars
  BY <1>0, <1>5 DEF TimePasses, throttleVars, ThrottleShape, WaitInv
<1>. QED
  BY Zenon, <1>2, <1>3, <1>4, <1>5 DEF ThrottleNext

\* Nobody waits at the start.
LEMMA ThrottleStart == ThrottleInit => ThrottleShape /\ WaitInv
  BY ThrottleAssumption DEF ThrottleInit, ThrottleShape, WaitInv, CallerFields, Larger

\* No wakeup is lost: whatever order looks, sleeps, verdicts and cancellations
\* take, a call that sleeps unnotified waits for a permit that is not there or
\* for the pause in force.
THEOREM NoLostWakeup == ThrottleSpec => []AsleepForCause
<1>. DEFINE Inv == ThrottleShape /\ WaitInv
<1>1. ThrottleInit => Inv
  BY Zenon, ThrottleStart
<1>2. Inv /\ [ThrottleNext]_throttleVars => Inv'
  BY Zenon, WaitStep
<1>3. Inv => AsleepForCause
  BY Zenon DEF WaitInv, AsleepForCause
<1>. HIDE DEF Inv
<1>. QED
  BY <1>1, <1>2, <1>3, PTL DEF ThrottleSpec
\* The permits out are the calls at the provider.
LEMMA PermitStep ==
    ASSUME ThrottleShape, PermitsTrue, [ThrottleNext]_throttleVars, ThrottleShape'
    PROVE  PermitsTrue'
<1>. DEFINE fly == {c \in Callers : caller[c].at = "calling"}
<1>0. /\ IsFiniteSet(fly) /\ model.flying = Cardinality(fly) /\ model.flying \in Nat
      /\ model'.cap \in 1 .. Larger(Ceiling, 1)
  BY Zenon, ThrottleAssumption, FS_Subset DEF PermitsTrue, ThrottleShape
<1>1. ASSUME fly' = fly, model'.flying = model.flying PROVE PermitsTrue'
  BY Zenon, <1>0, <1>1 DEF PermitsTrue
<1>2. ASSUME NEW c \in Callers, Look(c), caller[c].at # "calling" PROVE PermitsTrue'
  <2>1. CASE model' = [model EXCEPT !.flying = @ + 1] /\ caller'[c].at = "calling"
    <3>1. fly' = fly \cup {c} /\ c \notin fly
      BY <1>2, <2>1, LookEffect
    <3>2. model'.flying = model.flying + 1
      BY Zenon, <2>1 DEF ThrottleShape
    <3>3. Cardinality(fly \cup {c}) = Cardinality(fly) + 1
      BY Zenon, <1>0, <3>1, FS_AddElement
    <3>. QED
      BY Zenon, <1>0, <3>1, <3>2, <3>3 DEF PermitsTrue
  <2>2. CASE model' = model /\ caller'[c].at = "armed"
    <3>1. fly' = fly
      BY Zenon, <1>2, <2>2, LookEffect
    <3>. QED
      BY Zenon, <1>1, <2>2, <3>1
  <2>. QED
    BY Zenon, <1>2, <2>1, <2>2, LookEffect
<1>3. ASSUME NEW c \in Callers, CallSucceeds(c) \/ CallFails(c) \/ CallLimited(c) PROVE PermitsTrue'
  <2>1. PICK verdict :
            /\ SettleCall(c, verdict)
            /\ verdict.flying = (IF model.flying = 0 THEN 0 ELSE model.flying - 1)
    BY Zenon, <1>3, SettledHow
  <2>2. c \in fly /\ fly' = fly \ {c} /\ model' = verdict
    BY Zenon, <2>1, SettleEffect
  <2>3. Cardinality(fly \ {c}) = Cardinality(fly) - 1 /\ Cardinality(fly) # 0
    BY Zenon, <1>0, <2>2, FS_RemoveElement, FS_EmptySet
  <2>. QED
    BY Zenon, <1>0, <2>1, <2>2, <2>3 DEF PermitsTrue
<1>4. ASSUME NEW c \in Callers, Sleep(c) \/ CallCancelled(c) PROVE PermitsTrue'
  <2>1. /\ model' = model /\ caller[c].at # "calling" /\ caller'[c].at # "calling"
        /\ \A d \in Callers \ {c} : caller'[d] = caller[d]
    BY Zenon, <1>4 DEF Sleep, CallCancelled, ThrottleShape, CallerFields
  <2>. QED
    BY Zenon, <1>1, <2>1
<1>5. CASE TimePasses \/ UNCHANGED throttleVars
  BY Zenon, <1>1, <1>5 DEF TimePasses, throttleVars
<1>. QED
  BY Zenon, <1>2, <1>3, <1>4, <1>5 DEF ThrottleNext, Ask, WakeCaller

\* Permits are neither lost nor forged and the cap keeps its bounds; and one
\* wave of 429s halves the cap once, however many calls it answers.
THEOREM PermitsBalance == ThrottleSpec => []PermitsTrue /\ OneHalvingPerWave
<1>. DEFINE Inv == ThrottleShape /\ WaitInv /\ PermitsTrue
<1>1. ThrottleInit => Inv
  <2>. SUFFICES ASSUME ThrottleInit PROVE PermitsTrue
    BY Zenon, ThrottleStart
  <2>1. {c \in Callers : caller[c].at = "calling"} = {}
    BY Zenon DEF ThrottleInit
  <2>. QED
    BY Zenon, <2>1, FS_EmptySet, ThrottleStart DEF ThrottleInit, PermitsTrue, ThrottleShape
<1>2. Inv /\ [ThrottleNext]_throttleVars => Inv'
  BY Zenon, WaitStep, PermitStep
<1>3. Inv => PermitsTrue
  BY Zenon
<1>4. Inv /\ [ThrottleNext]_throttleVars
        => [model'.cap < model.cap => model'.waves = model.waves + 1 /\ ~Paused]_throttleVars
  <2>. SUFFICES ASSUME Inv, ThrottleNext, model'.cap < model.cap
                PROVE  model'.waves = model.waves + 1 /\ ~Paused
    BY Zenon
  <2>0. model.cap \in Nat
    BY ThrottleAssumption DEF ThrottleShape, Larger
  <2>1. ASSUME NEW c \in Callers, CallSucceeds(c) \/ CallFails(c) \/ CallLimited(c)
        PROVE  model'.waves = model.waves + 1 /\ ~Paused
    BY Zenon, <2>1, SettledHow DEF SettleCall
  <2>2. ASSUME NEW c \in Callers, Look(c) PROVE FALSE
    BY <2>0, <2>2 DEF Look, ThrottleShape
  <2>3. ASSUME NEW c \in Callers, Sleep(c) \/ CallCancelled(c) PROVE FALSE
    BY <2>0, <2>3 DEF Sleep, CallCancelled
  <2>4. CASE TimePasses
    BY <2>0, <2>4 DEF TimePasses
  <2>. QED
    BY Zenon, <2>1, <2>2, <2>3, <2>4 DEF ThrottleNext, Ask, WakeCaller
<1>. HIDE DEF Inv
<1>. QED
  BY <1>1, <1>2, <1>3, <1>4, PTL DEF ThrottleSpec, OneHalvingPerWave
--------------------------------------------------------------------------------
\* The requeue of a dead letter.

AskFields == {"at", "tip", "pos", "chosen", "id", "answer"}
RowFields == {"from", "seq"}

\* The calls that hold a claim they may still give back.
Claiming == {c \in Askers : asking[c].at \in {"claimed", "releasing"}}

\* Ids are minted once, so whatever is in the log, in the trigger stream or in
\* the table was minted, and a call past its scan has a letter with a name.
RequeueShape ==
    /\ said \in Seq(SaidMessages) /\ minted \in Nat /\ folded \in Nat /\ folded <= Len(said)
    /\ DOMAIN asking = Askers /\ \A c \in Askers : AskFields \subseteq DOMAIN asking[c]
    /\ \A p \in DOMAIN said : said[p].id <= minted
    /\ fqTriggers \subseteq 1 .. minted
    /\ DOMAIN table \subseteq 1 .. minted
    /\ \A n \in DOMAIN table : RowFields \subseteq DOMAIN table[n]
    /\ \A c \in Askers :
          /\ asking[c].at \in {"idle", "scan"} => asking[c].chosen \in {NoPos} \cup DOMAIN said
          /\ asking[c].at \in {"chosen", "claimed", "releasing"} =>
                asking[c].chosen \in DOMAIN said /\ Original(c) # Unnamed

\* A claim belongs to one call, has a row, and has not been heard of outside:
\* neither the stream nor the log has its id, so giving it back takes nothing
\* from anyone.
ClaimInv ==
    /\ \A c \in Claiming :
          /\ asking[c].id \in DOMAIN table /\ table[asking[c].id].from = Original(c)
          /\ asking[c].id \notin fqTriggers
          /\ \A s \in everSent : s.id # asking[c].id
          /\ \A p \in DOMAIN said : said[p].id # asking[c].id
    /\ \A c, d \in Claiming : asking[c].id = asking[d].id => c = d

\* The unique index on requeued_from.
OneRowPerLetter ==
    \A m, n \in DOMAIN table :
        table[m].from = table[n].from /\ table[m].from # Unnamed => m = n

\* A row without a position is of a trigger the fold has not met; a row with
\* one has the position of the first message that names the trigger.
PlaceOf(n) ==
    IF table[n].seq = NoPos THEN \A p \in 1 .. folded : Named(p) => said[p].id # n
    ELSE /\ table[n].seq \in 1 .. folded
         /\ Named(table[n].seq) /\ said[table[n].seq].id = n
         /\ \A q \in 1 .. table[n].seq - 1 : Named(q) => said[q].id # n

PlaceInv == \A n \in DOMAIN table : PlaceOf(n)

\* Everything named has its row.
RowInTime == \A p \in 1 .. folded : Named(p) => said[p].id \in DOMAIN table

SentNamed == \A s \in everSent : s.from # Unnamed

RequeueInv ==
    /\ RequeueShape /\ ClaimInv /\ OneRowPerLetter /\ RequeueOnRecord /\ SentNamed
    /\ PlaceInv /\ RowInTime
\* What a message appended to the log leaves in place.
LEMMA LogGrows ==
    ASSUME said \in Seq(SaidMessages), NEW m \in SaidMessages, said' = Append(said, m)
    PROVE  /\ said' \in Seq(SaidMessages) /\ Len(said') = Len(said) + 1
           /\ DOMAIN said = 1 .. Len(said) /\ DOMAIN said' = 1 .. Len(said) + 1
           /\ \A p \in DOMAIN said : said'[p] = said[p]
           /\ said'[Len(said) + 1] = m
<1>. HIDE DEF SaidMessages
<1>. QED
  OBVIOUS

\* A message of the log has a kind and an id.
LEMMA SaidId ==
    ASSUME said \in Seq(SaidMessages), NEW p \in DOMAIN said
    PROVE  said[p] \in SaidMessages /\ said[p].id \in Nat
<1>1. said[p] \in SaidMessages
  <2>. HIDE DEF SaidMessages
  <2>. QED
    OBVIOUS
<1>. QED
  BY Zenon, <1>1 DEF SaidMessages

\* A call that moves on with everything else as it was: it may find a letter,
\* or come to give back the claim it holds, but it takes none.
LEMMA AskKeeps ==
    ASSUME RequeueInv, NEW c \in Askers, NEW a, asking' = [asking EXCEPT ![c] = a],
           UNCHANGED <<said, folded, table, fqTriggers, everSent, minted>>,
           AskFields \subseteq DOMAIN a,
           a.at \in {"idle", "scan"} => a.chosen \in {NoPos} \cup DOMAIN said,
           a.at = "chosen" => a.chosen \in DOMAIN said /\ said[a.chosen].id # Unnamed,
           a.at # "claimed",
           a.at = "releasing" => asking[c].at = "claimed" /\ a.id = asking[c].id
                                 /\ a.chosen = asking[c].chosen
    PROVE  RequeueInv'
<1>1. DOMAIN asking = Askers
  BY Zenon DEF RequeueInv, RequeueShape
<1>2. asking'[c] = a /\ \A d \in Askers : d # c => asking'[d] = asking[d]
  BY Zenon, <1>1
<1>3. DOMAIN asking' = Askers
  BY Zenon, <1>1
<1>4. RequeueShape'
  BY <1>2, <1>3 DEF RequeueInv, RequeueShape, Original
<1>5. \A d \in Claiming' : /\ d \in Claiming
                           /\ asking'[d].id = asking[d].id /\ asking'[d].chosen = asking[d].chosen
  BY <1>2, Zenon DEF Claiming
<1>6. ClaimInv'
  <2>1. \A d \in Claiming' : Original(d)' = Original(d)
    BY <1>5, Zenon DEF Original
  <2>2. table' = table /\ fqTriggers' = fqTriggers /\ everSent' = everSent /\ said' = said
    BY Zenon
  <2>3. ClaimInv
    BY Zenon DEF RequeueInv
  <2>. QED
    BY <1>5, <2>1, <2>2, <2>3 DEF ClaimInv
<1>7. OneRowPerLetter' /\ RequeueOnRecord' /\ SentNamed'
  BY Zenon DEF RequeueInv, OneRowPerLetter, RequeueOnRecord, SentNamed
<1>8. PlaceInv' /\ RowInTime'
  BY Zenon DEF RequeueInv, PlaceInv, PlaceOf, RowInTime, Named
<1>. QED
  BY <1>4, <1>6, <1>7, <1>8, Zenon DEF RequeueInv

\* The publish stores the claimed trigger, and with it the claim is final.
LEMMA StoreKeeps ==
    ASSUME RequeueInv, NEW c \in Askers, asking[c].at = "claimed", Stored(c),
           NEW a, asking' = [asking EXCEPT ![c] = a], AskFields \subseteq DOMAIN a,
           a.at = "answered", UNCHANGED <<said, folded, table, minted>>
    PROVE  RequeueInv'
<1>1. DOMAIN asking = Askers /\ c \in Claiming
  BY Zenon DEF RequeueInv, RequeueShape, Claiming
<1>2. asking'[c] = a /\ \A d \in Askers : d # c => asking'[d] = asking[d]
  BY Zenon, <1>1
<1>3. DOMAIN asking' = Askers
  BY Zenon, <1>1
<1>4. asking[c].id \in DOMAIN table /\ table[asking[c].id].from = Original(c) /\ Original(c) # Unnamed
  BY <1>1, Zenon DEF RequeueInv, RequeueShape, ClaimInv
<1>5. RequeueShape'
  BY Zenon, <1>2, <1>3, <1>4 DEF RequeueInv, RequeueShape, Original, Stored
<1>6. \A d \in Claiming' : /\ d \in Claiming /\ d # c
                           /\ asking'[d] = asking[d]
  BY <1>2, Zenon DEF Claiming
<1>7. \A s \in everSent' : s \in everSent \/ (s.id = asking[c].id /\ s.from = Original(c))
  BY DEF Stored
<1>8. ClaimInv'
  <2>1. \A d \in Claiming' : Original(d)' = Original(d)
    BY <1>6, Zenon DEF Original
  <2>2. table' = table /\ fqTriggers' = fqTriggers \cup {asking[c].id} /\ said' = said
    BY Zenon DEF Stored
  <2>3. ClaimInv
    BY Zenon DEF RequeueInv
  <2>4. \A d \in Claiming' : asking[d].id # asking[c].id
    BY <1>1, <1>6, <2>3, Zenon DEF ClaimInv
  <2>. QED
    BY <1>6, <1>7, <2>1, <2>2, <2>3, <2>4 DEF ClaimInv
<1>9. OneRowPerLetter' /\ RequeueOnRecord' /\ SentNamed'
  BY <1>4, <1>7, Zenon DEF RequeueInv, OneRowPerLetter, RequeueOnRecord, SentNamed
<1>10. PlaceInv' /\ RowInTime'
  BY Zenon DEF RequeueInv, PlaceInv, PlaceOf, RowInTime, Named
<1>. QED
  BY <1>5, <1>8, <1>9, <1>10, Zenon DEF RequeueInv
\* The row and the id of a claim are new, and no other row names the letter.
LEMMA ReserveKeeps ==
    ASSUME RequeueInv, NEW c \in Askers, Reserve(c)
    PROVE  RequeueInv'
<1>0. RequeueShape /\ ClaimInv
  BY Zenon DEF RequeueInv
<1>1. asking[c].at = "chosen" /\ UNCHANGED <<said, folded, fqTriggers, everSent>>
  BY Zenon DEF Reserve
<1>2. asking[c].chosen \in DOMAIN said /\ Original(c) # Unnamed /\ DOMAIN asking = Askers
      /\ AskFields \subseteq DOMAIN asking[c]
  BY <1>0, <1>1, Zenon DEF RequeueShape
<1>3. CASE ~Unclaimed(c)
  <2>1. asking' = [asking EXCEPT ![c].at = "refused"] /\ UNCHANGED <<minted, table>>
    BY <1>3, Zenon DEF Reserve
  <2>2. /\ asking' = [asking EXCEPT ![c] = [asking[c] EXCEPT !.at = "refused"]]
        /\ AskFields \subseteq DOMAIN [asking[c] EXCEPT !.at = "refused"]
        /\ [asking[c] EXCEPT !.at = "refused"].at = "refused"
    BY Zenon, <1>2, <2>1 DEF AskFields
  <2>. QED
    BY Zenon, <1>1, <2>1, <2>2, AskKeeps
<1>4. CASE Unclaimed(c)
  <2>. DEFINE a   == [asking[c] EXCEPT !.at = "claimed", !.id = minted + 1]
              row == [from |-> Original(c), seq |-> NoPos]
  <2>1. /\ minted' = minted + 1 /\ table' = WithRow(minted + 1, row)
        /\ asking' = [asking EXCEPT ![c].at = "claimed", ![c].id = minted + 1]
    BY <1>4, Zenon DEF Reserve
  <2>2. /\ asking' = [asking EXCEPT ![c] = a] /\ AskFields \subseteq DOMAIN a
        /\ a.at = "claimed" /\ a.id = minted + 1 /\ a.chosen = asking[c].chosen
    BY Zenon, <1>2, <2>1 DEF AskFields
  <2>3. RowFields \subseteq DOMAIN row /\ row.from = Original(c) /\ row.seq = NoPos
    BY Zenon DEF RowFields
  <2>. HIDE DEF a, row
  <2>4. asking'[c] = a /\ (\A d \in Askers : d # c => asking'[d] = asking[d]) /\ DOMAIN asking' = Askers
    BY <1>2, <2>2, Zenon
  <2>5. /\ DOMAIN table' = DOMAIN table \cup {minted + 1} /\ table'[minted + 1] = row
        /\ \A n \in DOMAIN table : n # minted + 1 => table'[n] = table[n]
    BY <2>1, Zenon DEF WithRow
  <2>6. /\ minted \in Nat /\ minted + 1 \notin DOMAIN table /\ minted + 1 \notin fqTriggers
        /\ \A p \in DOMAIN said : said[p].id # minted + 1
    <3>1. minted \in Nat /\ DOMAIN table \subseteq 1 .. minted /\ fqTriggers \subseteq 1 .. minted
      BY <1>0, Zenon DEF RequeueShape
    <3>2. \A p \in DOMAIN said : said[p].id \in Nat /\ said[p].id <= minted
      BY <1>0, SaidId, Zenon DEF RequeueShape
    <3>. QED
      BY <3>1, <3>2
  <2>7. \A n \in DOMAIN table : table'[n] = table[n]
    BY <2>5, <2>6, Zenon
  <2>8. RequeueShape'
    <3>1. /\ said' \in Seq(SaidMessages) /\ minted' \in Nat /\ folded' \in Nat /\ folded' <= Len(said')
      BY <1>0, <1>1, <2>1 DEF RequeueShape
    <3>2. /\ \A p \in DOMAIN said' : said'[p].id <= minted'
          /\ fqTriggers' \subseteq 1 .. minted' /\ DOMAIN table' \subseteq 1 .. minted'
      <4>1. \A p \in DOMAIN said : said[p].id \in Nat /\ said[p].id <= minted
        BY <1>0, SaidId, Zenon DEF RequeueShape
      <4>2. fqTriggers \subseteq 1 .. minted /\ DOMAIN table \subseteq 1 .. minted
        BY <1>0, Zenon DEF RequeueShape
      <4>. QED
        BY <1>1, <2>1, <2>5, <2>6, <4>1, <4>2
    <3>3. \A n \in DOMAIN table' : RowFields \subseteq DOMAIN table'[n]
      BY Zenon, <1>0, <2>3, <2>5, <2>7 DEF RequeueShape
    <3>4. \A d \in Askers : AskFields \subseteq DOMAIN asking'[d]
      BY Zenon, <1>0, <2>2, <2>4 DEF RequeueShape
    <3>5. \A d \in Askers :
            /\ asking'[d].at \in {"idle", "scan"} => asking'[d].chosen \in {NoPos} \cup DOMAIN said'
            /\ asking'[d].at \in {"chosen", "claimed", "releasing"} =>
                  asking'[d].chosen \in DOMAIN said' /\ said'[asking'[d].chosen].id # Unnamed
      BY Zenon, <1>0, <1>1, <1>2, <2>2, <2>4 DEF RequeueShape, Original
    <3>. QED
      BY <2>4, <3>1, <3>2, <3>3, <3>4, <3>5, Zenon DEF RequeueShape, Original
  <2>9. \A d \in Claiming' : d = c \/ (d \in Claiming /\ asking'[d] = asking[d])
    BY <2>4, Zenon DEF Claiming
  <2>10. \A s \in everSent : s.id # minted + 1
    BY <2>6, Zenon DEF RequeueInv, RequeueOnRecord
  <2>11. ClaimInv'
    <3>1. \A d \in Askers : asking'[d].chosen = asking[d].chosen
      BY <2>2, <2>4, Zenon
    <3>2. \A d \in Askers : Original(d)' = Original(d)
      BY <1>1, <3>1, Zenon DEF Original
    <3>3. asking'[c].id = minted + 1
      BY <2>2, <2>4, Zenon
    <3>4. \A d \in Claiming : asking[d].id # minted + 1
      BY <1>0, <2>6, Zenon DEF ClaimInv
    <3>5. said' = said /\ fqTriggers' = fqTriggers /\ everSent' = everSent /\ Claiming' \subseteq Askers
      BY <1>1, Zenon DEF Claiming
    <3>6. ASSUME NEW d \in Claiming'
          PROVE  /\ asking'[d].id \in DOMAIN table' /\ table'[asking'[d].id].from = Original(d)'
                 /\ asking'[d].id \notin fqTriggers'
                 /\ \A s \in everSent' : s.id # asking'[d].id
                 /\ \A p \in DOMAIN said' : said'[p].id # asking'[d].id
      <4>1. CASE d = c
        BY <2>3, <2>5, <2>6, <2>10, <3>2, <3>3, <3>5, <4>1, Zenon
      <4>2. CASE d # c
        <5>1. d \in Claiming /\ asking'[d] = asking[d] /\ d \in Askers
          BY <2>9, <3>5, <4>2, Zenon
        <5>. QED
          BY <1>0, <2>5, <2>7, <3>2, <3>5, <5>1 DEF ClaimInv
      <4>. QED
        BY <4>1, <4>2, Zenon
    <3>7. ASSUME NEW d \in Claiming', NEW e \in Claiming', asking'[d].id = asking'[e].id PROVE d = e
      BY <1>0, <2>9, <3>3, <3>4, <3>7 DEF ClaimInv
    <3>. QED
      BY <3>6, <3>7, Zenon DEF ClaimInv
  <2>12. OneRowPerLetter'
    <3>1. \A n \in DOMAIN table : table[n].from # Original(c)
      BY <1>4, Zenon DEF Unclaimed, Requeues
    <3>. QED
      BY <2>3, <2>5, <2>7, <3>1, Zenon DEF RequeueInv, OneRowPerLetter
  <2>13. RequeueOnRecord' /\ SentNamed'
    BY <1>1, <2>5, <2>7, Zenon DEF RequeueInv, RequeueOnRecord, SentNamed
  <2>14. RowInTime'
    BY <1>1, <2>5, Zenon DEF RequeueInv, RowInTime, Named
  <2>15. PlaceInv'
    <3>1. \A p \in 1 .. folded : said[p].id # minted + 1
      BY <1>0, <2>6 DEF RequeueShape
    <3>2. \A n \in DOMAIN table' : n \in DOMAIN table \/ n = minted + 1
      BY <2>5, Zenon
    <3>3. PlaceInv /\ folded' = folded /\ said' = said
      BY <1>1, Zenon DEF RequeueInv
    <3>4. table'[minted + 1].seq = NoPos
      BY <2>3, <2>5, Zenon
    <3>5. ASSUME NEW n, n = minted + 1 PROVE PlaceOf(n)'
      BY <3>1, <3>3, <3>4, <3>5, Zenon DEF PlaceOf, Named
    <3>6. ASSUME NEW n \in DOMAIN table PROVE PlaceOf(n)'
      BY <2>7, <3>3, Zenon DEF PlaceInv, PlaceOf, Named
    <3>. QED
      BY <2>5, <3>2, <3>5, <3>6, Zenon DEF PlaceInv
  <2>. QED
    BY <2>8, <2>11, <2>12, <2>13, <2>14, <2>15, Zenon DEF RequeueInv
<1>. QED
  BY Zenon, <1>3, <1>4
\* release_requeue takes back a row that nobody else has seen.
LEMMA ReleaseKeeps ==
    ASSUME RequeueInv, NEW c \in Askers, Release(c)
    PROVE  RequeueInv'
<1>0. RequeueShape /\ ClaimInv
  BY Zenon DEF RequeueInv
<1>. DEFINE a == [asking[c] EXCEPT !.at = "answered", !.answer = "failed"]
<1>1. /\ asking[c].at = "releasing" /\ UNCHANGED <<said, folded, fqTriggers, everSent, minted>>
      /\ table' = [n \in DOMAIN table \ {asking[c].id} |-> table[n]]
      /\ asking' = [asking EXCEPT ![c].at = "answered", ![c].answer = "failed"]
  BY Zenon DEF Release
<1>2. DOMAIN asking = Askers /\ AskFields \subseteq DOMAIN asking[c] /\ c \in Claiming
  BY <1>0, <1>1, Zenon DEF RequeueShape, Claiming
<1>3. asking' = [asking EXCEPT ![c] = a] /\ AskFields \subseteq DOMAIN a /\ a.at = "answered"
  BY Zenon, <1>1, <1>2 DEF AskFields
<1>. HIDE DEF a
<1>4. asking'[c] = a /\ (\A d \in Askers : d # c => asking'[d] = asking[d]) /\ DOMAIN asking' = Askers
  BY <1>2, <1>3, Zenon
<1>5. /\ DOMAIN table' = DOMAIN table \ {asking[c].id}
      /\ \A n \in DOMAIN table' : table'[n] = table[n]
  BY <1>1, Zenon
<1>6. /\ \A s \in everSent : s.id # asking[c].id
      /\ \A p \in DOMAIN said : said[p].id # asking[c].id
      /\ \A d \in Claiming : d # c => asking[d].id # asking[c].id
  BY <1>0, <1>2, Zenon DEF ClaimInv
<1>7. RequeueShape'
  <2>1. DOMAIN table' \subseteq 1 .. minted /\ \A n \in DOMAIN table' : RowFields \subseteq DOMAIN table'[n]
    BY Zenon, <1>0, <1>5 DEF RequeueShape
  <2>2. \A d \in Askers : AskFields \subseteq DOMAIN asking'[d]
    BY Zenon, <1>0, <1>3, <1>4 DEF RequeueShape
  <2>3. \A d \in Askers :
          /\ asking'[d].at \in {"idle", "scan"} => asking'[d].chosen \in {NoPos} \cup DOMAIN said
          /\ asking'[d].at \in {"chosen", "claimed", "releasing"} =>
                asking'[d].chosen \in DOMAIN said /\ said[asking'[d].chosen].id # Unnamed
    BY Zenon, <1>0, <1>3, <1>4 DEF RequeueShape, Original
  <2>4. /\ said' = said /\ minted' = minted /\ folded' = folded /\ fqTriggers' = fqTriggers
    BY <1>1, Zenon
  <2>. QED
    BY <1>0, <1>4, <2>1, <2>2, <2>3, <2>4, Zenon DEF RequeueShape, Original
<1>8. \A d \in Claiming' : d \in Claiming /\ d # c /\ asking'[d] = asking[d]
  BY <1>3, <1>4, Zenon DEF Claiming
<1>9. ClaimInv'
  <2>1. \A d \in Claiming' : Original(d)' = Original(d)
    BY <1>1, <1>8, Zenon DEF Original
  <2>2. fqTriggers' = fqTriggers /\ everSent' = everSent /\ said' = said
    BY <1>1, Zenon
  <2>3. \A d \in Claiming' : asking[d].id \in DOMAIN table'
    BY <1>0, <1>5, <1>6, <1>8, Zenon DEF ClaimInv
  <2>. QED
    BY SMTT(60), <1>0, <1>5, <1>8, <2>1, <2>2, <2>3 DEF ClaimInv
<1>10. OneRowPerLetter'
  BY <1>5, Zenon DEF RequeueInv, OneRowPerLetter
<1>11. RequeueOnRecord' /\ SentNamed'
  BY <1>1, <1>5, <1>6, Zenon DEF RequeueInv, RequeueOnRecord, SentNamed
<1>12. PlaceInv'
  <2>1. ASSUME NEW n \in DOMAIN table' PROVE PlaceOf(n)'
    BY <1>1, <1>5, Zenon DEF RequeueInv, PlaceInv, PlaceOf, Named
  <2>. QED
    BY <2>1, Zenon DEF PlaceInv
<1>13. RowInTime'
  <2>1. 1 .. folded \subseteq DOMAIN said
    BY <1>0 DEF RequeueShape
  <2>. QED
    BY <1>1, <1>5, <1>6, <2>1, Zenon DEF RequeueInv, RowInTime, Named
<1>. QED
  BY <1>7, <1>9, <1>10, <1>11, <1>12, <1>13, Zenon DEF RequeueInv

\* trigger.publish mints an id of its own.
LEMMA PublishKeeps ==
    ASSUME RequeueInv, PublishTrigger
    PROVE  RequeueInv'
<1>0. RequeueShape /\ ClaimInv
  BY Zenon DEF RequeueInv
<1>1. /\ minted' = minted + 1 /\ fqTriggers' = fqTriggers \cup {minted + 1}
      /\ said' = said /\ folded' = folded /\ table' = table /\ everSent' = everSent /\ asking' = asking
  BY Zenon DEF PublishTrigger
<1>2. RequeueShape'
  <2>1. /\ minted \in Nat /\ DOMAIN table \subseteq 1 .. minted /\ fqTriggers \subseteq 1 .. minted
        /\ \A p \in DOMAIN said : said[p].id \in Nat /\ said[p].id <= minted
    BY <1>0, SaidId, Zenon DEF RequeueShape
  <2>2. /\ minted' \in Nat /\ DOMAIN table \subseteq 1 .. minted' /\ fqTriggers' \subseteq 1 .. minted'
        /\ \A p \in DOMAIN said : said[p].id <= minted'
    BY <1>1, <2>1
  <2>. QED
    BY <1>0, <1>1, <2>2, Zenon DEF RequeueShape, Original
<1>3. ClaimInv'
  <2>1. \A c \in Claiming : asking[c].id # minted + 1
    BY <1>0 DEF RequeueShape, ClaimInv
  <2>2. Claiming' = Claiming /\ \A c : Original(c)' = Original(c)
    BY <1>1, Zenon DEF Claiming, Original
  <2>. QED
    BY Zenon, <1>0, <1>1, <2>1, <2>2 DEF ClaimInv
<1>. QED
  BY <1>1, <1>2, <1>3, Zenon DEF RequeueInv, OneRowPerLetter, RequeueOnRecord, SentNamed,
     PlaceInv,
     PlaceOf, RowInTime, Named

\* The dispatcher's event names a trigger of the stream, which no claim holds.
LEMMA ConcludeKeeps ==
    ASSUME RequeueInv, NEW id \in fqTriggers, NEW kind \in {"dead", "triggered"},
           ConcludeTrigger(id, kind)
    PROVE  RequeueInv'
<1>0. RequeueShape /\ ClaimInv
  BY Zenon DEF RequeueInv
<1>. DEFINE m == Said(kind, id)
<1>1. /\ said' = Append(said, m) /\ fqTriggers' = fqTriggers \ {id}
      /\ minted' = minted /\ folded' = folded /\ table' = table /\ everSent' = everSent
      /\ asking' = asking
  BY Zenon DEF ConcludeTrigger
<1>2. said \in Seq(SaidMessages) /\ id \in 1 .. minted /\ minted \in Nat
  BY <1>0, Zenon DEF RequeueShape
<1>3. m \in SaidMessages /\ m.id = id
  BY <1>2 DEF Said, SaidMessages
<1>. HIDE DEF m
<1>4. /\ said' \in Seq(SaidMessages) /\ Len(said') = Len(said) + 1
      /\ DOMAIN said = 1 .. Len(said) /\ DOMAIN said' = 1 .. Len(said) + 1
      /\ \A p \in DOMAIN said : said'[p] = said[p]
      /\ said'[Len(said) + 1] = m
  BY Zenon, <1>1, <1>2, <1>3, LogGrows
<1>5. Len(said) \in Nat /\ folded \in Nat /\ folded <= Len(said)
  BY <1>0, <1>2 DEF RequeueShape
<1>6. DOMAIN said \subseteq DOMAIN said' /\ 1 .. folded \subseteq DOMAIN said /\ folded <= Len(said')
  BY <1>4, <1>5
<1>7. \A p \in DOMAIN said' : p \in DOMAIN said \/ p = Len(said) + 1
  BY <1>4, <1>5
<1>8. \A p \in DOMAIN said' : said'[p].id <= minted
  BY <1>0, <1>2, <1>3, <1>4, <1>7 DEF RequeueShape
<1>9. RequeueShape'
  <2>1. \A c \in Askers :
          /\ asking[c].at \in {"idle", "scan"} => asking[c].chosen \in {NoPos} \cup DOMAIN said'
          /\ asking[c].at \in {"chosen", "claimed", "releasing"} =>
                asking[c].chosen \in DOMAIN said' /\ said'[asking[c].chosen].id # Unnamed
    BY Zenon, <1>0, <1>4, <1>6 DEF RequeueShape, Original
  <2>2. fqTriggers' \subseteq 1 .. minted
    BY Zenon, <1>0, <1>1 DEF RequeueShape
  <2>. QED
    BY <1>0, <1>1, <1>4, <1>5, <1>6, <1>8, <2>1, <2>2, Zenon DEF RequeueShape, Original
<1>10. ClaimInv'
  <2>1. Claiming' = Claiming
    BY <1>1, Zenon DEF Claiming
  <2>2. \A c \in Claiming : Original(c)' = Original(c)
    BY <1>0, <1>1, <1>4, Zenon DEF Claiming, RequeueShape, Original
  <2>3. \A c \in Claiming : \A p \in DOMAIN said' : said'[p].id # asking[c].id
    BY <1>0, <1>3, <1>4, <1>7, Zenon DEF ClaimInv
  <2>. QED
    BY <1>0, <1>1, <2>1, <2>2, <2>3 DEF ClaimInv
<1>11. OneRowPerLetter' /\ RequeueOnRecord' /\ SentNamed'
  BY <1>1, Zenon DEF RequeueInv, OneRowPerLetter, RequeueOnRecord, SentNamed
<1>12. \A p \in 1 .. folded : said'[p] = said[p]
  BY <1>4, <1>6, Zenon
<1>13. RowInTime'
  BY <1>1, <1>12, Zenon DEF RequeueInv, RowInTime, Named
<1>14. PlaceInv'
  <2>1. ASSUME NEW n \in DOMAIN table PROVE PlaceOf(n)'
    <3>1. table[n].seq \in 1 .. folded => 1 .. table[n].seq - 1 \subseteq 1 .. folded
      BY <1>5
    <3>2. PlaceOf(n)
      BY Zenon DEF RequeueInv, PlaceInv
    <3>. QED
      BY <1>1, <1>12, <3>1, <3>2, Zenon DEF PlaceOf, Named
  <2>. QED
    BY <1>1, <2>1, Zenon DEF PlaceInv
<1>. QED
  BY <1>9, <1>10, <1>11, <1>13, <1>14, Zenon DEF RequeueInv
\* insert_trigger keeps the rows there are, their lineage, and the position a
\* row already has.
LEMMA FoldKeeps ==
    ASSUME RequeueInv, FoldSaid
    PROVE  RequeueInv'
<1>0. RequeueShape /\ ClaimInv /\ PlaceInv
  BY Zenon DEF RequeueInv
<1>. DEFINE p  == folded + 1
            id == said[p].id
<1>1. /\ folded < Len(said) /\ folded' = p
      /\ table' = IF Named(p) THEN insert_trigger(id, p) ELSE table
      /\ said' = said /\ fqTriggers' = fqTriggers /\ everSent' = everSent /\ minted' = minted
      /\ asking' = asking
  BY Zenon DEF FoldSaid
<1>2. folded \in Nat /\ said \in Seq(SaidMessages) /\ Len(said) \in Nat
  BY <1>0 DEF RequeueShape
<1>3. /\ p \in Nat \ {0} /\ p <= Len(said) /\ p \in DOMAIN said /\ p \notin 1 .. folded
      /\ 1 .. folded' = 1 .. folded \cup {p} /\ 1 .. p - 1 = 1 .. folded
  BY <1>1, <1>2
<1>4. id \in Nat /\ id <= minted /\ minted \in Nat
  BY <1>0, <1>2, <1>3, SaidId, Zenon DEF RequeueShape
<1>. HIDE DEF p, id
<1>5. /\ Named(p) => id # Unnamed /\ id \in 1 .. minted
  BY <1>4 DEF Named, Unnamed, id
<1>6. /\ DOMAIN table' = IF Named(p) THEN DOMAIN table \cup {id} ELSE DOMAIN table
      /\ \A n \in DOMAIN table : ~(Named(p) /\ n = id) => table'[n] = table[n]
      /\ Named(p) /\ id \in DOMAIN table =>
            /\ table'[id].from = table[id].from
            /\ table'[id].seq = IF table[id].seq = NoPos THEN p ELSE table[id].seq
            /\ RowFields \subseteq DOMAIN table'[id]
      /\ Named(p) /\ id \notin DOMAIN table =>
            /\ table'[id].from = Unnamed
            /\ table'[id].seq = p
            /\ RowFields \subseteq DOMAIN table'[id]
  <2>1. CASE ~Named(p)
    BY <1>1, <2>1, Zenon
  <2>2. CASE Named(p) /\ id \in DOMAIN table
    <3>1. table' = [table EXCEPT ![id].seq = IF @ = NoPos THEN p ELSE @]
      BY <1>1, <2>2, Zenon DEF insert_trigger
    <3>2. RowFields \subseteq DOMAIN table[id]
      BY <1>0, <2>2, Zenon DEF RequeueShape
    <3>. QED
      BY Zenon, <2>2, <3>1, <3>2 DEF RowFields
  <2>3. CASE Named(p) /\ id \notin DOMAIN table
    <3>1. table' = [n \in DOMAIN table \cup {id} |->
                       IF n = id THEN [from |-> Unnamed, seq |-> p] ELSE table[n]]
      BY <1>1, <2>3, Zenon DEF insert_trigger, WithRow
    <3>. QED
      BY Zenon, <2>3, <3>1 DEF RowFields
  <2>. QED
    BY <2>1, <2>2, <2>3, Zenon
<1>7. DOMAIN table \subseteq DOMAIN table' /\ \A n \in DOMAIN table : table'[n].from = table[n].from
  BY <1>6, Zenon
<1>8. \A n \in DOMAIN table' : n \in DOMAIN table \/ (n = id /\ table'[n].from = Unnamed)
  BY <1>6, Zenon
<1>9. RequeueShape'
  <2>1. DOMAIN table' \subseteq 1 .. minted
    BY <1>0, <1>5, <1>6, Zenon DEF RequeueShape
  <2>2. \A n \in DOMAIN table' : RowFields \subseteq DOMAIN table'[n]
    BY <1>0, <1>6, Zenon DEF RequeueShape
  <2>. QED
    BY <1>0, <1>1, <1>3, <2>1, <2>2, Zenon DEF RequeueShape, Original
<1>10. ClaimInv'
  <2>1. Claiming' = Claiming /\ \A c : Original(c)' = Original(c)
    BY <1>1, Zenon DEF Claiming, Original
  <2>. QED
    BY <1>0, <1>1, <1>7, <2>1 DEF ClaimInv
<1>11. OneRowPerLetter'
  BY <1>7, <1>8, Zenon DEF RequeueInv, OneRowPerLetter
<1>12. RequeueOnRecord' /\ SentNamed'
  BY <1>1, <1>7, Zenon DEF RequeueInv, RequeueOnRecord, SentNamed
<1>13. RowInTime'
  BY <1>1, <1>3, <1>6, <1>7, Zenon DEF RequeueInv, RowInTime, Named, id
<1>14. PlaceInv'
  <2>1. ASSUME NEW n \in DOMAIN table', ~(Named(p) /\ n = id) PROVE PlaceOf(n)'
    <3>1. n \in DOMAIN table /\ table'[n] = table[n] /\ PlaceOf(n)
      BY <1>0, <1>6, <2>1, Zenon DEF PlaceInv
    <3>2. Named(p) => said[p].id # n
      BY <2>1, Zenon DEF id
    <3>. QED
      BY <1>1, <1>3, <3>1, <3>2, Zenon DEF PlaceOf, Named
  <2>2. ASSUME NEW n, Named(p), n = id PROVE PlaceOf(n)'
    <3>1. said[p].id = n /\ p # NoPos /\ p \in 1 .. folded'
      BY Zenon, <1>3, <2>2 DEF id, NoPos
    <3>2. CASE n \in DOMAIN table /\ table[n].seq # NoPos
      <4>1. PlaceOf(n) /\ table'[n].seq = table[n].seq
        BY <1>0, <1>6, <2>2, <3>2, Zenon DEF PlaceInv
      <4>. QED
        BY <1>1, <1>3, <3>2, <4>1, Zenon DEF PlaceOf, Named
    <3>3. CASE ~(n \in DOMAIN table /\ table[n].seq # NoPos)
      <4>1. table'[n].seq = p
        BY <1>6, <2>2, <3>3, Zenon
      <4>2. \A q \in 1 .. folded : Named(q) => said[q].id # n
        <5>1. ASSUME n \in DOMAIN table PROVE table[n].seq = NoPos /\ PlaceOf(n)
          BY <1>0, <3>3, <5>1, Zenon DEF PlaceInv
        <5>2. CASE n \in DOMAIN table
          BY <5>1, <5>2, Zenon DEF PlaceOf
        <5>3. CASE n \notin DOMAIN table
          BY <5>3, Zenon DEF RequeueInv, RowInTime
        <5>. QED
          BY <5>2, <5>3, Zenon
      <4>. QED
        BY <1>1, <1>3, <2>2, <3>1, <4>1, <4>2, Zenon DEF PlaceOf, Named
    <3>. QED
      BY <3>2, <3>3, Zenon
  <2>. QED
    BY <2>1, <2>2, Zenon DEF PlaceInv
<1>. QED
  BY <1>9, <1>10, <1>11, <1>12, <1>13, <1>14, Zenon DEF RequeueInv

\* Every step of the requeue keeps its invariant.
LEMMA RequeueStep == ASSUME RequeueInv, [RequeueNext]_requeueVars PROVE RequeueInv'
<1>0. RequeueShape
  BY Zenon DEF RequeueInv
<1>1. ASSUME UNCHANGED <<said, folded, table, fqTriggers, everSent, minted, asking>>
      PROVE  RequeueInv'
  <2>1. RequeueShape' /\ ClaimInv'
    BY <1>1 DEF RequeueInv, RequeueShape, ClaimInv, Claiming, Original
  <2>2. OneRowPerLetter' /\ RequeueOnRecord' /\ SentNamed'
    BY <1>1, Zenon DEF RequeueInv, OneRowPerLetter, RequeueOnRecord, SentNamed
  <2>3. PlaceInv' /\ RowInTime'
    BY <1>1, Zenon DEF RequeueInv, PlaceInv, PlaceOf, RowInTime, Named
  <2>. QED
    BY <2>1, <2>2, <2>3, Zenon DEF RequeueInv
<1>2. ASSUME NEW c \in Askers PROVE DOMAIN asking = Askers /\ AskFields \subseteq DOMAIN asking[c]
  BY <1>0, Zenon DEF RequeueShape
<1>3. ASSUME NEW c \in Askers, AskRequeue(c) PROVE RequeueInv'
  <2>. DEFINE a == IF TipOfSubject = NoPos
                     THEN [asking[c] EXCEPT !.at = "answered", !.answer = "not_found"]
                     ELSE [asking[c] EXCEPT !.at = "scan", !.tip = TipOfSubject]
  <2>1. /\ asking' = [asking EXCEPT ![c] = a] /\ asking[c].at = "idle"
        /\ UNCHANGED <<said, folded, table, fqTriggers, everSent, minted>>
    BY Zenon, <1>3 DEF AskRequeue
  <2>2. /\ AskFields \subseteq DOMAIN a /\ a.at \in {"answered", "scan"}
        /\ a.chosen = asking[c].chosen
    BY Zenon, <1>2 DEF AskFields
  <2>3. a.chosen \in {NoPos} \cup DOMAIN said
    BY <1>0, <2>1, <2>2, Zenon DEF RequeueShape
  <2>. HIDE DEF a
  <2>. QED
    BY Zenon, <2>1, <2>2, <2>3, AskKeeps
<1>4. ASSUME NEW c \in Askers, ScanLetters(c) PROVE RequeueInv'
  <2>1. /\ UNCHANGED <<said, folded, table, fqTriggers, everSent, minted>>
        /\ asking[c].chosen \in {NoPos} \cup DOMAIN said
    BY <1>0, <1>4, Zenon DEF ScanLetters, RequeueShape
  <2>2. PICK p \in Ahead(c) :
          LET chosen == IF said[p].kind = "dead" THEN p ELSE asking[c].chosen
              b == [asking[c] EXCEPT !.pos = p, !.chosen = chosen]
          IN  asking' = [asking EXCEPT ![c] =
                IF p < asking[c].tip THEN b
                ELSE IF chosen = NoPos THEN [b EXCEPT !.at = "answered", !.answer = "not_found"]
                ELSE IF said[chosen].id = Unnamed
                  THEN [b EXCEPT !.at = "answered", !.answer = "unlocatable"]
                ELSE [b EXCEPT !.at = "chosen"]]
    BY <1>4, Zenon DEF ScanLetters
  <2>. DEFINE chosen == IF said[p].kind = "dead" THEN p ELSE asking[c].chosen
              b == [asking[c] EXCEPT !.pos = p, !.chosen = chosen]
              a == IF p < asking[c].tip THEN b
                   ELSE IF chosen = NoPos THEN [b EXCEPT !.at = "answered", !.answer = "not_found"]
                   ELSE IF said[chosen].id = Unnamed
                     THEN [b EXCEPT !.at = "answered", !.answer = "unlocatable"]
                   ELSE [b EXCEPT !.at = "chosen"]
  <2>3. asking' = [asking EXCEPT ![c] = a] /\ asking[c].at = "scan"
    BY <1>4, <2>2, Zenon DEF ScanLetters
  <2>4. chosen \in {NoPos} \cup DOMAIN said
    BY <2>1, Zenon DEF Ahead, Matching
  <2>. HIDE DEF chosen
  <2>5. AskFields \subseteq DOMAIN b /\ b.at = "scan" /\ b.chosen = chosen
    BY Zenon, <1>2, <2>3 DEF AskFields
  <2>. HIDE DEF b
  <2>6. /\ AskFields \subseteq DOMAIN a /\ a.chosen = chosen
        /\ \/ a.at \in {"answered", "scan"}
           \/ a.at = "chosen" /\ chosen # NoPos /\ said[chosen].id # Unnamed
    BY Zenon, <2>5 DEF AskFields
  <2>. HIDE DEF a
  <2>. QED
    BY Zenon, <2>1, <2>3, <2>4, <2>6, AskKeeps
<1>5. ASSUME NEW c \in Askers, Refuse(c) PROVE RequeueInv'
  <2>. DEFINE a == IF Requeues(Original(c)) = {}
                     THEN [asking[c] EXCEPT !.at = "answered", !.answer = "internal"]
                     ELSE [asking[c] EXCEPT !.at = "answered", !.answer = "conflict",
                              !.id = CHOOSE n \in Requeues(Original(c)) : TRUE]
  <2>1. /\ asking' = [asking EXCEPT ![c] = a]
        /\ UNCHANGED <<said, folded, table, fqTriggers, everSent, minted>>
    BY Zenon, <1>5 DEF Refuse
  <2>2. AskFields \subseteq DOMAIN a /\ a.at = "answered"
    BY Zenon, <1>2 DEF AskFields
  <2>. HIDE DEF a
  <2>. QED
    BY Zenon, <2>1, <2>2, AskKeeps
<1>6. ASSUME NEW c \in Askers, PublishOk(c) \/ PublishTimesOut(c) \/ Die(c) PROVE RequeueInv'
  <2>1. PICK w : asking' = [asking EXCEPT ![c].at = "answered", ![c].answer = w]
    BY <1>6, Zenon DEF PublishOk, PublishTimesOut, TimedOut, Die
  <2>. DEFINE a == [asking[c] EXCEPT !.at = "answered", !.answer = w]
  <2>2. asking' = [asking EXCEPT ![c] = a] /\ AskFields \subseteq DOMAIN a /\ a.at = "answered"
    BY Zenon, <1>2, <2>1 DEF AskFields
  <2>. HIDE DEF a
  <2>3. /\ UNCHANGED <<said, folded, table, minted>>
        /\ (asking[c].at = "claimed" /\ Stored(c)) \/ UNCHANGED <<fqTriggers, everSent>>
    BY <1>6, Zenon DEF PublishOk, PublishTimesOut, Die
  <2>. QED
    BY Zenon, <2>2, <2>3, AskKeeps, StoreKeeps
<1>7. ASSUME NEW c \in Askers, RequeueFails(c) PROVE RequeueInv'
  <2>. DEFINE a == [asking[c] EXCEPT !.at = "releasing"]
  <2>1. /\ asking' = [asking EXCEPT ![c].at = "releasing"] /\ asking[c].at = "claimed"
        /\ UNCHANGED <<said, folded, table, fqTriggers, everSent, minted>>
    BY <1>7, Zenon DEF RequeueFails
  <2>2. /\ asking' = [asking EXCEPT ![c] = a] /\ AskFields \subseteq DOMAIN a
        /\ a.at = "releasing" /\ a.id = asking[c].id /\ a.chosen = asking[c].chosen
    BY Zenon, <1>2, <2>1 DEF AskFields
  <2>. HIDE DEF a
  <2>. QED
    BY Zenon, <2>1, <2>2, AskKeeps
<1>8. CASE UNCHANGED requeueVars \/ ExpireOldest
  <2>1. UNCHANGED <<said, folded, table, fqTriggers, everSent, minted, asking>>
    BY <1>8, Zenon DEF requeueVars, ExpireOldest
  <2>. QED
    BY Zenon, <1>1, <2>1
<1>. QED
  BY <1>3, <1>4, <1>5, <1>6, <1>7, <1>8, ReserveKeeps, ReleaseKeeps, PublishKeeps,
     ConcludeKeeps,
     FoldKeeps, Zenon DEF RequeueNext

\* The stores as an operator finds them.
LEMMA RequeueStart == ASSUME RequeueInit PROVE RequeueInv
<1>1. /\ said \in Seq(SaidMessages) /\ folded = 0 /\ table = <<>> /\ fqTriggers = {}
      /\ everSent = {} /\ asking = [c \in Askers |-> NotAsking]
      /\ \A p \in DOMAIN said : said[p].id <= minted
  BY LettersAssumption, Zenon DEF RequeueInit
<1>2. minted \in Nat
  BY <1>1, SaidId DEF RequeueInit, Unnamed
<1>3. DOMAIN table = {} /\ 1 .. folded = {} /\ Len(said) \in Nat
  BY <1>1
<1>4. NotAsking.at = "idle" /\ NotAsking.chosen = NoPos /\ AskFields \subseteq DOMAIN NotAsking
  BY Zenon DEF NotAsking, AskFields
<1>5. RequeueShape
  <2>1. folded \in Nat /\ folded <= Len(said)
    BY <1>1, <1>3
  <2>. QED
    BY <1>1, <1>2, <1>3, <1>4, <2>1, Zenon DEF RequeueShape
<1>6. Claiming = {}
  BY <1>1, <1>4, Zenon DEF Claiming
<1>. QED
  BY <1>1, <1>3, <1>5, <1>6, Zenon DEF RequeueInv, ClaimInv, OneRowPerLetter, RequeueOnRecord,
     SentNamed, PlaceInv, RowInTime

\* reserve_requeue, publish_failed, release_requeue: a dead letter is requeued
\* at most once, however many calls race, fail, time out or die.
THEOREM RequeuedAtMostOnce == RequeueSpec => []RequeuedOnce
<1>1. RequeueInit => RequeueInv
  BY Zenon, RequeueStart
<1>2. RequeueInv /\ [RequeueNext]_requeueVars => RequeueInv'
  BY Zenon, RequeueStep
<1>3. RequeueInv => RequeuedOnce
  BY DEF RequeueInv, OneRowPerLetter, RequeueOnRecord, SentNamed, RequeuedOnce
<1>. QED
  BY <1>1, <1>2, <1>3, PTL DEF RequeueSpec

\* insert_trigger, release_requeue: a requeue that went out has the row that
\* names the trigger it re-ran, and whatever the fold has passed has the
\* position of its first record.
THEOREM RequeuesAreRecorded == RequeueSpec => [](RequeueOnRecord /\ FoldedIsStreamed)
<1>1. RequeueInit => RequeueInv
  BY Zenon, RequeueStart
<1>2. RequeueInv /\ [RequeueNext]_requeueVars => RequeueInv'
  BY Zenon, RequeueStep
<1>3. ASSUME RequeueInv PROVE FoldedIsStreamed
  <2>. SUFFICES ASSUME NEW p \in 1 .. folded, Named(p)
                PROVE  /\ said[p].id \in DOMAIN table
                       /\ LET first == table[said[p].id].seq
                          IN  /\ first \in 1 .. p /\ Named(first) /\ said[first].id = said[p].id
                              /\ \A q \in 1 .. first - 1 : Named(q) => said[q].id # said[p].id
    BY Zenon DEF FoldedIsStreamed
  <2>. DEFINE n == said[p].id
              first == table[n].seq
  <2>1. n \in DOMAIN table /\ PlaceOf(n)
    BY <1>3, Zenon DEF RequeueInv, RowInTime, PlaceInv
  <2>2. /\ first \in 1 .. folded /\ Named(first) /\ said[first].id = n
        /\ \A q \in 1 .. first - 1 : Named(q) => said[q].id # n
    BY <2>1, Zenon DEF PlaceOf
  <2>3. first <= p
    <3>1. p \in 1 .. first - 1 => FALSE
      BY <2>2, Zenon
    <3>2. folded \in Nat
      BY <1>3, Zenon DEF RequeueInv, RequeueShape
    <3>. HIDE DEF first
    <3>. QED
      BY <2>2, <3>1, <3>2
  <2>4. first \in 1 .. p
    <3>1. folded \in Nat
      BY <1>3, Zenon DEF RequeueInv, RequeueShape
    <3>. HIDE DEF first
    <3>. QED
      BY <2>2, <2>3, <3>1
  <2>. QED
    BY <2>1, <2>2, <2>4, Zenon
<1>4. RequeueInv => RequeueOnRecord /\ FoldedIsStreamed
  BY <1>3, Zenon DEF RequeueInv
<1>. QED
  BY <1>1, <1>2, <1>4, PTL DEF RequeueSpec

================================================================================
