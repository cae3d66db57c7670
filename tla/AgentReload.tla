------------------------------ MODULE AgentReload ------------------------------
(***************************************************************************)
(* The agent definitions: what a file must say to become an agent (fq-agent *)
(* definition.rs, lib.rs), how a directory of them becomes a registry       *)
(* (registry.rs), and how `control.reload` swaps the registry the           *)
(* dispatcher reads (fq-daemon control_commands.rs).  A reload reads one    *)
(* file after another while editors save files in place and other reloads   *)
(* run beside it.                                                           *)
(*                                                                          *)
(* A definition is a record of what the parser looks at: [front, name,      *)
(* model, prompt, budget, cap, iterations, mcp], where mcp is a sequence of *)
(* [server, targets, sampling, checks].                                     *)
(***************************************************************************)
EXTENDS Naturals, FiniteSets, Sequences

CONSTANTS AgentFiles,     \* paths under the agents directory
          Definitions,    \* what a file may hold
          FirstFiles,     \* what the directory holds when the daemon starts
          DefaultModel,   \* [agents] default_model
          MaxTurnsAllowed,  \* MAX_SUPPORTED_ITERATIONS
          ReloadCalls,        \* calls of control.reload
          MaxSaves        \* bound: edits of the directory

NoAgentFile == [front |-> FALSE, name |-> "none", model |-> "none", prompt |-> FALSE, budget |-> 0,
           cap |-> 1, iterations |-> 1, mcp |-> << >>]
TornFile == [NoAgentFile EXCEPT !.name = "torn"]
NoAgents == [id \in {} |-> NoAgentFile]
NoLoad   == [at |-> "idle", left |-> {}, got |-> NoAgents, errors |-> 0, steady |-> {}, since |-> 0]

ASSUME FilesAssumption == \A disk \in FirstFiles : DOMAIN disk = AgentFiles

VARIABLES arDisk,     \* path -> its definition, NoAgentFile or TornFile
          arDir,      \* whether the directory is there
          arSaves,    \* edits so far
          arLoad,     \* call -> the load it is making
          arLive,     \* the registry: id -> agent
          arSteady,   \* history: ids whose files did not change during the load that is live
          arSince,    \* history: arSaves when the load that is live began
          arPromised, \* history: the latest arSaves at the start of a load that was answered
          arOverlap   \* history: two loads ran at the same time

agentVars == <<arDisk, arDir, arSaves, arLoad, arLive, arSteady, arSince, arPromised, arOverlap>>
historyVars == <<arSteady, arSince, arPromised>>

-----------------------------------------------------------------------------
\* AgentBuilder::build.
ModelOf(d) == IF d.model # "none" THEN d.model ELSE DefaultModel
build(d) ==
    /\ d.name # "none"
    /\ ModelOf(d) \notin {"none", ""}
    /\ d.prompt /\ d.budget >= 0 /\ d.cap # 0

\* Each mcp entry sets one of command and url, and each server appears once.
ServersDeclared(d) ==
    /\ \A i \in DOMAIN d.mcp : d.mcp[i].targets = 1
    /\ \A i, j \in DOMAIN d.mcp : d.mcp[i].server = d.mcp[j].server => i = j

validate_runtime_limits(d) == d.iterations <= MaxTurnsAllowed

Loadable(d) == d.front /\ ServersDeclared(d) /\ build(d) /\ validate_runtime_limits(d)

\* The grants, and one validation for the agent out of those its servers configure.
Granting(d) == {d.mcp[i].server : i \in {k \in DOMAIN d.mcp : d.mcp[k].sampling # "off"}}
Configured(d) == {i \in DOMAIN d.mcp : d.mcp[i].sampling = "configured"}
merge_last(d) == IF Configured(d) = {} THEN {}
                 ELSE d.mcp[CHOOSE i \in Configured(d) : \A j \in Configured(d) : j <= i].checks
merge_validation(d) == UNION {d.mcp[i].checks : i \in Configured(d)}

AgentOf(d) == [def |-> d, model |-> ModelOf(d), sampling |-> Granting(d),
               validation |-> merge_validation(d)]

-----------------------------------------------------------------------------
IdsAt(f)   == IF Loadable(arDisk[f]) THEN {arDisk[f].name} ELSE {}
OneFile(id)  == Cardinality({f \in AgentFiles : id \in IdsAt(f)}) = 1
WholeNow   == {id \in UNION {IdsAt(f) : f \in AgentFiles} : OneFile(id)}

\* What one load of the directory, undisturbed, makes of it.
RegistryNow == [id \in WholeNow |-> AgentOf(CHOOSE d \in {arDisk[f] : f \in AgentFiles} :
                                             Loadable(d) /\ d.name = id)]

AgentsInit ==
    /\ arDisk \in FirstFiles /\ arDir = TRUE
    /\ arSaves = 0 /\ arOverlap = FALSE
    /\ arLoad = [r \in ReloadCalls |-> NoLoad]
    /\ arLive = RegistryNow /\ arSteady = WholeNow
    /\ arSince = 0 /\ arPromised = 0

Busy == {r \in ReloadCalls : arLoad[r].at = "walking"}

\* load_from_directory: a missing directory is an error, and the registry stays.
StartReloadEmptying(r) ==
    /\ arLoad[r].at = "idle"
    /\ IF ~arDir THEN /\ arLoad' = [arLoad EXCEPT ![r].at = "refused"] /\ arLive' = NoAgents
                      /\ UNCHANGED arOverlap
       ELSE /\ arLoad' = [arLoad EXCEPT ![r] = [NoLoad EXCEPT !.at = "walking",
                   !.left = AgentFiles, !.steady = WholeNow, !.since = arSaves]]
            /\ arOverlap' = (arOverlap \/ Busy # {}) /\ UNCHANGED arLive
    /\ UNCHANGED <<arDisk, arDir, arSaves, historyVars>>
StartReload(r) ==
    /\ arLoad[r].at = "idle"
    /\ IF ~arDir THEN /\ arLoad' = [arLoad EXCEPT ![r].at = "refused"]
                      /\ UNCHANGED arOverlap
       ELSE /\ arLoad' = [arLoad EXCEPT ![r] = [NoLoad EXCEPT !.at = "walking",
                   !.left = AgentFiles, !.steady = WholeNow, !.since = arSaves]]
            /\ arOverlap' = (arOverlap \/ Busy # {})
    /\ UNCHANGED <<arDisk, arDir, arSaves, arLive, historyVars>>

\* load_file: an error is noted and the walk goes on; the first file of an id wins.
load_file(l, f) ==
    LET d == arDisk[f] IN
    IF d = NoAgentFile \/ ~arDir THEN [l EXCEPT !.left = @ \ {f}]
    ELSE IF ~Loadable(d) \/ d.name \in DOMAIN l.got
           THEN [l EXCEPT !.left = @ \ {f}, !.errors = 1]
    ELSE [l EXCEPT !.left = @ \ {f},
                   !.got = [id \in DOMAIN @ \cup {d.name} |->
                                IF id = d.name THEN AgentOf(d) ELSE @[id]]]

WalkOn(r, f) ==
    /\ arLoad[r].at = "walking" /\ f \in arLoad[r].left
    /\ arLoad' = [arLoad EXCEPT ![r] = load_file(@, f)]
    /\ UNCHANGED <<arDisk, arDir, arSaves, arLive, historyVars, arOverlap>>

\* reload_agents: whatever loaded is swapped in and the caller is answered.
InstallsIfClean(l) == l.errors = 0
Installs(l)        == TRUE

SwapRegistry(r) ==
    /\ arLoad[r].at = "walking" /\ arLoad[r].left = {}
    /\ arLoad' = [arLoad EXCEPT ![r] = [NoLoad EXCEPT !.at = "answered"]]
    /\ arPromised' = IF arLoad[r].since > arPromised THEN arLoad[r].since ELSE arPromised
    /\ IF Installs(arLoad[r])
         THEN arLive' = arLoad[r].got /\ arSteady' = arLoad[r].steady /\ arSince' = arLoad[r].since
         ELSE UNCHANGED <<arLive, arSteady, arSince>>
    /\ UNCHANGED <<arDisk, arDir, arSaves, arOverlap>>

-----------------------------------------------------------------------------
\* An edit unsettles the ids of the file before and after it.
Unsettle(ids) == arLoad' = [r \in ReloadCalls |-> [arLoad[r] EXCEPT !.steady = @ \ ids]]

SaveAgentFile(f, d) ==
    /\ arSaves < MaxSaves /\ arDir /\ arDisk[f] # d
    /\ arSaves' = arSaves + 1
    /\ arDisk' = [arDisk EXCEPT ![f] = d]
    /\ Unsettle({arDisk[f].name, d.name})
    /\ UNCHANGED <<arDir, arLive, historyVars, arOverlap>>

\* The directory is moved away, or back (a checkout being replaced).
MoveDirectory ==
    /\ arSaves < MaxSaves
    /\ arSaves' = arSaves + 1
    /\ arDir' = ~arDir
    /\ Unsettle(UNION {IdsAt(f) : f \in AgentFiles})
    /\ UNCHANGED <<arDisk, arLive, historyVars, arOverlap>>

AgentsNext ==
    \/ \E r \in ReloadCalls : StartReload(r) \/ SwapRegistry(r) \/ \E f \in AgentFiles : WalkOn(r, f)
    \/ \E f \in AgentFiles, d \in Definitions \cup {NoAgentFile, TornFile} : SaveAgentFile(f, d)
    \/ MoveDirectory

AgentsSpec == AgentsInit /\ [][AgentsNext]_agentVars

-----------------------------------------------------------------------------
(* A reload never leaves an agent out that its own file describes: an id    *)
(* whose one file was whole and untouched while the live registry was being *)
(* read is in it, whatever the other files held, so its triggers are not    *)
(* acknowledged as being for an unknown agent.                              *)
SteadyIsServed == arSteady \subseteq DOMAIN arLive

(* control.reload "answers when the swap has happened": what was on disk    *)
(* when an answered reload began is live, rejected files or not.  The       *)
(* exception is a reload that overlapped another: the one that began first  *)
(* may swap last.                                                           *)
AnsweredIsLive == arSince < arPromised => arOverlap

(* merge_validation: an agent's one validation has every check any of its   *)
(* servers asked for, so a second server never loosens the first one's.     *)
ValidationKept ==
    \A id \in DOMAIN arLive : \A i \in Configured(arLive[id].def) :
        arLive[id].def.mcp[i].checks \subseteq arLive[id].validation
=============================================================================
