------------------------------- MODULE MCPlatform -------------------------------
(***************************************************************************)
(* The components that share no state with one another, each on a small    *)
(* instance of its own.  A behaviour is a behaviour of the part chosen at  *)
(* the start; the others stand still.                                      *)
(***************************************************************************)
EXTENDS GrantLog, Projection, CronReload, CronFire, GithubWatcher, MergeVerdict, Harness,
        Admission, Throttle, Requeue, LogReads, DeadLetters, ExecCall, DaemonLife,
        Workspaces, Pairing, EdgeCalls, AgentReload

CONSTANTS Parts,  \* the parts a run explores
          a1, a2  \* agents

VARIABLE part

platformVars ==
    <<part, grantVars, projVars, reloadVars, fireVars, hubVars, mergeVars, harnessVars,
      admVars, throttleVars, requeueVars, readVars, dlVars, execVars, lifeVars,
      workspaceVars, pairingVars, callVars, agentVars>>

\* A part that stands still starts in one state only.
PlatformInit ==
    /\ part \in Parts
    /\ GrantInit /\ (part \notin {"gate", "feed"} => log = <<>>)
    /\ ProjInit /\ (part # "projection" => stream = CHOOSE s \in Streams : TRUE)
    /\ ReloadInit /\ (part # "reload" => cfgFile = CHOOSE f \in Files : f.whole)
    /\ FireInit /\ (part # "fire" => kv = [j \in FireJobs |-> NeverFired])
    /\ HubInit /\ (part # "hub" => crew = CHOOSE c \in Crews : TRUE)
    /\ MergeInit
    /\ HarnessInit
    /\ AdmissionInit /\ (part # "admission" => scene = CHOOSE s \in Scenes : TRUE)
    /\ ThrottleInit
    /\ RequeueInit /\ (part # "requeue" => said = CHOOSE l \in Letters : TRUE)
    /\ ReadsInit
    /\ DeadLettersInit
    /\ ExecInit /\ (part # "exec" => (xDeaf = {} /\ xCfg = CHOOSE c \in ToolSettings : validate(c)))
    /\ LifeInit
    /\ WorkspacesInit /\ (part # "workspace" => wsProvider = "none")
    /\ PairingInit /\ (part # "pairing" => pgLegacy = 0)
    /\ CallsInit /\ (part # "calls" => ecRoster = CHOOSE r \in Rosters : TRUE)
    /\ AgentsInit /\ (part # "agents" => arDisk = CHOOSE d \in FirstFiles : TRUE)

PlatformNext ==
    /\ UNCHANGED part
    /\ CASE part = "gate" -> LogNext \/ GateNext
         [] part = "feed" -> LogNext \/ FeedNext
         [] OTHER         -> UNCHANGED grantVars
    /\ IF part = "projection" THEN ProjNext        ELSE UNCHANGED projVars
    /\ IF part = "reload"     THEN ReloadNext      ELSE UNCHANGED reloadVars
    /\ IF part = "fire"       THEN FireNext        ELSE UNCHANGED fireVars
    /\ IF part = "hub"        THEN HubNext         ELSE UNCHANGED hubVars
    /\ IF part = "merge"      THEN MergeNext       ELSE UNCHANGED mergeVars
    /\ IF part = "harness"    THEN HarnessNext     ELSE UNCHANGED harnessVars
    /\ IF part = "admission"  THEN AdmissionNext   ELSE UNCHANGED admVars
    /\ IF part = "throttle"   THEN ThrottleNext    ELSE UNCHANGED throttleVars
    /\ IF part = "requeue"    THEN RequeueNext     ELSE UNCHANGED requeueVars
    /\ IF part = "reads"      THEN ReadsNext       ELSE UNCHANGED readVars
    /\ IF part = "letters"    THEN DeadLettersNext ELSE UNCHANGED dlVars
    /\ IF part = "exec"       THEN ExecNext        ELSE UNCHANGED execVars
    /\ IF part = "life"       THEN LifeNext        ELSE UNCHANGED lifeVars
    /\ IF part = "workspace"  THEN WorkspacesNext  ELSE UNCHANGED workspaceVars
    /\ IF part = "pairing"    THEN PairingNext     ELSE UNCHANGED pairingVars
    /\ IF part = "calls"      THEN CallsNext       ELSE UNCHANGED callVars
    /\ IF part = "agents"     THEN AgentsNext      ELSE UNCHANGED agentVars

PlatformSpec == PlatformInit /\ [][PlatformNext]_platformVars

--------------------------------------------------------------------------------
\* Grants: an operator's grant, two that two agents give one another, and a
\* narrower one; a token cut down to one name.
Paths == {<<"r">>, <<"r", "p">>, <<"agents", a1>>}

GrantOffers ==
    LET G(x, y, vs, s) == [grantor |-> x, grantee |-> y, verbs |-> vs, scope |-> s]
        RG == {"read", "grant"}
    IN  {G(Operator, a1, RG, NamespaceScope(<<"r">>)),
         G(a1, a2, RG, NamespaceScope(<<"r">>)),
         G(a2, a1, RG, NamespaceScope(<<"r">>)),
         G(a1, a2, {"read", "list"}, NameScope(<<"r">>))}

TokenCuts == {[scope |-> NameScope(<<"r">>), verbs |-> Verbs]}

\* Projection: histories with a version this build cannot read and a poisoned event.
Histories == {<<"old", "plain", "cost">>, <<"plain", "poison">>, <<"old", "poison", "plain">>}

\* fq-cron: two jobs, either of them alone, and a file that does not load.
CronFile(whole, jobs) == [whole |-> whole, jobs |-> jobs]
CronFiles == {CronFile(TRUE, js) : js \in {{"a", "b"}, {"a"}, {"b"}}} \cup {CronFile(FALSE, {})}

\* A job that catches up once and is durable, and one that skips and is not.
CronSchedule == <<[every |-> 1, once |-> TRUE, durable |-> TRUE],
                  [every |-> 2, once |-> FALSE, durable |-> FALSE]>>

\* github-watcher: an API error, a restart, a hand that relabels, two watchers,
\* two issues, and a retry.
Crew(ws, is, triggers, errs, kills, hs, ends) ==
    [watchers |-> ws, issues |-> is, triggers |-> triggers, errors |-> errs,
     restarts |-> kills, hands |-> hs, ends |-> ends, ages |-> TRUE]

HubCrews == {Crew({"w1"}, {1}, 1, 1, 0, 0, {"completed"}),
             Crew({"w1"}, {1}, 1, 0, 1, 0, {"completed", "failed"}),
             Crew({"w1"}, {1}, 1, 0, 0, 1, {"ambiguous", "fatal"}),
             Crew({"w1", "w2"}, {1}, 1, 0, 0, 0, {}),
             Crew({"w1"}, {1, 2}, 1, 0, 0, 0, {}),
             Crew({"w1"}, {1}, 2, 0, 0, 0, {"failed"})}

\* One watcher whose runs fail, and no claim grows old.
RetryCrew == {[Crew({"w1"}, {1}, 3, 0, 0, 0, {"failed"}) EXCEPT !.ages = FALSE]}

\* Merge verdicts: heads that touch docs, code and the safety area; the second
\* declaration maps an area nobody declared.
Areas == [docs |-> {"d", "s"}, code |-> {"c"}, safe |-> {"s"}]
PullHeads == <<{"d"}, {"d", "c"}, {"s"}>>
Policies == <<[areas |-> Areas, tiers |-> [docs |-> 0, safe |-> 2], default |-> 1],
              [areas |-> Areas, tiers |-> [docs |-> 0, lost |-> 1], default |-> 1],
              [areas |-> Areas, tiers |-> [docs |-> 1, code |-> 0, safe |-> 0], default |-> 2]>>

\* The reducer: text, one to three calls, a declared outcome, and text cut off
\* at max_tokens.
HarnessTurn(n, outcome, cut) == [calls |-> n, outcome |-> outcome, cut |-> cut]
WholeTurns == {HarnessTurn(n, FALSE, FALSE) : n \in 0 .. 3}
              \cup {HarnessTurn(1, TRUE, FALSE), HarnessTurn(0, FALSE, TRUE)}

\* And a tool turn that is cut off.
CutTurns == WholeTurns \cup {HarnessTurn(1, FALSE, TRUE)}

\* Admission: triggers that race for one slot, with a pause and a deferral; under
\* a reload; beside what recovery and an operator resumed.
AdmWork(agent, kind) == [agent |-> agent, kind |-> kind]
AdmTrigger(agent) == AdmWork(agent, "trigger")
AdmScene(ws, caps, r, p, d) ==
    [works |-> ws, caps |-> caps, reloads |-> r, pauses |-> p, defers |-> d]
Days ==
        {AdmScene(<<AdmTrigger("x"), AdmTrigger("x"), AdmTrigger("y")>>,
                  [x |-> 1, y |-> 0], 0, 0, 1),
         AdmScene(<<AdmTrigger("x"), AdmTrigger("y")>>, [x |-> 1, y |-> 0], 0, 1, 0),
         AdmScene(<<AdmTrigger("x"), AdmTrigger("x"), AdmTrigger("x")>>, [x |-> 1], 1, 0, 0),
         AdmScene(<<AdmTrigger("x"), AdmTrigger("x"), AdmWork("x", "recovered"),
                    AdmWork("x", "operator")>>, [x |-> 1], 0, 0, 0),
         AdmScene(<<AdmTrigger("x"), AdmWork("x", "recovered"), AdmWork("x", "recovered")>>,
                  [x |-> 1], 1, 0, 1)}

\* The agent's failures a requeue may find.
FoundLetters == {<<Said("dead", 1), Said("fail", 0), Said("triggered", 1)>>,
                 <<Said("old", 0), Said("dead", 0)>>,
                 <<Said("dead", 1), Said("dead", 1)>>}

\* Tool settings: a slow drain, a slow kill, a teardown as long as the backstop and a
\* ceiling below exec's own; validate refuses the last two.
ToolSetting(kill, drain, tools) ==
    [default |-> 1, max |-> 2, tools_max |-> tools, kill |-> kill, drain |-> drain]
SomeToolSettings ==
    {ToolSetting(1, 1, 2), ToolSetting(2, 0, 3), ToolSetting(1, 2, 2), ToolSetting(1, 1, 1)}

\* Pairing: two daemons' addresses, one per client.
Addresses == [c1 |-> "here", c2 |-> "there"]

\* EdgeCalls: the kinds of declaration operator_registry makes, two rosters
\* that fit together and two that collide (on a domain, on a name).
Decl(k, d, v, n) == [kind |-> k, domain |-> d, verb |-> v, needs |-> n]
EventAtom   == Decl("atom", "event", "-", "-")
TriggerView == Decl("view", "trigger", "-", "-")
FireCommand == Decl("command", "trigger", "fire", "write")
SomeRosters ==
    { <<EventAtom, FireCommand>>,
      <<FireCommand, Decl("command", "daemon", "drain", "control"), Decl("report", "cost", "daily", "-")>>,
      <<TriggerView, Decl("synthetic", "trigger", "-", "-")>>,
      <<FireCommand, Decl("report", "trigger", "fire", "-")>> }
ClientGrants == {<<"read", "*">>, <<"write", "trigger">>}
ClientNarrowings == {{<<"read", "*">>, <<"control", "*">>}, {<<"*", "trigger">>}}

\* AgentReload: whole definitions of two agents (one with two MCP servers), one
\* without a model of its own, and files the loader must refuse.
Mcp(s, t, g, c) == [server |-> s, targets |-> t, sampling |-> g, checks |-> c]
Plain(n) == [front |-> TRUE, name |-> n, model |-> "m", prompt |-> TRUE, budget |-> 1, cap |-> 1,
             iterations |-> 1, mcp |-> << >>]
TwoServers == <<Mcp("s1", 1, "configured", {"redact"}), Mcp("s2", 1, "configured", {"schema"}),
                Mcp("s3", 1, "on", {})>>
SomeDefinitions == {Plain("a")}
SomeDirectories ==
    { [f1 |-> [Plain("a") EXCEPT !.mcp = TwoServers, !.model = "none"], f2 |-> Plain("b")],
      [f1 |-> [Plain("a") EXCEPT !.cap = 0],
       f2 |-> [Plain("b") EXCEPT !.mcp = <<Mcp("s1", 1, "on", {}), Mcp("s1", 1, "off", {})>>]] }
================================================================================
