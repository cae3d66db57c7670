----------------------------- MODULE MergeVerdict ------------------------------
(***************************************************************************)
(* The GitHub adapter's advisory merge verdict: the pure verdict over the  *)
(* changed files, and the sweep that keeps one tier label, one rubric      *)
(* flag and one comment on every open fleet PR, with an in-memory cache    *)
(* of what it has scored.  Pushes, edits of the declarations, failed       *)
(* requests and restarts happen between any two of its requests.           *)
(***************************************************************************)
EXTENDS Integers, FiniteSets, FiniteSetsExt

CONSTANTS Heads,         \* <<set of files changed, ...>>: what each push makes of the PR
          Declarations,  \* <<[areas, tiers, default], ...>>: the base branch's versions
          Rubric,        \* a scorer is configured
          MaxSlips, MaxRedeploys     \* bounds: failed requests, restarts

Tiers == 0 .. 2       \* unsupervised, supervised, never

VARIABLES pushed,     \* the PR's head, an index of Heads
          base,       \* the base branch's head, an index of Declarations
          tierLabels, \* the tier labels the PR carries
          flag,       \* the rubric label
          comments,   \* the PR's verdict comments: bag as a function of ids
          sweep,      \* the sweep in progress: [at, head, decl, facts, tier, flagged]
          scored,     \* the cache: the key last scored, or NoKey
          slips, redeploys

mergeVars == <<pushed, base, tierLabels, flag, comments, sweep, scored, slips, redeploys>>

NoKey == [head |-> 0, decl |-> 0]
Rest  == [at |-> "idle", head |-> 0, decl |-> 0, facts |-> 0, tier |-> 0, flagged |-> FALSE]

MergeInit ==
    /\ pushed = 1 /\ base = 1
    /\ tierLabels = {} /\ flag = FALSE /\ comments = <<>>
    /\ sweep = [Rest EXCEPT !.at = "stopped"]
    /\ scored = NoKey
    /\ slips = 0 /\ redeploys = 0

--------------------------------------------------------------------------------
\* The verdict.

\* ParseAreas and ParsePolicy refuse a declaration in part unreadable as a whole.
Usable(d) ==
    /\ DOMAIN d.areas # {} /\ \A a \in DOMAIN d.areas : d.areas[a] # {}
    /\ DOMAIN d.tiers # {} /\ DOMAIN d.tiers \subseteq DOMAIN d.areas
    /\ d.default \in Tiers /\ \A a \in DOMAIN d.tiers : d.tiers[a] \in Tiers

\* A file takes the strictest tier of the mapped areas it lies in, or the default.
Mapped(d, f)   == {a \in DOMAIN d.tiers : f \in d.areas[a]}
FileTierLax(d, f) == IF Mapped(d, f) = {} THEN d.default ELSE Min({d.tiers[a] : a \in Mapped(d, f)})
FileTier(d, f) == IF Mapped(d, f) = {} THEN d.default ELSE Max({d.tiers[a] : a \in Mapped(d, f)})

\* A PR takes the strictest tier of its files.
Tier(d, files) == IF files = {} THEN d.default ELSE Max({FileTier(d, f) : f \in files})

TierNow == Tier(Declarations[base], Heads[pushed])

--------------------------------------------------------------------------------
\* The sweep.

Slip == slips < MaxSlips /\ slips' = slips + 1
GoTo(at) == sweep' = [sweep EXCEPT !.at = at]
Leave == sweep' = Rest
World == UNCHANGED <<pushed, base, redeploys>>

\* A request that fails ends this PR's turn; nothing is cached.
GiveUp ==
    /\ sweep.at \notin {"idle", "stopped", "rubric"}
    /\ Slip /\ Leave
    /\ World /\ UNCHANGED <<tierLabels, flag, comments, scored>>

ListPulls ==
    /\ sweep.at = "idle"
    /\ sweep' = [sweep EXCEPT !.at = "policy", !.head = pushed]
    /\ World /\ UNCHANGED <<tierLabels, flag, comments, scored, slips>>

\* The declarations at the base ref; the cache key is head and digest.
KeyHeadOnly == [head |-> sweep.head, decl |-> scored.decl]
Key == [head |-> sweep.head, decl |-> base]
LoadPolicy ==
    /\ sweep.at = "policy"
    /\ IF ~Usable(Declarations[base]) \/ scored = Key THEN Leave
       ELSE sweep' = [sweep EXCEPT !.at = "facts", !.decl = base]
    /\ World /\ UNCHANGED <<tierLabels, flag, comments, scored, slips>>

\* The facts are read after the listing, and may be those of a newer head.
PRFactsFor ==
    /\ sweep.at = "facts"
    /\ sweep' = [sweep EXCEPT !.at = "add", !.facts = pushed,
                              !.tier = Tier(Declarations[sweep.decl], Heads[pushed])]
    /\ World /\ UNCHANGED <<tierLabels, flag, comments, scored, slips>>

\* SetPRLabels: the new label first, then the others go, one request each.
AddTier ==
    /\ sweep.at = "add"
    /\ tierLabels' = tierLabels \cup {sweep.tier}
    /\ GoTo("clear")
    /\ World /\ UNCHANGED <<flag, comments, scored, slips>>

ClearTiers ==
    /\ sweep.at = "clear"
    /\ IF tierLabels = {sweep.tier} THEN GoTo("rubric") /\ UNCHANGED tierLabels
       ELSE \E t \in tierLabels \ {sweep.tier} : tierLabels' = tierLabels \ {t} /\ UNCHANGED sweep
    /\ World /\ UNCHANGED <<flag, comments, scored, slips>>

\* ScoreRubric never fails: without a scorer, a rubric or an answer nothing is flagged.
\* A rubric label that cannot be written is logged and forgotten.
ScoreRubric ==
    /\ sweep.at = "rubric"
    /\ \E flagged \in IF Rubric THEN BOOLEAN ELSE {FALSE} :
           /\ sweep' = [sweep EXCEPT !.at = "comment", !.flagged = flagged]
           /\ \/ flag' = (IF Rubric THEN flagged ELSE flag) /\ UNCHANGED slips
              \/ Rubric /\ Slip /\ UNCHANGED flag
    /\ World /\ UNCHANGED <<tierLabels, comments, scored>>

\* upsertComment: found by its marker and edited in place, or created.
Body == [tier |-> sweep.tier, head |-> sweep.facts, decl |-> sweep.decl, flagged |-> sweep.flagged]
UpsertAlwaysNew == [i \in 1 .. Cardinality(DOMAIN comments) + 1 |->
                        IF i \in DOMAIN comments THEN comments[i] ELSE Body]
UpsertComment == IF comments = <<>> THEN <<Body>> ELSE [comments EXCEPT ![1] = Body]

WriteComment ==
    /\ sweep.at = "comment"
    /\ comments' = UpsertComment
    /\ GoTo("cache")
    /\ World /\ UNCHANGED <<tierLabels, flag, scored, slips>>

\* The answer to the write is lost: the comment is there, the PR is not cached.
CommentUnheard ==
    /\ sweep.at = "comment" /\ Slip
    /\ comments' = UpsertComment
    /\ Leave
    /\ World /\ UNCHANGED <<tierLabels, flag, scored>>

KeyOfFacts == [head |-> pushed, decl |-> sweep.decl]
KeyOfList  == [head |-> sweep.head, decl |-> sweep.decl]
Remember ==
    /\ sweep.at = "cache"
    /\ scored' = KeyOfList
    /\ Leave
    /\ World /\ UNCHANGED <<tierLabels, flag, comments, slips>>

SweepTurn == \/ ListPulls \/ LoadPolicy \/ PRFactsFor \/ AddTier \/ ClearTiers \/ ScoreRubric
             \/ WriteComment \/ CommentUnheard \/ Remember \/ GiveUp

--------------------------------------------------------------------------------
\* Everyone else.

Push ==
    /\ pushed < Cardinality(DOMAIN Heads)
    /\ pushed' = pushed + 1
    /\ UNCHANGED <<base, tierLabels, flag, comments, sweep, scored, slips, redeploys>>

EditPolicy ==
    /\ base < Cardinality(DOMAIN Declarations)
    /\ base' = base + 1
    /\ UNCHANGED <<pushed, tierLabels, flag, comments, sweep, scored, slips, redeploys>>

\* The watcher starts; it is redeployed at any point and forgets what it scored.
StartSweeper ==
    /\ sweep.at = "stopped"
    /\ Leave
    /\ World /\ UNCHANGED <<tierLabels, flag, comments, scored, slips>>

Redeploy ==
    /\ sweep.at # "stopped" /\ redeploys < MaxRedeploys
    /\ redeploys' = redeploys + 1
    /\ sweep' = [Rest EXCEPT !.at = "stopped"]
    /\ scored' = NoKey
    /\ UNCHANGED <<pushed, base, tierLabels, flag, comments, slips>>

MergeNext == SweepTurn \/ Push \/ EditPolicy \/ StartSweeper \/ Redeploy

MergeSpec == MergeInit /\ [][MergeNext]_mergeVars

\* Every poll ends with a sweep, and a stopped container is started again.
MergeFairness == WF_mergeVars(SweepTurn) /\ WF_mergeVars(StartSweeper)

--------------------------------------------------------------------------------
\* The cache vouches for the page: while a PR would be skipped because its key was scored,
\* it carries exactly the tier label of its files under the base branch's policy, and
\* its comment says so; although the facts are read after the listing the key is made
\* from, labels are written one by one and any request may fail.
ScoredIsShown ==
    scored = [head |-> pushed, decl |-> base] =>
        /\ tierLabels = {TierNow}
        /\ DOMAIN comments # {} /\ comments[1].tier = TierNow

\* However often a PR is swept, and whatever was lost or restarted between writing the
\* comment and caching the key, it carries one verdict comment.
OneComment == Cardinality(DOMAIN comments) <= 1

\* A push that only adds files to a PR that has some never makes its verdict laxer.
NeverDiluted ==
    \A d \in {Declarations[base]}, h \in DOMAIN Heads :
        Usable(d) => \A F \in SUBSET Heads[h] : \A f \in Heads[h] :
            F # {} => /\ Tier(d, F) <= Tier(d, F \cup {f})
                      /\ \A a \in Mapped(d, f) : d.tiers[a] <= Tier(d, F \cup {f})

\* The verdict catches up: whatever is pushed, edited, lost or restarted, an open PR ends
\* up with exactly the label of its last head under the last policy, unless that policy
\* is one the sweep refuses.
VerdictCatchesUp ==
    MergeFairness =>
        (sweep.at # "stopped" ~> ~Usable(Declarations[base]) \/ tierLabels = {TierNow})
================================================================================
