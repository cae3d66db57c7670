-------------------------------- MODULE Requeue --------------------------------
(***************************************************************************)
(* The Trigger and DeadLetter commands: trigger.publish, and               *)
(* dead_letter.requeue, which selects a dead letter of an agent off the    *)
(* event log, claims it with the requeued trigger's own row in the         *)
(* projection, publishes, and gives the claim back when the publish        *)
(* failed.  Around them: the broker, the dispatcher that runs or exhausts  *)
(* a trigger, and the projection that folds the log into the triggers      *)
(* table.                                                                  *)
(*                                                                         *)
(* One agent.  A message of the log is on the agent's `failed` subject     *)
(* ("dead", "fail" or "old": a dead letter, another failure, a version     *)
(* this build does not read) or is a "triggered" event.  An error of the   *)
(* publish that is not the time-out means that nothing was stored.         *)
(***************************************************************************)
EXTENDS Naturals, Sequences

CONSTANTS Letters,    \* the logs the calls may find: sequences of Said
          Askers,     \* concurrent calls of dead_letter.requeue
          MaxMinted,  \* bound: trigger ids minted
          MaxSaid,    \* bound: length of the log
          MaxExpired  \* bound: messages that retention takes

Unnamed == 0          \* no trigger_id annotation
NoPos   == 0
Said(kind, id) == [kind |-> kind, id |-> id]
SaidMessages == [kind : {"dead", "fail", "old", "triggered"}, id : Nat]

ASSUME LettersAssumption == Letters \subseteq Seq(SaidMessages)

VARIABLES said,     \* fq-events
          expired,  \* the messages retention has taken are 1 .. expired
          folded,   \* the projection's position
          table,    \* triggers: id -> [from, seq]
          fqTriggers,   \* fq-triggers: what the dispatcher has yet to conclude
          everSent,     \* history: the requeues the trigger stream ever stored, [id, from]
          minted,   \* the last id minted
          asking     \* each call: [at, tip, pos, chosen, id, answer]

requeueVars == <<said, expired, folded, table, fqTriggers, everSent, minted, asking>>

NotAsking == [at |-> "idle", tip |-> NoPos, pos |-> NoPos, chosen |-> NoPos, id |-> Unnamed,
         answer |-> "none"]

NewestAt(ps)   == IF ps = {} THEN NoPos ELSE CHOOSE p \in ps : \A q \in ps : q <= p

RequeueInit ==
    /\ said \in Letters
    /\ expired = 0
    /\ folded = 0
    /\ table = << >>
    /\ fqTriggers = {}
    /\ everSent = {}
    /\ minted \in {Unnamed} \cup {said[p].id : p \in DOMAIN said}
    /\ \A p \in DOMAIN said : said[p].id <= minted
    /\ asking = [c \in Askers |-> NotAsking]

OnSubject(p) == p > expired /\ said[p].kind # "triggered"
Matching     == {p \in DOMAIN said : OnSubject(p)}

--------------------------------------------------------------------------------
\* trigger.publish: a new identity on the trigger stream, and no record of it
\* until the dispatcher has spoken.
PublishTrigger ==
    /\ minted < MaxMinted
    /\ minted' = minted + 1
    /\ fqTriggers' = fqTriggers \cup {minted + 1}
    /\ UNCHANGED <<said, expired, folded, table, everSent, asking>>

\* select_dead_letter: the tip of the subject, observed at entry.
TipOfSubject == NewestAt(Matching)

AskRequeue(c) ==
    /\ asking[c].at = "idle"
    /\ asking' = [asking EXCEPT ![c] = IF TipOfSubject = NoPos
                                       THEN [@ EXCEPT !.at = "answered", !.answer = "not_found"]
                                       ELSE [@ EXCEPT !.at = "scan", !.tip = TipOfSubject]]
    /\ UNCHANGED <<said, expired, folded, table, fqTriggers, everSent, minted>>

\* The walk from the first message: a later dead letter replaces an earlier
\* one, anything else is skipped, and the walk ends at the tip.
Ahead(c) == {p \in Matching : p > asking[c].pos}

ScanLetters(c) ==
    /\ asking[c].at = "scan"
    /\ \E p \in Ahead(c) :
       LET chosen == IF said[p].kind = "dead" THEN p ELSE asking[c].chosen
           a == [asking[c] EXCEPT !.pos = p, !.chosen = chosen]
       IN  /\ \A q \in Ahead(c) : p <= q
           /\ asking' = [asking EXCEPT ![c] =
               IF p < asking[c].tip THEN a
               ELSE IF chosen = NoPos THEN [a EXCEPT !.at = "answered", !.answer = "not_found"]
               ELSE IF said[chosen].id = Unnamed
                 THEN [a EXCEPT !.at = "answered", !.answer = "unlocatable"]
               ELSE [a EXCEPT !.at = "chosen"]]
    /\ UNCHANGED <<said, expired, folded, table, fqTriggers, everSent, minted>>

--------------------------------------------------------------------------------
\* The claim.

Original(c) == said[asking[c].chosen].id
Requeues(id) == {n \in DOMAIN table : table[n].from = id}
WithRow(id, row) == [n \in DOMAIN table \cup {id} |-> IF n = id THEN row ELSE table[n]]

\* reserve_requeue: INSERT OR IGNORE under the unique index on requeued_from.
UnclaimedAlways(c) == Original(c) # Unnamed
Unclaimed(c) == Requeues(Original(c)) = {}

Reserve(c) ==
    /\ asking[c].at = "chosen"
    /\ IF Unclaimed(c)
         THEN /\ minted < MaxMinted
              /\ minted' = minted + 1
              /\ table' = WithRow(minted + 1, [from |-> Original(c), seq |-> NoPos])
              /\ asking' = [asking EXCEPT ![c].at = "claimed", ![c].id = minted + 1]
         ELSE /\ asking' = [asking EXCEPT ![c].at = "refused"]
              /\ UNCHANGED <<minted, table>>
    /\ UNCHANGED <<said, expired, folded, fqTriggers, everSent>>

\* already_requeued: the refusal names what holds the claim, unless that has
\* gone meanwhile.
Refuse(c) ==
    /\ asking[c].at = "refused"
    /\ asking' = [asking EXCEPT ![c] =
           IF Requeues(Original(c)) = {}
             THEN [@ EXCEPT !.at = "answered", !.answer = "internal"]
             ELSE [@ EXCEPT !.at = "answered", !.answer = "conflict",
                            !.id = CHOOSE n \in Requeues(Original(c)) : TRUE]]
    /\ UNCHANGED <<said, expired, folded, table, fqTriggers, everSent, minted>>

\* publish_trigger_named.
Stored(c) ==
    /\ fqTriggers' = fqTriggers \cup {asking[c].id}
    /\ everSent' = everSent \cup {[id |-> asking[c].id, from |-> Original(c)]}

PublishOk(c) ==
    /\ asking[c].at = "claimed"
    /\ Stored(c)
    /\ asking' = [asking EXCEPT ![c].at = "answered", ![c].answer = "receipt"]
    /\ UNCHANGED <<said, expired, folded, table, minted>>

\* The time-out: the outcome is unknown and the claim stays.
TimedOut(c) == asking' = [asking EXCEPT ![c].at = "answered", ![c].answer = "unknown"]

PublishTimesOut(c) ==
    /\ asking[c].at = "claimed"
    /\ Stored(c) \/ UNCHANGED <<fqTriggers, everSent>>
    /\ TimedOut(c)
    /\ UNCHANGED <<said, expired, folded, table, minted>>

RequeueFails(c) ==
    /\ asking[c].at = "claimed"
    /\ asking' = [asking EXCEPT ![c].at = "releasing"]
    /\ UNCHANGED <<said, expired, folded, table, fqTriggers, everSent, minted>>

\* release_requeue.
Release(c) ==
    /\ asking[c].at = "releasing"
    /\ table' = [n \in DOMAIN table \ {asking[c].id} |-> table[n]]
    /\ asking' = [asking EXCEPT ![c].at = "answered", ![c].answer = "failed"]
    /\ UNCHANGED <<said, expired, folded, fqTriggers, everSent, minted>>

\* The daemon dies under a call: what it had not yet done stays undone, and a
\* publish may have gone out.
Die(c) ==
    /\ asking[c].at \in {"chosen", "claimed", "releasing"}
    /\ IF asking[c].at = "claimed" THEN Stored(c) \/ UNCHANGED <<fqTriggers, everSent>>
       ELSE UNCHANGED <<fqTriggers, everSent>>
    /\ asking' = [asking EXCEPT ![c].at = "answered", ![c].answer = "none"]
    /\ UNCHANGED <<said, expired, folded, table, minted>>

--------------------------------------------------------------------------------
\* The dispatcher concludes a trigger: it runs, or its deliveries are exhausted
\* and it becomes a dead letter of its own name.
ConcludeTrigger(id, kind) ==
    /\ id \in fqTriggers
    /\ Len(said) < MaxSaid
    /\ said' = Append(said, Said(kind, id))
    /\ fqTriggers' = fqTriggers \ {id}
    /\ UNCHANGED <<expired, folded, table, everSent, minted, asking>>

\* insert_trigger: the first record of a trigger wins, and a row that has no
\* position takes this one.
insert_trigger(id, seq) ==
    IF id \in DOMAIN table
      THEN [table EXCEPT ![id].seq = IF @ = NoPos THEN seq ELSE @]
      ELSE WithRow(id, [from |-> Unnamed, seq |-> seq])

\* A message that names a trigger.
Named(p) == said[p].kind \in {"dead", "triggered"} /\ said[p].id # Unnamed

FoldSaid ==
    /\ folded < Len(said)
    /\ folded' = folded + 1
    /\ LET p == folded + 1
       IN  table' = IF Named(p) THEN insert_trigger(said[p].id, p) ELSE table
    /\ UNCHANGED <<said, expired, fqTriggers, everSent, minted, asking>>

\* Retention, behind the projection.
ExpireOldest ==
    /\ expired < MaxExpired /\ expired < folded
    /\ expired' = expired + 1
    /\ UNCHANGED <<said, folded, table, fqTriggers, everSent, minted, asking>>

RequeueNext ==
    \/ PublishTrigger
    \/ \E c \in Askers :
           \/ AskRequeue(c) \/ ScanLetters(c) \/ Reserve(c) \/ Refuse(c)
           \/ PublishOk(c) \/ PublishTimesOut(c) \/ RequeueFails(c) \/ Release(c) \/ Die(c)
    \/ \E id \in fqTriggers : ConcludeTrigger(id, "triggered") \/ ConcludeTrigger(id, "dead")
    \/ FoldSaid
    \/ ExpireOldest

RequeueSpec == RequeueInit /\ [][RequeueNext]_requeueVars

--------------------------------------------------------------------------------
\* A dead letter is requeued at most once: however many calls race, fail, time
\* out or die, the trigger stream never holds two requeues of one trigger.
RequeuedOnce == \A s, t \in everSent : s.from = t.from => s.id = t.id

\* Every requeue that went out has its record, naming the trigger it re-ran,
\* from before it is published: the key of the receipt always resolves, and a
\* later fold of the dispatcher's event does not lose the lineage.
RequeueOnRecord ==
    \A s \in everSent : s.id \in DOMAIN table /\ table[s.id].from = s.from

\* Whatever the fold has passed is on trigger.stream: each trigger it saw named
\* has a row with the position where it was first named, a requeue's row
\* included, which was written before there was any position.
FoldedIsStreamed ==
    \A p \in 1 .. folded : Named(p) =>
        /\ said[p].id \in DOMAIN table
        /\ LET first == table[said[p].id].seq
           IN  /\ first \in 1 .. p /\ Named(first) /\ said[first].id = said[p].id
               /\ \A q \in 1 .. first - 1 : Named(q) => said[q].id # said[p].id
================================================================================
