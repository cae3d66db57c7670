------------------------------- MODULE DeadLetters -------------------------------
(***************************************************************************)
(* The two emitters of a dead letter: the dispatcher's inline path on a    *)
(* trigger's last delivery, and the advisory watch, which turns the        *)
(* server's MAX_DELIVERIES advisory into the same event for the            *)
(* exhaustion no dispatcher saw.  The broker, a dispatcher that may die,   *)
(* a watch that may die, publishes and acks that may fail, and triggers    *)
(* that age out of their stream.                                           *)
(***************************************************************************)
EXTENDS Naturals, SequencesExt

CONSTANTS Trigs,        \* the triggers of one agent, as sequences of fq-triggers
          Stamped,      \* those whose publisher stamped a name
          DeliveryLimit,   \* TRIGGER_MAX_DELIVER
          MaxTrouble, MaxOthers   \* bounds: crashes and failed calls; other failures

NoTrig == 0

VARIABLES trig,      \* each trigger: [at, tries, held, mute]
          letters,   \* the agent's `failed` subject: [seq, by, name]
          orphans,   \* dead letters of the system subject
          advised,   \* fq-advisories: not yet acked
          watch,     \* the watch: [at, seq, known]
          trouble, others

dlVars == <<trig, letters, orphans, advised, watch, trouble, others>>

Resting == [at |-> "idle", seq |-> NoTrig, known |-> FALSE]

DeadLettersInit ==
    /\ trig = [t \in Trigs |-> [at |-> "queued", tries |-> 0, held |-> TRUE, mute |-> FALSE]]
    /\ letters = << >> /\ orphans = << >>
    /\ advised = {}
    /\ watch = Resting
    /\ trouble = 0 /\ others = 0

Letter(t, by, name) == [seq |-> t, by |-> by, name |-> name]
Trouble == trouble < MaxTrouble /\ trouble' = trouble + 1

\* The publisher's name, or the one `delivered` mints for this delivery.
NameAt(t) == IF t \in Stamped THEN "stamped" ELSE "minted"
\* trigger_id_in: the header alone.
MintedHere(t) == IF t \in Stamped THEN "stamped" ELSE "invented"
NameRead(t)   == IF t \in Stamped THEN "stamped" ELSE "none"

--------------------------------------------------------------------------------
\* The trigger consumer.

DeliverTrig(t) ==
    /\ trig[t].at = "queued"
    /\ trig' = [trig EXCEPT ![t].at = "handling", ![t].tries = @ + 1]
    /\ UNCHANGED <<letters, orphans, advised, watch, trouble, others>>

\* The run starts durably, or is refused for good: the agent fails otherwise.
SettleTrig(t) ==
    /\ trig[t].at = "handling"
    /\ trig' = [trig EXCEPT ![t].at = "acked"]
    /\ \/ UNCHANGED <<letters, others>>
       \/ /\ others < MaxOthers
          /\ others' = others + 1
          /\ letters' = Append(letters, Letter(NoTrig, "other", "none"))
    /\ UNCHANGED <<orphans, advised, watch, trouble>>

\* trigger_fate on a transient failure: a NAK with deliveries left ...
NakTrig(t) ==
    /\ trig[t].at = "handling" /\ trig[t].tries < DeliveryLimit
    /\ trig' = [trig EXCEPT ![t].at = "queued"]
    /\ UNCHANGED <<letters, orphans, advised, watch, trouble, others>>

\* ... and on the last one dead_letter_exhausted, whose failure is logged, then
\* the ack.
EmitInline(t) ==
    /\ trig[t].at = "handling" /\ trig[t].tries = DeliveryLimit
    /\ \/ /\ letters' = Append(letters, Letter(t, "inline", NameAt(t)))
          /\ trig' = [trig EXCEPT ![t].at = "emitted"]
          /\ UNCHANGED trouble
       \/ /\ Trouble
          /\ trig' = [trig EXCEPT ![t].at = "emitted", ![t].mute = TRUE]
          /\ UNCHANGED letters
    /\ UNCHANGED <<orphans, advised, watch, others>>

AckInline(t) ==
    /\ trig[t].at = "emitted"
    /\ trig' = [trig EXCEPT ![t].at = "acked"]
    /\ UNCHANGED <<letters, orphans, advised, watch, trouble, others>>

\* Nobody answers for the delivery (the dispatcher died, the ack was lost): the
\* window lapses, and past the limit the server says so.
LapsedNext(t) == IF trig[t].tries < DeliveryLimit THEN "queued" ELSE "exhausted"

Lapse(t) ==
    /\ trig[t].at \in {"handling", "emitted"}
    /\ Trouble
    /\ trig' = [trig EXCEPT ![t].at = LapsedNext(t), ![t].mute = FALSE]
    /\ advised' = IF LapsedNext(t) = "exhausted" THEN advised \cup {t} ELSE advised
    /\ UNCHANGED <<letters, orphans, watch, others>>

\* Triggers age out of their stream a day later; so would the advisory.
AgeTrig(t) ==
    /\ trig[t].at \in {"acked", "exhausted"} /\ trig[t].held
    /\ trig' = [trig EXCEPT ![t].held = FALSE]
    /\ UNCHANGED <<letters, orphans, advised, watch, trouble, others>>

--------------------------------------------------------------------------------
\* handle_advisory.

TakeHeldOnly(t) ==
    /\ watch.at = "idle" /\ t \in advised /\ trig[t].held
    /\ watch' = [at |-> "check", seq |-> t, known |-> TRUE]
    /\ UNCHANGED <<trig, letters, orphans, advised, trouble, others>>

TakeAdvisory(t) ==
    /\ watch.at = "idle" /\ t \in advised
    /\ watch' = [at |-> IF trig[t].held THEN "check" ELSE "emit", seq |-> t,
                 known |-> trig[t].held]
    /\ UNCHANGED <<trig, letters, orphans, advised, trouble, others>>

\* already_surfaced: the agent's last failure alone; a failed read is a no.
SurfacedNever(t) == FALSE
Surfaced(t) == letters # << >> /\ Last(letters).seq = t

CheckLast ==
    /\ watch.at = "check"
    /\ \/ /\ watch' = [watch EXCEPT !.at = IF Surfaced(watch.seq) THEN "ack" ELSE "emit"]
          /\ UNCHANGED trouble
       \/ /\ Trouble
          /\ watch' = [watch EXCEPT !.at = "emit"]
    /\ UNCHANGED <<trig, letters, orphans, advised, others>>

EmitAdvised ==
    /\ watch.at = "emit"
    /\ LET t == watch.seq
       IN  IF watch.known
             THEN /\ letters' = Append(letters, Letter(t, "advisory", NameRead(t)))
                  /\ UNCHANGED orphans
             ELSE /\ orphans' = Append(orphans, Letter(t, "advisory", "none"))
                  /\ UNCHANGED letters
    /\ watch' = [watch EXCEPT !.at = "ack"]
    /\ UNCHANGED <<trig, advised, trouble, others>>

\* The publish fails and the advisory is NAKed, or the watch dies: it comes again.
AckedAnyway  == advised \ {watch.seq}
StillAdvised == advised

WatchFails ==
    /\ watch.at # "idle"
    /\ Trouble
    /\ advised' = StillAdvised
    /\ watch' = Resting
    /\ UNCHANGED <<trig, letters, orphans, others>>

AckAdvisory ==
    /\ watch.at = "ack"
    /\ advised' = advised \ {watch.seq}
    /\ watch' = Resting
    /\ UNCHANGED <<trig, letters, orphans, trouble, others>>

DeadLettersNext ==
    \/ \E t \in Trigs :
          \/ DeliverTrig(t) \/ SettleTrig(t) \/ NakTrig(t) \/ EmitInline(t) \/ AckInline(t)
          \/ Lapse(t) \/ AgeTrig(t) \/ TakeAdvisory(t)
    \/ CheckLast \/ EmitAdvised \/ WatchFails \/ AckAdvisory

\* The watch is a loop on a consumer that redelivers without limit.
WatchFairness ==
    /\ WF_dlVars(\E t \in Trigs : TakeAdvisory(t))
    /\ WF_dlVars(CheckLast) /\ WF_dlVars(EmitAdvised) /\ WF_dlVars(AckAdvisory)

--------------------------------------------------------------------------------
Recorded(t) == {i \in DOMAIN letters : letters[i].seq = t}
Orphaned(t) == {i \in DOMAIN orphans : orphans[i].seq = t}

\* Exhaustion is never silent: a trigger whose deliveries ran out has a dead
\* letter or an advisory that is still to be answered, except for the one whose
\* inline event could not be published and whose delivery was acked all the same.
NoSilence ==
    \A t \in Trigs :
        trig[t].at = "exhausted" \/ (trig[t].at = "acked" /\ trig[t].mute) =>
            Recorded(t) # {} \/ Orphaned(t) # {} \/ t \in advised \/ trig[t].mute

\* The emitters exclude each other: without a death or a failed call no trigger
\* gets a second dead letter, and one such fault (the dispatcher's death between
\* its emit and its ack, the watch's between its own) is caught as long as
\* nothing else of the agent has failed since.
OneLetter ==
    \A t \in Trigs :
        trouble = 0 \/ (trouble = 1 /\ \A i \in DOMAIN letters : letters[i].seq = t)
            => Cardinality(Recorded(t)) <= 1

\* Duplicates reconcile: the dead letters of one trigger carry one name, or one
\* name and none, so a claim on the name holds for all of them.
OneName ==
    \A i, j \in DOMAIN letters :
        letters[i].seq = letters[j].seq /\ letters[i].seq # NoTrig =>
            letters[i].name = letters[j].name \/ "none" \in {letters[i].name, letters[j].name}

\* Every advisory is answered in the end.
AdvisoriesAnswered ==
    WatchFairness => \A t \in Trigs : t \in advised ~> t \notin advised
================================================================================
