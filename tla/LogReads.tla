-------------------------------- MODULE LogReads --------------------------------
(***************************************************************************)
(* The reads of the operator surface over the event log: event.get, which  *)
(* hops from the identity through the projection's index to a position of  *)
(* the log; the cursored streams of the Event, DeadLetter and Turn atoms,  *)
(* long polls over an ordered consumer; and trigger.stream, pages of the   *)
(* projection's rows.  Underneath, the log grows, ages, and may be         *)
(* recreated with its sequences restarting while the index survives.       *)
(*                                                                         *)
(* An event is "mine" (the filter selects it), "other", "beat" (a          *)
(* transient, which is not indexed) or "old" (a version this build does    *)
(* not read); its identity is the order in which it was made.              *)
(***************************************************************************)
EXTENDS Naturals, FiniteSets, SequencesExt, Functions

CONSTANTS EventKinds,  \* subset of the kinds above
          Followers,   \* the clients that follow a stream: "log", "tail", "rows", "rowtail"
          BatchCap,    \* EVENT_BATCH_CAP and its siblings
          MaxMade, MaxAged, MaxRecreated  \* bounds

NoSeqno == 0
Lost    == 99   \* an event of before the index kept positions

VARIABLES journal,   \* fq-events: position -> [id, kind]
          aged,      \* the positions 1 .. aged have aged out
          era,       \* how often the stream was recreated
          made,      \* events made
          placed,    \* the projection's position in the journal
          index,     \* events: id -> [seq, kind]
          follower,  \* each client: [open, era, from, cursor, got, pos, items]
          getter     \* event.get: [at, id, seq, answer]

readVars == <<journal, aged, era, made, placed, index, follower, getter>>

Shut   == [open |-> "no", era |-> 0, from |-> 1, cursor |-> 1, got |-> << >>, pos |-> 1,
           items |-> << >>]
Silent == [at |-> "idle", id |-> NoSeqno, seq |-> NoSeqno, answer |-> "none"]

ReadsInit ==
    /\ journal = << >>
    /\ aged = 0 /\ era = 0 /\ made = 0 /\ placed = 0
    /\ index = (Lost :> [seq |-> NoSeqno, kind |-> "other"])
    /\ follower = [f \in Followers |-> Shut]
    /\ getter = Silent

TipSeq    == Len(journal)
HeldAt(p) == p \in DOMAIN journal /\ p > aged
From(p)   == {q \in DOMAIN journal : q > aged /\ q >= p}
First(ps) == CHOOSE p \in ps : \A q \in ps : p <= q

--------------------------------------------------------------------------------
\* The log and the index.

Emit(kind) ==
    /\ made < MaxMade
    /\ made' = made + 1
    /\ journal' = Append(journal, [id |-> made + 1, kind |-> kind])
    /\ UNCHANGED <<aged, era, placed, index, follower, getter>>

AgeLog ==
    /\ aged < MaxAged /\ aged < TipSeq
    /\ aged' = aged + 1
    /\ UNCHANGED <<journal, era, made, placed, index, follower, getter>>

\* The stream is deleted and made anew: sequences restart, durables are gone.
Recreate ==
    /\ era < MaxRecreated
    /\ era' = era + 1
    /\ journal' = << >> /\ aged' = 0 /\ placed' = 0
    /\ UNCHANGED <<made, index, follower, getter>>

\* insert_event, in log order: transients are not indexed, and nothing this
\* build cannot read is.
Place ==
    /\ From(placed + 1) # {}
    /\ LET p == First(From(placed + 1))
       IN  /\ placed' = p
           /\ index' = IF journal[p].kind \in {"mine", "other"}
                         THEN (journal[p].id :> [seq |-> p, kind |-> journal[p].kind]) @@ index
                         ELSE index
    /\ UNCHANGED <<journal, aged, era, made, follower, getter>>

--------------------------------------------------------------------------------
\* A reader changes nothing another one reads, so one reader at a time shows
\* every behaviour of each.
Alone == getter.at = "idle" /\ \A f \in Followers : follower[f].open = "no"

\* event.get.

AnswerGet(what) == getter' = [getter EXCEPT !.at = "answered", !.answer = what]

\* event_location.
Locate(id) ==
    /\ Alone
    /\ getter' = [getter EXCEPT !.id = id,
                     !.at = IF id \in DOMAIN index /\ index[id].seq # NoSeqno
                              THEN "located" ELSE "answered",
                     !.seq = IF id \in DOMAIN index THEN index[id].seq ELSE NoSeqno,
                     !.answer = IF id \notin DOMAIN index THEN "not_found"
                                ELSE IF index[id].seq = NoSeqno THEN "unlocatable" ELSE "none"]
    /\ UNCHANGED <<journal, aged, era, made, placed, index, follower>>

\* event_at: the end of the log, asked before the consumer is opened.
BeyondTip == getter.seq >= TipSeq
PastTip   == getter.seq > TipSeq

AskTip ==
    /\ getter.at = "located"
    /\ IF PastTip THEN AnswerGet("gone") ELSE getter' = [getter EXCEPT !.at = "reading"]
    /\ UNCHANGED <<journal, aged, era, made, placed, index, follower>>

\* The read, and the check that what came back is what was asked for.
Whatever(e) == e.kind # "old"
SameEvent(e) == e.id = getter.id

ReadAt ==
    /\ getter.at = "reading"
    /\ IF ~HeldAt(getter.seq) THEN AnswerGet("gone")
       ELSE IF journal[getter.seq].kind = "old" \/ ~SameEvent(journal[getter.seq])
         THEN AnswerGet("gone")
       ELSE getter' = [getter EXCEPT !.at = "answered", !.answer = "event",
                                     !.seq = journal[getter.seq].id]
    /\ UNCHANGED <<journal, aged, era, made, placed, index, follower>>

GetDone ==
    /\ getter.at = "answered"
    /\ getter' = Silent
    /\ UNCHANGED <<journal, aged, era, made, placed, index, follower>>

--------------------------------------------------------------------------------
\* The streams.

Rows(f)  == {i \in DOMAIN index : index[i].kind = "mine" /\ index[i].seq >= follower[f].pos
                                  /\ index[i].seq # NoSeqno}
RowTip   == LET ss == {index[i].seq : i \in DOMAIN index}
            IN  CHOOSE s \in ss : \A t \in ss : t <= s

\* from_seq as the client gives it, or u64::MAX: one past the tail of the log,
\* or of the recorded rows.
StartOf(f) == IF f = "tail" THEN TipSeq + 1 ELSE IF f = "rowtail" THEN RowTip + 1 ELSE 1

OpenStream(f) ==
    /\ Alone
    /\ follower' = [follower EXCEPT ![f] =
           [@ EXCEPT !.open = "polling", !.era = era, !.from = StartOf(f),
                     !.cursor = StartOf(f), !.pos = StartOf(f)]]
    /\ UNCHANGED <<journal, aged, era, made, placed, index, getter>>

\* stream_events and its siblings, one message: the cursor moves past whatever
\* was read, and what matches joins the batch.
OnePast(p)     == p + 1
NotPast(p)  == p
NextCursor(p)  == OnePast(p)

TakeMessage(f) ==
    /\ follower[f].open = "polling" /\ f \in {"log", "tail"}
    /\ Len(follower[f].items) < BatchCap
    /\ From(follower[f].pos) # {}
    /\ LET p == First(From(follower[f].pos))
       IN  follower' = [follower EXCEPT
               ![f].pos = NextCursor(p),
               ![f].items = IF journal[p].kind = "mine" THEN Append(@, journal[p].id) ELSE @]
    /\ UNCHANGED <<journal, aged, era, made, placed, index, getter>>

\* stream_triggers: one page of rows in sequence order.
PastPage(f, page)    == RowTip + 1
CursorAfter(f, page) == index[Last(page)].seq + 1

TakePage(f) ==
    /\ follower[f].open = "polling" /\ f \in {"rows", "rowtail"}
    /\ follower[f].items = << >> /\ Rows(f) # {}
    /\ LET before(i, j) == index[i].seq < index[j].seq
           all  == SetToSortSeq(Rows(f), before)
           page == SubSeq(all, 1, IF Len(all) < BatchCap THEN Len(all) ELSE BatchCap)
       IN  follower' = [follower EXCEPT ![f].items = page, ![f].pos = CursorAfter(f, page)]
    /\ UNCHANGED <<journal, aged, era, made, placed, index, getter>>

\* The batch is answered (it is full, the wait is over, nothing more is ready)
\* and the client polls again from next_from_seq; or the answer is lost and it
\* polls again from the cursor it had.
AnswerBatch(f) ==
    /\ follower[f].open = "polling" /\ follower[f].pos # follower[f].cursor
    /\ follower' = [follower EXCEPT ![f].cursor = follower[f].pos,
                                    ![f].got = @ \o follower[f].items, ![f].items = << >>]
    /\ UNCHANGED <<journal, aged, era, made, placed, index, getter>>

LoseBatch(f) ==
    /\ follower[f].open = "polling" /\ follower[f].pos # follower[f].cursor
    /\ follower' = [follower EXCEPT ![f].pos = follower[f].cursor, ![f].items = << >>]
    /\ UNCHANGED <<journal, aged, era, made, placed, index, getter>>

ReadsNext ==
    \/ \E k \in EventKinds : Emit(k)
    \/ AgeLog \/ Recreate \/ Place
    \/ \E id \in 1 .. made \cup {Lost} : Locate(id)
    \/ AskTip \/ ReadAt \/ GetDone
    \/ \E f \in Followers :
           OpenStream(f) \/ TakeMessage(f) \/ TakePage(f) \/ AnswerBatch(f) \/ LoseBatch(f)

--------------------------------------------------------------------------------
\* event.get never answers with a neighbour: what it returns is the event asked
\* for, however the log was aged, rewound or recreated between its two hops.
GetHonest == getter.answer = "event" => getter.seq = getter.id

\* And "gone" is never said of an event that is there: the log holds no event
\* of that identity at the position the index gave.
GoneIsGone ==
    getter.answer = "gone" => ~(HeldAt(getter.seq) /\ journal[getter.seq].id = getter.id
                                /\ index[getter.id].seq = getter.seq)

\* A client that follows a stream from a cursor, across batches, lost answers
\* and retention, has got each matching event at most once, in order, and every
\* one that is still there between where it started and its cursor.  A cursor
\* means nothing across a recreated log, and the rows keep the positions of the
\* log they were folded from: for them the claim is about one log.
Selected(f) ==
    IF f \in {"log", "tail"}
      THEN {journal[p].id : p \in {q \in From(follower[f].from) :
                                      q < follower[f].cursor /\ journal[q].kind = "mine"}}
      ELSE {i \in DOMAIN index : index[i].kind = "mine" /\ index[i].seq >= follower[f].from
                                 /\ index[i].seq < follower[f].cursor}

FollowedExactly ==
    \A f \in Followers : follower[f].open = "polling" /\ follower[f].era = era
                         /\ (f \in {"rows", "rowtail"} => era = 0) =>
        /\ Selected(f) \subseteq Range(follower[f].got)
        /\ \A i, j \in DOMAIN follower[f].got : i < j => follower[f].got[i] < follower[f].got[j]
================================================================================
