------------------------- MODULE TriggerDispatchProofs -------------------------
(***************************************************************************)
(* Proofs about TriggerDispatch, for every number of messages, deliveries, *)
(* process starts, crashes, faults and slipped windows.                    *)
(***************************************************************************)
EXTENDS TriggerDispatch, TLAPS

(***************************************************************************)
(* Type correctness.                                                       *)
(***************************************************************************)

\* The initial state has the types and the delivery bookkeeping.
LEMMA InitTypes == Init => TypeOK /\ DeliveriesLeft /\ TaskPerDelivery
<1> SUFFICES ASSUME Init PROVE TypeOK /\ DeliveriesLeft /\ TaskPerDelivery
  BY Zenon
<1>1. 0 \in 0 .. MaxBoots /\ 0 \in 0 .. MaxDeliver /\ 1 \in Boots
  BY BoundsAssumption DEF Boots
<1>2. NoClaim \in [st : {"none", "claimed", "started"}, by : 0 .. MaxBoots,
                    inv : 0 .. MaxDeliver]
  BY Zenon, <1>1 DEF NoClaim
<1>3. TypeOK
  BY Zenon, <1>1, <1>2 DEF Init, TypeOK, PCs
<1>4. DeliveriesLeft /\ TaskPerDelivery
  BY Zenon, BoundsAssumption DEF Init, DeliveriesLeft, TaskPerDelivery, Tasks
<1> QED  BY Zenon, <1>3, <1>4

Types == TypeOK /\ DeliveriesLeft /\ TaskPerDelivery

\* StreamAppend adds a message that has not been delivered.
LEMMA AppendTypes ==
    ASSUME Types, NEW t \in Triggers \cup {NoTrigger},
           StreamAppend(t)
    PROVE  /\ msg' \in [Seqs -> {"absent", "queued", "pending", "acked", "exhausted"}]
           /\ name' \in [Seqs -> Triggers \cup {NoTrigger}]
           /\ deliv' = deliv /\ advisory' = advisory /\ pulledBy' = pulledBy
           /\ DeliveriesLeft'
  BY BoundsAssumption DEF Types, StreamAppend, TypeOK, DeliveriesLeft, Seqs

\* Requeued keeps the bookkeeping of deliveries.
LEMMA RequeuedTypes ==
    ASSUME Types, NEW s \in Seqs, msg[s] = "pending", Requeued(s), deliv' = deliv
    PROVE  /\ msg' \in [Seqs -> {"absent", "queued", "pending", "acked", "exhausted"}]
           /\ advisory' \subseteq Seqs
           /\ DeliveriesLeft'
  BY ZenonT(60), BoundsAssumption DEF Types, Requeued, TypeOK, DeliveriesLeft, Seqs

\* A task that exists moves to another place in `handle`.
LEMMA GotoTypes ==
    ASSUME Types, NEW s \in Seqs, NEW a \in Attempts, NEW to \in PCs,
           pc[<<s, a>>] # "idle", Goto(s, a, to), deliv' = deliv
    PROVE  pc' \in [Tasks -> PCs] /\ TaskPerDelivery'
<1>1. <<s, a>> \in Tasks
  BY Zenon DEF Tasks
<1>2. pc' \in [Tasks -> PCs]
  BY Zenon, <1>1 DEF Types, TypeOK, Goto
<1>3. ASSUME NEW r \in Seqs, NEW b \in Attempts, b > deliv[r] PROVE pc'[<<r, b>>] = "idle"
  <2>1. pc[<<r, b>>] = "idle"
    BY Zenon, <1>3 DEF Types, TaskPerDelivery
  <2>2. <<r, b>> # <<s, a>>
    BY Zenon, <2>1
  <2> QED  BY Zenon, <1>1, <2>1, <2>2 DEF Goto, Types, TypeOK, Tasks
<1> QED  BY Zenon, <1>2, <1>3 DEF TaskPerDelivery

\* A step that leaves the broker alone and moves one task keeps the types, as long as
\* what else it assigns is well-typed.
LEMMA LocalTypes ==
    ASSUME Types, NEW s \in Seqs, NEW a \in Attempts, NEW to \in PCs,
           pc[<<s, a>>] # "idle", Goto(s, a, to),
           UNCHANGED <<brokerVars, procVars, slips>>,
           claim' \in [Seqs -> [st : {"none", "claimed", "started"},
                               by : 0 .. MaxBoots, inv : 0 .. MaxDeliver]],
           saw' \in [Tasks -> 0 .. MaxBoots],
           wal' \subseteq Tasks, orphan' \subseteq Tasks, faults' \in Nat,
           fate' \in [Seqs -> SUBSET {"refused", "requeued", "failed", "suspended",
                                     "deadletter"}]
    PROVE  Types'
<1>1. pc' \in [Tasks -> PCs] /\ TaskPerDelivery'
  BY Zenon, GotoTypes DEF brokerVars
<1>2. TypeOK'
  BY Zenon, <1>1 DEF Types, TypeOK, brokerVars, procVars
<1>3. DeliveriesLeft'
  BY Zenon DEF Types, DeliveriesLeft, brokerVars
<1> QED  BY Zenon, <1>1, <1>2, <1>3 DEF Types

\* GiveUp keeps the types.
LEMMA GiveUpTypes ==
    ASSUME Types, NEW s \in Seqs, NEW a \in Attempts, pc[<<s, a>>] # "idle",
           NEW why \in {"refused", "failed", "suspended"}, GiveUp(s, a, why)
    PROVE  Types'
<1>1. fate' \in [Seqs -> SUBSET {"refused", "requeued", "failed", "suspended", "deadletter"}]
  BY Zenon DEF GiveUp, Types, TypeOK
<1>2. "relack" \in PCs
  BY Zenon DEF PCs, OwnerPCs
<1> QED  BY Zenon, <1>1, <1>2, LocalTypes DEF GiveUp, Types, TypeOK

\* Every step of a task keeps the types.
LEMMA TaskTypes ==
    ASSUME Types, NEW s \in Seqs, NEW a \in Attempts, TaskStep(s, a)
    PROVE  Types'
<1> USE DEF PCs, OwnerPCs
<1>0. boot \in 0 .. MaxBoots /\ a \in 0 .. MaxDeliver /\ <<s, a>> \in Tasks
  BY BoundsAssumption DEF Types, TypeOK, Boots, Attempts, Tasks
<1>c. /\ claim[s] \in [st : {"none", "claimed", "started"}, by : 0 .. MaxBoots,
                        inv : 0 .. MaxDeliver]
      /\ NoClaim \in [st : {"none", "claimed", "started"}, by : 0 .. MaxBoots,
                      inv : 0 .. MaxDeliver]
  BY BoundsAssumption DEF Types, TypeOK, NoClaim
<1>f. Fault => faults' \in Nat
  BY DEF Fault, Types, TypeOK
<1>1. CASE ClaimInsert(s, a)
  <2>1. claim' \in [Seqs -> [st : {"none", "claimed", "started"},
                            by : 0 .. MaxBoots, inv : 0 .. MaxDeliver]]
    BY SMTT(60), <1>0, <1>1, BoundsAssumption DEF ClaimInsert, Types, TypeOK
  <2> QED  BY Zenon, <1>1, <2>1, LocalTypes DEF ClaimInsert, Types, TypeOK
<1>2. CASE ClaimSelect(s, a)
  <2>1. saw' \in [Tasks -> 0 .. MaxBoots]
    BY Zenon, <1>c, <1>2 DEF ClaimSelect, SelectVerdict, Types, TypeOK
  <2>2. PICK to \in PCs : Goto(s, a, to)
    BY Zenon, <1>2 DEF ClaimSelect, SelectVerdict
  <2> QED  BY Zenon, <1>2, <2>1, <2>2, LocalTypes DEF ClaimSelect, SelectVerdict, Types, TypeOK
<1>3. CASE TakeOver(s, a)
  <2>1. claim' \in [Seqs -> [st : {"none", "claimed", "started"},
                            by : 0 .. MaxBoots, inv : 0 .. MaxDeliver]]
    <3>1. [claim[s] EXCEPT !.by = boot] \in [st : {"none", "claimed", "started"},
                                             by : 0 .. MaxBoots, inv : 0 .. MaxDeliver]
      BY Zenon, <1>0, <1>c
    <3>2. claim' = claim \/ claim' = [claim EXCEPT ![s] = [claim[s] EXCEPT !.by = boot]]
      BY Zenon, <1>3 DEF TakeOver
    <3> QED  BY Zenon, <3>1, <3>2 DEF Types, TypeOK
  <2> QED  BY Zenon, <1>3, <2>1, LocalTypes DEF TakeOver, Types, TypeOK
<1>4. CASE ClaimError(s, a)
  BY Zenon, <1>4, <1>f, LocalTypes DEF ClaimError, Types, TypeOK
<1>5. CASE Route(s, a)
  BY Zenon, <1>5, LocalTypes, GiveUpTypes DEF Route, Types, TypeOK
<1>6. CASE LeavePause(s, a)
  BY Zenon, <1>6, LocalTypes, GiveUpTypes DEF LeavePause, Types, TypeOK
<1>7. CASE LeaveSlot(s, a)
  BY Zenon, <1>7, LocalTypes, GiveUpTypes DEF LeaveSlot, Types, TypeOK
<1>8. CASE RequeueHeld(s, a)
  <2>1. name[s] \in Triggers \cup {NoTrigger}
    BY Zenon DEF Types, TypeOK
  <2>2. /\ StreamAppend(name[s]) /\ Goto(s, a, "relack")
        /\ pc[<<s, a>>] # "idle" /\ "relack" \in PCs
    BY Zenon, <1>8 DEF RequeueHeld
  <2>3. /\ msg' \in [Seqs -> {"absent", "queued", "pending", "acked", "exhausted"}]
        /\ name' \in [Seqs -> Triggers \cup {NoTrigger}]
        /\ deliv' = deliv /\ advisory' = advisory /\ pulledBy' = pulledBy
        /\ DeliveriesLeft'
    BY Zenon, <1>0, <2>1, <2>2, AppendTypes
  <2>4. pc' \in [Tasks -> PCs] /\ TaskPerDelivery'
    BY Zenon, <2>2, <2>3, GotoTypes
  <2>5. fate' \in [Seqs -> SUBSET {"refused", "requeued", "failed", "suspended", "deadletter"}]
    BY Zenon, <1>8 DEF RequeueHeld, Types, TypeOK
  <2>6. TypeOK'
    BY Zenon, <1>8, <2>3, <2>4, <2>5 DEF RequeueHeld, procVars, Types, TypeOK
  <2> QED  BY Zenon, <2>3, <2>4, <2>6 DEF Types
<1>9. CASE RequeueFails(s, a)
  <2>1. /\ Goto(s, a, "done") /\ pc[<<s, a>>] # "idle" /\ "done" \in PCs /\ faults' \in Nat
    BY Zenon, <1>9, <1>f DEF RequeueFails
  <2>2. CASE UNCHANGED brokerVars
    BY Zenon, <1>9, <2>1, <2>2, LocalTypes DEF RequeueFails, Types, TypeOK
  <2>3. CASE StreamAppend(name[s])
    <3>1. name[s] \in Triggers \cup {NoTrigger}
      BY Zenon DEF Types, TypeOK
    <3>2. /\ msg' \in [Seqs -> {"absent", "queued", "pending", "acked", "exhausted"}]
          /\ name' \in [Seqs -> Triggers \cup {NoTrigger}]
          /\ deliv' = deliv /\ advisory' = advisory /\ pulledBy' = pulledBy
          /\ DeliveriesLeft'
      BY Zenon, <1>0, <2>3, <3>1, AppendTypes
    <3>3. pc' \in [Tasks -> PCs] /\ TaskPerDelivery'
      BY Zenon, <2>1, <3>2, GotoTypes
    <3>4. TypeOK'
      BY Zenon, <1>9, <2>1, <3>2, <3>3 DEF RequeueFails, procVars, Types, TypeOK
    <3> QED  BY Zenon, <3>2, <3>3, <3>4 DEF Types
  <2> QED  BY Zenon, <1>9, <2>2, <2>3 DEF RequeueFails
<1>10. CASE FirstWalWrite(s, a)
  BY Zenon, <1>0, <1>10, LocalTypes DEF FirstWalWrite, Types, TypeOK
<1>11. CASE TransientFailure(s, a)
  BY Zenon, <1>11, LocalTypes DEF TransientFailure, Types, TypeOK
<1>12. CASE PermanentFailure(s, a)
  BY Zenon, <1>12, GiveUpTypes DEF PermanentFailure
<1>13. CASE SuspendedAtStart(s, a)
  BY Zenon, <1>13, GiveUpTypes DEF SuspendedAtStart
<1>14. CASE DeadLetter(s, a)
  <2>1. fate' \in [Seqs -> SUBSET {"refused", "requeued", "failed", "suspended", "deadletter"}]
    BY <1>14 DEF DeadLetter, Types, TypeOK
  <2>2. faults' \in Nat
    BY Zenon, <1>14, <1>f DEF DeadLetter, Types, TypeOK
  <2> QED  BY Zenon, <1>14, <2>1, <2>2, LocalTypes DEF DeadLetter, Types, TypeOK
<1>15. CASE MarkStarted(s, a)
  <2>1. claim' \in [Seqs -> [st : {"none", "claimed", "started"},
                            by : 0 .. MaxBoots, inv : 0 .. MaxDeliver]]
    BY Zenon, <1>0, <1>c, <1>15 DEF MarkStarted, Types, TypeOK
  <2> QED  BY Zenon, <1>15, <2>1, LocalTypes DEF MarkStarted, Types, TypeOK
<1>16. CASE MarkFails(s, a)
  BY Zenon, <1>0, <1>16, <1>f, LocalTypes DEF MarkFails, Types, TypeOK
<1>17. CASE ReleaseClaim(s, a)
  <2>1. claim' \in [Seqs -> [st : {"none", "claimed", "started"},
                            by : 0 .. MaxBoots, inv : 0 .. MaxDeliver]]
    BY Zenon, <1>c, <1>17 DEF ReleaseClaim, Released, Types, TypeOK
  <2>2. faults' \in Nat
    BY Zenon, <1>17, <1>f DEF ReleaseClaim, Types, TypeOK
  <2> QED  BY Zenon, <1>17, <2>1, <2>2, LocalTypes DEF ReleaseClaim, Types, TypeOK
<1>18. CASE Ack(s, a)
  <2>1. /\ msg' \in [Seqs -> {"absent", "queued", "pending", "acked", "exhausted"}]
        /\ faults' \in Nat /\ deliv' = deliv
    BY Zenon, <1>18, <1>f DEF Ack, Types, TypeOK
  <2>2. pc' \in [Tasks -> PCs] /\ TaskPerDelivery'
    BY Zenon, <1>18, <2>1, GotoTypes DEF Ack
  <2>3. DeliveriesLeft'
    BY Zenon, <1>18 DEF Ack, Types, TypeOK, DeliveriesLeft
  <2> QED  BY Zenon, <1>18, <2>1, <2>2, <2>3 DEF Ack, procVars, Types, TypeOK
<1>19. CASE Nak(s, a)
  <2>1. /\ msg' \in [Seqs -> {"absent", "queued", "pending", "acked", "exhausted"}]
        /\ advisory' \subseteq Seqs /\ DeliveriesLeft'
    BY Zenon, <1>19, RequeuedTypes DEF Nak, Types, TypeOK, DeliveriesLeft
  <2>2. faults' \in Nat /\ deliv' = deliv
    BY Zenon, <1>19, <1>f DEF Nak, Types, TypeOK
  <2>3. pc' \in [Tasks -> PCs] /\ TaskPerDelivery'
    BY Zenon, <1>19, <2>2, GotoTypes DEF Nak
  <2> QED  BY Zenon, <1>19, <2>1, <2>2, <2>3 DEF Nak, procVars, Types, TypeOK
<1> QED
  BY Zenon, <1>1, <1>2, <1>3, <1>4, <1>5, <1>6, <1>7, <1>8, <1>9, <1>10, <1>11, <1>12, <1>13,
     <1>14, <1>15, <1>16, <1>17, <1>18, <1>19 DEF TaskStep

\* Every step keeps the types.
LEMMA TypesStep == Types /\ [Next]_vars => Types'
<1> SUFFICES ASSUME Types, [Next]_vars PROVE Types'
  BY Zenon
<1>1. CASE \E t \in Triggers : Publish(t)
  <2>1. PICK t \in Triggers : Publish(t)
    BY Zenon, <1>1
  <2>2. /\ msg' \in [Seqs -> {"absent", "queued", "pending", "acked", "exhausted"}]
        /\ name' \in [Seqs -> Triggers \cup {NoTrigger}]
        /\ deliv' = deliv /\ advisory' = advisory /\ pulledBy' = pulledBy
        /\ DeliveriesLeft'
    BY Zenon, <2>1, AppendTypes, BoundsAssumption DEF Publish
  <2> QED  BY Zenon, <2>1, <2>2 DEF Publish, procVars, Types, TypeOK, TaskPerDelivery
<1>2. ASSUME NEW s \in Seqs, AckWaitExpires(s) PROVE Types'
  <2>1. /\ msg' \in [Seqs -> {"absent", "queued", "pending", "acked", "exhausted"}]
        /\ advisory' \subseteq Seqs /\ DeliveriesLeft'
    BY Zenon, <1>2, RequeuedTypes DEF AckWaitExpires
  <2>2. slips' \in Nat
    BY <1>2 DEF AckWaitExpires, Types, TypeOK
  <2> QED  BY Zenon, <1>2, <2>1, <2>2 DEF AckWaitExpires, procVars, Types, TypeOK, TaskPerDelivery
<1>3. ASSUME NEW s \in Seqs, Pull(s) PROVE Types'
  <2>1. deliv[s] \in Nat /\ deliv[s] < MaxDeliver /\ deliv[s] + 1 \in Attempts
    BY <1>3, BoundsAssumption DEF Pull, Types, TypeOK, DeliveriesLeft, Attempts
  <2>2. <<s, deliv[s] + 1>> \in Tasks
    BY Zenon, <2>1 DEF Tasks
  <2>3. boot \in 0 .. MaxBoots
    BY BoundsAssumption DEF Types, TypeOK, Boots
  <2>4. /\ msg' \in [Seqs -> {"absent", "queued", "pending", "acked", "exhausted"}]
        /\ deliv' \in [Seqs -> 0 .. MaxDeliver]
        /\ pc' \in [Tasks -> PCs]
        /\ pulledBy' \in [Tasks -> 0 .. MaxBoots]
        /\ loop' \in {"pulling", "dropped", "stopping"}
    BY <1>3, <2>1, <2>2, <2>3, BoundsAssumption DEF Pull, Types, TypeOK, PCs
  <2>5. TypeOK'
    BY Zenon, <1>3, <2>4 DEF Pull, Types, TypeOK
  <2>6. DeliveriesLeft'
    BY Zenon, <1>3, <2>1 DEF Pull, Types, TypeOK, DeliveriesLeft
  <2>7. ASSUME NEW r \in Seqs, NEW b \in Attempts, b > deliv'[r]
        PROVE  pc'[<<r, b>>] = "idle"
    <3>1. b > deliv[r] /\ <<r, b>> # <<s, deliv[s] + 1>>
      BY <1>3, <2>1, <2>7 DEF Pull, Types, TypeOK, Attempts
    <3>2. pc[<<r, b>>] = "idle" /\ <<r, b>> \in Tasks
      BY Zenon, <3>1 DEF Types, TaskPerDelivery, Tasks
    <3> QED  BY Zenon, <1>3, <3>1, <3>2 DEF Pull, Types, TypeOK
  <2> QED  BY Zenon, <2>5, <2>6, <2>7 DEF Types, TaskPerDelivery
<1>4. CASE RequestDrain \/ LeaveLoop \/ SetStopping
  BY Zenon, <1>4 DEF RequestDrain, LeaveLoop, SetStopping, brokerVars, Types, TypeOK,
              DeliveriesLeft, TaskPerDelivery
<1>5. CASE Restart \/ Crash
  <2>1. NextProcess /\ crashes' \in Nat /\ orphan' \subseteq Tasks
    BY <1>5 DEF Restart, Crash, Types, TypeOK
  <2>2. boot' \in Boots
    BY <2>1, BoundsAssumption DEF NextProcess, Types, TypeOK, Boots
  <2>3. pc' \in [Tasks -> PCs] /\ TaskPerDelivery'
    BY Zenon, <2>1 DEF NextProcess, brokerVars, Types, TypeOK, TaskPerDelivery, PCs, Tasks
  <2> QED  BY Zenon, <2>1, <2>2, <2>3 DEF NextProcess, brokerVars, Types, TypeOK, DeliveriesLeft
<1>6. ASSUME NEW s \in Seqs, NEW a \in Attempts, TaskStep(s, a) PROVE Types'
  BY Zenon, <1>6, TaskTypes
<1>7. CASE UNCHANGED vars
  BY Zenon, <1>7 DEF vars, brokerVars, procVars, Types, TypeOK, DeliveriesLeft, TaskPerDelivery
<1> QED
  BY Zenon, <1>1, <1>2, <1>3, <1>4, <1>5, <1>6, <1>7 DEF Next

\* Every reachable state is well-typed: in particular no message is delivered more than
\* MaxDeliver times, and every task belongs to a delivery that was made.
THEOREM TypeCorrect == Spec => []TypeOK
<1>1. Init => Types
  BY Zenon, InitTypes DEF Types
<1>2. Types => TypeOK
  BY Zenon DEF Types
<1> QED
  BY <1>1, <1>2, TypesStep, PTL DEF Spec

--------------------------------------------------------------------------------
(***************************************************************************)
(* The claim row is a lock, and the record of the run it admitted.         *)
(***************************************************************************)

\* What one task's move does to the others: nothing.
LEMMA GotoMoves ==
    ASSUME TypeOK, NEW s \in Seqs, NEW a \in Attempts, NEW to, Goto(s, a, to)
    PROVE  /\ pc'[<<s, a>>] = to
           /\ \A r \in Seqs, b \in Attempts :
                 <<r, b>> # <<s, a>> => pc'[<<r, b>>] = pc[<<r, b>>]
  BY Zenon DEF TypeOK, Goto, Tasks

\* A task that moves within its ownership, or gives it up without touching the claim,
\* keeps the invariant.  It neither comes from nor goes to "wal" or "takeover".
LEMMA QuietMove ==
    ASSUME TypeOK, ClaimInv, NEW s \in Seqs, NEW a \in Attempts, NEW to, Goto(s, a, to),
           UNCHANGED <<claim, saw, wal, orphan, boot>>,
           pc[<<s, a>>] # "wal", to \notin {"wal", "takeover"},
           to \in OwnerPCs => pc[<<s, a>>] \in OwnerPCs \ {"relack"}
    PROVE  ClaimInv'
<1>1. /\ pc'[<<s, a>>] = to
      /\ \A r \in Seqs, b \in Attempts :
            <<r, b>> # <<s, a>> => pc'[<<r, b>>] = pc[<<r, b>>]
  BY Zenon, GotoMoves
<1>2. \A r \in Seqs, b \in Attempts :
        pc'[<<r, b>>] \in OwnerPCs => pc[<<r, b>>] \in OwnerPCs
  BY Zenon, <1>1
<1>3. OneOwner'
  BY Zenon, <1>2 DEF ClaimInv, OneOwner
<1>4. OwnerHoldsClaim'
  <2> SUFFICES ASSUME NEW r \in Seqs, NEW b \in Attempts, pc'[<<r, b>>] \in OwnerPCs
               PROVE  \/ claim[r].st = "claimed" /\ claim[r].by = boot
                      \/ pc'[<<r, b>>] = "relack" /\ claim[r].st = "started"
                         /\ claim[r].inv = b
    BY Zenon DEF OwnerHoldsClaim
  <2>1. CASE <<r, b>> = <<s, a>>
    BY Zenon, <1>1, <2>1 DEF ClaimInv, OwnerHoldsClaim
  <2>2. CASE <<r, b>> # <<s, a>>
    BY <1>1, <2>2 DEF ClaimInv, OwnerHoldsClaim
  <2> QED  BY Zenon, <2>1, <2>2
<1>5. AdoptsAnothers'
  BY Zenon, <1>1 DEF ClaimInv, AdoptsAnothers
<1>6. RunIsRecorded'
  BY <1>1 DEF ClaimInv, RunIsRecorded
<1> QED  BY Zenon, <1>3, <1>4, <1>5, <1>6 DEF ClaimInv

\* The invariant does not look at the broker, the loop or the counters.
LEMMA ClaimInvFrame ==
    ASSUME ClaimInv, UNCHANGED <<claim, pc, saw, wal, orphan, boot>>
    PROVE  ClaimInv'
  BY DEF ClaimInv, OneOwner, OwnerHoldsClaim, AdoptsAnothers, RunIsRecorded

\* Every step of a task keeps the claim invariant.
LEMMA TaskClaimInv ==
    ASSUME TypeOK, ClaimInv, NEW s \in Seqs, NEW a \in Attempts, TaskStep(s, a)
    PROVE  ClaimInv'
<1> USE DEF OwnerPCs
<1>s. \A r \in Seqs : claim[r] \in [st : {"none", "claimed", "started"},
                                   by : 0 .. MaxBoots, inv : 0 .. MaxDeliver]
  BY Zenon DEF TypeOK
<1>1. CASE ClaimInsert(s, a)
  <2>1. CASE claim[s].st = "none"
    <3>1. /\ pc'[<<s, a>>] = "route"
          /\ \A r \in Seqs, b \in Attempts :
                <<r, b>> # <<s, a>> => pc'[<<r, b>>] = pc[<<r, b>>]
      BY Zenon, <1>1, <2>1, GotoMoves DEF ClaimInsert
    <3>2. /\ claim'[s] = [st |-> "claimed", by |-> boot, inv |-> 0]
          /\ \A r \in Seqs : r # s => claim'[r] = claim[r]
          /\ UNCHANGED <<saw, wal, orphan, boot>>
      BY Zenon, <1>1, <2>1 DEF ClaimInsert, procVars, TypeOK
    <3>3. \A b \in Attempts : pc[<<s, b>>] \notin OwnerPCs
      BY Zenon, <2>1 DEF ClaimInv, OwnerHoldsClaim
    <3>4. OneOwner'
      BY <3>1, <3>3 DEF ClaimInv, OneOwner
    <3>5. OwnerHoldsClaim'
      BY <3>1, <3>2, <3>3 DEF ClaimInv, OwnerHoldsClaim
    <3>6. AdoptsAnothers'
      BY Zenon, <3>1, <3>2 DEF ClaimInv, AdoptsAnothers
    <3>7. RunIsRecorded'
      BY <1>1, <2>1, <3>1, <3>2, <3>3 DEF ClaimInsert, ClaimInv, RunIsRecorded
    <3> QED  BY Zenon, <3>4, <3>5, <3>6, <3>7 DEF ClaimInv
  <2>2. CASE claim[s].st # "none"
    BY Zenon, <1>1, <2>2, QuietMove DEF ClaimInsert, procVars
  <2> QED  BY Zenon, <2>1, <2>2
<1>2. CASE ClaimSelect(s, a)
  <2>1. PICK to \in {"done", "ack", "takeover"} :
          Goto(s, a, to) /\ (to = "takeover" => claim[s].by # boot)
    BY Zenon, <1>2 DEF ClaimSelect, SelectVerdict
  <2>2. /\ pc'[<<s, a>>] = to
        /\ \A r \in Seqs, b \in Attempts :
              <<r, b>> # <<s, a>> => pc'[<<r, b>>] = pc[<<r, b>>]
    BY Zenon, <2>1, GotoMoves
  <2>3. /\ saw'[<<s, a>>] = claim[s].by
        /\ \A r \in Seqs, b \in Attempts :
              <<r, b>> # <<s, a>> => saw'[<<r, b>>] = saw[<<r, b>>]
        /\ UNCHANGED <<claim, wal, orphan, boot>>
    BY Zenon, <1>2 DEF ClaimSelect, SelectVerdict, procVars, TypeOK, Tasks
  <2>4. OneOwner'
    BY <2>2 DEF ClaimInv, OneOwner
  <2>5. OwnerHoldsClaim'
    BY <2>2, <2>3 DEF ClaimInv, OwnerHoldsClaim
  <2>6. AdoptsAnothers'
    BY <2>1, <2>2, <2>3 DEF ClaimInv, AdoptsAnothers
  <2>7. RunIsRecorded'
    BY <1>2, <2>2, <2>3 DEF ClaimSelect, SelectVerdict, ClaimInv, RunIsRecorded
  <2> QED  BY Zenon, <2>4, <2>5, <2>6, <2>7 DEF ClaimInv
<1>3. CASE TakeOver(s, a)
  <2>1. CASE claim[s].st = "claimed" /\ claim[s].by = saw[<<s, a>>]
    <3>1. /\ pc'[<<s, a>>] = "route"
          /\ \A r \in Seqs, b \in Attempts :
                <<r, b>> # <<s, a>> => pc'[<<r, b>>] = pc[<<r, b>>]
      BY Zenon, <1>3, <2>1, GotoMoves DEF TakeOver
    <3>2. /\ claim'[s].st = "claimed" /\ claim'[s].by = boot
          /\ \A r \in Seqs : r # s => claim'[r] = claim[r]
          /\ UNCHANGED <<saw, wal, orphan, boot>>
      BY <1>s, <1>3, <2>1 DEF TakeOver, procVars, TypeOK
    <3>3. \A b \in Attempts : pc[<<s, b>>] \notin OwnerPCs
      BY Zenon, <1>3, <2>1 DEF TakeOver, ClaimInv, AdoptsAnothers, OwnerHoldsClaim
    <3>4. OneOwner'
      BY <3>1, <3>3 DEF ClaimInv, OneOwner
    <3>5. OwnerHoldsClaim'
      BY <3>1, <3>2, <3>3 DEF ClaimInv, OwnerHoldsClaim
    <3>6. AdoptsAnothers'
      BY Zenon, <3>1, <3>2 DEF ClaimInv, AdoptsAnothers
    <3>7. RunIsRecorded'
      BY <2>1, <3>1, <3>2, <3>3 DEF ClaimInv, RunIsRecorded
    <3> QED  BY Zenon, <3>4, <3>5, <3>6, <3>7 DEF ClaimInv
  <2>2. CASE ~(claim[s].st = "claimed" /\ claim[s].by = saw[<<s, a>>])
    BY Zenon, <1>3, <2>2, QuietMove DEF TakeOver, procVars
  <2> QED  BY Zenon, <2>1, <2>2
<1>4. CASE ClaimError(s, a)
  BY Zenon, <1>4, QuietMove DEF ClaimError, procVars
<1>5. CASE Route(s, a)
  BY Zenon, <1>5, QuietMove DEF Route, GiveUp, procVars
<1>6. CASE LeavePause(s, a)
  BY Zenon, <1>6, QuietMove DEF LeavePause, GiveUp, procVars
<1>7. CASE LeaveSlot(s, a)
  BY Zenon, <1>7, QuietMove DEF LeaveSlot, GiveUp, procVars
<1>8. CASE RequeueHeld(s, a)
  BY Zenon, <1>8, QuietMove DEF RequeueHeld, procVars
<1>9. CASE RequeueFails(s, a)
  BY Zenon, <1>9, QuietMove DEF RequeueFails, procVars
<1>10. CASE FirstWalWrite(s, a)
  <2>1. /\ pc'[<<s, a>>] = "wal" /\ pc[<<s, a>>] = "run"
        /\ \A r \in Seqs, b \in Attempts :
              <<r, b>> # <<s, a>> => pc'[<<r, b>>] = pc[<<r, b>>]
    BY Zenon, <1>10, GotoMoves DEF FirstWalWrite
  <2>2. wal' = wal \cup {<<s, a>>} /\ UNCHANGED <<claim, saw, orphan, boot>>
    BY Zenon, <1>10 DEF FirstWalWrite, procVars
  <2>3. OneOwner' /\ AdoptsAnothers'
    <3>1. OneOwner /\ AdoptsAnothers
      BY Zenon DEF ClaimInv
    <3>2. \A r \in Seqs : \A b \in Attempts :
             /\ pc'[<<r, b>>] \in OwnerPCs => pc[<<r, b>>] \in OwnerPCs
             /\ pc'[<<r, b>>] = "takeover" => pc[<<r, b>>] = "takeover"
      <4> SUFFICES ASSUME NEW r \in Seqs, NEW b \in Attempts
                   PROVE  /\ pc'[<<r, b>>] \in OwnerPCs => pc[<<r, b>>] \in OwnerPCs
                          /\ pc'[<<r, b>>] = "takeover" => pc[<<r, b>>] = "takeover"
        BY Zenon
      <4>1. CASE <<r, b>> = <<s, a>>
        BY Zenon, <2>1, <4>1 DEF OwnerPCs
      <4>2. CASE <<r, b>> # <<s, a>>
        BY Zenon, <2>1, <4>2
      <4> QED  BY Zenon, <4>1, <4>2
    <3> QED  BY <2>2, <3>1, <3>2 DEF OneOwner, AdoptsAnothers
  <2>4. OwnerHoldsClaim'
    BY <2>1, <2>2 DEF ClaimInv, OwnerHoldsClaim
  <2>5. RunIsRecorded'
    BY <2>1, <2>2 DEF ClaimInv, RunIsRecorded
  <2> QED  BY Zenon, <2>3, <2>4, <2>5 DEF ClaimInv
<1>11. CASE TransientFailure(s, a)
  BY Zenon, <1>11, QuietMove DEF TransientFailure, procVars
<1>12. CASE PermanentFailure(s, a)
  BY Zenon, <1>12, QuietMove DEF PermanentFailure, GiveUp, procVars
<1>13. CASE SuspendedAtStart(s, a)
  BY Zenon, <1>13, QuietMove DEF SuspendedAtStart, GiveUp, procVars
<1>14. CASE DeadLetter(s, a)
  BY Zenon, <1>14, QuietMove DEF DeadLetter, procVars
<1>15. CASE MarkStarted(s, a)
  <2>1. /\ pc'[<<s, a>>] = "relack" /\ pc[<<s, a>>] = "wal"
        /\ \A r \in Seqs, b \in Attempts :
              <<r, b>> # <<s, a>> => pc'[<<r, b>>] = pc[<<r, b>>]
    BY Zenon, <1>15, GotoMoves DEF MarkStarted
  <2>2. claim[s].st = "claimed"
    BY Zenon, <2>1 DEF ClaimInv, OwnerHoldsClaim
  <2>3. /\ claim'[s].st = "started" /\ claim'[s].inv = a
        /\ \A r \in Seqs : r # s => claim'[r] = claim[r]
        /\ UNCHANGED <<saw, wal, orphan, boot>>
    BY Zenon, <1>s, <1>15, <2>2 DEF MarkStarted, procVars, TypeOK
  <2>4. \A b \in Attempts : b # a => pc[<<s, b>>] \notin OwnerPCs
    BY Zenon, <2>1 DEF ClaimInv, OneOwner
  <2>5. OneOwner' /\ AdoptsAnothers'
    BY <2>1, <2>3, <2>4 DEF ClaimInv, OneOwner, AdoptsAnothers
  <2>6. OwnerHoldsClaim'
    BY <2>1, <2>3, <2>4 DEF ClaimInv, OwnerHoldsClaim
  <2>7. RunIsRecorded'
    BY <2>1, <2>2, <2>3, <2>4 DEF ClaimInv, RunIsRecorded
  <2> QED  BY Zenon, <2>5, <2>6, <2>7 DEF ClaimInv
<1>16. CASE MarkFails(s, a)
  <2>1. /\ pc'[<<s, a>>] = "done"
        /\ \A r \in Seqs, b \in Attempts :
              <<r, b>> # <<s, a>> => pc'[<<r, b>>] = pc[<<r, b>>]
    BY Zenon, <1>16, GotoMoves DEF MarkFails
  <2>2. orphan' = orphan \cup {<<s, a>>} /\ UNCHANGED <<claim, saw, wal, boot>>
    BY Zenon, <1>16 DEF MarkFails, procVars
  <2>3. OneOwner' /\ AdoptsAnothers'
    BY Zenon, <2>1, <2>2 DEF ClaimInv, OneOwner, AdoptsAnothers
  <2>4. OwnerHoldsClaim'
    BY <2>1, <2>2 DEF ClaimInv, OwnerHoldsClaim
  <2>5. RunIsRecorded'
    BY <2>1, <2>2 DEF ClaimInv, RunIsRecorded
  <2> QED  BY Zenon, <2>3, <2>4, <2>5 DEF ClaimInv
<1>17. CASE ReleaseClaim(s, a)
  <2>1. /\ pc'[<<s, a>>] \in {"ack", "nak"} /\ pc[<<s, a>>] \in {"relack", "relnak"}
        /\ \A r \in Seqs, b \in Attempts :
              <<r, b>> # <<s, a>> => pc'[<<r, b>>] = pc[<<r, b>>]
    BY Zenon, <1>17, GotoMoves DEF ReleaseClaim
  <2>2. /\ claim[s].st # "claimed" => claim'[s] = claim[s]
        /\ \A r \in Seqs : r # s => claim'[r] = claim[r]
        /\ UNCHANGED <<saw, wal, orphan, boot>>
    BY Zenon, <1>17 DEF ReleaseClaim, Released, procVars, TypeOK
  <2>3. \A b \in Attempts : pc'[<<s, b>>] \notin OwnerPCs
    BY Zenon, <2>1 DEF ClaimInv, OneOwner
  <2>4. OneOwner' /\ AdoptsAnothers'
    BY <2>1, <2>2, <2>3 DEF ClaimInv, OneOwner, AdoptsAnothers
  <2>5. OwnerHoldsClaim'
    BY <2>1, <2>2, <2>3 DEF ClaimInv, OwnerHoldsClaim
  <2>6. \A b \in Attempts : pc[<<s, b>>] # "wal"
    BY Zenon, <2>1 DEF ClaimInv, OneOwner
  <2>7. RunIsRecorded'
    <3>1. RunIsRecorded
      BY Zenon DEF ClaimInv
    <3> SUFFICES ASSUME NEW r \in Seqs, NEW b \in Attempts, <<r, b>> \in wal \ orphan,
                        pc'[<<r, b>>] # "wal"
                 PROVE  claim'[r].st = "started" /\ claim'[r].inv = b
      BY Zenon, <2>2 DEF RunIsRecorded
    <3>2. pc[<<r, b>>] = "wal" \/ (claim[r].st = "started" /\ claim[r].inv = b)
      BY Zenon, <3>1 DEF RunIsRecorded
    <3>3. CASE r = s
      <4>1. claim[r].st = "started" /\ claim[r].inv = b
        BY Zenon, <2>6, <3>2, <3>3
      <4>2. claim[r].st # "claimed"
        BY Zenon, <4>1
      <4> QED  BY Zenon, <2>2, <3>3, <4>1, <4>2
    <3>4. CASE r # s
      <4>1. <<r, b>> # <<s, a>> /\ claim'[r] = claim[r]
        BY Zenon, <2>2, <3>4
      <4>2. pc[<<r, b>>] # "wal"
        BY Zenon, <2>1, <4>1
      <4> QED  BY Zenon, <3>2, <4>1, <4>2
    <3> QED  BY Zenon, <3>3, <3>4
  <2> QED  BY Zenon, <2>4, <2>5, <2>7 DEF ClaimInv
<1>18. CASE Ack(s, a)
  BY Zenon, <1>18, QuietMove DEF Ack, procVars
<1>19. CASE Nak(s, a)
  BY Zenon, <1>19, QuietMove DEF Nak, procVars
<1> QED
  BY Zenon, <1>1, <1>2, <1>3, <1>4, <1>5, <1>6, <1>7, <1>8, <1>9, <1>10, <1>11, <1>12, <1>13,
     <1>14, <1>15, <1>16, <1>17, <1>18, <1>19 DEF TaskStep

\* The next process starts with no owner and no attempted take-over.
LEMMA NextProcessClaimInv ==
    ASSUME TypeOK, ClaimInv, NextProcess,
           orphan' = orphan \cup {t \in Tasks : pc[t] = "wal"}
    PROVE  ClaimInv'
<1>1. \A s \in Seqs, a \in Attempts : <<s, a>> \in Tasks /\ pc'[<<s, a>>] \in {"idle", "done"}
  BY Zenon DEF NextProcess, Tasks
<1>2. OneOwner' /\ OwnerHoldsClaim' /\ AdoptsAnothers'
  BY Zenon, <1>1 DEF OneOwner, OwnerHoldsClaim, AdoptsAnothers, OwnerPCs
<1>3. RunIsRecorded'
  BY Zenon, <1>1 DEF NextProcess, ClaimInv, RunIsRecorded
<1> QED  BY Zenon, <1>2, <1>3 DEF ClaimInv

\* Every step of the system keeps the claim invariant.
LEMMA ClaimStep == Types /\ ClaimInv /\ [Next]_vars => ClaimInv'
<1> SUFFICES ASSUME Types, ClaimInv, [Next]_vars PROVE ClaimInv'
  BY Zenon
<1>t. TypeOK
  BY Zenon DEF Types
<1>1. CASE \E t \in Triggers : Publish(t)
  BY Zenon, <1>1, ClaimInvFrame DEF Publish, procVars
<1>2. CASE \E s \in Seqs : AckWaitExpires(s)
  BY Zenon, <1>2, ClaimInvFrame DEF AckWaitExpires, procVars
<1>3. ASSUME NEW s \in Seqs, Pull(s) PROVE ClaimInv'
  <2>1. deliv[s] + 1 \in Attempts
    BY <1>3, BoundsAssumption DEF Pull, Types, TypeOK, DeliveriesLeft, Attempts
  <2>2. pc[<<s, deliv[s] + 1>>] = "idle"
    BY <2>1, <1>t DEF Types, TypeOK, TaskPerDelivery
  <2>3. Goto(s, deliv[s] + 1, "insert")
    BY Zenon, <1>3 DEF Pull, Goto
  <2>4. UNCHANGED <<claim, saw, wal, orphan, boot>>
    BY Zenon, <1>3 DEF Pull
  <2> QED  BY <1>t, <2>1, <2>2, <2>3, <2>4, QuietMove DEF OwnerPCs
<1>4. CASE RequestDrain \/ LeaveLoop \/ SetStopping
  BY Zenon, <1>4, ClaimInvFrame DEF RequestDrain, LeaveLoop, SetStopping
<1>5. CASE Restart
  <2>1. {t \in Tasks : pc[t] = "wal"} = {}
    BY <1>5 DEF Restart, Live, Tasks
  <2> QED  BY Zenon, <1>5, <1>t, <2>1, NextProcessClaimInv DEF Restart
<1>6. CASE Crash
  BY Zenon, <1>6, <1>t, NextProcessClaimInv DEF Crash
<1>7. CASE \E s \in Seqs, a \in Attempts : TaskStep(s, a)
  BY Zenon, <1>7, <1>t, TaskClaimInv
<1>8. CASE UNCHANGED vars
  BY Zenon, <1>8, ClaimInvFrame DEF vars, procVars
<1> QED
  BY Zenon, <1>1, <1>2, <1>3, <1>4, <1>5, <1>6, <1>7, <1>8 DEF Next

\* The inductive invariant holds of every reachable state.
LEMMA Inductive == Spec => [](Types /\ ClaimInv)
<1>1. Init => Types /\ ClaimInv
  <2>1. Init => ClaimInv
    BY Zenon DEF Init, ClaimInv, OneOwner, OwnerHoldsClaim, AdoptsAnothers, RunIsRecorded,
           OwnerPCs, Tasks
  <2> QED  BY Zenon, <2>1, InitTypes DEF Types
<1> QED
  BY <1>1, TypesStep, ClaimStep, PTL DEF Spec

\* Two tasks never work on the same message at once: for any number of messages,
\* deliveries, process starts, crashes and store errors, the claim row is a lock.
THEOREM ClaimIsALock == Spec => []OneOwner
<1>1. ClaimInv => OneOwner
  BY Zenon DEF ClaimInv
<1> QED  BY <1>1, Inductive, PTL

\* A message starts at most one invocation besides those orphaned between their first
\* WAL write and the claim row's mark.
THEOREM AtMostOneMarkedRun == Spec => []OneMarkedRun
<1>1. ClaimInv => OneMarkedRun
  BY DEF ClaimInv, OneOwner, OwnerHoldsClaim, RunIsRecorded, OneMarkedRun, OwnerPCs
<1> QED  BY <1>1, Inductive, PTL

\* A started claim row never changes again: no release, take-over, insert or later mark
\* touches it.
THEOREM StartedRowIsPermanent == Spec => StartedIsForever
<1> DEFINE Keeps == \A s \in Seqs : claim[s].st = "started" => claim'[s] = claim[s]
<1>1. Types /\ ClaimInv /\ [Next]_vars => Keeps
  <2> SUFFICES ASSUME Types, ClaimInv, [Next]_vars, NEW r \in Seqs, claim[r].st = "started"
               PROVE  claim'[r] = claim[r]
    BY Zenon
  <2>1. CASE UNCHANGED claim
    BY Zenon, <2>1
  <2>2. ASSUME NEW s \in Seqs, NEW a \in Attempts, TaskStep(s, a), claim' # claim
        PROVE  claim'[r] = claim[r]
    <3>1. ClaimInsert(s, a) \/ TakeOver(s, a) \/ MarkStarted(s, a) \/ ReleaseClaim(s, a)
      BY Zenon, <2>2 DEF TaskStep, ClaimSelect, SelectVerdict, ClaimError, Route, LeavePause,
         LeaveSlot, GiveUp, RequeueHeld, RequeueFails, FirstWalWrite, TransientFailure,
         PermanentFailure, SuspendedAtStart, DeadLetter, MarkFails, Ack, Nak
    <3>2. CASE MarkStarted(s, a)
      <4>1. claim[s].st = "claimed"
        BY Zenon, <3>2 DEF MarkStarted, ClaimInv, OwnerHoldsClaim, OwnerPCs
      <4> QED  BY Zenon, <3>2, <4>1 DEF MarkStarted, Types, TypeOK
    <3>3. CASE ClaimInsert(s, a) \/ TakeOver(s, a)
      BY Zenon, <3>3 DEF ClaimInsert, TakeOver, Types, TypeOK
    <3>4. CASE ReleaseClaim(s, a)
      BY Zenon, <3>4 DEF ReleaseClaim, Released, Types, TypeOK
    <3> QED  BY Zenon, <3>1, <3>2, <3>3, <3>4
  <2>3. CASE claim' # claim
    <3>1. \E s \in Seqs, a \in Attempts : TaskStep(s, a)
      BY Zenon, <2>3 DEF Next, Publish, AckWaitExpires, Pull, RequestDrain, LeaveLoop,
         SetStopping,
         Restart, Crash, NextProcess, vars
    <3> QED  BY Zenon, <2>2, <2>3, <3>1
  <2> QED  BY Zenon, <2>1, <2>3
<1> QED  BY <1>1, Inductive, PTL DEF StartedIsForever, Spec

================================================================================
