--------------------------------- MODULE MCLive ---------------------------------
(***************************************************************************)
(* What must eventually happen to an invocation and to the event log's     *)
(* projection, in one run: a behaviour is a behaviour of one of the two,   *)
(* and each property names the fairness it needs.                          *)
(***************************************************************************)
EXTENDS MCInvocationWal, Projection

VARIABLE part

LiveInit == part \in {"wal", "projection"} /\ Init /\ ProjInit

LiveNext ==
    /\ UNCHANGED part
    /\ IF part = "wal" THEN Next /\ UNCHANGED projVars ELSE ProjNext /\ UNCHANGED vars

LiveSpec == LiveInit /\ [][LiveNext]_<<part, vars, projVars>>

\* Histories with a version this build cannot read and a poisoned event.
ShortHistories == {<<"old", "poison", "plain">>, <<"plain", "poison", "plain">>}
================================================================================
