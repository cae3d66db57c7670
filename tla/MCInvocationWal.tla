---------------------------- MODULE MCInvocationWal ----------------------------
(***************************************************************************)
(* Instances of InvocationWal: which turns the model takes and what a call *)
(* may cost.                                                               *)
(***************************************************************************)
EXTENDS InvocationWal

WalTurn(calls, outcome, cut) == [calls |-> calls, outcome |-> outcome, cut |-> cut]

\* One call, two calls, the outcome.
BatchTurns == {WalTurn(2, FALSE, FALSE), WalTurn(0, TRUE, FALSE)}
CallTurns  == {WalTurn(1, FALSE, FALSE), WalTurn(0, TRUE, FALSE)}
MixedTurns == BatchTurns \cup {WalTurn(1, FALSE, FALSE), WalTurn(0, FALSE, TRUE)}

================================================================================
