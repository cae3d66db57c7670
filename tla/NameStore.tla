------------------------------- MODULE NameStore -------------------------------
(***************************************************************************)
(* What Repository (fq-store, repository.rs) promises its clients: a name  *)
(* has a history of contents, oldest first.  Storing content under a name  *)
(* adds a version unless it is the current one already; removing a name    *)
(* forgets its history; nothing else changes what a name holds.            *)
(***************************************************************************)
EXTENDS Sequences

CONSTANTS Names, Contents

VARIABLE history

Init == history = [n \in Names |-> <<>>]

Store(n, c) ==
    /\ history[n] = <<>> \/ history[n][Len(history[n])] # c
    /\ history' = [history EXCEPT ![n] = Append(@, c)]

Remove(n) == history' = [history EXCEPT ![n] = <<>>]

Next == \E n \in Names : Remove(n) \/ \E c \in Contents : Store(n, c)

Spec == Init /\ [][Next]_history
================================================================================
