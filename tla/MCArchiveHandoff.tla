---------------------------- MODULE MCArchiveHandoff ----------------------------
(***************************************************************************)
(* TLC instances of ArchiveHandoff.                                        *)
(***************************************************************************)
EXTENDS ArchiveHandoff

Plan(faults, drops, resumes, naps, gaps) ==
    [faults |-> faults, drops |-> drops, resumes |-> resumes, naps |-> naps, gaps |-> gaps,
     time |-> FALSE, steps |-> TRUE]

\* A drop and one error; a drop of parked work; a drop against a resume,
\* where the projection may not know the invocation.
Handoffs == {Plan(1, 1, 0, 0, 0), Plan(0, 1, 0, 1, 0), Plan(0, 1, 1, 0, 1)}

\* The roster, beside an invocation that is in flight for long.
Roll == {[Plan(0, 0, 0, 0, 0) EXCEPT !.time = TRUE, !.steps = FALSE]}

\* A drop of parked work only.
Parked == {Plan(0, 1, 0, 1, 0)}

Everything == Handoffs \cup Roll
================================================================================
