-------------------------------- MODULE MCStore --------------------------------
(* The store with two objects that share a block. *)
EXTENDS StoreGc, TLC

CONSTANTS o1, o2, h1, h2

SharedBlock == o1 :> {h1} @@ o2 :> {h1, h2}

WriterSymmetry == Permutations(Writers)
================================================================================
