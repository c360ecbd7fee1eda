--------------------------- MODULE MCCommandQueue ---------------------------
(* Small instances of CommandQueue: threads and contexts are alike. *)
EXTENDS CommandQueue, TLC

Symmetry == Permutations(Threads) \cup Permutations(Contexts)
=============================================================================
