--------------------------- MODULE MCEventManager ---------------------------
(* Small instances of EventManager. *)
EXTENDS EventManager, TLC

Symmetry == Permutations(Threads) \cup Permutations(Records)
=============================================================================
