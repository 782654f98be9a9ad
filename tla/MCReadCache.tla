----------------------------- MODULE MCReadCache ----------------------------
(* ReadCache on small instances. *)
EXTENDS ReadCache, TLC

Symmetry == Permutations(Threads)
=============================================================================
