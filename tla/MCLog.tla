-------------------------------- MODULE MCLog -------------------------------
(* Instances of Log for TLC: the processes and the blocks are alike. *)
EXTENDS Log

Symmetry == Permutations(Procs) \cup Permutations(Blocks)
=============================================================================
