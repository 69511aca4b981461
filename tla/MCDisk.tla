------------------------------- MODULE MCDisk -------------------------------
(* Disk for TLC: processes and blocks are interchangeable.                 *)
EXTENDS Disk, TLC

Symmetry == Permutations(Procs) \cup Permutations(Blocks)
=============================================================================
