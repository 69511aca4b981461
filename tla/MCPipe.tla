------------------------------- MODULE MCPipe -------------------------------
(* Pipe for TLC: the processes other than the first are interchangeable.  *)
EXTENDS Pipe, TLC

Symmetry == Permutations(Procs \ {First})
=============================================================================
