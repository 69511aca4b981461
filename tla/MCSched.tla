------------------------------- MODULE MCSched -------------------------------
EXTENDS Sched, TLC

(* Two of the processes were created in the same tick. *)
MCStartTicks == [p \in Procs |-> IF p = 1 THEN 1 ELSE 0]

(* With the ticket that a process starts with these make totals above, at *)
(* and below zero.                                                        *)
MCTickets == {2, 0 - 2}

CpuSymmetry == Permutations(CPUs)
=============================================================================
