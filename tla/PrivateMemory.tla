--------------------------- MODULE PrivateMemory ----------------------------
(***************************************************************************)
(* What user programs may rely on, whatever the kernel shares underneath:  *)
(* every process has a memory of its own.  fork gives the child a copy of  *)
(* the parent's memory at one instant; afterwards a store changes the      *)
(* memory of the process that executes it and no other.                    *)
(***************************************************************************)
EXTENDS Integers, Sequences

CONSTANTS
  Procs, Vals, Zero, MaxPages,
  ProgramImage  (* the memory of a program that exec has just loaded *)

VARIABLE mem  (* mem[p]: the pages of p, or <<>> when p is not running *)

PrivateInit ==
  \E p \in Procs : mem = [q \in Procs |-> IF q = p THEN <<Zero>> ELSE <<>>]

Store(p, i, v) ==
  /\ i \in DOMAIN mem[p]
  /\ mem' = [mem EXCEPT ![p][i] = v]

Fork(p, c) ==
  /\ mem[p] # <<>>
  /\ mem[c] = <<>>
  /\ mem' = [mem EXCEPT ![c] = mem[p]]

(* sbrk with a positive argument: zeroed pages are appended. *)
Grow(p, n) ==
  /\ mem[p] # <<>>
  /\ Len(mem[p]) + n <= MaxPages
  /\ mem' = [mem EXCEPT ![p] = @ \o [i \in 1..n |-> Zero]]

Shrink(p, n) ==
  /\ n < Len(mem[p])
  /\ mem' = [mem EXCEPT ![p] = SubSeq(@, 1, Len(@) - n)]

(* exec replaces the memory by the complete image of the program, and in   *)
(* no other way: one that fails leaves the memory as it was.               *)
Exec(p) ==
  /\ mem[p] # <<>>
  /\ mem' = [mem EXCEPT ![p] = ProgramImage]

Exit(p) ==
  /\ mem[p] # <<>>
  /\ mem' = [mem EXCEPT ![p] = <<>>]

PrivateNext ==
  \E p \in Procs :
    \/ \E i \in 1..MaxPages, v \in Vals : Store(p, i, v)
    \/ \E c \in Procs \ {p} : Fork(p, c)
    \/ \E n \in 1..MaxPages : Grow(p, n) \/ Shrink(p, n)
    \/ Exec(p)
    \/ Exit(p)

PrivateSpec == PrivateInit /\ [][PrivateNext]_mem
=============================================================================
