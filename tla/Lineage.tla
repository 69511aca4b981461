------------------------------ MODULE Lineage -------------------------------
(***************************************************************************)
(* What fork, exit and wait promise: a tree of processes in which every    *)
(* operation happens at one instant.  parentOf[q] = None when q does not   *)
(* exist.  exit hands all the children of a process to init in the instant *)
(* in which the process becomes a zombie, and only its parent, of that     *)
(* moment, removes a zombie.                                               *)
(***************************************************************************)
CONSTANTS Procs, InitProc, None

VARIABLES parentOf, zombies

lineageVars == <<parentOf, zombies>>

LineageInit ==
  /\ parentOf = [q \in Procs |-> IF q = InitProc THEN InitProc ELSE None]
  /\ zombies = {}

Running(q) == parentOf[q] # None /\ q \notin zombies

LFork(p, q) ==
  /\ Running(p)
  /\ parentOf[q] = None
  /\ parentOf' = [parentOf EXCEPT ![q] = p]
  /\ UNCHANGED zombies

LExit(p) ==
  /\ Running(p) /\ p # InitProc
  /\ parentOf' = [q \in Procs |-> IF parentOf[q] = p THEN InitProc ELSE parentOf[q]]
  /\ zombies' = zombies \cup {p}

LWait(p, q) ==
  /\ Running(p)
  /\ parentOf[q] = p /\ q \in zombies
  /\ parentOf' = [parentOf EXCEPT ![q] = None]
  /\ zombies' = zombies \ {q}

LineageNext == \E p, q \in Procs : LFork(p, q) \/ LExit(p) \/ LWait(p, q)

(* The tree of processes changes only by whole forks, exits and waits.     *)
LineageSpec == LineageInit /\ [][LineageNext]_lineageVars
=============================================================================
