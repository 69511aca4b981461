----------------------------- MODULE AtomicDisk -----------------------------
(***************************************************************************)
(* What the log promises to the file system: system calls change blocks in *)
(* memory; at some moments at which no system call is in progress all      *)
(* changes become stable at once; a crash falls back to the last such      *)
(* moment.  So a system call survives a crash entirely or not at all.      *)
(***************************************************************************)
CONSTANTS Procs, Blocks, Vals

VARIABLES
  view,    (* what a read of each block returns                            *)
  stable,  (* what it returns after a crash                                *)
  busy     (* processes between begin_op and end_op                        *)

adVars == <<view, stable, busy>>

AInit ==
  /\ view \in [Blocks -> Vals]
  /\ stable = view
  /\ busy = {}

ABegin(p) == p \notin busy /\ busy' = busy \cup {p} /\ UNCHANGED <<view, stable>>

AWrite(p, b, v) ==
  /\ p \in busy
  /\ view' = [view EXCEPT ![b] = v]
  /\ UNCHANGED <<stable, busy>>

AEnd(p) == p \in busy /\ busy' = busy \ {p} /\ UNCHANGED <<view, stable>>

ACommit == busy = {} /\ stable' = view /\ UNCHANGED <<view, busy>>

ACrash == view' = stable /\ busy' = {} /\ UNCHANGED stable

ANext ==
  \/ \E p \in Procs : ABegin(p) \/ AEnd(p) \/ \E b \in Blocks, v \in Vals : AWrite(p, b, v)
  \/ ACommit \/ ACrash

AtomicSpec == AInit /\ [][ANext]_adVars
=============================================================================
