----------------------------- MODULE BlockStore -----------------------------
(***************************************************************************)
(* What bread, bwrite and brelse promise together: a store of blocks, each *)
(* used by one process at a time, who has the contents that the disk has   *)
(* (current) except while it writes new ones.                              *)
(***************************************************************************)
CONSTANTS Procs, Blocks, NotUsing

VARIABLES use

SInit == use = [p \in Procs |-> NotUsing]

Get(p, blk) ==
  /\ use[p] = NotUsing
  /\ \A q \in Procs : use[q] # NotUsing => use[q].blk # blk
  /\ use' = [use EXCEPT ![p] = [blk |-> blk, current |-> TRUE, writing |-> FALSE]]

StartWrite(p) ==
  /\ use[p] # NotUsing /\ ~use[p].writing
  /\ use' = [use EXCEPT ![p].current = FALSE, ![p].writing = TRUE]

Persist(p) ==
  /\ use[p] # NotUsing /\ use[p].writing
  /\ use' = [use EXCEPT ![p].current = TRUE]

FinishWrite(p) ==
  /\ use[p] # NotUsing /\ use[p].writing /\ use[p].current
  /\ use' = [use EXCEPT ![p].writing = FALSE]

Put(p) ==
  /\ use[p] # NotUsing /\ ~use[p].writing
  /\ use' = [use EXCEPT ![p] = NotUsing]

SNext == \E p \in Procs :
  \/ \E blk \in Blocks : Get(p, blk)
  \/ StartWrite(p) \/ Persist(p) \/ FinishWrite(p) \/ Put(p)

BlockStoreSpec == SInit /\ [][SNext]_use
=============================================================================
