-------------------------------- MODULE Fifo --------------------------------
(***************************************************************************)
(* What a pipe promises: a bounded queue of bytes.  Bytes are read in the  *)
(* order in which they were written, each at most once; nothing is written *)
(* when no read end is left, and a closed end stays closed.                *)
(***************************************************************************)
EXTENDS Naturals, Sequences

CONSTANTS Bytes, Capacity

VARIABLES queue, ropen, wopen

fifoVars == <<queue, ropen, wopen>>

FInit == queue = <<>> /\ ropen = FALSE /\ wopen = FALSE

FNew ==
  /\ ~ropen /\ ~wopen
  /\ queue' = <<>> /\ ropen' = TRUE /\ wopen' = TRUE

FPut(b) ==
  /\ ropen /\ wopen /\ Len(queue) < Capacity
  /\ queue' = Append(queue, b)
  /\ UNCHANGED <<ropen, wopen>>

FGet(n) ==
  /\ ropen
  /\ n <= Len(queue)
  /\ queue' = SubSeq(queue, n + 1, Len(queue))
  /\ UNCHANGED <<ropen, wopen>>

(* Closing the second end throws away what is left. *)
FClose ==
  /\ ropen' \in {ropen, FALSE} /\ wopen' \in {wopen, FALSE}
  /\ queue' = IF ropen' \/ wopen' THEN queue ELSE <<>>

FNext ==
  \/ FNew \/ FClose
  \/ \E b \in Bytes : FPut(b)
  \/ \E n \in 1..Capacity : FGet(n)

FifoSpec == FInit /\ [][FNext]_fifoVars
=============================================================================
