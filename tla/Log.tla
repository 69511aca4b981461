--------------------------------- MODULE Log --------------------------------
(***************************************************************************)
(* The write-ahead log of kernel/log.c with the part of the buffer cache   *)
(* (kernel/bio.c) it relies on: a modified block stays in the cache only   *)
(* because log_write pins it.  The machine may crash at any step, also     *)
(* during recovery; a step writes at most one disk block, and the disk     *)
(* writes a block atomically.                                              *)
(*                                                                         *)
(* stage is where commit() or recover_from_log() is.  Only one thread is   *)
(* in either, so their loop index and stage are global.                    *)
(***************************************************************************)
EXTENDS Naturals, SequencesExt

CONSTANTS
  Procs,
  Blocks,       (* blocks of the file system outside the log              *)
  Vals,         (* what a block can contain                               *)
  NoBuf,        (* not in the buffer cache                                *)
  MAXOPBLOCKS,  (* what begin_op reserves for a system call               *)
  OpBlocks,     (* distinct blocks a system call of this instance writes  *)
  LOGSIZE,      (* length of the block list of struct logheader           *)
  NLog          (* sb->nlog: blocks of the log on disk, header included   *)

ASSUME LogAssumption ==
  /\ {MAXOPBLOCKS, OpBlocks, LOGSIZE, NLog} \subseteq Nat
  /\ OpBlocks <= MAXOPBLOCKS
  /\ NoBuf \notin Vals

None == "none"

VARIABLES
  home, slot, head,  (* on disk: the blocks, the log blocks, the header   *)
  cache,             (* the contents of the buffer of each block          *)
  pinned,            (* blocks that bpin keeps in the cache               *)
  held,              (* the block whose buffer a process has locked       *)
  wrote,             (* blocks a system call has written so far           *)
  lh,                (* log.lh: blocks of the transaction                 *)
  outstanding, committing,
  pc,                (* where each process is                             *)
  stage, tail

disk == <<home, slot, head>>
bufs == <<cache, pinned, held>>
vars == <<disk, bufs, wrote, lh, outstanding, committing, pc, stage, tail>>

Init ==
  /\ home \in [Blocks -> Vals]
  /\ slot = [i \in 1..LOGSIZE |-> CHOOSE v \in Vals : TRUE]
  /\ head = <<>>
  /\ cache = [b \in Blocks |-> NoBuf]
  /\ pinned = {}
  /\ held = [p \in Procs |-> None]
  /\ wrote = [p \in Procs |-> {}]
  /\ lh = <<>>
  /\ outstanding = 0
  /\ committing = FALSE
  /\ pc = [p \in Procs |-> "idle"]
  /\ stage = "boot"
  /\ tail = 1

-----------------------------------------------------------------------------
(* begin_op and end_op, each decision in one critical section of log.lock. *)

Up == stage \notin {"boot", "recover"}

(* Faulty variant: a commit in progress is not waited for. *)
MustWaitForSpaceOnly ==
  Len(lh) + (outstanding + 1) * MAXOPBLOCKS > LOGSIZE

MustWait ==
  committing \/ Len(lh) + (outstanding + 1) * MAXOPBLOCKS > LOGSIZE

BeginOp(p) ==
  /\ Up /\ pc[p] \in {"idle", "woken"}
  /\ ~MustWait
  /\ outstanding' = outstanding + 1
  /\ pc' = [pc EXCEPT ![p] = "op"]
  /\ wrote' = [wrote EXCEPT ![p] = {}]
  /\ UNCHANGED <<disk, bufs, lh, committing, stage, tail>>

BeginOpSleeps(p) ==
  /\ Up /\ pc[p] \in {"idle", "woken"}
  /\ MustWait
  /\ pc' = [pc EXCEPT ![p] = "asleep"]
  /\ UNCHANGED <<disk, bufs, wrote, lh, outstanding, committing, stage, tail>>

(* p goes to the given place; wakeup(&log) if the channel is to be woken. *)
Leave(p, at, wake) ==
  pc' = [q \in Procs |-> IF q = p THEN at
                         ELSE IF wake /\ pc[q] = "asleep" THEN "woken" ELSE pc[q]]

(* Faulty variant: no wakeup when a reservation is given back. *)
EndOpNoWakeup(p) ==
  /\ pc[p] = "op" /\ held[p] = None
  /\ outstanding' = outstanding - 1
  /\ IF outstanding = 1
     THEN /\ committing' = TRUE
          /\ stage' = IF lh # <<>> THEN "write_log" ELSE stage
          /\ tail' = 1
          /\ Leave(p, "commit", FALSE)
     ELSE Leave(p, "idle", FALSE) /\ UNCHANGED <<committing, stage, tail>>
  /\ UNCHANGED <<disk, bufs, wrote, lh>>

(* Faulty variant: nobody commits. *)
EndOpNoCommit(p) ==
  /\ pc[p] = "op" /\ held[p] = None
  /\ outstanding' = outstanding - 1
  /\ Leave(p, "idle", TRUE)
  /\ UNCHANGED <<disk, bufs, wrote, lh, committing, stage, tail>>

(* The last system call commits; commit() does nothing when lh is empty. *)
EndOp(p) ==
  /\ pc[p] = "op" /\ held[p] = None
  /\ outstanding' = outstanding - 1
  /\ IF outstanding = 1
     THEN /\ committing' = TRUE
          /\ stage' = IF lh # <<>> THEN "write_log" ELSE stage
          /\ tail' = 1
          /\ Leave(p, "commit", FALSE)
     ELSE Leave(p, "idle", TRUE) /\ UNCHANGED <<committing, stage, tail>>
  /\ UNCHANGED <<disk, bufs, wrote, lh>>

(* commit() has returned. *)
EndCommit(p) ==
  /\ pc[p] = "commit" /\ stage = "run"
  /\ committing' = FALSE
  /\ Leave(p, "idle", TRUE)
  /\ UNCHANGED <<disk, bufs, wrote, lh, outstanding, stage, tail>>

-----------------------------------------------------------------------------
(* What a system call does with a block. *)

(* bread: from the cache, or from the disk into a buffer. *)
Bread(p, b) ==
  /\ pc[p] = "op" /\ held[p] = None
  /\ b \notin wrote[p] => Cardinality(wrote[p]) < OpBlocks
  /\ \A q \in Procs : held[q] # b
  /\ held' = [held EXCEPT ![p] = b]
  /\ cache' = [cache EXCEPT ![b] = IF @ = NoBuf THEN home[b] ELSE @]
  /\ UNCHANGED <<disk, pinned, wrote, lh, outstanding, committing, pc, stage, tail>>

(* Faulty variant: no absorption. *)
LogWriteNoAbsorption(b) == lh' = Append(lh, b) /\ pinned' = pinned \cup {b}

(* log_write: a block is logged, and pinned, once.  With the log full the  *)
(* code panics ("too big a transaction"): the step cannot be taken.        *)
LogWrite(b) ==
  /\ Len(lh) < LOGSIZE /\ Len(lh) < NLog - 1
  /\ IF b \in ToSet(lh) THEN UNCHANGED <<lh, pinned>>
     ELSE lh' = Append(lh, b) /\ pinned' = pinned \cup {b}

(* The change to the locked buffer, log_write and brelse. *)
Modify(p, v) ==
  /\ pc[p] = "op" /\ held[p] # None
  /\ cache' = [cache EXCEPT ![held[p]] = v]
  /\ LogWrite(held[p])
  /\ wrote' = [wrote EXCEPT ![p] = @ \cup {held[p]}]
  /\ held' = [held EXCEPT ![p] = None]
  /\ UNCHANGED <<disk, outstanding, committing, pc, stage, tail>>

(* bget for some other block takes the buffer of b: no reference to it. *)
Recycle(b) ==
  /\ Up /\ cache[b] # NoBuf
  /\ b \notin pinned /\ \A p \in Procs : held[p] # b
  /\ cache' = [cache EXCEPT ![b] = NoBuf]
  /\ UNCHANGED <<disk, pinned, held, wrote, lh, outstanding, committing, pc, stage, tail>>

-----------------------------------------------------------------------------
(* commit(): one disk write per step. *)

WriteLog ==
  /\ stage = "write_log" /\ tail <= Len(lh)
  /\ slot' = [slot EXCEPT ![tail] = cache[lh[tail]]]
  /\ tail' = tail + 1
  /\ UNCHANGED <<home, head, bufs, wrote, lh, outstanding, committing, pc, stage>>

(* Faulty variant: the header goes out before the log blocks. *)
WriteHeadEarly ==
  /\ stage = "write_log"
  /\ head' = lh
  /\ stage' = "install" /\ tail' = 1
  /\ UNCHANGED <<home, slot, bufs, wrote, lh, outstanding, committing, pc>>

(* The commit point. *)
WriteHead ==
  /\ stage = "write_log" /\ tail > Len(lh)
  /\ head' = lh
  /\ stage' = "install" /\ tail' = 1
  /\ UNCHANGED <<home, slot, bufs, wrote, lh, outstanding, committing, pc>>

InstallTrans ==
  /\ stage \in {"install", "recover"} /\ tail <= Len(lh)
  /\ home' = [home EXCEPT ![lh[tail]] = slot[tail]]
  /\ cache' = [cache EXCEPT ![lh[tail]] = slot[tail]]
  /\ pinned' = IF stage = "install" THEN pinned \ {lh[tail]} ELSE pinned
  /\ tail' = tail + 1
  /\ UNCHANGED <<slot, head, held, wrote, lh, outstanding, committing, pc, stage>>

(* log.lh.n = 0; write_head(): the end of commit and of recovery. *)
ClearLog ==
  /\ stage \in {"install", "recover"} /\ tail > Len(lh)
  /\ lh' = <<>> /\ head' = <<>>
  /\ stage' = "run" /\ tail' = 1
  /\ UNCHANGED <<home, slot, bufs, wrote, outstanding, committing, pc>>

-----------------------------------------------------------------------------
(* A crash loses everything but the disk; initlog runs before any process  *)
(* uses the file system.                                                   *)

Crash ==
  /\ cache' = [b \in Blocks |-> NoBuf]
  /\ pinned' = {}
  /\ held' = [p \in Procs |-> None]
  /\ wrote' = [p \in Procs |-> {}]
  /\ lh' = <<>>
  /\ outstanding' = 0
  /\ committing' = FALSE
  /\ pc' = [p \in Procs |-> "idle"]
  /\ stage' = "boot" /\ tail' = 1
  /\ UNCHANGED disk

ReadHead ==
  /\ stage = "boot"
  /\ lh' = head
  /\ stage' = "recover" /\ tail' = 1
  /\ UNCHANGED <<disk, bufs, wrote, outstanding, committing, pc>>

-----------------------------------------------------------------------------
Recovery == ReadHead \/ InstallTrans \/ ClearLog
Commit == WriteLog \/ WriteHead

Next ==
  \/ \E p \in Procs : \/ BeginOp(p) \/ BeginOpSleeps(p) \/ EndOp(p) \/ EndCommit(p)
                      \/ \E b \in Blocks : Bread(p, b)
                      \/ \E v \in Vals : Modify(p, v)
  \/ \E b \in Blocks : Recycle(b)
  \/ Commit \/ Recovery \/ Crash

Spec == Init /\ [][Next]_vars

-----------------------------------------------------------------------------
(* Properties. *)

(* The types; a transaction lists no block twice, so absorption works. *)
TypeOK ==
  /\ home \in [Blocks -> Vals] /\ slot \in [1..LOGSIZE -> Vals]
  /\ head \in Seq(Blocks) /\ lh \in Seq(Blocks)
  /\ IsInjective(lh) /\ IsInjective(head)
  /\ cache \in [Blocks -> Vals \cup {NoBuf}]
  /\ pinned \subseteq Blocks
  /\ held \in [Procs -> Blocks \cup {None}]
  /\ wrote \in [Procs -> SUBSET Blocks]
  /\ outstanding \in 0..Cardinality(Procs)
  /\ committing \in BOOLEAN
  /\ pc \in [Procs -> {"idle", "op", "asleep", "woken", "commit"}]
  /\ stage \in {"boot", "recover", "run", "write_log", "install"}
  /\ tail \in 1..(LOGSIZE + 1)

(* What a crash would leave: recovery applies the logged blocks. *)
Recovered ==
  [b \in Blocks |-> IF b \in ToSet(head) THEN slot[CHOOSE i \in DOMAIN head : head[i] = b]
                    ELSE home[b]]

(* What a system call reads. *)
View ==
  IF Up THEN [b \in Blocks |-> IF cache[b] = NoBuf THEN home[b] ELSE cache[b]]
  ELSE Recovered

Atomic == INSTANCE AtomicDisk WITH
            view <- View, stable <- Recovered, busy <- {p \in Procs : pc[p] = "op"}

(* Whatever is interrupted by a crash, and however often recovery itself   *)
(* is, the disk shows the effects of whole system calls only, and a block  *)
(* that is read again after its buffer was recycled has its last value.    *)
AtomicDiskSpec == Atomic!AtomicSpec

(* When end_op has returned and no system call is in progress, everything  *)
(* written so far survives a crash.                                        *)
QuietIsStable ==
  (stage = "run" /\ \A p \in Procs : pc[p] \notin {"op", "commit"}) => View = Recovered

(* The panics of end_op ("log.committing") and log_write ("log_write       *)
(* outside of trans"): no system call is in progress during a commit.      *)
CommitIsExclusive ==
  /\ committing => outstanding = 0
  /\ outstanding = Cardinality({p \in Procs : pc[p] = "op"})

(* wakeup(&log) reaches everyone who could go on: nobody sleeps in         *)
(* begin_op while there is room and no commit.                             *)
SleepersMustWait == (\E p \in Procs : pc[p] = "asleep") => MustWait
=============================================================================
