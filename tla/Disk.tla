-------------------------------- MODULE Disk --------------------------------
(***************************************************************************)
(* The buffer cache (kernel/bio.c) with its sleep locks                    *)
(* (kernel/sleeplock.c) on top of the virtio disk driver                   *)
(* (kernel/virtio_disk.c), the device and its interrupt.  Processes read a *)
(* block, perhaps change and write it, and release it.                     *)
(*                                                                         *)
(* A critical section of bcache.lock or of a sleep lock's spin lock is one *)
(* step.  So is one of vdisk_lock in a process; the interrupt handler      *)
(* holds vdisk_lock over several steps (vdisk_lock = Intr), because the    *)
(* device does not take the lock and completes requests meanwhile.         *)
(*                                                                         *)
(* A ring with its free-running 16-bit index is the queue of its entries   *)
(* that the other side has not taken: NUM divides 2^16, and no more than   *)
(* NUM / 3 requests are ever outstanding, so no entry is overwritten.      *)
(*                                                                         *)
(* Of the data of a buffer the model keeps whether they are what the disk  *)
(* holds for its block (current).                                          *)
(***************************************************************************)
EXTENDS Naturals, FiniteSetsExt, SequencesExt

CONSTANTS
  Procs, Blocks,
  NBUF,      (* buffers in the cache                                      *)
  NUM,       (* descriptors and entries of the two rings                  *)
  None       (* the null pointer, and nobody                              *)

ASSUME DiskAssumption ==
  /\ NBUF \in Nat \ {0} /\ NUM \in Nat /\ NUM >= 3
  /\ Cardinality(Procs) <= NBUF

Bufs == 1..NBUF
Desc == 0..(NUM - 1)
Intr == "intr"

VARIABLES
  buf,         (* struct buf without its place in the list                *)
  lru,         (* bcache.head.next first                                  *)
  free,        (* the descriptors marked in disk.free                     *)
  desc,        (* disk.desc: next, and whether VRING_DESC_F_NEXT is set   *)
  info,        (* disk.info[].b and the command in disk.ops               *)
  avail,       (* entries of the avail ring the device has not finished   *)
  used,        (* entries of the used ring from used_idx to used->idx     *)
  vdisk_lock,
  intr,        (* external: the device's interrupt line                   *)
  k            (* where each process is in its call, and the buffer       *)

vars == <<buf, lru, free, desc, info, avail, used, vdisk_lock, intr, k>>
diskVars == <<free, desc, info, avail, used, vdisk_lock, intr>>

NoInfo == [b |-> None, write |-> FALSE]
User == [at |-> "user", b |-> None, write |-> FALSE, head |-> None]

Init ==
  /\ buf = [b \in Bufs |-> [blockno |-> None, valid |-> FALSE, disk |-> FALSE, refcnt |-> 0,
                            locked |-> None, current |-> FALSE]]
  /\ lru = [i \in Bufs |-> NBUF + 1 - i]
  /\ free = Desc
  /\ desc = [d \in Desc |-> [next |-> 0, more |-> FALSE]]
  /\ info = [d \in Desc |-> NoInfo]
  /\ avail = {} /\ used = <<>>
  /\ vdisk_lock = None
  /\ intr = FALSE
  /\ k = [p \in Procs |-> User]

At(p, at) == k[p].at = at

(* wakeup: those at the place `asleep' (and, with a buffer, for that       *)
(* buffer) go back to the place `back'.                                    *)
Wake(kk, asleep, b, back) ==
  [p \in Procs |-> IF kk[p].at = asleep /\ b \in {None, kk[p].b} THEN [kk[p] EXCEPT !.at = back] ELSE kk[p]]

-----------------------------------------------------------------------------
(* bio.c and sleeplock.c. *)

Cached(blk) == {b \in Bufs : buf[b].blockno = blk}
Unused == {b \in Bufs : buf[b].refcnt = 0}

(* Recycle the least recently used buffer that nobody refers to. *)
Victim == lru[Max({i \in Bufs : lru[i] \in Unused})]

(* Faulty variant: the cache is not searched. *)
BgetAlwaysRecycles(p, blk) ==
  /\ At(p, "user") /\ Unused # {}
  /\ buf' = [buf EXCEPT ![Victim].blockno = blk, ![Victim].valid = FALSE, ![Victim].refcnt = 1,
                          ![Victim].current = FALSE]
  /\ k' = [k EXCEPT ![p].at = "acquiresleep", ![p].b = Victim]
  /\ UNCHANGED <<lru, diskVars>>

(* Faulty variant: the recycled buffer stays valid. *)
BgetKeepsValid(p, blk) ==
  /\ At(p, "user") /\ Cached(blk) \cup Unused # {}
  /\ LET b == IF Cached(blk) # {} THEN CHOOSE c \in Cached(blk) : TRUE ELSE Victim IN
     /\ buf' = [buf EXCEPT ![b].refcnt = @ + 1, ![b].blockno = blk, ![b].current = @ /\ Cached(blk) # {}]
     /\ k' = [k EXCEPT ![p].at = "acquiresleep", ![p].b = b]
  /\ UNCHANGED <<lru, diskVars>>

Bget(p, blk) ==
  /\ At(p, "user")
  /\ \/ \E b \in Cached(blk) :
          /\ buf' = [buf EXCEPT ![b].refcnt = @ + 1]
          /\ k' = [k EXCEPT ![p].at = "acquiresleep", ![p].b = b]
     \/ /\ Cached(blk) = {} /\ Unused # {}
        /\ buf' = [buf EXCEPT ![Victim].blockno = blk, ![Victim].valid = FALSE, ![Victim].refcnt = 1,
                                ![Victim].current = FALSE]
        /\ k' = [k EXCEPT ![p].at = "acquiresleep", ![p].b = Victim]
  /\ UNCHANGED <<lru, diskVars>>

(* acquiresleep, and what bread does next. *)
Acquiresleep(p) ==
  LET b == k[p].b IN
  /\ At(p, "acquiresleep")
  /\ \/ /\ buf[b].locked # None
        /\ k' = [k EXCEPT ![p].at = "lockasleep"]
        /\ UNCHANGED buf
     \/ /\ buf[b].locked = None
        /\ buf' = [buf EXCEPT ![b].locked = p]
        /\ k' = [k EXCEPT ![p].at = IF buf[b].valid THEN "holds" ELSE "rw", ![p].write = FALSE]
  /\ UNCHANGED <<lru, diskVars>>

(* The holder changes the data and calls bwrite. *)
Bwrite(p) ==
  /\ At(p, "holds")
  /\ buf' = [buf EXCEPT ![k[p].b].current = FALSE]
  /\ k' = [k EXCEPT ![p].at = "rw", ![p].write = TRUE]
  /\ UNCHANGED <<lru, diskVars>>

(* brelse: first releasesleep. *)
Releasesleep(p) ==
  LET b == k[p].b IN
  /\ At(p, "holds")
  /\ buf' = [buf EXCEPT ![b].locked = None]
  /\ k' = Wake([k EXCEPT ![p].at = "brelse"], "lockasleep", b, "acquiresleep")
  /\ UNCHANGED <<lru, diskVars>>

(* Faulty variant: the buffer is linked at the head but not unlinked. *)
BrelseNotUnlinked(p) ==
  LET b == k[p].b IN
  /\ At(p, "brelse")
  /\ buf' = [buf EXCEPT ![b].refcnt = @ - 1]
  /\ lru' = IF buf[b].refcnt = 1 THEN <<b>> \o lru ELSE lru
  /\ k' = [k EXCEPT ![p] = User]
  /\ UNCHANGED diskVars

(* Then, in another critical section, the reference and the list. *)
Brelse(p) ==
  LET b == k[p].b IN
  /\ At(p, "brelse")
  /\ buf' = [buf EXCEPT ![b].refcnt = @ - 1]
  /\ lru' = IF buf[b].refcnt = 1 THEN <<b>> \o Remove(lru, b) ELSE lru
  /\ k' = [k EXCEPT ![p] = User]
  /\ UNCHANGED diskVars

-----------------------------------------------------------------------------
(* virtio_disk_rw. *)

(* alloc_desc takes the lowest free descriptor. *)
Nth(n) == CHOOSE d \in free : Cardinality({e \in free : e < d}) = n - 1

(* alloc3_desc fails: it gives back what it took, which wakes the others   *)
(* who wait for descriptors, and the caller sleeps.                        *)
AllocFails(p) ==
  /\ At(p, "rw") /\ vdisk_lock = None
  /\ Cardinality(free) < 3
  /\ k' = [IF free = {} THEN k ELSE Wake(k, "descasleep", None, "rw") EXCEPT ![p].at = "descasleep"]
  /\ UNCHANGED <<buf, lru, diskVars>>

(* Three descriptors are formatted, the head goes to the avail ring, and   *)
(* the caller sleeps until b->disk is cleared.                             *)
Submit(p) ==
  LET b == k[p].b  head == Nth(1) IN
  /\ At(p, "rw") /\ vdisk_lock = None
  /\ Cardinality(free) >= 3
  /\ free' = free \ {head, Nth(2), Nth(3)}
  /\ desc' = [desc EXCEPT ![head] = [next |-> Nth(2), more |-> TRUE],
                          ![Nth(2)] = [next |-> Nth(3), more |-> TRUE],
                          ![Nth(3)] = [next |-> 0, more |-> FALSE]]
  /\ info' = [info EXCEPT ![head] = [b |-> b, write |-> k[p].write]]
  /\ avail' = avail \cup {head}
  /\ buf' = [buf EXCEPT ![b].disk = TRUE]
  /\ k' = [k EXCEPT ![p].at = "diskasleep", ![p].head = head]
  /\ UNCHANGED <<lru, used, vdisk_lock, intr>>

(* What free_chain frees. *)
Chain(head) ==
  LET second == desc[head].next IN
  {head} \cup (IF ~desc[head].more THEN {}
              ELSE {second} \cup (IF ~desc[second].more THEN {} ELSE {desc[second].next}))

(* Faulty variant: only the head of the chain is freed. *)
FinishFreesHead(p) ==
  LET b == k[p].b IN
  /\ At(p, "diskwoken") /\ vdisk_lock = None
  /\ free' = free \cup {k[p].head}
  /\ info' = [info EXCEPT ![k[p].head] = NoInfo]
  /\ buf' = [buf EXCEPT ![b].valid = TRUE]
  /\ k' = Wake([k EXCEPT ![p].at = "holds", ![p].head = None, ![p].write = FALSE], "descasleep", None, "rw")
  /\ UNCHANGED <<lru, desc, avail, used, vdisk_lock, intr>>

(* The request is done: free_chain, and bread sets b->valid.  A bwrite has *)
(* a valid buffer already.                                                 *)
Finish(p) ==
  LET b == k[p].b IN
  /\ At(p, "diskwoken") /\ vdisk_lock = None
  /\ IF buf[b].disk
     THEN /\ k' = [k EXCEPT ![p].at = "diskasleep"]
          /\ UNCHANGED <<free, desc, info, buf>>
     ELSE /\ free' = free \cup Chain(k[p].head)
          /\ desc' = [d \in Desc |-> IF d \in Chain(k[p].head) THEN [next |-> 0, more |-> FALSE] ELSE desc[d]]
          /\ info' = [info EXCEPT ![k[p].head] = NoInfo]
          /\ buf' = [buf EXCEPT ![b].valid = TRUE]
          /\ k' = Wake([k EXCEPT ![p].at = "holds", ![p].head = None, ![p].write = FALSE],
                       "descasleep", None, "rw")
  /\ UNCHANGED <<lru, avail, used, vdisk_lock, intr>>

-----------------------------------------------------------------------------
(* virtio_disk_intr.  The acknowledgement comes before the used ring is    *)
(* looked at.                                                              *)

IntrAck ==
  /\ intr /\ vdisk_lock = None
  /\ vdisk_lock' = Intr
  /\ intr' = FALSE
  /\ UNCHANGED <<buf, lru, free, desc, info, avail, used, k>>

(* Faulty variant: the completed process is not woken. *)
IntrEntryNoWakeup ==
  LET b == info[Head(used)].b IN
  /\ vdisk_lock = Intr /\ used # <<>>
  /\ buf' = [buf EXCEPT ![b].disk = FALSE]
  /\ used' = Tail(used)
  /\ UNCHANGED <<lru, free, desc, info, avail, vdisk_lock, intr, k>>

IntrEntry ==
  LET b == info[Head(used)].b IN
  /\ vdisk_lock = Intr /\ used # <<>>
  /\ buf' = [buf EXCEPT ![b].disk = FALSE]
  /\ k' = Wake(k, "diskasleep", b, "diskwoken")
  /\ used' = Tail(used)
  /\ UNCHANGED <<lru, free, desc, info, avail, vdisk_lock, intr>>

(* Faulty variant: the handler may stop before the used ring is empty. *)
IntrDoneEarly ==
  /\ vdisk_lock = Intr
  /\ vdisk_lock' = None
  /\ UNCHANGED <<buf, lru, free, desc, info, avail, used, intr, k>>

IntrDone ==
  /\ vdisk_lock = Intr /\ used = <<>>
  /\ vdisk_lock' = None
  /\ UNCHANGED <<buf, lru, free, desc, info, avail, used, intr, k>>

(* External: the device finishes the requests in any order. *)
DeviceComplete(head) ==
  LET b == info[head].b IN
  /\ head \in avail
  /\ buf' = [c \in Bufs |->
               IF c = b THEN [buf[c] EXCEPT !.current = TRUE]
               ELSE IF info[head].write /\ buf[c].blockno = buf[b].blockno THEN [buf[c] EXCEPT !.current = FALSE]
               ELSE buf[c]]
  /\ used' = Append(used, head)
  /\ avail' = avail \ {head}
  /\ intr' = TRUE
  /\ UNCHANGED <<lru, free, desc, info, vdisk_lock, k>>

-----------------------------------------------------------------------------
Next ==
  \/ \E p \in Procs :
       \/ \E blk \in Blocks : Bget(p, blk)
       \/ Bwrite(p) \/ Acquiresleep(p) \/ Releasesleep(p) \/ Brelse(p)
       \/ AllocFails(p) \/ Submit(p) \/ Finish(p)
  \/ IntrAck \/ IntrEntry \/ IntrDone
  \/ \E head \in Desc : DeviceComplete(head)

Spec == Init /\ [][Next]_vars

-----------------------------------------------------------------------------
(* Properties. *)

(* The types of the buffers, descriptors and rings; the LRU list is a      *)
(* permutation of the buffers, and the rings hold no more than NUM heads.  *)
TypeOK ==
  /\ buf \in [Bufs -> [blockno : Blocks \cup {None}, valid : BOOLEAN, disk : BOOLEAN,
                       refcnt : 0..Cardinality(Procs), locked : Procs \cup {None}, current : BOOLEAN]]
  /\ lru \in [Bufs -> Bufs] /\ \A i, j \in Bufs : lru[i] = lru[j] => i = j
  /\ free \subseteq Desc
  /\ desc \in [Desc -> [next : Desc, more : BOOLEAN]]
  /\ info \in [Desc -> [b : Bufs \cup {None}, write : BOOLEAN]]
  /\ avail \subseteq Desc /\ used \in Seq(Desc) /\ Cardinality(avail) + Len(used) <= NUM
  /\ vdisk_lock \in {None, Intr}
  /\ intr \in BOOLEAN
  /\ k \in [Procs -> [at : {"user", "acquiresleep", "lockasleep", "holds", "brelse", "rw",
                            "descasleep", "diskasleep", "diskwoken"},
                      b : Bufs \cup {None}, write : BOOLEAN, head : Desc \cup {None}]]

(* Every block has at most one buffer, and the buffers' reference counts   *)
(* count the processes that got them from bget: a buffer is never recycled *)
(* under a process that waits for its lock.                                *)
OneCopyPerBlock ==
  /\ \A b, c \in Bufs : buf[b].blockno = buf[c].blockno /\ buf[b].blockno # None => b = c
  /\ \A b \in Bufs : buf[b].refcnt = Cardinality({p \in Procs : k[p].b = b})

InFlight == {p \in Procs : k[p].at \in {"diskasleep", "diskwoken"}}

(* Every descriptor is either free or in the chain of exactly one request, *)
(* and every chain is three descriptors long.  This is what keeps          *)
(* free_desc from panicking and the device from following a chain that is  *)
(* being reused.                                                           *)
DescriptorsConserved ==
  /\ \A p \in InFlight : Cardinality(Chain(k[p].head)) = 3 /\ info[k[p].head].b = k[p].b
  /\ \A p, q \in InFlight : p # q => Chain(k[p].head) \cap Chain(k[q].head) = {}
  /\ free = Desc \ UNION {Chain(k[p].head) : p \in InFlight}

(* A process sleeps only while what it waits for has not happened: a       *)
(* locked buffer, fewer than three descriptors, a request the driver has   *)
(* not seen completed.                                                     *)
SleepersMustWait ==
  \A p \in Procs :
    /\ At(p, "lockasleep") => buf[k[p].b].locked # None
    /\ At(p, "descasleep") => Cardinality(free) < 3
    /\ At(p, "diskasleep") => buf[k[p].b].disk

(* A completion in the used ring that the driver has not processed is      *)
(* never left without an interrupt to process it, however the device's     *)
(* writes and the handler's loop interleave.                               *)
NoLostCompletion == used # <<>> => intr \/ vdisk_lock = Intr

(* Who uses which block, as the callers of bread see it. *)
Using(p) == k[p].at = "holds" \/ k[p].write

S == INSTANCE BlockStore WITH
  NotUsing <- None,
  use <- [p \in Procs |->
            IF Using(p) THEN [blk |-> buf[k[p].b].blockno, current |-> buf[k[p].b].current, writing |-> k[p].write]
            ELSE None]

(* The cache, its locks and the driver give each block to one process at a *)
(* time with its latest contents, and bwrite returns when the disk has the *)
(* data.                                                                   *)
BlocksAreStored == S!BlockStoreSpec
=============================================================================
