--------------------------------- MODULE Cow --------------------------------
(***************************************************************************)
(* User memory under copy-on-write fork: kernel/vm.c (uvmcopy, uvmalloc,   *)
(* uvmunmap, mappages, freewalk, copyout), cowfault and the store fault of *)
(* kernel/trap.c, growproc, fork and freeproc of kernel/proc.c, exec of    *)
(* kernel/exec.c, on top of the reference-counted allocator Kalloc.        *)
(*                                                                         *)
(* A process runs one kernel operation at a time, on one CPU; the steps of *)
(* different processes interleave freely, as they do on several CPUs.  A   *)
(* step is one critical section of kmem.lock together with the changes to  *)
(* a page table that only the running process can see.                     *)
(*                                                                         *)
(* A slot is a place that keeps a page: an entry of an address space, the  *)
(* page-table pages of the space (PT: the pages allocproc or               *)
(* proc_pagetable allocates, DIR: the directory walk adds for the low user *)
(* region), or the local variables TMP of a kernel function: the page it   *)
(* has allocated or shared, with the flags that its entry will get.        *)
(***************************************************************************)
EXTENDS Kalloc, FiniteSets

CONSTANTS
  Procs,      (* slots of the process table                               *)
  InitProc,   (* the first process, which must not exit                   *)
  Spaces,     (* names for address spaces, one more than are in use       *)
  NoSpace,
  NVA,        (* user pages an address space may have (bounds p->sz)      *)
  SegEnds,    (* ends, in pages, of the segments of a program image       *)
  TextPages,  (* pages of an image that its ELF flags make read-only      *)
  ImageVal,   (* what exec loads from the file                            *)
  MaxRef,     (* bound: no fork while a page has this many references     *)
  Syscalls    (* what user code does in this instance                     *)

VARIABLES
  hold,   (* slot -> the page it keeps, or NoPage                         *)
  perm,   (* slot -> the flags of its page-table entry                    *)
  sz,     (* address space -> its size in pages                           *)
  as,     (* process -> p->pagetable                                      *)
  k       (* process -> where its kernel thread is, and its locals        *)

cowVars == <<hold, perm, sz, as, k>>
vars == <<kallocVars, cowVars>>

TMP == -3
PT  == -2
DIR == -1
VAs == 0..(NVA - 1)
Slots == (Spaces \X (PT..(NVA - 1))) \cup (Procs \X {TMP})

(* PTE_W, PTE_COW and PTE_U; valid entries are the slots that hold a page. *)
Flags == {"W", "COW", "U"}

(* The address 0, which cowfault refuses; it lies in page 0. *)
NullAddr == -1
PageOf(a) == IF a = NullAddr THEN 0 ELSE a

ImageSz == CHOOSE e \in SegEnds : \A f \in SegEnds : f <= e

ASSUME CowAssumption ==
  /\ NVA \in Nat \ {0}
  /\ InitProc \in Procs
  /\ Actors = Procs
  /\ NoSpace \notin Spaces
  /\ Spaces # {}
  /\ IsFiniteSet(Procs) /\ IsFiniteSet(Spaces)
  /\ SegEnds \subseteq 1..NVA /\ SegEnds # {}
  /\ ImageSz \in SegEnds /\ \A f \in SegEnds : f <= ImageSz
  /\ "exec" \in Syscalls => ImageSz >= 2
  /\ TextPages \subseteq VAs
  /\ ImageVal \in Vals
  /\ MaxRef \in Nat
  /\ Syscalls \subseteq {"store", "copyout", "fork", "exit", "sbrk", "exec"}

PCs == {"unused", "used", "user", "zombie", "panic", "cowfault", "cowcopy",
        "cowfree", "copyout", "uvmcopy", "uvmalloc", "mappages", "uvmunmap",
        "freewalk", "commit"}
Ops == {"none", "trap", "copyout", "fork", "sbrk", "exec", "execold", "wait"}

Idle == [pc |-> "user", op |-> "none", tgt |-> NoSpace, child |-> InitProc,
         cur |-> 0, lim |-> 0, base |-> 0, val |-> Zero]
Unused == [Idle EXCEPT !.pc = "unused"]

(* After userinit: one process whose single page holds initcode (uvmfirst) *)
InitSpace == CHOOSE s \in Spaces : TRUE

Init ==
  /\ num_ref_to_page = [pg \in Pages |-> IF pg > NPages - 3 THEN 1 ELSE 0]
  /\ freelist = FreeListBelow(NPages - 3)
  /\ limbo = [p \in Actors |-> NoPage]
  /\ content = [pg \in Pages |-> IF pg > NPages - 3 THEN Zero ELSE Junk]
  /\ hold = [sl \in Slots |->
               IF sl = <<InitSpace, PT>> THEN NPages
               ELSE IF sl = <<InitSpace, DIR>> THEN NPages - 1
               ELSE IF sl = <<InitSpace, 0>> THEN NPages - 2
               ELSE NoPage]
  /\ perm = [sl \in Slots |-> IF sl = <<InitSpace, 0>> THEN {"W", "U"} ELSE {}]
  /\ sz = [s \in Spaces |-> IF s = InitSpace THEN 1 ELSE 0]
  /\ as = [p \in Procs |-> IF p = InitProc THEN InitSpace ELSE NoSpace]
  /\ k = [p \in Procs |-> IF p = InitProc THEN Idle ELSE Unused]

-----------------------------------------------------------------------------
(* Guards and updates shared by the steps. *)

(* p's kernel thread is at this point and not inside kfree_original. *)
At(p, pc) == k[p].pc = pc /\ limbo[p] = NoPage

Calls(p, syscall) == At(p, "user") /\ syscall \in Syscalls

Put(sl, pg, flags) ==
  /\ hold' = [hold EXCEPT ![sl] = pg]
  /\ perm' = [perm EXCEPT ![sl] = flags]

Writable(s, va) == {"W", "U"} \subseteq perm[<<s, va>>]

(* A name for a fresh address space. *)
FreeSpaces == {s \in Spaces : hold[<<s, PT>>] = NoPage}
NewSpace == CHOOSE s \in FreeSpaces : TRUE

(* exit(): the process stops for good; init must not get here. *)
Exited(p) == [k[p] EXCEPT !.pc = IF p = InitProc THEN "panic" ELSE "zombie"]

-----------------------------------------------------------------------------
(* Stores by user code, and by the kernel on its behalf. *)

(* The hardware allows the store. *)
UserStore(p, va, v) ==
  /\ Calls(p, "store")
  /\ Writable(as[p], va)
  /\ content' = [content EXCEPT ![hold[<<as[p], va>>]] = v]
  /\ UNCHANGED <<num_ref_to_page, freelist, limbo, cowVars>>

(* scause 15: usertrap calls cowfault with the faulting address. *)
StoreFault(p, a) ==
  /\ Calls(p, "store")
  /\ ~Writable(as[p], PageOf(a))
  /\ k' = [k EXCEPT ![p] = [Idle EXCEPT !.pc = "cowfault", !.op = "trap", !.cur = a]]
  /\ UNCHANGED <<kallocVars, hold, perm, sz, as>>

(* Faulty variant: copyout does not break the sharing first. *)
CopyOutWithoutFault(p, va, v) ==
  /\ Calls(p, "copyout")
  /\ hold[<<as[p], va>>] # NoPage
  /\ k' = [k EXCEPT ![p] = [Idle EXCEPT !.pc = "copyout", !.op = "copyout", !.val = v,
                                        !.cur = va]]
  /\ UNCHANGED <<kallocVars, hold, perm, sz, as>>

(* A system call that copies a result to user memory: copyout rounds the   *)
(* address down first, so for page 0 cowfault sees the address 0.          *)
CopyOut(p, va, v) ==
  /\ Calls(p, "copyout")
  /\ k' = [k EXCEPT ![p] = [Idle EXCEPT !.pc = "cowfault", !.op = "copyout", !.val = v,
                                        !.cur = IF va = 0 THEN NullAddr ELSE va]]
  /\ UNCHANGED <<kallocVars, hold, perm, sz, as>>

(* The entry that cowfault looks at. *)
FaultSlot(p) == <<as[p], PageOf(k[p].cur)>>

(* cowfault returns -1: usertrap kills the process, copyout reports -1. *)
CowfaultFailed(p) ==
  k' = [k EXCEPT ![p] = IF @.op = "trap" THEN Exited(p) ELSE Idle]

(* cowfault returns 0: the instruction is retried, copyout goes on. *)
CowfaultReturned(p) ==
  k' = [k EXCEPT ![p] = IF @.op = "trap" THEN Idle ELSE [@ EXCEPT !.pc = "copyout"]]

CowfaultReject(p) ==
  /\ At(p, "cowfault")
  /\ \/ k[p].cur = NullAddr
     \/ hold[FaultSlot(p)] = NoPage
     \/ "U" \notin perm[FaultSlot(p)]
  /\ CowfaultFailed(p)
  /\ UNCHANGED <<kallocVars, hold, perm, sz, as>>

CowfaultOnCowPage(p) ==
  /\ At(p, "cowfault")
  /\ k[p].cur # NullAddr
  /\ hold[FaultSlot(p)] # NoPage
  /\ {"U", "COW"} \subseteq perm[FaultSlot(p)]

CowfaultIgnore(p) ==
  /\ At(p, "cowfault")
  /\ k[p].cur # NullAddr
  /\ hold[FaultSlot(p)] # NoPage
  /\ "U" \in perm[FaultSlot(p)]
  /\ "COW" \notin perm[FaultSlot(p)]
  /\ CowfaultReturned(p)
  /\ UNCHANGED <<kallocVars, hold, perm, sz, as>>

CowfaultNoMem(p) ==
  /\ CowfaultOnCowPage(p)
  /\ KallocFails
  /\ CowfaultFailed(p)
  /\ UNCHANGED <<kallocVars, hold, perm, sz, as>>

CowfaultAlloc(p) ==
  /\ CowfaultOnCowPage(p)
  /\ \E pg \in Pages : KallocReturns(pg, Junk) /\ Put(<<p, TMP>>, pg, {"W", "U"})
  /\ k' = [k EXCEPT ![p].pc = "cowcopy"]
  /\ UNCHANGED <<sz, as>>

(* Faulty variant: no memmove. *)
CowfaultNoCopy(p) ==
  /\ At(p, "cowcopy")
  /\ hold[FaultSlot(p)] # NoPage
  /\ hold' = [hold EXCEPT ![FaultSlot(p)] = hold[<<p, TMP>>],
                          ![<<p, TMP>>] = hold[FaultSlot(p)]]
  /\ perm' = [perm EXCEPT ![FaultSlot(p)] = perm[<<p, TMP>>], ![<<p, TMP>>] = {}]
  /\ k' = [k EXCEPT ![p].pc = "cowfree"]
  /\ UNCHANGED <<kallocVars, sz, as>>

(* memmove, then the entry takes the copy with every permission; the local *)
(* variable pa keeps the old page.                                         *)
CowfaultCopy(p) ==
  /\ At(p, "cowcopy")
  /\ hold[FaultSlot(p)] # NoPage
  /\ content' = [content EXCEPT ![hold[<<p, TMP>>]] = content[hold[FaultSlot(p)]]]
  /\ hold' = [hold EXCEPT ![FaultSlot(p)] = hold[<<p, TMP>>],
                          ![<<p, TMP>>] = hold[FaultSlot(p)]]
  /\ perm' = [perm EXCEPT ![FaultSlot(p)] = perm[<<p, TMP>>], ![<<p, TMP>>] = {}]
  /\ k' = [k EXCEPT ![p].pc = "cowfree"]
  /\ UNCHANGED <<num_ref_to_page, freelist, limbo, sz, as>>

(* Faulty variant: the reference to the old page is not dropped. *)
CowfaultNoFree(p) ==
  /\ At(p, "cowfree")
  /\ Put(<<p, TMP>>, NoPage, {})
  /\ CowfaultReturned(p)
  /\ UNCHANGED <<kallocVars, sz, as>>

CowfaultFree(p) ==
  /\ At(p, "cowfree")
  /\ Kfree(p, hold[<<p, TMP>>])
  /\ Put(<<p, TMP>>, NoPage, {})
  /\ CowfaultReturned(p)
  /\ UNCHANGED <<sz, as>>

(* The memmove of copyout, which goes by the physical address: it does not *)
(* look at PTE_W.                                                          *)
CopyOutMove(p) ==
  /\ At(p, "copyout")
  /\ content' = [content EXCEPT ![hold[FaultSlot(p)]] = k[p].val]
  /\ k' = [k EXCEPT ![p] = Idle]
  /\ UNCHANGED <<num_ref_to_page, freelist, limbo, hold, perm, sz, as>>

-----------------------------------------------------------------------------
(* fork: allocproc, uvmcopy, and freeproc when uvmcopy fails. *)

ForkAlloc(p, c) ==
  /\ Calls(p, "fork")
  /\ k[c].pc = "unused"
  /\ FreeSpaces # {}
  /\ \A pg \in Pages : num_ref_to_page[pg] < MaxRef
  /\ \E pg \in Pages : KallocReturns(pg, Zero) /\ Put(<<NewSpace, PT>>, pg, {})
  /\ k' = [k EXCEPT ![p] = [Idle EXCEPT !.pc = "uvmcopy", !.op = "fork", !.tgt = NewSpace,
                                        !.lim = sz[as[p]], !.child = c],
                    ![c] = [Unused EXCEPT !.pc = "used"]]
  /\ UNCHANGED <<sz, as>>

(* Faulty variant: only the child's entry loses PTE_W. *)
UvmcopyParentWritable(p) ==
  LET old   == <<as[p], k[p].cur>>
      flags == (perm[old] \ {"W"}) \cup {"COW"} IN
  /\ At(p, "uvmcopy")
  /\ k[p].cur < k[p].lim
  /\ hold[old] # NoPage
  /\ IncreaseNumRef(hold[old])
  /\ Put(<<p, TMP>>, hold[old], flags)
  /\ k' = [k EXCEPT ![p].pc = "mappages"]
  /\ UNCHANGED <<sz, as>>

(* One page of the parent becomes read-only and copy-on-write, and gets    *)
(* the reference of the entry that mappages is about to write.             *)
UvmcopyShare(p) ==
  LET old   == <<as[p], k[p].cur>>
      flags == (perm[old] \ {"W"}) \cup {"COW"} IN
  /\ At(p, "uvmcopy")
  /\ k[p].cur < k[p].lim
  /\ hold[old] # NoPage
  /\ IncreaseNumRef(hold[old])
  /\ hold' = [hold EXCEPT ![<<p, TMP>>] = hold[old]]
  /\ perm' = [perm EXCEPT ![old] = flags, ![<<p, TMP>>] = flags]
  /\ k' = [k EXCEPT ![p].pc = "mappages"]
  /\ UNCHANGED <<sz, as>>

(* uvmcopy is done: the child gets its size and becomes runnable. *)
ForkDone(p) ==
  /\ At(p, "uvmcopy")
  /\ k[p].cur = k[p].lim
  /\ sz' = [sz EXCEPT ![k[p].tgt] = k[p].lim]
  /\ as' = [as EXCEPT ![k[p].child] = k[p].tgt]
  /\ k' = [k EXCEPT ![p] = Idle, ![k[p].child] = Idle]
  /\ UNCHANGED <<kallocVars, hold, perm>>

(* mappages failed: the pages mapped so far are unmapped, page cur is not. *)
UvmcopyError(p) ==
  /\ At(p, "mappages")
  /\ k[p].op = "fork"
  /\ hold[<<k[p].tgt, DIR>>] = NoPage
  /\ KallocFails
  /\ Put(<<p, TMP>>, NoPage, {})
  /\ k' = [k EXCEPT ![p].pc = "uvmunmap", ![p].cur = 0, ![p].lim = k[p].cur]
  /\ UNCHANGED <<kallocVars, sz, as>>

-----------------------------------------------------------------------------
(* mappages: the directory page, then the entry. *)

MappagesDir(p) ==
  /\ At(p, "mappages")
  /\ hold[<<k[p].tgt, DIR>>] = NoPage
  /\ \E pg \in Pages : KallocReturns(pg, Zero) /\ Put(<<k[p].tgt, DIR>>, pg, {})
  /\ UNCHANGED <<sz, as, k>>

MappagesEntry(p) ==
  LET new == <<k[p].tgt, k[p].cur>> IN
  /\ At(p, "mappages")
  /\ hold[<<k[p].tgt, DIR>>] # NoPage
  /\ hold[new] = NoPage
  /\ hold' = [hold EXCEPT ![new] = hold[<<p, TMP>>], ![<<p, TMP>>] = NoPage]
  /\ perm' = [perm EXCEPT ![new] = perm[<<p, TMP>>], ![<<p, TMP>>] = {}]
  /\ k' = [k EXCEPT ![p].pc = IF k[p].op = "fork" THEN "uvmcopy" ELSE "uvmalloc",
                    ![p].cur = @ + 1]
  /\ UNCHANGED <<kallocVars, sz, as>>

-----------------------------------------------------------------------------
(* uvmalloc, for sbrk and for the segments of exec. *)

UvmallocMem(p) ==
  /\ At(p, "uvmalloc")
  /\ k[p].cur < k[p].lim
  /\ \E pg \in Pages :
       /\ KallocReturns(pg, IF k[p].op = "exec" THEN ImageVal ELSE Zero)
       /\ Put(<<p, TMP>>, pg,
              IF k[p].op = "exec" /\ k[p].cur \in TextPages THEN {"U"} ELSE {"W", "U"})
  /\ k' = [k EXCEPT ![p].pc = "mappages"]
  /\ UNCHANGED <<sz, as>>

(* No page for the memory: uvmdealloc takes back what this call mapped. *)
UvmallocNoMem(p) ==
  /\ At(p, "uvmalloc")
  /\ k[p].cur < k[p].lim
  /\ KallocFails
  /\ k' = [k EXCEPT ![p].pc = "uvmunmap", ![p].cur = k[p].base, ![p].lim = k[p].cur]
  /\ UNCHANGED <<kallocVars, hold, perm, sz, as>>

(* No page for the directory: the memory is freed, then uvmdealloc. *)
UvmallocNoDir(p) ==
  /\ At(p, "mappages")
  /\ k[p].op # "fork"
  /\ hold[<<k[p].tgt, DIR>>] = NoPage
  /\ KallocFails
  /\ Kfree(p, hold[<<p, TMP>>])
  /\ Put(<<p, TMP>>, NoPage, {})
  /\ k' = [k EXCEPT ![p].pc = "uvmunmap", ![p].cur = k[p].base, ![p].lim = k[p].cur]
  /\ UNCHANGED <<sz, as>>

(* The segment that starts at page n ends at page e. *)
Segment(n, e) == e > n /\ \A f \in SegEnds : f > n => e <= f

(* uvmalloc returns: sbrk stores p->sz, exec goes on with the next segment *)
(* or, after the stack, with the new image.                                *)
UvmallocDone(p) ==
  LET f == k[p] IN
  /\ At(p, "uvmalloc")
  /\ f.cur = f.lim
  /\ sz' = [sz EXCEPT ![f.tgt] = f.lim]
  /\ \/ f.op = "sbrk" /\ k' = [k EXCEPT ![p] = Idle]
     \/ f.op = "exec" /\ f.lim = ImageSz /\ k' = [k EXCEPT ![p].pc = "commit"]
     \/ /\ f.op = "exec"
        /\ \E e \in SegEnds :
             Segment(f.lim, e) /\ k' = [k EXCEPT ![p].base = f.lim, ![p].lim = e]
  /\ UNCHANGED <<kallocVars, hold, perm, as>>

-----------------------------------------------------------------------------
(* uvmunmap with do_free, and what its callers do when it returns. *)

(* Faulty variant: the loop does not advance. *)
UvmunmapSamePage(p) ==
  LET sl == <<k[p].tgt, k[p].cur>> IN
  /\ At(p, "uvmunmap")
  /\ k[p].cur < k[p].lim
  /\ hold[sl] # NoPage
  /\ Kfree(p, hold[sl])
  /\ Put(sl, NoPage, {})
  /\ UNCHANGED <<sz, as, k>>

(* kfree, then the entry is cleared. *)
UvmunmapPage(p) ==
  LET sl == <<k[p].tgt, k[p].cur>> IN
  /\ At(p, "uvmunmap")
  /\ k[p].cur < k[p].lim
  /\ hold[sl] # NoPage
  /\ Kfree(p, hold[sl])
  /\ Put(sl, NoPage, {})
  /\ k' = [k EXCEPT ![p].cur = @ + 1]
  /\ UNCHANGED <<sz, as>>

UvmunmapDone(p) ==
  LET f == k[p] IN
  /\ At(p, "uvmunmap")
  /\ f.cur = f.lim
  /\ \/ (* uvmdealloc of sbrk *)
        /\ f.op = "sbrk"
        /\ sz' = [sz EXCEPT ![f.tgt] = f.base]
        /\ k' = [k EXCEPT ![p] = Idle]
     \/ (* uvmdealloc of a failed segment: proc_freepagetable comes next *)
        /\ f.op = "exec" /\ f.base > 0
        /\ k' = [k EXCEPT ![p].cur = 0, ![p].lim = f.base, ![p].base = 0]
        /\ UNCHANGED sz
     \/ (* uvmfree, or the failed uvmcopy: the page table comes next *)
        /\ f.op # "sbrk" /\ (f.op = "exec" => f.base = 0)
        /\ k' = [k EXCEPT ![p].pc = "freewalk"]
        /\ UNCHANGED sz
  /\ UNCHANGED <<kallocVars, hold, perm, as>>

(* freewalk frees the directory below the root. *)
FreewalkDir(p) ==
  LET sl == <<k[p].tgt, DIR>> IN
  /\ At(p, "freewalk")
  /\ hold[sl] # NoPage
  /\ Kfree(p, hold[sl])
  /\ Put(sl, NoPage, {})
  /\ UNCHANGED <<sz, as, k>>

(* freewalk frees the root, and the caller returns: a failed fork and a    *)
(* reaped zombie give their process-table slot back.                       *)
FreewalkRoot(p) ==
  LET f  == k[p]
      sl == <<f.tgt, PT>> IN
  /\ At(p, "freewalk")
  /\ hold[<<f.tgt, DIR>>] = NoPage
  /\ hold[sl] # NoPage
  /\ Kfree(p, hold[sl])
  /\ Put(sl, NoPage, {})
  /\ sz' = [sz EXCEPT ![f.tgt] = 0]
  /\ \/ /\ f.op = "wait"
        /\ as' = [as EXCEPT ![p] = NoSpace]
        /\ k' = [k EXCEPT ![p] = Unused]
     \/ /\ f.op = "fork"
        /\ k' = [k EXCEPT ![p] = Idle, ![f.child] = Unused]
        /\ UNCHANGED as
     \/ /\ f.op \in {"exec", "execold"}
        /\ k' = [k EXCEPT ![p] = Idle]
        /\ UNCHANGED as

(* The second half of a kfree that dropped the last reference. *)
KfreePush(p) ==
  /\ KfreeOriginal(p)
  /\ UNCHANGED cowVars

-----------------------------------------------------------------------------
(* The other system calls that change user memory. *)

Grow(p, n) ==
  LET size == sz[as[p]] IN
  /\ Calls(p, "sbrk")
  /\ size + n <= NVA
  /\ k' = [k EXCEPT ![p] = [Idle EXCEPT !.pc = "uvmalloc", !.op = "sbrk", !.tgt = as[p],
                                        !.cur = size, !.base = size, !.lim = size + n]]
  /\ UNCHANGED <<kallocVars, hold, perm, sz, as>>

(* Whole pages, and page 0, which holds the code that makes the call, stays. *)
Shrink(p, n) ==
  LET size == sz[as[p]] IN
  /\ Calls(p, "sbrk")
  /\ n < size
  /\ k' = [k EXCEPT ![p] = [Idle EXCEPT !.pc = "uvmunmap", !.op = "sbrk", !.tgt = as[p],
                                        !.cur = size - n, !.base = size - n, !.lim = size]]
  /\ UNCHANGED <<kallocVars, hold, perm, sz, as>>

(* exec: proc_pagetable, then one uvmalloc per segment and for the stack. *)
ExecStart(p) ==
  /\ Calls(p, "exec")
  /\ FreeSpaces # {}
  /\ \E pg \in Pages : KallocReturns(pg, Zero) /\ Put(<<NewSpace, PT>>, pg, {})
  /\ \E e \in SegEnds :
       /\ Segment(0, e)
       /\ k' = [k EXCEPT ![p] = [Idle EXCEPT !.pc = "uvmalloc", !.op = "exec",
                                             !.tgt = NewSpace, !.lim = e]]
  /\ UNCHANGED <<sz, as>>

(* A segment that cannot be read (bad: in exec): the new table is freed. *)
ExecBad(p) ==
  /\ At(p, "uvmalloc")
  /\ k[p].op = "exec"
  /\ k[p].cur = k[p].base
  /\ k' = [k EXCEPT ![p].pc = "uvmunmap", ![p].cur = 0, ![p].lim = k[p].base, ![p].base = 0]
  /\ UNCHANGED <<kallocVars, hold, perm, sz, as>>

(* The arguments do not fit on the stack page: all of the new table goes. *)
ExecBadArgs(p) ==
  /\ At(p, "commit")
  /\ k' = [k EXCEPT ![p].pc = "uvmunmap", ![p].cur = 0, ![p].base = 0]
  /\ UNCHANGED <<kallocVars, hold, perm, sz, as>>

(* Faulty variant: the last page of the old image is left mapped. *)
ExecCommitShort(p) ==
  LET f == k[p] IN
  /\ At(p, "commit")
  /\ perm' = [perm EXCEPT ![<<f.tgt, ImageSz - 2>>] = @ \ {"U"}]
  /\ as' = [as EXCEPT ![p] = f.tgt]
  /\ k' = [k EXCEPT ![p] = [Idle EXCEPT !.pc = "uvmunmap", !.op = "execold",
                                        !.tgt = as[p], !.lim = sz[as[p]] - 1]]
  /\ UNCHANGED <<kallocVars, hold, sz>>

(* The guard page loses PTE_U, the arguments are on the stack page; the    *)
(* process switches to the new table and frees the old one.                *)
ExecCommit(p) ==
  LET f == k[p] IN
  /\ At(p, "commit")
  /\ perm' = [perm EXCEPT ![<<f.tgt, ImageSz - 2>>] = @ \ {"U"}]
  /\ as' = [as EXCEPT ![p] = f.tgt]
  /\ k' = [k EXCEPT ![p] = [Idle EXCEPT !.pc = "uvmunmap", !.op = "execold",
                                        !.tgt = as[p], !.lim = sz[as[p]]]]
  /\ UNCHANGED <<kallocVars, hold, sz>>

Exit(p) ==
  /\ Calls(p, "exit")
  /\ p # InitProc
  /\ k' = [k EXCEPT ![p] = Exited(p)]
  /\ UNCHANGED <<kallocVars, hold, perm, sz, as>>

(* Faulty variant: the last page of the zombie is left mapped. *)
ReapShort(p) ==
  /\ At(p, "zombie")
  /\ k' = [k EXCEPT ![p] = [Idle EXCEPT !.pc = "uvmunmap", !.op = "wait", !.tgt = as[p],
                                        !.lim = sz[as[p]] - 1]]
  /\ UNCHANGED <<kallocVars, hold, perm, sz, as>>

(* freeproc by the parent in wait.  The zombie itself never runs again, so *)
(* its own entry of k stands for the place the reaper has reached in it.   *)
Reap(p) ==
  /\ At(p, "zombie")
  /\ k' = [k EXCEPT ![p] = [Idle EXCEPT !.pc = "uvmunmap", !.op = "wait", !.tgt = as[p],
                                        !.lim = sz[as[p]]]]
  /\ UNCHANGED <<kallocVars, hold, perm, sz, as>>

-----------------------------------------------------------------------------
UserStep(p) ==
  \/ \E va \in VAs, v \in Vals : UserStore(p, va, v) \/ CopyOut(p, va, v)
  \/ \E a \in NullAddr..(NVA - 1) : StoreFault(p, a)
  \/ \E c \in Procs \ {p} : ForkAlloc(p, c)
  \/ \E n \in 1..NVA : Grow(p, n) \/ Shrink(p, n)
  \/ ExecStart(p)
  \/ Exit(p)

KernelStep(p) ==
  \/ CowfaultReject(p) \/ CowfaultIgnore(p) \/ CowfaultNoMem(p)
  \/ CowfaultAlloc(p) \/ CowfaultCopy(p) \/ CowfaultFree(p) \/ CopyOutMove(p)
  \/ UvmcopyShare(p) \/ UvmcopyError(p) \/ ForkDone(p)
  \/ MappagesDir(p) \/ MappagesEntry(p)
  \/ UvmallocMem(p) \/ UvmallocNoMem(p) \/ UvmallocNoDir(p) \/ UvmallocDone(p)
  \/ UvmunmapPage(p) \/ UvmunmapDone(p) \/ FreewalkDir(p) \/ FreewalkRoot(p)
  \/ ExecBad(p) \/ ExecBadArgs(p) \/ ExecCommit(p) \/ Reap(p) \/ KfreePush(p)

Next == \E p \in Procs : UserStep(p) \/ KernelStep(p)

Spec == Init /\ [][Next]_vars

(* A thread inside the kernel is scheduled again and again, and no loop    *)
(* above waits for another process.                                        *)
FairSpec == Spec /\ \A p \in Procs : WF_vars(KernelStep(p))

-----------------------------------------------------------------------------
(* Properties. *)

Frame == [pc : PCs, op : Ops, tgt : Spaces \cup {NoSpace}, child : Procs,
          cur : NullAddr..NVA, lim : 0..NVA, base : 0..NVA, val : Vals]

(* The variables stay within their types: in particular every page number  *)
(* in a page table or in the allocator is a page of RAM.                   *)
TypeOK ==
  /\ num_ref_to_page \in [Pages -> Nat]
  /\ freelist \in Seq(Pages)
  /\ limbo \in [Procs -> Pages \cup {NoPage}]
  /\ content \in [Pages -> Vals \cup {Junk}]
  /\ hold \in [Slots -> Pages \cup {NoPage}]
  /\ perm \in [Slots -> SUBSET Flags]
  /\ sz \in [Spaces -> 0..NVA]
  /\ as \in [Procs -> Spaces \cup {NoSpace}]
  /\ k \in [Procs -> Frame]

Holders(pg) == {sl \in Slots : hold[sl] = pg}

(* Every place that keeps a page has been counted in num_ref_to_page: a    *)
(* page is never freed under a page table that still maps it, and kfree    *)
(* never meets a count of zero (its panic).                                *)
RefCounted == \A pg \in Pages : num_ref_to_page[pg] >= Cardinality(Holders(pg))

(* The free list has no page twice and no page in use, also while kfree    *)
(* stands between its two critical sections; so kalloc's test for a        *)
(* referenced head of the list never fires.                                *)
FreePagesUnused ==
  /\ \A i, j \in DOMAIN freelist : i # j => freelist[i] # freelist[j]
  /\ \A i \in DOMAIN freelist : num_ref_to_page[freelist[i]] = 0
  /\ \A p \in Procs : limbo[p] # NoPage =>
       /\ num_ref_to_page[limbo[p]] = 0
       /\ \A i \in DOMAIN freelist : freelist[i] # limbo[p]
       /\ \A q \in Procs \ {p} : limbo[q] # limbo[p]

(* A page that a writable entry maps is kept nowhere else: no store of one *)
(* process can reach the memory of another.                                *)
WritableIsPrivate ==
  \A a, b \in Slots : a # b /\ hold[a] = hold[b] /\ hold[a] # NoPage => "W" \notin perm[a]

(* When freewalk runs, the leaves of the table have been unmapped: its     *)
(* panic("freewalk: leaf") cannot happen on any error path.                *)
NoLeafInFreewalk ==
  \A p \in Procs : k[p].pc = "freewalk" => \A va \in VAs : hold[<<k[p].tgt, va>>] = NoPage

(* The references to pg that belong to nobody. *)
Leaked(pg) == num_ref_to_page[pg] - Cardinality(Holders(pg))

(* Apart from the error path of uvmcopy, which does not drop the reference *)
(* that increase_num_ref has just added, no step loses or invents one: the *)
(* other error paths (no page for cowfault, for uvmalloc or for a          *)
(* directory, a bad image in exec) balance what was taken.                 *)
OnlyUvmcopyLeaks ==
  [][(\E p \in Procs : UvmcopyError(p)) \/ \A pg \in Pages : Leaked(pg)' = Leaked(pg)]_vars

(* In an instance without sbrk every space of the size of a program image  *)
(* has been loaded by exec or is a copy of one: its text is not writable.  *)
TextProtected ==
  \A p \in Procs : k[p].pc = "user" /\ sz[as[p]] = ImageSz =>
    \A va \in TextPages : ~Writable(as[p], va)

(* The kernel finishes what a process asked for: no operation can be stuck *)
(* half-way, whatever the other processes do and however little memory     *)
(* there is.                                                               *)
KernelReturns ==
  \A p \in Procs : (k[p].pc \notin {"unused", "user", "panic", "used"}) ~>
                     (k[p].pc \in {"unused", "user", "panic"} \/ k[p].pc = "zombie")

(* The memory that the program running as p sees. *)
Image(p) ==
  LET n == CASE k[p].pc \in {"unused", "used", "zombie", "panic"} -> 0
             [] k[p].op = "wait" -> 0
             [] k[p].op = "sbrk" /\ k[p].pc = "uvmunmap" -> k[p].base
             [] OTHER -> sz[as[p]]
  IN [i \in 1..n |-> content[hold[<<as[p], i - 1>>]]]

PM == INSTANCE PrivateMemory
        WITH MaxPages <- NVA, mem <- [p \in Procs |-> Image(p)],
             ProgramImage <- [i \in 1..ImageSz |-> ImageVal]

(* Sharing pages is invisible: the system implements private memories.  In *)
(* particular fork copies at one instant although uvmcopy takes many       *)
(* steps, a store or a copyout changes one memory only, sbrk adds zeroed   *)
(* pages, and exec goes from the old image to the complete new one in one  *)
(* step, or keeps the old one when it fails.                               *)
PrivateMemorySpec == PM!PrivateSpec
=============================================================================
