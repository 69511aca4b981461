------------------------------ MODULE CowTypes ------------------------------
(***************************************************************************)
(* Proof, for any number of processes, pages and address spaces, that the  *)
(* copy-on-write memory of Cow keeps its types.  TypeOK alone is not       *)
(* inductive: that uvmalloc's back-out stays within the table needs the    *)
(* bounds of its loop, that kfree gets a page needs the local variable to  *)
(* hold one.  ThreadOK says so for every place a kernel thread can be at.  *)
(***************************************************************************)
EXTENDS Cow, TLAPS

-----------------------------------------------------------------------------
(* The type invariant in three parts, and its strengthening ThreadOK.      *)

AllocOK ==
  /\ num_ref_to_page \in [Pages -> Nat]
  /\ freelist \in Seq(Pages)
  /\ limbo \in [Procs -> Pages \cup {NoPage}]
  /\ content \in [Pages -> Vals \cup {Junk}]

TableOK ==
  /\ hold \in [Slots -> Pages \cup {NoPage}]
  /\ perm \in [Slots -> SUBSET Flags]
  /\ sz \in [Spaces -> 0..NVA]
  /\ as \in [Procs -> Spaces \cup {NoSpace}]

(* A thread inside the kernel works on an existing address space, within   *)
(* its bounds, and its local variable tmp holds a page when the code is    *)
(* about to use it.                                                        *)
ThreadOK(f, space, tmp) ==
  /\ f.pc \notin {"unused", "used"} => space \in Spaces
  /\ f.pc \in {"uvmcopy", "uvmalloc", "mappages", "uvmunmap", "freewalk", "commit"}
       => f.tgt \in Spaces
  /\ f.pc \in {"cowfault", "cowcopy", "cowfree", "copyout"} => f.cur < NVA
  /\ f.pc \in {"uvmcopy", "uvmalloc", "uvmunmap"} => f.cur >= 0 /\ f.cur <= f.lim
  /\ f.pc = "mappages" => f.cur >= 0 /\ f.cur < f.lim
  /\ f.pc \in {"uvmcopy", "uvmalloc", "mappages"} => f.base <= f.cur
  /\ f.pc \in {"cowcopy", "cowfree", "mappages"} => tmp # NoPage

ThreadsOK ==
  /\ k \in [Procs -> Frame]
  /\ \A p \in Procs : ThreadOK(k[p], as[p], hold[<<p, TMP>>])

Types == AllocOK /\ TableOK /\ ThreadsOK

LEMMA TypesImplyTypeOK == Types => TypeOK
  BY ZenonT(60) DEF Types, AllocOK, TableOK, ThreadsOK, TypeOK

-----------------------------------------------------------------------------
(* Facts about the constants, the slots and the frames. *)

LEMMA Constants ==
  /\ NVA \in Nat /\ NVA # 0 /\ InitProc \in Procs /\ NoSpace \notin Spaces
  /\ Zero \in Vals /\ ImageVal \in Vals /\ SegEnds \subseteq 1..NVA /\ Actors = Procs
  /\ NPages \in Nat /\ NPages >= 3
  BY CowAssumption, ValsAssumption, NPagesAssumption

LEMMA SlotFacts ==
  /\ \A s \in Spaces : <<s, PT>> \in Slots /\ <<s, DIR>> \in Slots
  /\ \A s \in Spaces, va \in VAs : <<s, va>> \in Slots
  /\ \A p \in Procs : <<p, TMP>> \in Slots
  BY Constants DEF Slots, PT, DIR, TMP, VAs

LEMMA TmpIsNoEntry ==
  ASSUME NEW p, NEW s
  PROVE  /\ <<p, TMP>> # <<s, PT>> /\ <<p, TMP>> # <<s, DIR>>
         /\ \A va \in VAs : <<p, TMP>> # <<s, va>>
  BY Constants DEF PT, DIR, TMP, VAs

LEMMA IdleFrame ==
  /\ Idle \in Frame /\ Unused \in Frame
  /\ Idle.pc = "user" /\ Idle.op = "none" /\ Idle.cur = 0 /\ Idle.lim = 0 /\ Idle.base = 0
  /\ Unused.pc = "unused"
  BY Constants DEF Idle, Unused, Frame, PCs, Ops, NullAddr

(* An idle or unused thread needs no local variables. *)
LEMMA IdleOK ==
  ASSUME NEW s, NEW tmp
  PROVE  ThreadOK(Unused, s, tmp) /\ (s \in Spaces => ThreadOK(Idle, s, tmp))
  BY IdleFrame DEF ThreadOK

LEMMA FrameNumbers ==
  ASSUME NEW f \in Frame
  PROVE  /\ f.cur \in Int /\ f.lim \in Int /\ f.base \in Int
         /\ f.cur >= -1 /\ f.lim >= 0 /\ f.base >= 0
         /\ f.cur <= NVA /\ f.lim <= NVA /\ f.base <= NVA
  BY Constants DEF Frame, NullAddr

(* The frame after a jump to c, with or without new locals. *)
LEMMA Jump ==
  ASSUME NEW f \in Frame, NEW c \in PCs
  PROVE  LET g == [f EXCEPT !.pc = c] IN
         /\ g \in Frame
         /\ g.pc = c /\ g.op = f.op /\ g.tgt = f.tgt /\ g.child = f.child
         /\ g.cur = f.cur /\ g.lim = f.lim /\ g.base = f.base
  BY DEF Frame

LEMMA JumpTo ==
  ASSUME NEW f \in Frame, NEW c \in PCs, NEW a \in NullAddr..NVA
  PROVE  LET g == [f EXCEPT !.pc = c, !.cur = a] IN
         /\ g \in Frame
         /\ g.pc = c /\ g.op = f.op /\ g.tgt = f.tgt /\ g.child = f.child
         /\ g.cur = a /\ g.lim = f.lim /\ g.base = f.base
  BY ZenonT(60) DEF Frame

LEMMA JumpToRange ==
  ASSUME NEW f \in Frame, NEW c \in PCs, NEW a \in NullAddr..NVA, NEW b \in 0..NVA
  PROVE  LET g == [f EXCEPT !.pc = c, !.cur = a, !.lim = b] IN
         /\ g \in Frame
         /\ g.pc = c /\ g.op = f.op /\ g.tgt = f.tgt /\ g.child = f.child
         /\ g.cur = a /\ g.lim = b /\ g.base = f.base
  BY ZenonT(60) DEF Frame

(* A step of one thread keeps the types when its own new frame is right.   *)
LEMMA OneThread ==
  ASSUME Types, AllocOK', TableOK',
         NEW p \in Procs, NEW F \in Frame, k' = [k EXCEPT ![p] = F],
         ThreadOK(F, as'[p], hold'[<<p, TMP>>]),
         \A q \in Procs \ {p} : as'[q] = as[q] /\ hold'[<<q, TMP>>] = hold[<<q, TMP>>]
  PROVE  Types'
  BY ZenonT(60) DEF Types, ThreadsOK

(* A step that changes nothing but the frame of one thread. *)
LEMMA OnlyFrame ==
  ASSUME Types, NEW p \in Procs, NEW F \in Frame, k' = [k EXCEPT ![p] = F],
         ThreadOK(F, as[p], hold[<<p, TMP>>]),
         UNCHANGED <<kallocVars, hold, perm, sz, as>>
  PROVE  Types'
<1>1. AllocOK' /\ TableOK'
  BY ZenonT(60) DEF Types, AllocOK, TableOK, kallocVars
<1> QED
  BY ZenonT(60), <1>1, OneThread

-----------------------------------------------------------------------------
(* The slots and the allocator keep their types. *)

LEMMA PutTypes ==
  ASSUME TableOK, NEW sl \in Slots, NEW pg \in Pages \cup {NoPage}, NEW fl \in SUBSET Flags,
         Put(sl, pg, fl)
  PROVE  /\ hold' \in [Slots -> Pages \cup {NoPage}]
         /\ perm' \in [Slots -> SUBSET Flags]
         /\ hold'[sl] = pg /\ perm'[sl] = fl
         /\ \A x \in Slots \ {sl} : hold'[x] = hold[x] /\ perm'[x] = perm[x]
  BY DEF TableOK, Put

(* The slots of one thread's locals are not those of another. *)
LEMMA OtherTmp ==
  ASSUME NEW p \in Procs
  PROVE  \A q \in Procs \ {p} : <<q, TMP>> \in Slots /\ <<q, TMP>> # <<p, TMP>>
  BY ZenonT(60), SlotFacts

LEMMA SomeFlags ==
  {} \in SUBSET Flags /\ {"W", "U"} \in SUBSET Flags /\ {"U"} \in SUBSET Flags
  BY DEF Flags

LEMMA KallocTypes ==
  ASSUME AllocOK, NEW pg, NEW v \in Vals \cup {Junk}, KallocReturns(pg, v)
  PROVE  AllocOK' /\ pg \in Pages
<1>1. pg \in Pages /\ Tail(freelist) \in Seq(Pages)
  BY DEF AllocOK, KallocReturns
<1> QED
  BY <1>1 DEF AllocOK, KallocReturns

LEMMA KfreeTypes ==
  ASSUME AllocOK, NEW p \in Procs, NEW pg \in Pages, Kfree(p, pg)
  PROVE  AllocOK'
<1>1. num_ref_to_page[pg] - 1 \in Nat
  BY DEF AllocOK, Kfree
<1> QED
  BY <1>1 DEF AllocOK, Kfree

LEMMA PushTypes ==
  ASSUME AllocOK, NEW p \in Procs, KfreeOriginal(p)
  PROVE  AllocOK'
<1>1. limbo[p] \in Pages
  BY DEF AllocOK, KfreeOriginal
<1>2. <<limbo[p]>> \o freelist \in Seq(Pages)
  BY <1>1 DEF AllocOK
<1> QED
  BY <1>1, <1>2 DEF AllocOK, KfreeOriginal

-----------------------------------------------------------------------------
(* The type invariant holds initially and every step keeps it. *)

LEMMA InitTypes == Init => Types
<1> SUFFICES ASSUME Init PROVE Types
  OBVIOUS
<1>1. AllocOK
  BY Constants DEF Init, AllocOK, Pages, NoPage, FreeListBelow
<1>2. InitSpace \in Spaces
  BY CowAssumption DEF InitSpace
<1>3. TableOK
  BY <1>2, Constants DEF Init, TableOK, Flags, Pages, NoPage
<1>4. ThreadsOK
  BY <1>2, Constants, IdleFrame, IdleOK DEF Init, ThreadsOK
<1> QED
  BY <1>1, <1>3, <1>4 DEF Types

(* What the type invariant says of the thread that takes a step. *)
LEMMA Running ==
  ASSUME Types, NEW p \in Procs
  PROVE  /\ k[p] \in Frame /\ ThreadOK(k[p], as[p], hold[<<p, TMP>>])
         /\ as[p] \in Spaces => sz[as[p]] \in 0..NVA
         /\ k[p].pc \notin {"unused", "used"} => as[p] \in Spaces
         /\ k[p].pc \in {"cowfault", "cowcopy", "cowfree", "copyout"} => FaultSlot(p) \in Slots
<1>1. k[p] \in Frame /\ ThreadOK(k[p], as[p], hold[<<p, TMP>>])
  BY ZenonT(60) DEF Types, ThreadsOK
<1>2. k[p].pc \notin {"unused", "used"} => as[p] \in Spaces
  BY ZenonT(60), <1>1 DEF ThreadOK
<1>3. ASSUME k[p].pc \in {"cowfault", "cowcopy", "cowfree", "copyout"}
      PROVE  FaultSlot(p) \in Slots
  <2>1. k[p].cur < NVA /\ as[p] \in Spaces
    BY ZenonT(60), <1>1, <1>3 DEF ThreadOK
  <2>2. PageOf(k[p].cur) \in VAs
    BY <1>1, <2>1, FrameNumbers, Constants DEF PageOf, NullAddr, VAs
  <2> QED
    BY ZenonT(60), <2>1, <2>2, SlotFacts DEF FaultSlot
<1>4. as[p] \in Spaces => sz[as[p]] \in 0..NVA
  BY ZenonT(60) DEF Types, TableOK
<1> QED
  BY ZenonT(60), <1>1, <1>2, <1>3, <1>4

LEMMA UserStoreTypes ==
  ASSUME Types, NEW p \in Procs, NEW va \in VAs, NEW v \in Vals, UserStore(p, va, v)
  PROVE  Types'
<1>1. AllocOK' /\ TableOK'
  BY ZenonT(60) DEF Types, AllocOK, TableOK, UserStore, cowVars
<1> QED
  BY ZenonT(60), <1>1 DEF UserStore, cowVars, Types, ThreadsOK

LEMMA StoreFaultTypes ==
  ASSUME Types, NEW p \in Procs, NEW a \in NullAddr..(NVA - 1), StoreFault(p, a)
  PROVE  Types'
<1> DEFINE F == [Idle EXCEPT !.pc = "cowfault", !.op = "trap", !.cur = a]
<1>1. a \in NullAddr..NVA /\ a < NVA
  BY Constants DEF NullAddr
<1>2. F \in Frame /\ F.pc = "cowfault" /\ F.cur = a
  BY ZenonT(60), <1>1, IdleFrame DEF Frame, PCs, Ops
<1>3. k' = [k EXCEPT ![p] = F] /\ UNCHANGED <<kallocVars, hold, perm, sz, as>>
  BY DEF StoreFault
<1> HIDE DEF F
<1>4. ThreadOK(F, as[p], hold[<<p, TMP>>])
  BY ZenonT(60), <1>1, <1>2, Running DEF StoreFault, Calls, At, ThreadOK
<1> QED
  BY ZenonT(60), <1>2, <1>3, <1>4, OnlyFrame

LEMMA CopyOutTypes ==
  ASSUME Types, NEW p \in Procs, NEW va \in VAs, NEW v \in Vals, CopyOut(p, va, v)
  PROVE  Types'
<1> DEFINE a == IF va = 0 THEN NullAddr ELSE va
           F == [Idle EXCEPT !.pc = "cowfault", !.op = "copyout", !.val = v, !.cur = a]
<1>1. a \in NullAddr..NVA /\ a < NVA
  BY Constants DEF NullAddr, VAs
<1>2. k' = [k EXCEPT ![p] = F] /\ UNCHANGED <<kallocVars, hold, perm, sz, as>>
  BY DEF CopyOut
<1> HIDE DEF a
<1>3. F \in Frame /\ F.pc = "cowfault" /\ F.cur = a
  BY ZenonT(60), <1>1, IdleFrame DEF Frame, PCs, Ops
<1> HIDE DEF F
<1>4. ThreadOK(F, as[p], hold[<<p, TMP>>])
  BY ZenonT(60), <1>1, <1>3, Running DEF CopyOut, Calls, At, ThreadOK
<1> QED
  BY ZenonT(60), <1>2, <1>3, <1>4, OnlyFrame

LEMMA ExitedOK ==
  ASSUME NEW p \in Procs, k[p] \in Frame, NEW s \in Spaces, NEW tmp
  PROVE  Exited(p) \in Frame /\ ThreadOK(Exited(p), s, tmp)
<1>1. Exited(p) \in Frame /\ Exited(p).pc \in {"panic", "zombie"}
  BY DEF Exited, Frame, PCs
<1> QED
  BY <1>1 DEF ThreadOK

LEMMA CowfaultFailedTypes ==
  ASSUME Types, NEW p \in Procs, k[p].pc = "cowfault", CowfaultFailed(p),
         UNCHANGED <<kallocVars, hold, perm, sz, as>>
  PROVE  Types'
<1> DEFINE F == IF k[p].op = "trap" THEN Exited(p) ELSE Idle
<1>1. F \in Frame /\ ThreadOK(F, as[p], hold[<<p, TMP>>])
  BY ZenonT(60), Running, ExitedOK, IdleFrame, IdleOK
<1>2. k' = [k EXCEPT ![p] = F]
  BY DEF CowfaultFailed, Types, ThreadsOK
<1> HIDE DEF F
<1> QED
  BY ZenonT(60), <1>1, <1>2, OnlyFrame

(* The frame that cowfault leaves behind when it returns 0. *)
LEMMA CowfaultReturnedFrame ==
  ASSUME Types, NEW p \in Procs, k[p].pc \in {"cowfault", "cowfree"}, CowfaultReturned(p),
         NEW tmp
  PROVE  \E F \in Frame : k' = [k EXCEPT ![p] = F] /\ ThreadOK(F, as[p], tmp)
<1> DEFINE G == [k[p] EXCEPT !.pc = "copyout"]
           F == IF k[p].op = "trap" THEN Idle ELSE G
<1>1. G \in Frame /\ G.pc = "copyout" /\ G.cur = k[p].cur
  <2>1. k[p] \in Frame /\ "copyout" \in PCs
    BY ZenonT(60), Running DEF PCs
  <2> QED
    BY <2>1, Jump
<1>2. k' = [k EXCEPT ![p] = F]
  BY DEF CowfaultReturned, Types, ThreadsOK
<1> HIDE DEF G
<1>3. ThreadOK(G, as[p], tmp)
  BY ZenonT(60), <1>1, Running DEF ThreadOK
<1>4. F \in Frame /\ ThreadOK(F, as[p], tmp)
  BY ZenonT(60), <1>1, <1>3, Running, IdleFrame, IdleOK
<1> QED
  BY ZenonT(60), <1>2, <1>4

LEMMA CowfaultIgnoreTypes ==
  ASSUME Types, NEW p \in Procs, CowfaultIgnore(p)
  PROVE  Types'
  BY ZenonT(60), CowfaultReturnedFrame, OnlyFrame DEF CowfaultIgnore, At

LEMMA CowfaultAllocTypes ==
  ASSUME Types, NEW p \in Procs, CowfaultAlloc(p)
  PROVE  Types'
<1> DEFINE F == [k[p] EXCEPT !.pc = "cowcopy"]
<1>1. PICK pg \in Pages : KallocReturns(pg, Junk) /\ Put(<<p, TMP>>, pg, {"W", "U"})
  BY DEF CowfaultAlloc
<1>2. AllocOK'
  BY <1>1, KallocTypes DEF Types
<1>3. /\ hold' \in [Slots -> Pages \cup {NoPage}]
      /\ perm' \in [Slots -> SUBSET Flags]
      /\ hold'[<<p, TMP>>] # NoPage
      /\ \A q \in Procs \ {p} : hold'[<<q, TMP>>] = hold[<<q, TMP>>]
  <2>1. TableOK /\ <<p, TMP>> \in Slots /\ {"W", "U"} \in SUBSET Flags
    BY SlotFacts, SomeFlags DEF Types
  <2>2. pg # NoPage
    BY DEF Pages, NoPage
  <2> QED
    BY <1>1, <2>1, <2>2, PutTypes, OtherTmp
<1>4. F \in Frame /\ F.pc = "cowcopy" /\ F.cur = k[p].cur
  <2>1. k[p] \in Frame /\ "cowcopy" \in PCs
    BY ZenonT(60), Running DEF PCs
  <2> QED
    BY <2>1, Jump
<1>5. k' = [k EXCEPT ![p] = F] /\ as' = as
  BY DEF CowfaultAlloc, Types, ThreadsOK
<1> HIDE DEF F
<1>6. ThreadOK(F, as'[p], hold'[<<p, TMP>>])
  BY ZenonT(60), <1>3, <1>4, <1>5, Running DEF CowfaultAlloc, CowfaultOnCowPage, At, ThreadOK
<1>7. TableOK'
  BY ZenonT(60), <1>3, <1>5 DEF Types, TableOK, CowfaultAlloc
<1> QED
  BY ZenonT(60), <1>2, <1>3, <1>4, <1>5, <1>6, <1>7, OneThread

LEMMA CowfaultCopyTypes ==
  ASSUME Types, NEW p \in Procs, CowfaultCopy(p)
  PROVE  Types'
<1> DEFINE F == [k[p] EXCEPT !.pc = "cowfree"]
           e == FaultSlot(p)
           t == <<p, TMP>>
<1>1. e \in Slots /\ t \in Slots /\ k[p].pc = "cowcopy"
  BY ZenonT(60), Running, SlotFacts DEF CowfaultCopy, At
<1>2. \A q \in Procs : e # <<q, TMP>>
  <2>1. k[p] \in Frame
    BY ZenonT(60), Running
  <2>2. PageOf(k[p].cur) # TMP
    BY <2>1, FrameNumbers, Constants DEF PageOf, TMP, NullAddr
  <2> QED
    BY ZenonT(60), <2>2 DEF FaultSlot
<1>3. hold[e] \in Pages /\ hold[t] \in Pages \cup {NoPage} /\ hold[e] # NoPage
  BY <1>1 DEF Types, TableOK, CowfaultCopy
<1>4. AllocOK'
  <2>1. content[hold[e]] \in Vals \cup {Junk}
    BY <1>3 DEF Types, AllocOK
  <2> QED
    BY ZenonT(60), <2>1 DEF Types, AllocOK, CowfaultCopy
<1>5. hold' = [hold EXCEPT ![e] = hold[t], ![t] = hold[e]]
      /\ perm' = [perm EXCEPT ![e] = perm[t], ![t] = {}]
  BY DEF CowfaultCopy
<1> HIDE DEF e, t
<1>6. /\ TableOK' /\ hold'[t] # NoPage
      /\ \A sl \in Slots \ {e, t} : hold'[sl] = hold[sl]
  <2>1. TableOK /\ perm[t] \in SUBSET Flags
    BY ZenonT(60), <1>1 DEF Types, TableOK
  <2>2. e # t
    BY <1>2 DEF t
  <2>3. /\ hold' \in [Slots -> Pages \cup {NoPage}]
        /\ perm' \in [Slots -> SUBSET Flags]
        /\ hold'[t] = hold[e]
        /\ \A sl \in Slots \ {e, t} : hold'[sl] = hold[sl]
    BY <1>1, <1>3, <1>5, <2>1, <2>2, SomeFlags DEF TableOK
  <2> QED
    BY ZenonT(60), <1>3, <2>1, <2>3 DEF TableOK, CowfaultCopy
<1>7. F \in Frame /\ F.pc = "cowfree" /\ F.cur = k[p].cur
  <2>1. k[p] \in Frame /\ "cowfree" \in PCs
    BY ZenonT(60), Running DEF PCs
  <2> QED
    BY <2>1, Jump
<1>8. k' = [k EXCEPT ![p] = F] /\ as' = as
  BY DEF CowfaultCopy, Types, ThreadsOK
<1> HIDE DEF F
<1>9. ThreadOK(F, as'[p], hold'[<<p, TMP>>])
  BY ZenonT(60), <1>1, <1>6, <1>7, <1>8, Running DEF t, ThreadOK
<1>10. \A q \in Procs \ {p} : hold'[<<q, TMP>>] = hold[<<q, TMP>>]
  BY <1>2, <1>6, OtherTmp DEF t
<1> QED
  BY ZenonT(60), <1>4, <1>6, <1>7, <1>8, <1>9, <1>10, OneThread

(* kfree of the page that a slot keeps, and the slot cleared. *)
LEMMA DropTypes ==
  ASSUME Types, NEW p \in Procs, NEW sl \in Slots, hold[sl] # NoPage,
         Kfree(p, hold[sl]), Put(sl, NoPage, {}), sz' \in [Spaces -> 0..NVA],
         as' \in [Procs -> Spaces \cup {NoSpace}]
  PROVE  /\ AllocOK' /\ TableOK' /\ hold'[sl] = NoPage
         /\ \A x \in Slots \ {sl} : hold'[x] = hold[x]
<1>1. hold[sl] \in Pages /\ TableOK
  BY ZenonT(60) DEF Types, TableOK
<1>2. AllocOK'
  BY <1>1, KfreeTypes DEF Types
<1> QED
  BY ZenonT(60), <1>1, <1>2, PutTypes, SomeFlags DEF TableOK

LEMMA CowfaultFreeTypes ==
  ASSUME Types, NEW p \in Procs, CowfaultFree(p)
  PROVE  Types'
<1>1. k[p].pc = "cowfree" /\ <<p, TMP>> \in Slots /\ hold[<<p, TMP>>] # NoPage
  BY ZenonT(60), Running, SlotFacts DEF CowfaultFree, At, ThreadOK
<1>2. /\ AllocOK' /\ TableOK' /\ as' = as
      /\ \A x \in Slots \ {<<p, TMP>>} : hold'[x] = hold[x]
  BY ZenonT(60), <1>1, DropTypes DEF CowfaultFree, Types, TableOK
<1>3. PICK F \in Frame : k' = [k EXCEPT ![p] = F] /\ ThreadOK(F, as[p], hold'[<<p, TMP>>])
  BY ZenonT(60), <1>1, CowfaultReturnedFrame DEF CowfaultFree
<1> QED
  BY ZenonT(60), <1>2, <1>3, OneThread, OtherTmp

LEMMA CopyOutMoveTypes ==
  ASSUME Types, NEW p \in Procs, CopyOutMove(p)
  PROVE  Types'
<1>1. k[p].val \in Vals /\ as[p] \in Spaces
  BY ZenonT(60), Running DEF Frame, CopyOutMove, At
<1>2. AllocOK' /\ TableOK'
  BY ZenonT(60), <1>1 DEF Types, AllocOK, TableOK, CopyOutMove
<1>3. ThreadOK(Idle, as'[p], hold'[<<p, TMP>>])
  BY ZenonT(60), <1>1, IdleOK DEF CopyOutMove
<1> QED
  BY ZenonT(60), <1>2, <1>3, IdleFrame, OneThread DEF CopyOutMove

(* fork and exec take a page for the root of a new address space. *)
LEMMA NewRootTypes ==
  ASSUME Types, FreeSpaces # {}, UNCHANGED <<sz, as>>,
         \E pg \in Pages : KallocReturns(pg, Zero) /\ Put(<<NewSpace, PT>>, pg, {})
  PROVE  /\ NewSpace \in Spaces /\ AllocOK' /\ TableOK'
         /\ \A q \in Procs : hold'[<<q, TMP>>] = hold[<<q, TMP>>]
<1>1. NewSpace \in Spaces
  BY ZenonT(60) DEF NewSpace, FreeSpaces
<1>2. PICK pg \in Pages : KallocReturns(pg, Zero) /\ Put(<<NewSpace, PT>>, pg, {})
  OBVIOUS
<1>3. AllocOK'
  BY <1>2, KallocTypes, Constants DEF Types
<1>4. TableOK /\ <<NewSpace, PT>> \in Slots
  BY ZenonT(60), <1>1, SlotFacts DEF Types
<1>5. /\ hold' \in [Slots -> Pages \cup {NoPage}]
      /\ perm' \in [Slots -> SUBSET Flags]
      /\ \A x \in Slots \ {<<NewSpace, PT>>} : hold'[x] = hold[x]
  BY <1>2, <1>4, PutTypes, SomeFlags
<1> QED
  BY ZenonT(60), <1>1, <1>3, <1>4, <1>5, SlotFacts, TmpIsNoEntry DEF TableOK

LEMMA ForkAllocTypes ==
  ASSUME Types, NEW p \in Procs, NEW c \in Procs \ {p}, ForkAlloc(p, c)
  PROVE  Types'
<1> DEFINE n == sz[as[p]]
           F == [Idle EXCEPT !.pc = "uvmcopy", !.op = "fork", !.tgt = NewSpace,
                             !.lim = n, !.child = c]
           G == [Unused EXCEPT !.pc = "used"]
<1>1. /\ NewSpace \in Spaces /\ AllocOK' /\ TableOK' /\ as' = as
      /\ \A q \in Procs : hold'[<<q, TMP>>] = hold[<<q, TMP>>]
  BY NewRootTypes DEF ForkAlloc
<1>2. as[p] \in Spaces /\ n \in 0..NVA
  BY ZenonT(60), Running DEF ForkAlloc, Calls, At
<1>3. k' = [k EXCEPT ![p] = F, ![c] = G]
  BY DEF ForkAlloc
<1> HIDE DEF n
<1>4. /\ F \in Frame /\ F.pc = "uvmcopy" /\ F.tgt = NewSpace /\ F.cur = 0 /\ F.lim = n
      /\ F.base = 0
  BY ZenonT(60), <1>1, <1>2, IdleFrame DEF Frame, PCs, Ops
<1>5. G \in Frame /\ G.pc = "used"
  BY IdleFrame DEF Frame, PCs
<1> HIDE DEF F, G
<1>6. ThreadOK(F, as'[p], hold'[<<p, TMP>>])
  <2>1. F.cur >= 0 /\ F.cur <= F.lim /\ F.base <= F.cur
    BY <1>2, <1>4, Constants
  <2> QED
    BY ZenonT(60), <1>1, <1>2, <1>4, <2>1 DEF ThreadOK
<1>7. ThreadOK(G, as'[c], hold'[<<c, TMP>>])
  BY <1>5 DEF ThreadOK
<1>8. ThreadsOK'
  BY ZenonT(60), <1>1, <1>3, <1>4, <1>5, <1>6, <1>7 DEF Types, ThreadsOK
<1> QED
  BY <1>1, <1>8 DEF Types

LEMMA UvmcopyShareTypes ==
  ASSUME Types, NEW p \in Procs, UvmcopyShare(p)
  PROVE  Types'
<1> DEFINE F == [k[p] EXCEPT !.pc = "mappages"]
           old == <<as[p], k[p].cur>>
           flags == (perm[old] \ {"W"}) \cup {"COW"}
           t == <<p, TMP>>
<1>1. /\ k[p] \in Frame /\ k[p].pc = "uvmcopy" /\ k[p].cur < k[p].lim
      /\ as[p] \in Spaces /\ k[p].tgt \in Spaces /\ k[p].cur >= 0 /\ k[p].base <= k[p].cur
  BY ZenonT(60), Running DEF UvmcopyShare, At, ThreadOK
<1>2. k[p].cur \in VAs /\ k[p].cur # TMP
  BY <1>1, FrameNumbers, Constants DEF VAs, TMP
<1>3. old \in Slots /\ t \in Slots /\ \A q \in Procs : old # <<q, TMP>>
  BY ZenonT(60), <1>1, <1>2, SlotFacts
<1>4. hold[old] \in Pages
  BY <1>3 DEF Types, TableOK, UvmcopyShare
<1>5. AllocOK'
  BY <1>4 DEF Types, AllocOK, UvmcopyShare, IncreaseNumRef
<1>6. flags \in SUBSET Flags
  BY <1>3 DEF Types, TableOK, Flags
<1>7. /\ hold' = [hold EXCEPT ![t] = hold[old]]
      /\ perm' = [perm EXCEPT ![old] = flags, ![t] = flags]
      /\ sz' = sz /\ as' = as
  BY DEF UvmcopyShare
<1>8. F \in Frame /\ F.pc = "mappages" /\ F.cur = k[p].cur /\ F.lim = k[p].lim
      /\ F.base = k[p].base /\ F.tgt = k[p].tgt
  <2>1. "mappages" \in PCs
    BY DEF PCs
  <2> QED
    BY <1>1, <2>1, Jump
<1>9. k' = [k EXCEPT ![p] = F]
  BY DEF UvmcopyShare, Types, ThreadsOK
<1> HIDE DEF F, old, flags
<1>10. TableOK'
  BY ZenonT(60), <1>3, <1>4, <1>6, <1>7 DEF Types, TableOK
<1>11. hold'[t] # NoPage /\ \A q \in Procs \ {p} : hold'[<<q, TMP>>] = hold[<<q, TMP>>]
  BY <1>3, <1>4, <1>7, OtherTmp DEF Types, TableOK, Pages, NoPage
<1>12. ThreadOK(F, as'[p], hold'[<<p, TMP>>])
  BY ZenonT(60), <1>1, <1>7, <1>8, <1>11 DEF ThreadOK
<1> QED
  BY ZenonT(60), <1>5, <1>7, <1>8, <1>9, <1>10, <1>11, <1>12, OneThread

LEMMA ForkDoneTypes ==
  ASSUME Types, NEW p \in Procs, ForkDone(p)
  PROVE  Types'
<1>1. k[p] \in Frame /\ as[p] \in Spaces /\ k[p].tgt \in Spaces
  BY ZenonT(60), Running DEF ForkDone, At, ThreadOK
<1>2. k[p].child \in Procs /\ k[p].lim \in 0..NVA
  BY <1>1 DEF Frame
<1>3. AllocOK' /\ TableOK'
  BY ZenonT(60), <1>1, <1>2 DEF Types, AllocOK, TableOK, ForkDone, kallocVars
<1>4. as'[p] \in Spaces /\ as'[k[p].child] \in Spaces
  BY ZenonT(60), <1>1, <1>2 DEF Types, TableOK, ForkDone
<1>5. \A q \in Procs \ {p, k[p].child} :
        k'[q] = k[q] /\ as'[q] = as[q] /\ hold'[<<q, TMP>>] = hold[<<q, TMP>>]
  BY ZenonT(60), <1>2 DEF ForkDone, Types, TableOK, ThreadsOK
<1>6. k' \in [Procs -> Frame] /\ k'[p] = Idle /\ k'[k[p].child] = Idle
  BY <1>2, IdleFrame DEF ForkDone, Types, ThreadsOK
<1>7. ASSUME NEW q \in Procs PROVE ThreadOK(k'[q], as'[q], hold'[<<q, TMP>>])
  <2>1. CASE q \in {p, k[p].child}
    BY Zenon, <1>4, <1>6, <2>1, IdleOK
  <2>2. CASE q \notin {p, k[p].child}
    BY Zenon, <1>5, <2>2 DEF Types, ThreadsOK
  <2> QED
    BY Zenon, <2>1, <2>2
<1> QED
  BY <1>3, <1>6, <1>7 DEF Types, ThreadsOK

LEMMA UvmcopyErrorTypes ==
  ASSUME Types, NEW p \in Procs, UvmcopyError(p)
  PROVE  Types'
<1> DEFINE F == [k[p] EXCEPT !.pc = "uvmunmap", !.cur = 0, !.lim = k[p].cur]
<1>1. /\ k[p] \in Frame /\ k[p].pc = "mappages" /\ k[p].cur < k[p].lim
      /\ as[p] \in Spaces /\ k[p].tgt \in Spaces /\ k[p].cur >= 0
  BY ZenonT(60), Running DEF UvmcopyError, At, ThreadOK
<1>2. k[p].cur \in 0..NVA /\ 0 \in NullAddr..NVA /\ "uvmunmap" \in PCs
  BY <1>1, FrameNumbers, Constants DEF NullAddr, PCs
<1>3. F \in Frame /\ F.pc = "uvmunmap" /\ F.cur = 0 /\ F.lim = k[p].cur /\ F.tgt = k[p].tgt
  BY ZenonT(60), <1>1, <1>2 DEF Frame
<1>4. k' = [k EXCEPT ![p] = F] /\ as' = as /\ sz' = sz
  BY ZenonT(60) DEF UvmcopyError, Types, ThreadsOK
<1> HIDE DEF F
<1>5. AllocOK'
  BY DEF Types, AllocOK, UvmcopyError, kallocVars
<1>6. TableOK' /\ \A q \in Procs \ {p} : hold'[<<q, TMP>>] = hold[<<q, TMP>>]
  <2>1. TableOK /\ <<p, TMP>> \in Slots /\ Put(<<p, TMP>>, NoPage, {})
    BY SlotFacts DEF Types, UvmcopyError
  <2> QED
    BY ZenonT(60), <1>4, <2>1, PutTypes, SomeFlags, OtherTmp DEF TableOK
<1>7. ThreadOK(F, as'[p], hold'[<<p, TMP>>])
  <2>1. F.cur >= 0 /\ F.cur <= F.lim
    BY <1>1, <1>2, <1>3, FrameNumbers
  <2> QED
    BY ZenonT(60), <1>1, <1>3, <1>4, <2>1 DEF ThreadOK
<1> QED
  BY ZenonT(60), <1>3, <1>4, <1>5, <1>6, <1>7, OneThread

LEMMA MappagesDirTypes ==
  ASSUME Types, NEW p \in Procs, MappagesDir(p)
  PROVE  Types'
<1>1. k[p].tgt \in Spaces
  BY ZenonT(60), Running DEF MappagesDir, At, ThreadOK
<1>2. PICK pg \in Pages : KallocReturns(pg, Zero) /\ Put(<<k[p].tgt, DIR>>, pg, {})
  BY DEF MappagesDir
<1>3. AllocOK'
  BY <1>2, KallocTypes, Constants DEF Types
<1>4. TableOK /\ <<k[p].tgt, DIR>> \in Slots
  BY ZenonT(60), <1>1, SlotFacts DEF Types
<1>5. /\ hold' \in [Slots -> Pages \cup {NoPage}]
      /\ perm' \in [Slots -> SUBSET Flags]
      /\ \A x \in Slots \ {<<k[p].tgt, DIR>>} : hold'[x] = hold[x]
  BY <1>2, <1>4, PutTypes, SomeFlags
<1>6. \A q \in Procs : hold'[<<q, TMP>>] = hold[<<q, TMP>>]
  BY ZenonT(60), <1>5, SlotFacts, TmpIsNoEntry
<1>7. sz' = sz /\ as' = as /\ k' = k
  BY DEF MappagesDir
<1> QED
  BY ZenonT(60), <1>3, <1>4, <1>5, <1>6, <1>7 DEF Types, TableOK, ThreadsOK

LEMMA MappagesEntryTypes ==
  ASSUME Types, NEW p \in Procs, MappagesEntry(p)
  PROVE  Types'
<1> DEFINE c == IF k[p].op = "fork" THEN "uvmcopy" ELSE "uvmalloc"
           F == [k[p] EXCEPT !.pc = c, !.cur = k[p].cur + 1]
           new == <<k[p].tgt, k[p].cur>>
           t == <<p, TMP>>
<1>1. /\ k[p] \in Frame /\ k[p].pc = "mappages" /\ k[p].cur < k[p].lim
      /\ as[p] \in Spaces /\ k[p].tgt \in Spaces /\ k[p].cur >= 0 /\ k[p].base <= k[p].cur
  BY ZenonT(60), Running DEF MappagesEntry, At, ThreadOK
<1>2. k[p].cur \in VAs /\ k[p].cur # TMP /\ k[p].cur + 1 \in NullAddr..NVA
  BY <1>1, FrameNumbers, Constants DEF VAs, TMP, NullAddr
<1>3. new \in Slots /\ t \in Slots /\ \A q \in Procs : new # <<q, TMP>>
  BY <1>1, <1>2, SlotFacts
<1>4. /\ hold' = [hold EXCEPT ![new] = hold[t], ![t] = NoPage]
      /\ perm' = [perm EXCEPT ![new] = perm[t], ![t] = {}]
      /\ sz' = sz /\ as' = as
  BY DEF MappagesEntry
<1>5. c \in PCs /\ c \in {"uvmcopy", "uvmalloc"}
  BY DEF PCs
<1>6. k' = [k EXCEPT ![p] = F]
  BY ZenonT(60) DEF MappagesEntry, Types, ThreadsOK
<1> HIDE DEF c
<1>7. /\ F \in Frame /\ F.pc = c /\ F.cur = k[p].cur + 1 /\ F.lim = k[p].lim
      /\ F.base = k[p].base /\ F.tgt = k[p].tgt
  BY ZenonT(60), <1>1, <1>2, <1>5 DEF Frame
<1> HIDE DEF F, new
<1>8. AllocOK'
  BY DEF Types, AllocOK, MappagesEntry, kallocVars
<1>9. TableOK'
  BY ZenonT(60), <1>3, <1>4, SomeFlags DEF Types, TableOK
<1>10. \A q \in Procs \ {p} : hold'[<<q, TMP>>] = hold[<<q, TMP>>]
  BY <1>3, <1>4, OtherTmp DEF Types, TableOK
<1>11. ThreadOK(F, as'[p], hold'[<<p, TMP>>])
  <2>1. F.cur >= 0 /\ F.cur <= F.lim /\ F.base <= F.cur
    BY <1>1, <1>7, FrameNumbers
  <2> QED
    BY ZenonT(60), <1>1, <1>4, <1>5, <1>7, <2>1 DEF ThreadOK
<1> QED
  BY ZenonT(60), <1>4, <1>6, <1>7, <1>8, <1>9, <1>10, <1>11, OneThread

LEMMA UvmallocMemTypes ==
  ASSUME Types, NEW p \in Procs, UvmallocMem(p)
  PROVE  Types'
<1> DEFINE F == [k[p] EXCEPT !.pc = "mappages"]
           v == IF k[p].op = "exec" THEN ImageVal ELSE Zero
           fl == IF k[p].op = "exec" /\ k[p].cur \in TextPages THEN {"U"} ELSE {"W", "U"}
<1>1. /\ k[p] \in Frame /\ k[p].pc = "uvmalloc" /\ k[p].cur < k[p].lim
      /\ as[p] \in Spaces /\ k[p].tgt \in Spaces /\ k[p].cur >= 0 /\ k[p].base <= k[p].cur
  BY ZenonT(60), Running DEF UvmallocMem, At, ThreadOK
<1>2. PICK pg \in Pages : KallocReturns(pg, v) /\ Put(<<p, TMP>>, pg, fl)
  BY DEF UvmallocMem
<1>3. AllocOK'
  <2>1. v \in Vals \cup {Junk}
    BY Constants
  <2> HIDE DEF v
  <2> QED
    BY <1>2, <2>1, KallocTypes DEF Types
<1>4. /\ hold' \in [Slots -> Pages \cup {NoPage}]
      /\ perm' \in [Slots -> SUBSET Flags]
      /\ hold'[<<p, TMP>>] # NoPage
      /\ \A q \in Procs \ {p} : hold'[<<q, TMP>>] = hold[<<q, TMP>>]
  <2>1. TableOK /\ <<p, TMP>> \in Slots /\ fl \in SUBSET Flags
    BY SlotFacts, SomeFlags DEF Types
  <2>2. pg # NoPage
    BY DEF Pages, NoPage
  <2> HIDE DEF fl
  <2> QED
    BY <1>2, <2>1, <2>2, PutTypes, OtherTmp
<1>5. k' = [k EXCEPT ![p] = F] /\ as' = as /\ sz' = sz
  BY DEF UvmallocMem, Types, ThreadsOK
<1>6. F \in Frame /\ F.pc = "mappages" /\ F.cur = k[p].cur /\ F.lim = k[p].lim
      /\ F.base = k[p].base /\ F.tgt = k[p].tgt
  BY <1>1 DEF Frame, PCs
<1>7. TableOK'
  BY ZenonT(60), <1>4, <1>5 DEF Types, TableOK
<1> HIDE DEF F
<1>8. ThreadOK(F, as'[p], hold'[<<p, TMP>>])
  BY ZenonT(60), <1>1, <1>4, <1>5, <1>6 DEF ThreadOK
<1> QED
  BY ZenonT(60), <1>3, <1>4, <1>5, <1>6, <1>7, <1>8, OneThread

(* The frame from which uvmdealloc takes back what uvmalloc mapped. *)
LEMMA BackOutFrame ==
  ASSUME Types, NEW p \in Procs, k[p].pc \in {"uvmalloc", "mappages"}, NEW tmp
  PROVE  LET F == [k[p] EXCEPT !.pc = "uvmunmap", !.cur = k[p].base, !.lim = k[p].cur] IN
         F \in Frame /\ ThreadOK(F, as[p], tmp)
<1> DEFINE F == [k[p] EXCEPT !.pc = "uvmunmap", !.cur = k[p].base, !.lim = k[p].cur]
<1>1. /\ k[p] \in Frame /\ as[p] \in Spaces /\ k[p].tgt \in Spaces
      /\ k[p].cur >= 0 /\ k[p].base <= k[p].cur
  BY ZenonT(60), Running DEF ThreadOK
<1>2. k[p].cur \in 0..NVA /\ k[p].base \in NullAddr..NVA
  BY <1>1, FrameNumbers, Constants DEF NullAddr
<1>3. F \in Frame /\ F.pc = "uvmunmap" /\ F.cur = k[p].base /\ F.lim = k[p].cur
      /\ F.tgt = k[p].tgt
  BY ZenonT(60), <1>1, <1>2 DEF Frame, PCs
<1> HIDE DEF F
<1>4. F.cur >= 0 /\ F.cur <= F.lim
  BY <1>1, <1>3, FrameNumbers
<1>5. ThreadOK(F, as[p], tmp)
  BY ZenonT(60), <1>1, <1>3, <1>4 DEF ThreadOK
<1> QED
  BY ZenonT(60), <1>3, <1>5 DEF F

LEMMA UvmallocNoMemTypes ==
  ASSUME Types, NEW p \in Procs, UvmallocNoMem(p)
  PROVE  Types'
<1> DEFINE F == [k[p] EXCEPT !.pc = "uvmunmap", !.cur = k[p].base, !.lim = k[p].cur]
<1>1. F \in Frame /\ ThreadOK(F, as[p], hold[<<p, TMP>>])
  BY ZenonT(60), BackOutFrame DEF UvmallocNoMem, At
<1>2. k' = [k EXCEPT ![p] = F]
  BY ZenonT(60) DEF UvmallocNoMem, Types, ThreadsOK
<1> HIDE DEF F
<1> QED
  BY ZenonT(60), <1>1, <1>2, OnlyFrame DEF UvmallocNoMem

LEMMA UvmallocNoDirTypes ==
  ASSUME Types, NEW p \in Procs, UvmallocNoDir(p)
  PROVE  Types'
<1> DEFINE F == [k[p] EXCEPT !.pc = "uvmunmap", !.cur = k[p].base, !.lim = k[p].cur]
<1>1. k[p].pc = "mappages" /\ <<p, TMP>> \in Slots /\ hold[<<p, TMP>>] # NoPage
  BY ZenonT(60), Running, SlotFacts DEF UvmallocNoDir, At, ThreadOK
<1>2. F \in Frame /\ ThreadOK(F, as[p], hold'[<<p, TMP>>])
  BY ZenonT(60), <1>1, BackOutFrame
<1>3. k' = [k EXCEPT ![p] = F] /\ as' = as
  BY ZenonT(60) DEF UvmallocNoDir, Types, ThreadsOK
<1> HIDE DEF F
<1>4. /\ AllocOK' /\ TableOK'
      /\ \A x \in Slots \ {<<p, TMP>>} : hold'[x] = hold[x]
  BY ZenonT(60), <1>1, DropTypes DEF UvmallocNoDir, Types, TableOK
<1> QED
  BY ZenonT(60), <1>2, <1>3, <1>4, OneThread, OtherTmp

LEMMA UvmallocDoneTypes ==
  ASSUME Types, NEW p \in Procs, UvmallocDone(p)
  PROVE  Types'
<1>1. /\ k[p] \in Frame /\ as[p] \in Spaces /\ k[p].tgt \in Spaces /\ k[p].pc = "uvmalloc"
      /\ k[p].cur >= 0 /\ k[p].cur = k[p].lim /\ k[p].lim \in 0..NVA
  BY ZenonT(60), Running DEF UvmallocDone, At, ThreadOK, Frame
<1>2. AllocOK' /\ TableOK' /\ as' = as /\ hold' = hold
  BY ZenonT(60), <1>1 DEF Types, AllocOK, TableOK, UvmallocDone, kallocVars
<1>3. CASE k' = [k EXCEPT ![p] = Idle]
  BY ZenonT(60), <1>1, <1>2, <1>3, IdleFrame, IdleOK, OneThread
<1>4. CASE k' = [k EXCEPT ![p].pc = "commit"]
  <2> DEFINE F == [k[p] EXCEPT !.pc = "commit"]
  <2>1. F \in Frame /\ F.pc = "commit" /\ F.tgt = k[p].tgt
    BY <1>1 DEF Frame, PCs
  <2>2. k' = [k EXCEPT ![p] = F]
    BY <1>4 DEF Types, ThreadsOK
  <2> HIDE DEF F
  <2>3. ThreadOK(F, as'[p], hold'[<<p, TMP>>])
    BY ZenonT(60), <1>1, <1>2, <2>1 DEF ThreadOK
  <2> QED
    BY ZenonT(60), <1>2, <2>1, <2>2, <2>3, OneThread
<1>5. ASSUME NEW e \in SegEnds, Segment(k[p].lim, e),
             k' = [k EXCEPT ![p].base = k[p].lim, ![p].lim = e]
      PROVE  Types'
  <2> DEFINE F == [k[p] EXCEPT !.base = k[p].lim, !.lim = e]
  <2>1. e \in 0..NVA /\ e > k[p].lim
    BY <1>5, Constants DEF Segment
  <2>2. F \in Frame /\ F.pc = "uvmalloc" /\ F.tgt = k[p].tgt /\ F.cur = k[p].cur
        /\ F.base = k[p].lim /\ F.lim = e
    BY ZenonT(60), <1>1, <2>1 DEF Frame
  <2>3. k' = [k EXCEPT ![p] = F]
    BY ZenonT(60), <1>5 DEF Types, ThreadsOK
  <2> HIDE DEF F
  <2>4. F.cur >= 0 /\ F.cur <= F.lim /\ F.base <= F.cur
    BY <1>1, <2>1, <2>2, FrameNumbers
  <2>5. ThreadOK(F, as'[p], hold'[<<p, TMP>>])
    BY ZenonT(60), <1>1, <1>2, <2>2, <2>4 DEF ThreadOK
  <2> QED
    BY ZenonT(60), <1>2, <2>2, <2>3, <2>5, OneThread
<1> QED
  BY <1>3, <1>4, <1>5 DEF UvmallocDone

LEMMA UvmunmapPageTypes ==
  ASSUME Types, NEW p \in Procs, UvmunmapPage(p)
  PROVE  Types'
<1> DEFINE F == [k[p] EXCEPT !.cur = k[p].cur + 1]
           sl == <<k[p].tgt, k[p].cur>>
<1>1. /\ k[p] \in Frame /\ as[p] \in Spaces /\ k[p].tgt \in Spaces /\ k[p].pc = "uvmunmap"
      /\ k[p].cur >= 0 /\ k[p].cur < k[p].lim
  BY ZenonT(60), Running DEF UvmunmapPage, At, ThreadOK
<1>2. k[p].cur \in VAs /\ k[p].cur # TMP /\ k[p].cur + 1 \in NullAddr..NVA
  BY <1>1, FrameNumbers, Constants DEF VAs, TMP, NullAddr
<1>3. sl \in Slots /\ \A q \in Procs : sl # <<q, TMP>>
  BY <1>1, <1>2, SlotFacts
<1>4. /\ AllocOK' /\ TableOK' /\ as' = as
      /\ \A x \in Slots \ {sl} : hold'[x] = hold[x]
  BY ZenonT(60), <1>3, DropTypes DEF UvmunmapPage, Types, TableOK
<1>5. F \in Frame /\ F.pc = "uvmunmap" /\ F.tgt = k[p].tgt /\ F.cur = k[p].cur + 1
      /\ F.lim = k[p].lim
  BY <1>1, <1>2 DEF Frame
<1>6. k' = [k EXCEPT ![p] = F]
  BY DEF UvmunmapPage, Types, ThreadsOK
<1> HIDE DEF F, sl
<1>7. F.cur >= 0 /\ F.cur <= F.lim
  BY <1>1, <1>5, FrameNumbers
<1>8. ThreadOK(F, as'[p], hold'[<<p, TMP>>])
  BY ZenonT(60), <1>1, <1>4, <1>5, <1>7 DEF ThreadOK
<1> QED
  BY ZenonT(60), <1>3, <1>4, <1>5, <1>6, <1>8, SlotFacts, OneThread

LEMMA UvmunmapDoneTypes ==
  ASSUME Types, NEW p \in Procs, UvmunmapDone(p)
  PROVE  Types'
<1>1. /\ k[p] \in Frame /\ as[p] \in Spaces /\ k[p].tgt \in Spaces /\ k[p].pc = "uvmunmap"
      /\ k[p].base \in 0..NVA
  BY ZenonT(60), Running DEF UvmunmapDone, At, ThreadOK, Frame
<1>2. AllocOK' /\ TableOK' /\ as' = as /\ hold' = hold
  BY ZenonT(60), <1>1 DEF Types, AllocOK, TableOK, UvmunmapDone, kallocVars
<1>3. CASE k' = [k EXCEPT ![p] = Idle]
  BY ZenonT(60), <1>1, <1>2, <1>3, IdleFrame, IdleOK, OneThread
<1>4. CASE k' = [k EXCEPT ![p].cur = 0, ![p].lim = k[p].base, ![p].base = 0]
  <2> DEFINE F == [k[p] EXCEPT !.cur = 0, !.lim = k[p].base, !.base = 0]
  <2>1. F \in Frame /\ F.pc = "uvmunmap" /\ F.tgt = k[p].tgt /\ F.cur = 0 /\ F.lim = k[p].base
    <3>1. 0 \in NullAddr..NVA /\ 0 \in 0..NVA
      BY Constants DEF NullAddr
    <3> QED
      BY ZenonT(60), <1>1, <3>1 DEF Frame
  <2>2. k' = [k EXCEPT ![p] = F]
    BY ZenonT(60), <1>4 DEF Types, ThreadsOK
  <2> HIDE DEF F
  <2>3. F.cur >= 0 /\ F.cur <= F.lim
    BY <1>1, <2>1, Constants
  <2>4. ThreadOK(F, as'[p], hold'[<<p, TMP>>])
    BY ZenonT(60), <1>1, <1>2, <2>1, <2>3 DEF ThreadOK
  <2> QED
    BY ZenonT(60), <1>2, <2>1, <2>2, <2>4, OneThread
<1>5. CASE k' = [k EXCEPT ![p].pc = "freewalk"]
  <2> DEFINE F == [k[p] EXCEPT !.pc = "freewalk"]
  <2>1. F \in Frame /\ F.pc = "freewalk" /\ F.tgt = k[p].tgt
    BY <1>1 DEF Frame, PCs
  <2>2. k' = [k EXCEPT ![p] = F]
    BY <1>5 DEF Types, ThreadsOK
  <2> HIDE DEF F
  <2>3. ThreadOK(F, as'[p], hold'[<<p, TMP>>])
    BY ZenonT(60), <1>1, <1>2, <2>1 DEF ThreadOK
  <2> QED
    BY ZenonT(60), <1>2, <2>1, <2>2, <2>3, OneThread
<1> QED
  BY <1>3, <1>4, <1>5 DEF UvmunmapDone

LEMMA FreewalkDirTypes ==
  ASSUME Types, NEW p \in Procs, FreewalkDir(p)
  PROVE  Types'
<1>1. <<k[p].tgt, DIR>> \in Slots
  BY ZenonT(60), Running, SlotFacts DEF FreewalkDir, At, ThreadOK
<1>2. /\ AllocOK' /\ TableOK' /\ as' = as /\ k' = k
      /\ \A x \in Slots \ {<<k[p].tgt, DIR>>} : hold'[x] = hold[x]
  BY ZenonT(60), <1>1, DropTypes DEF FreewalkDir, Types, TableOK
<1>3. \A q \in Procs : hold'[<<q, TMP>>] = hold[<<q, TMP>>]
  BY ZenonT(60), <1>2, SlotFacts, TmpIsNoEntry
<1> QED
  BY ZenonT(60), <1>2, <1>3 DEF Types, ThreadsOK

LEMMA FreewalkRootTypes ==
  ASSUME Types, NEW p \in Procs, FreewalkRoot(p)
  PROVE  Types'
<1>1. k[p] \in Frame /\ as[p] \in Spaces /\ k[p].tgt \in Spaces /\ k[p].child \in Procs
  BY ZenonT(60), Running DEF FreewalkRoot, At, ThreadOK, Frame
<1>2. <<k[p].tgt, PT>> \in Slots
  BY ZenonT(60), <1>1, SlotFacts
<1>3. sz' \in [Spaces -> 0..NVA] /\ as' \in [Procs -> Spaces \cup {NoSpace}]
  <2>1. 0 \in 0..NVA
    BY Constants
  <2>2. sz' \in [Spaces -> 0..NVA]
    BY ZenonT(60), <2>1 DEF FreewalkRoot, Types, TableOK
  <2>3. as' = as \/ as' = [as EXCEPT ![p] = NoSpace]
    BY ZenonT(60) DEF FreewalkRoot
  <2> QED
    BY ZenonT(60), <2>2, <2>3 DEF Types, TableOK
<1>4. /\ AllocOK' /\ TableOK'
      /\ \A x \in Slots \ {<<k[p].tgt, PT>>} : hold'[x] = hold[x]
  BY <1>2, <1>3, DropTypes DEF FreewalkRoot
<1>5. \A q \in Procs : hold'[<<q, TMP>>] = hold[<<q, TMP>>]
  BY ZenonT(60), <1>4, SlotFacts, TmpIsNoEntry
<1>6. CASE as' = [as EXCEPT ![p] = NoSpace] /\ k' = [k EXCEPT ![p] = Unused]
  BY ZenonT(60), <1>4, <1>5, <1>6, IdleFrame, IdleOK, OneThread DEF Types, TableOK
<1>7. CASE as' = as /\ k' = [k EXCEPT ![p] = Idle, ![k[p].child] = Unused]
  BY ZenonT(60), <1>1, <1>4, <1>5, <1>7, IdleFrame, IdleOK DEF Types, ThreadsOK
<1>8. CASE as' = as /\ k' = [k EXCEPT ![p] = Idle]
  BY ZenonT(60), <1>1, <1>4, <1>5, <1>8, IdleFrame, IdleOK, OneThread
<1> QED
  BY ZenonT(60), <1>6, <1>7, <1>8 DEF FreewalkRoot

LEMMA KfreePushTypes ==
  ASSUME Types, NEW p \in Procs, KfreePush(p)
  PROVE  Types'
<1>1. AllocOK' /\ UNCHANGED cowVars
  BY PushTypes DEF Types, KfreePush
<1> QED
  BY ZenonT(60), <1>1 DEF Types, TableOK, ThreadsOK, cowVars

(* Frames that start a walk over pages a to b of space s. *)
LEMMA WalkFrame ==
  ASSUME NEW c \in {"uvmalloc", "uvmunmap"}, NEW o \in Ops, NEW s \in Spaces,
         NEW a \in 0..NVA, NEW b \in 0..NVA, a <= b, NEW own \in Spaces, NEW tmp
  PROVE  LET F == [Idle EXCEPT !.pc = c, !.op = o, !.tgt = s, !.cur = a, !.base = a, !.lim = b] IN
         F \in Frame /\ ThreadOK(F, own, tmp)
<1> DEFINE F == [Idle EXCEPT !.pc = c, !.op = o, !.tgt = s, !.cur = a, !.base = a, !.lim = b]
<1>1. a \in NullAddr..NVA /\ c \in PCs
  BY Constants DEF NullAddr, PCs
<1>2. F \in Frame /\ F.pc = c /\ F.tgt = s /\ F.cur = a /\ F.base = a /\ F.lim = b
  BY ZenonT(60), <1>1, IdleFrame DEF Frame
<1> HIDE DEF F
<1>3. F.cur >= 0 /\ F.cur <= F.lim /\ F.base <= F.cur
  BY <1>2, Constants
<1>4. ThreadOK(F, own, tmp)
  BY <1>2, <1>3 DEF ThreadOK
<1> QED
  BY <1>2, <1>4 DEF F

(* The same from page 0, where the frame of an idle thread already is. *)
LEMMA WalkAllFrame ==
  ASSUME NEW c \in {"uvmalloc", "uvmunmap"}, NEW o \in Ops, NEW s \in Spaces,
         NEW b \in 0..NVA, NEW own \in Spaces, NEW tmp
  PROVE  LET F == [Idle EXCEPT !.pc = c, !.op = o, !.tgt = s, !.lim = b] IN
         F \in Frame /\ ThreadOK(F, own, tmp)
<1> DEFINE F == [Idle EXCEPT !.pc = c, !.op = o, !.tgt = s, !.lim = b]
<1>1. c \in PCs
  BY DEF PCs
<1>2. F \in Frame /\ F.pc = c /\ F.tgt = s /\ F.cur = 0 /\ F.base = 0 /\ F.lim = b
  BY ZenonT(60), <1>1, IdleFrame DEF Frame
<1> HIDE DEF F
<1>3. F.cur >= 0 /\ F.cur <= F.lim /\ F.base <= F.cur
  BY <1>2, Constants
<1>4. ThreadOK(F, own, tmp)
  BY <1>2, <1>3 DEF ThreadOK
<1> QED
  BY <1>2, <1>4 DEF F

LEMMA GrowTypes ==
  ASSUME Types, NEW p \in Procs, NEW n \in 1..NVA, Grow(p, n)
  PROVE  Types'
<1> DEFINE a == sz[as[p]]
           b == a + n
           F == [Idle EXCEPT !.pc = "uvmalloc", !.op = "sbrk", !.tgt = as[p],
                             !.cur = a, !.base = a, !.lim = b]
<1>1. as[p] \in Spaces /\ a \in 0..NVA /\ "sbrk" \in Ops
  BY ZenonT(60), Running DEF Grow, Calls, At, Ops
<1>2. b \in 0..NVA /\ a <= b
  <2>1. a + n <= NVA
    BY ZenonT(60) DEF Grow
  <2>2. NVA \in Nat
    BY Constants
  <2> HIDE DEF a
  <2> QED
    BY <1>1, <2>1, <2>2
<1>3. k' = [k EXCEPT ![p] = F] /\ UNCHANGED <<kallocVars, hold, perm, sz, as>>
  BY DEF Grow
<1> HIDE DEF a, b
<1>4. F \in Frame /\ ThreadOK(F, as[p], hold[<<p, TMP>>])
  BY ZenonT(60), <1>1, <1>2, WalkFrame
<1> HIDE DEF F
<1> QED
  BY ZenonT(60), <1>3, <1>4, OnlyFrame

LEMMA ShrinkTypes ==
  ASSUME Types, NEW p \in Procs, NEW n \in 1..NVA, Shrink(p, n)
  PROVE  Types'
<1> DEFINE b == sz[as[p]]
           a == b - n
           F == [Idle EXCEPT !.pc = "uvmunmap", !.op = "sbrk", !.tgt = as[p],
                             !.cur = a, !.base = a, !.lim = b]
<1>1. as[p] \in Spaces /\ b \in 0..NVA /\ "sbrk" \in Ops
  BY ZenonT(60), Running DEF Shrink, Calls, At, Ops
<1>2. a \in 0..NVA /\ a <= b
  <2>1. n < b
    BY ZenonT(60) DEF Shrink
  <2>2. NVA \in Nat
    BY Constants
  <2> HIDE DEF b
  <2> QED
    BY <1>1, <2>1, <2>2
<1>3. k' = [k EXCEPT ![p] = F] /\ UNCHANGED <<kallocVars, hold, perm, sz, as>>
  BY DEF Shrink
<1> HIDE DEF a, b
<1>4. F \in Frame /\ ThreadOK(F, as[p], hold[<<p, TMP>>])
  BY ZenonT(60), <1>1, <1>2, WalkFrame
<1> HIDE DEF F
<1> QED
  BY ZenonT(60), <1>3, <1>4, OnlyFrame

LEMMA ExecStartTypes ==
  ASSUME Types, NEW p \in Procs, ExecStart(p)
  PROVE  Types'
<1>1. /\ NewSpace \in Spaces /\ AllocOK' /\ TableOK' /\ as' = as
      /\ \A q \in Procs : hold'[<<q, TMP>>] = hold[<<q, TMP>>]
  BY NewRootTypes DEF ExecStart
<1>2. PICK e \in SegEnds :
        k' = [k EXCEPT ![p] = [Idle EXCEPT !.pc = "uvmalloc", !.op = "exec",
                                           !.tgt = NewSpace, !.lim = e]]
  BY ZenonT(60) DEF ExecStart
<1> DEFINE F == [Idle EXCEPT !.pc = "uvmalloc", !.op = "exec", !.tgt = NewSpace, !.lim = e]
<1>3. as[p] \in Spaces /\ e \in 0..NVA /\ "exec" \in Ops
  <2>1. e \in 0..NVA
    BY Constants
  <2> QED
    BY ZenonT(60), <2>1, Running DEF ExecStart, Calls, At, Ops
<1>4. F \in Frame /\ ThreadOK(F, as'[p], hold'[<<p, TMP>>])
  BY ZenonT(60), <1>1, <1>3, WalkAllFrame
<1>5. k' = [k EXCEPT ![p] = F]
  BY <1>2
<1> HIDE DEF F
<1> QED
  BY ZenonT(60), <1>1, <1>4, <1>5, OneThread

LEMMA ExecBadTypes ==
  ASSUME Types, NEW p \in Procs, ExecBad(p)
  PROVE  Types'
<1> DEFINE F == [k[p] EXCEPT !.pc = "uvmunmap", !.cur = 0, !.lim = k[p].base, !.base = 0]
<1>1. /\ k[p] \in Frame /\ as[p] \in Spaces /\ k[p].tgt \in Spaces
      /\ k[p].base \in 0..NVA
  BY ZenonT(60), Running DEF ExecBad, At, ThreadOK, Frame
<1>2. 0 \in NullAddr..NVA /\ 0 \in 0..NVA /\ "uvmunmap" \in PCs
  BY Constants DEF NullAddr, PCs
<1>3. F \in Frame /\ F.pc = "uvmunmap" /\ F.tgt = k[p].tgt /\ F.cur = 0 /\ F.lim = k[p].base
  BY ZenonT(60), <1>1, <1>2 DEF Frame
<1>4. k' = [k EXCEPT ![p] = F]
  BY ZenonT(60) DEF ExecBad, Types, ThreadsOK
<1> HIDE DEF F
<1>5. F.cur >= 0 /\ F.cur <= F.lim
  BY <1>1, <1>3, Constants
<1>6. ThreadOK(F, as[p], hold[<<p, TMP>>])
  BY ZenonT(60), <1>1, <1>3, <1>5 DEF ThreadOK
<1> QED
  BY ZenonT(60), <1>3, <1>4, <1>6, OnlyFrame DEF ExecBad

LEMMA ExecBadArgsTypes ==
  ASSUME Types, NEW p \in Procs, ExecBadArgs(p)
  PROVE  Types'
<1> DEFINE F == [k[p] EXCEPT !.pc = "uvmunmap", !.cur = 0, !.base = 0]
<1>1. /\ k[p] \in Frame /\ as[p] \in Spaces /\ k[p].tgt \in Spaces
      /\ k[p].lim \in 0..NVA
  BY ZenonT(60), Running DEF ExecBadArgs, At, ThreadOK, Frame
<1>2. 0 \in NullAddr..NVA /\ 0 \in 0..NVA /\ "uvmunmap" \in PCs
  BY Constants DEF NullAddr, PCs
<1>3. F \in Frame /\ F.pc = "uvmunmap" /\ F.tgt = k[p].tgt /\ F.cur = 0 /\ F.lim = k[p].lim
  BY ZenonT(60), <1>1, <1>2 DEF Frame
<1>4. k' = [k EXCEPT ![p] = F]
  BY ZenonT(60) DEF ExecBadArgs, Types, ThreadsOK
<1> HIDE DEF F
<1>5. F.cur >= 0 /\ F.cur <= F.lim
  BY <1>1, <1>3, Constants
<1>6. ThreadOK(F, as[p], hold[<<p, TMP>>])
  BY ZenonT(60), <1>1, <1>3, <1>5 DEF ThreadOK
<1> QED
  BY ZenonT(60), <1>3, <1>4, <1>6, OnlyFrame DEF ExecBadArgs

LEMMA ExecCommitTypes ==
  ASSUME Types, NEW p \in Procs, ExecCommit(p)
  PROVE  Types'
<1> DEFINE b == sz[as[p]]
           F == [Idle EXCEPT !.pc = "uvmunmap", !.op = "execold", !.tgt = as[p], !.lim = b]
<1>1. as[p] \in Spaces /\ k[p].tgt \in Spaces /\ b \in 0..NVA /\ "execold" \in Ops
  BY ZenonT(60), Running DEF ExecCommit, At, ThreadOK, Ops
<1>2. k' = [k EXCEPT ![p] = F] /\ hold' = hold
  BY DEF ExecCommit
<1>3. AllocOK'
  BY DEF Types, AllocOK, ExecCommit, kallocVars
<1>4. TableOK' /\ as'[p] = k[p].tgt /\ \A q \in Procs \ {p} : as'[q] = as[q]
  BY ZenonT(60), <1>1 DEF Types, TableOK, ExecCommit
<1> HIDE DEF b
<1>5. F \in Frame /\ ThreadOK(F, as'[p], hold'[<<p, TMP>>])
  BY ZenonT(60), <1>1, <1>4, WalkAllFrame
<1> HIDE DEF F
<1> QED
  BY ZenonT(60), <1>2, <1>3, <1>4, <1>5, OneThread

LEMMA ReapTypes ==
  ASSUME Types, NEW p \in Procs, Reap(p)
  PROVE  Types'
<1> DEFINE b == sz[as[p]]
           F == [Idle EXCEPT !.pc = "uvmunmap", !.op = "wait", !.tgt = as[p], !.lim = b]
<1>1. as[p] \in Spaces /\ b \in 0..NVA /\ "wait" \in Ops
  BY ZenonT(60), Running DEF Reap, At, Ops
<1>2. k' = [k EXCEPT ![p] = F] /\ UNCHANGED <<kallocVars, hold, perm, sz, as>>
  BY DEF Reap
<1> HIDE DEF b
<1>3. F \in Frame /\ ThreadOK(F, as[p], hold[<<p, TMP>>])
  BY ZenonT(60), <1>1, WalkAllFrame
<1> HIDE DEF F
<1> QED
  BY ZenonT(60), <1>2, <1>3, OnlyFrame

LEMMA ExitTypes ==
  ASSUME Types, NEW p \in Procs, Exit(p)
  PROVE  Types'
<1>1. as[p] \in Spaces /\ k[p] \in Frame
  BY ZenonT(60), Running DEF Exit, Calls, At
<1> QED
  BY ZenonT(60), <1>1, ExitedOK, OnlyFrame DEF Exit

LEMMA NextTypes == Types /\ [Next]_vars => Types'
<1> SUFFICES ASSUME Types, [Next]_vars PROVE Types'
  OBVIOUS
<1>1. CASE UNCHANGED vars
  BY ZenonT(60), <1>1 DEF vars, kallocVars, cowVars, Types, AllocOK, TableOK, ThreadsOK
<1>2. ASSUME NEW p \in Procs, UserStep(p) PROVE Types'
  BY <1>2, UserStoreTypes, CopyOutTypes, StoreFaultTypes, ForkAllocTypes, GrowTypes,
     ShrinkTypes, ExecStartTypes, ExitTypes DEF UserStep
<1>3. ASSUME NEW p \in Procs, CowfaultReject(p) \/ CowfaultNoMem(p) PROVE Types'
  BY ZenonT(60), <1>3, CowfaultFailedTypes DEF CowfaultReject, CowfaultNoMem, CowfaultOnCowPage, At
<1>4. ASSUME NEW p \in Procs, KernelStep(p) PROVE Types'
  BY <1>3, <1>4, CowfaultIgnoreTypes, CowfaultAllocTypes, CowfaultCopyTypes,
     CowfaultFreeTypes, CopyOutMoveTypes, UvmcopyShareTypes, UvmcopyErrorTypes,
     ForkDoneTypes, MappagesDirTypes, MappagesEntryTypes, UvmallocMemTypes,
     UvmallocNoMemTypes, UvmallocNoDirTypes, UvmallocDoneTypes, UvmunmapPageTypes,
     UvmunmapDoneTypes, FreewalkDirTypes, FreewalkRootTypes, ExecBadTypes, ExecBadArgsTypes,
     ExecCommitTypes, ReapTypes, KfreePushTypes DEF KernelStep
<1> QED
  BY <1>1, <1>2, <1>4 DEF Next

(* The kernel's memory structures keep their types: every page number in a *)
(* page table, in a local variable of the kernel and on the free list is a *)
(* page of RAM, for any number of pages, processes and address spaces.     *)
THEOREM TypeCorrect == Spec => []TypeOK
<1>1. Spec => []Types
  BY InitTypes, NextTypes, PTL DEF Spec
<1> QED
  BY <1>1, TypesImplyTypeOK, PTL
=============================================================================
