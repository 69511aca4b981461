------------------------------- MODULE Kalloc -------------------------------
(***************************************************************************)
(* The physical page allocator of kernel/kalloc.c with the reference       *)
(* counts that copy-on-write added to it.  Every operator below is one     *)
(* critical section of kmem.lock, so a step of it is atomic for the other  *)
(* CPUs.  kfree releases the lock between dropping the last reference and  *)
(* pushing the page on the free list (kfree_original takes the lock        *)
(* again); a page in that window is in limbo[a] of the actor a.            *)
(*                                                                         *)
(* A page is its frame number pa/PGSIZE, the index of num_ref_to_page.     *)
(* The bytes of a page are one value; Junk stands for the fill patterns    *)
(* that kalloc and kfree_original write.                                   *)
(***************************************************************************)
EXTENDS Integers, Sequences

CONSTANTS
  NPages,   (* pages that freerange hands to the allocator              *)
  Actors,   (* kernel threads that may be inside the allocator          *)
  Vals,     (* what user code stores in a page                          *)
  Zero,     (* the contents of a page after memset(mem, 0, PGSIZE)      *)
  Junk      (* the contents of a page after memset with 1 or 5          *)

ASSUME NPagesAssumption == NPages \in Nat \ {0, 1, 2}
ASSUME ValsAssumption == Zero \in Vals /\ Junk \notin Vals

Pages == 1..NPages

(* The null pointer: frame 0 is never handed out. *)
NoPage == 0

VARIABLES
  num_ref_to_page,  (* references to each page                           *)
  freelist,         (* kmem.freelist, first element at the head          *)
  limbo,            (* page between the two critical sections of kfree   *)
  content           (* the bytes of each page                            *)

kallocVars == <<num_ref_to_page, freelist, limbo, content>>

(* kalloc finds no page, or a head of the list that is still referenced. *)
KallocFails == freelist # <<>> => num_ref_to_page[Head(freelist)] # 0

(* kalloc returns pg; v is what the caller then fills the page with. *)
KallocReturns(pg, v) ==
  /\ freelist # <<>>
  /\ pg = Head(freelist)
  /\ num_ref_to_page[pg] = 0
  /\ num_ref_to_page' = [num_ref_to_page EXCEPT ![pg] = 1]
  /\ freelist' = Tail(freelist)
  /\ content' = [content EXCEPT ![pg] = v]
  /\ UNCHANGED limbo

(* Faulty variant: the new mapping is not counted. *)
IncreaseNumRefForgotten(pg) == UNCHANGED kallocVars

IncreaseNumRef(pg) ==
  /\ num_ref_to_page' = [num_ref_to_page EXCEPT ![pg] = @ + 1]
  /\ UNCHANGED <<freelist, limbo, content>>

(* Faulty variant: a decrease_num_ref besides the one inside kfree. *)
KfreeDropsTwice(a, pg) ==
  /\ num_ref_to_page[pg] > 0
  /\ num_ref_to_page' = [num_ref_to_page EXCEPT ![pg] = @ - 2]
  /\ limbo' = IF num_ref_to_page[pg] <= 2 THEN [limbo EXCEPT ![a] = pg] ELSE limbo
  /\ UNCHANGED <<freelist, content>>

(* Faulty variant: the page is freed whatever the count. *)
KfreeAlwaysFrees(a, pg) ==
  /\ num_ref_to_page[pg] > 0
  /\ num_ref_to_page' = [num_ref_to_page EXCEPT ![pg] = @ - 1]
  /\ limbo' = [limbo EXCEPT ![a] = pg]
  /\ UNCHANGED <<freelist, content>>

(* First critical section of kfree.  With no reference left the code       *)
(* panics, which the guard turns into a step that cannot be taken.         *)
Kfree(a, pg) ==
  /\ num_ref_to_page[pg] > 0
  /\ num_ref_to_page' = [num_ref_to_page EXCEPT ![pg] = @ - 1]
  /\ limbo' = IF num_ref_to_page[pg] = 1 THEN [limbo EXCEPT ![a] = pg] ELSE limbo
  /\ UNCHANGED <<freelist, content>>

(* kfree_original: fill with junk and push on the free list. *)
KfreeOriginal(a) ==
  /\ limbo[a] # NoPage
  /\ content' = [content EXCEPT ![limbo[a]] = Junk]
  /\ freelist' = <<limbo[a]>> \o freelist
  /\ limbo' = [limbo EXCEPT ![a] = NoPage]
  /\ UNCHANGED num_ref_to_page

(* The free list that freerange leaves when the frames above n have been   *)
(* handed out during boot: it pushes in ascending order, so the highest    *)
(* remaining frame is at the head.                                         *)
FreeListBelow(n) == [i \in 1..n |-> n + 1 - i]
=============================================================================
