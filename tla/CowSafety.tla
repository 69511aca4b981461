----------------------------- MODULE CowSafety ------------------------------
(***************************************************************************)
(* Proof that reference counting makes copy-on-write safe, for any number  *)
(* of processes, pages and address spaces: every place that keeps a page   *)
(* is counted, no page is both free and in use, no shared page is mapped   *)
(* writable.  The three are inductive together, over the types of          *)
(* CowTypes.  Each step changes the counts, the free list and the slots in *)
(* one of eight ways; a lemma for each way comes before the steps.         *)
(***************************************************************************)
EXTENDS CowTypes, FiniteSetTheorems

Safe == RefCounted /\ FreePagesUnused /\ WritableIsPrivate

-----------------------------------------------------------------------------
(* Counting. *)

LEMMA CountSub ==
  ASSUME NEW A, IsFiniteSet(A), NEW B, B \subseteq A
  PROVE  /\ IsFiniteSet(B) /\ Cardinality(B) <= Cardinality(A)
         /\ Cardinality(B) \in Nat /\ Cardinality(A) \in Nat
  BY FS_Subset, FS_CardinalityType

LEMMA CountAdd ==
  ASSUME NEW A, IsFiniteSet(A), NEW x, NEW B, B \subseteq A \cup {x}
  PROVE  Cardinality(B) <= Cardinality(A) + 1
<1> DEFINE C == A \cup {x}
<1>1. IsFiniteSet(C) /\ Cardinality(C) = IF x \in A THEN Cardinality(A) ELSE Cardinality(A) + 1
  BY FS_AddElement
<1>2. B \subseteq C
  OBVIOUS
<1> HIDE DEF C
<1>3. /\ Cardinality(A) \in Nat
      /\ Cardinality(B) \in Nat /\ Cardinality(C) \in Nat /\ Cardinality(B) <= Cardinality(C)
  BY SMTT(40), <1>1, <1>2, CountSub, FS_CardinalityType
<1> QED
  BY <1>1, <1>3

LEMMA CountDrop ==
  ASSUME NEW A, IsFiniteSet(A), NEW x \in A, NEW B, B \subseteq A \ {x}
  PROVE  Cardinality(B) <= Cardinality(A) - 1 /\ Cardinality(A) >= 1
<1>1. IsFiniteSet(A \ {x}) /\ Cardinality(A \ {x}) = Cardinality(A) - 1
  BY FS_RemoveElement
<1>2. Cardinality(B) <= Cardinality(A \ {x}) /\ Cardinality(A \ {x}) \in Nat
  BY <1>1, CountSub
<1> QED
  BY <1>1, <1>2, FS_CardinalityType

LEMMA CountMove ==
  ASSUME NEW A, IsFiniteSet(A), NEW x \in A, NEW y, NEW B, B \subseteq (A \ {x}) \cup {y}
  PROVE  Cardinality(B) <= Cardinality(A)
<1>1. IsFiniteSet(A \ {x}) /\ Cardinality(A \ {x}) = Cardinality(A) - 1
  BY FS_RemoveElement
<1>2. Cardinality(B) <= Cardinality(A \ {x}) + 1
  BY <1>1, CountAdd
<1> QED
  BY SMTT(40), <1>1, <1>2, FS_CardinalityType

LEMMA SlotsFinite == IsFiniteSet(Slots)
<1>1. IsFiniteSet(PT..(NVA - 1)) /\ IsFiniteSet({TMP})
  <2>1. PT \in Int /\ NVA - 1 \in Int
    BY Constants DEF PT
  <2> QED
    BY ZenonT(60), <2>1, FS_Interval, FS_Singleton
<1>2. IsFiniteSet(Spaces \X (PT..(NVA - 1))) /\ IsFiniteSet(Procs \X {TMP})
  BY ZenonT(60), <1>1, CowAssumption, FS_Product
<1> QED
  BY ZenonT(60), <1>2, FS_Union DEF Slots

LEMMA HoldersFinite ==
  ASSUME NEW pg
  PROVE  /\ IsFiniteSet(Holders(pg)) /\ Cardinality(Holders(pg)) \in Nat
         /\ IsFiniteSet(Holders(pg)') /\ Cardinality(Holders(pg)') \in Nat
  BY SlotsFinite, CountSub DEF Holders

(* A page that is kept somewhere has a count; an uncounted page is kept    *)
(* nowhere.                                                                *)
LEMMA KeptIsCounted ==
  ASSUME Types, RefCounted, NEW sl \in Slots, hold[sl] # NoPage
  PROVE  hold[sl] \in Pages /\ num_ref_to_page[hold[sl]] \in Nat /\ num_ref_to_page[hold[sl]] >= 1
<1>1. hold[sl] \in Pages /\ num_ref_to_page[hold[sl]] \in Nat
  BY DEF Types, TableOK, AllocOK
<1>2. sl \in Holders(hold[sl]) /\ {} \subseteq Holders(hold[sl]) \ {sl}
  BY DEF Holders
<1>3. Cardinality(Holders(hold[sl])) >= 1
  BY ZenonT(60), <1>2, HoldersFinite, CountDrop
<1>4. num_ref_to_page[hold[sl]] >= Cardinality(Holders(hold[sl]))
  BY <1>1 DEF RefCounted
<1> QED
  BY <1>1, <1>3, <1>4, HoldersFinite

-----------------------------------------------------------------------------
(* The ways a step can change counts, free list and slots. *)

FreeUnchanged == num_ref_to_page' = num_ref_to_page /\ freelist' = freelist /\ limbo' = limbo

LEMMA FreeKept ==
  ASSUME FreePagesUnused, FreeUnchanged
  PROVE  FreePagesUnused'
  BY DEF FreePagesUnused, FreeUnchanged

(* Slots lose pages, entries lose PTE_W. *)
LEMMA SafeShrink ==
  ASSUME Types, Safe, FreeUnchanged,
         \A sl \in Slots : /\ hold'[sl] \in {hold[sl], NoPage}
                           /\ "W" \in perm'[sl] => "W" \in perm[sl]
  PROVE  Safe'
<1>1. RefCounted'
  <2> SUFFICES ASSUME NEW pg \in Pages
               PROVE  num_ref_to_page'[pg] >= Cardinality(Holders(pg)')
    BY DEF RefCounted
  <2>1. Holders(pg)' \subseteq Holders(pg)
    BY DEF Holders, Pages, NoPage
  <2>2. Cardinality(Holders(pg)') <= Cardinality(Holders(pg))
    BY SMTT(40), <2>1, HoldersFinite, CountSub
  <2>3. num_ref_to_page[pg] \in Nat /\ num_ref_to_page[pg] >= Cardinality(Holders(pg))
    BY DEF Types, AllocOK, Safe, RefCounted
  <2> QED
    BY SMTT(40), <2>2, <2>3, HoldersFinite DEF FreeUnchanged
<1>2. WritableIsPrivate'
  BY DEF Safe, WritableIsPrivate
<1> QED
  BY SMTT(40), <1>1, <1>2, FreeKept DEF Safe

(* A page comes from kalloc into a slot. *)
LEMMA SafeAlloc ==
  ASSUME Types, Safe, NEW pg \in Pages, NEW v, KallocReturns(pg, v), NEW sl \in Slots,
         hold'[sl] = pg,
         \A x \in Slots \ {sl} : hold'[x] = hold[x] /\ perm'[x] = perm[x]
  PROVE  Safe'
<1>1. \A x \in Slots : hold[x] # pg
  <2> SUFFICES ASSUME NEW x \in Slots, hold[x] = pg PROVE FALSE
    OBVIOUS
  <2>1. hold[x] # NoPage /\ num_ref_to_page[hold[x]] = 0
    BY DEF Pages, NoPage, KallocReturns
  <2> QED
    BY <2>1, KeptIsCounted DEF Safe
<1>2. RefCounted'
  <2> SUFFICES ASSUME NEW q \in Pages
               PROVE  num_ref_to_page'[q] >= Cardinality(Holders(q)')
    BY DEF RefCounted
  <2>1. CASE q = pg
    <3>1. Holders(q)' \subseteq {} \cup {sl}
      BY SMTT(40), <1>1, <2>1 DEF Holders
    <3>2. Cardinality(Holders(q)') <= 1
      BY SMTT(40), <3>1, CountAdd, FS_EmptySet
    <3>3. num_ref_to_page'[q] = 1
      BY SMTT(40), <2>1 DEF KallocReturns, Types, AllocOK
    <3> QED
      BY SMTT(40), <3>2, <3>3, HoldersFinite
  <2>2. CASE q # pg
    <3>1. Holders(q)' \subseteq Holders(q)
      BY <2>2 DEF Holders
    <3>2. Cardinality(Holders(q)') <= Cardinality(Holders(q))
      BY SMTT(40), <3>1, HoldersFinite, CountSub
    <3>3. /\ num_ref_to_page[q] \in Nat /\ num_ref_to_page[q] >= Cardinality(Holders(q))
          /\ num_ref_to_page'[q] = num_ref_to_page[q]
      BY <2>2 DEF Types, AllocOK, Safe, RefCounted, KallocReturns
    <3> QED
      BY SMTT(40), <3>2, <3>3, HoldersFinite
  <2> QED
    BY SMTT(40), <2>1, <2>2
<1>3. WritableIsPrivate'
  BY SMTT(40), <1>1 DEF Safe, WritableIsPrivate
<1>4. FreePagesUnused'
  <2>1. /\ freelist \in Seq(Pages) /\ freelist # <<>> /\ freelist' = Tail(freelist)
        /\ pg = freelist[1] /\ limbo' = limbo /\ num_ref_to_page \in [Pages -> Nat]
        /\ num_ref_to_page' = [num_ref_to_page EXCEPT ![pg] = 1]
    BY DEF Types, AllocOK, KallocReturns
  <2>2. \A i \in DOMAIN freelist' : /\ i + 1 \in DOMAIN freelist
                                    /\ i + 1 # 1
                                    /\ freelist'[i] = freelist[i + 1]
                                    /\ i \in Int
    BY <2>1
  <2>3. 1 \in DOMAIN freelist
    BY <2>1
  <2>4. \A i \in DOMAIN freelist' : freelist'[i] # pg /\ freelist'[i] \in Pages
    BY SMTT(40), <2>1, <2>2, <2>3 DEF Safe, FreePagesUnused
  <2>5. \A i, j \in DOMAIN freelist' : i # j => freelist'[i] # freelist'[j]
    BY <2>2 DEF Safe, FreePagesUnused
  <2>6. \A i \in DOMAIN freelist' : num_ref_to_page'[freelist'[i]] = 0
    BY SMTT(40), <2>1, <2>2, <2>4 DEF Safe, FreePagesUnused
  <2>7. \A p \in Procs : limbo[p] # NoPage =>
          /\ num_ref_to_page'[limbo[p]] = 0
          /\ \A i \in DOMAIN freelist' : freelist'[i] # limbo[p]
          /\ \A q \in Procs \ {p} : limbo[q] # limbo[p]
    BY SMTT(40), <2>1, <2>2, <2>3 DEF Safe, FreePagesUnused, Types, AllocOK
  <2> QED
    BY SMTT(40), <2>1, <2>5, <2>6, <2>7 DEF FreePagesUnused
<1> QED
  BY SMTT(40), <1>2, <1>3, <1>4 DEF Safe

(* A slot gives its page to kfree. *)
LEMMA SafeDrop ==
  ASSUME Types, Safe, NEW p \in Procs, limbo[p] = NoPage, NEW sl \in Slots,
         hold[sl] # NoPage, Kfree(p, hold[sl]), Put(sl, NoPage, {})
  PROVE  Safe'
<1> DEFINE pg == hold[sl]
<1>1. pg \in Pages /\ num_ref_to_page[pg] \in Nat /\ num_ref_to_page[pg] >= 1
  BY KeptIsCounted DEF Safe
<1>2. /\ num_ref_to_page \in [Pages -> Nat]
      /\ num_ref_to_page' = [num_ref_to_page EXCEPT ![pg] = num_ref_to_page[pg] - 1]
      /\ freelist' = freelist
      /\ limbo' = IF num_ref_to_page[pg] = 1 THEN [limbo EXCEPT ![p] = pg] ELSE limbo
  BY DEF Kfree, Types, AllocOK
<1>3. /\ hold'[sl] = NoPage /\ perm'[sl] = {}
      /\ \A x \in Slots \ {sl} : hold'[x] = hold[x] /\ perm'[x] = perm[x]
  BY DEF Put, Types, TableOK
<1>4. sl \in Holders(pg)
  BY DEF Holders
<1> HIDE DEF pg
<1>5. RefCounted'
  <2> SUFFICES ASSUME NEW q \in Pages
               PROVE  num_ref_to_page'[q] >= Cardinality(Holders(q)')
    BY DEF RefCounted
  <2>1. num_ref_to_page[q] \in Nat /\ num_ref_to_page[q] >= Cardinality(Holders(q))
    BY DEF Types, AllocOK, Safe, RefCounted
  <2>2. CASE q = pg
    <3>1. Holders(q)' \subseteq Holders(q) \ {sl}
      BY SMTT(40), <1>3 DEF Holders, Pages, NoPage
    <3>2. Cardinality(Holders(q)') <= Cardinality(Holders(q)) - 1
      BY SMTT(40), <1>4, <2>2, <3>1, HoldersFinite, CountDrop
    <3>3. num_ref_to_page'[q] = num_ref_to_page[q] - 1
      BY SMTT(40), <1>1, <1>2, <2>2
    <3> QED
      BY SMTT(40), <2>1, <3>2, <3>3, HoldersFinite
  <2>3. CASE q # pg
    <3>1. Holders(q)' \subseteq Holders(q)
      BY SMTT(40), <1>3 DEF Holders, Pages, NoPage
    <3>2. Cardinality(Holders(q)') <= Cardinality(Holders(q))
      BY SMTT(40), <3>1, HoldersFinite, CountSub
    <3>3. num_ref_to_page'[q] = num_ref_to_page[q]
      BY SMTT(40), <1>1, <1>2, <2>3
    <3> QED
      BY SMTT(40), <2>1, <3>2, <3>3, HoldersFinite
  <2> QED
    BY SMTT(40), <2>2, <2>3
<1>6. WritableIsPrivate'
  BY <1>3 DEF Safe, WritableIsPrivate
<1>7. FreePagesUnused'
  <2>1. freelist \in Seq(Pages) /\ limbo \in [Procs -> Pages \cup {NoPage}]
    BY DEF Types, AllocOK
  <2>2. \A i \in DOMAIN freelist : freelist[i] \in Pages /\ freelist[i] # pg
    BY SMTT(40), <1>1, <2>1 DEF Safe, FreePagesUnused
  <2>3. \A q \in Procs : limbo[q] # pg
    BY SMTT(40), <1>1 DEF Safe, FreePagesUnused, Pages, NoPage
  <2>4. \A i \in DOMAIN freelist : num_ref_to_page'[freelist[i]] = 0
    BY SMTT(40), <1>1, <1>2, <2>2 DEF Safe, FreePagesUnused
  <2>5. \A q \in Procs : limbo[q] # NoPage => num_ref_to_page'[limbo[q]] = 0
    BY SMTT(40), <1>1, <1>2, <2>1, <2>3 DEF Safe, FreePagesUnused
  <2>6. CASE num_ref_to_page[pg] = 1
    <3>1. limbo' = [limbo EXCEPT ![p] = pg] /\ num_ref_to_page'[pg] = 0
      BY SMTT(40), <1>1, <1>2, <2>6
    <3> QED
      BY SMTT(40), <1>2, <2>1, <2>2, <2>3, <2>4, <2>5, <3>1 DEF Safe, FreePagesUnused
  <2>7. CASE num_ref_to_page[pg] # 1
    <3>1. limbo' = limbo
      BY SMTT(40), <1>2, <2>7
    <3> QED
      BY SMTT(40), <1>2, <2>4, <2>5, <3>1 DEF Safe, FreePagesUnused
  <2> QED
    BY SMTT(40), <2>6, <2>7
<1> QED
  BY SMTT(40), <1>5, <1>6, <1>7 DEF Safe

(* uvmcopy: a page gets a second place and loses PTE_W at both. *)
LEMMA SafeShare ==
  ASSUME Types, Safe, NEW old \in Slots, NEW t \in Slots, old # t, hold[old] # NoPage,
         IncreaseNumRef(hold[old]), NEW flags, "W" \notin flags,
         hold' = [hold EXCEPT ![t] = hold[old]],
         perm' = [perm EXCEPT ![old] = flags, ![t] = flags]
  PROVE  Safe'
<1> DEFINE pg == hold[old]
<1>1. pg \in Pages /\ num_ref_to_page[pg] \in Nat /\ num_ref_to_page[pg] >= 1
  BY KeptIsCounted DEF Safe
<1>2. /\ num_ref_to_page \in [Pages -> Nat]
      /\ num_ref_to_page' = [num_ref_to_page EXCEPT ![pg] = num_ref_to_page[pg] + 1]
      /\ freelist' = freelist /\ limbo' = limbo
  BY DEF IncreaseNumRef, Types, AllocOK
<1>3. /\ hold'[t] = pg /\ perm'[t] = flags /\ perm'[old] = flags
      /\ \A x \in Slots \ {t} : hold'[x] = hold[x]
      /\ \A x \in Slots \ {old, t} : perm'[x] = perm[x]
  BY DEF Types, TableOK
<1>4. WritableIsPrivate'
  <2> SUFFICES ASSUME NEW a \in Slots, NEW b \in Slots, a # b, hold'[a] = hold'[b],
                      hold'[a] # NoPage
               PROVE  "W" \notin perm'[a]
    BY ZenonT(60) DEF WritableIsPrivate
  <2>1. CASE a \in {old, t}
    BY <1>3, <2>1
  <2>2. CASE a \notin {old, t} /\ b = t
    <3>1. hold[a] = hold[old] /\ hold[a] # NoPage /\ a # old
      BY <1>3, <2>2
    <3> QED
      BY ZenonT(60), <1>3, <2>2, <3>1 DEF Safe, WritableIsPrivate
  <2>3. CASE a \notin {old, t} /\ b # t
    BY ZenonT(60), <1>3, <2>3 DEF Safe, WritableIsPrivate
  <2> QED
    BY SMTT(40), <2>1, <2>2, <2>3
<1> HIDE DEF pg
<1>5. RefCounted'
  <2> SUFFICES ASSUME NEW q \in Pages
               PROVE  num_ref_to_page'[q] >= Cardinality(Holders(q)')
    BY DEF RefCounted
  <2>1. num_ref_to_page[q] \in Nat /\ num_ref_to_page[q] >= Cardinality(Holders(q))
    BY DEF Types, AllocOK, Safe, RefCounted
  <2>2. CASE q = pg
    <3>1. Holders(q)' \subseteq Holders(q) \cup {t}
      BY <1>3 DEF Holders
    <3>2. Cardinality(Holders(q)') <= Cardinality(Holders(q)) + 1
      BY ZenonT(60), <3>1, HoldersFinite, CountAdd
    <3>3. num_ref_to_page'[q] = num_ref_to_page[q] + 1
      BY <1>1, <1>2, <2>2
    <3> QED
      BY <2>1, <3>2, <3>3, HoldersFinite
  <2>3. CASE q # pg
    <3>1. Holders(q)' \subseteq Holders(q)
      BY SMTT(40), <1>3, <2>3 DEF Holders
    <3>2. Cardinality(Holders(q)') <= Cardinality(Holders(q))
      BY <3>1, HoldersFinite, CountSub
    <3>3. num_ref_to_page'[q] = num_ref_to_page[q]
      BY <1>1, <1>2, <2>3
    <3> QED
      BY SMTT(40), <2>1, <3>2, <3>3, HoldersFinite
  <2> QED
    BY <2>2, <2>3
<1>6. FreePagesUnused'
  <2>1. \A q \in Pages : num_ref_to_page[q] = 0 => num_ref_to_page'[q] = 0
    BY SMTT(40), <1>1, <1>2
  <2>2. freelist \in Seq(Pages) /\ limbo \in [Procs -> Pages \cup {NoPage}]
    BY DEF Types, AllocOK
  <2>3. \A i \in DOMAIN freelist : freelist[i] \in Pages
    BY SMTT(40), <2>2
  <2> QED
    BY SMTT(40), <1>2, <2>1, <2>2, <2>3 DEF Safe, FreePagesUnused
<1> QED
  BY SMTT(40), <1>4, <1>5, <1>6 DEF Safe

(* The page of a local variable moves into an entry; the local variable    *)
(* gets what the entry had (cowfault) or nothing (mappages), without       *)
(* permissions.                                                            *)
LEMMA SafeMove ==
  ASSUME Types, Safe, FreeUnchanged, NEW e \in Slots, NEW t \in Slots, e # t,
         hold'[e] = hold[t], hold'[t] \in {hold[e], NoPage},
         perm'[e] = perm[t], perm'[t] = {},
         \A x \in Slots \ {e, t} : hold'[x] = hold[x] /\ perm'[x] = perm[x]
  PROVE  Safe'
<1>1. RefCounted'
  <2> SUFFICES ASSUME NEW q \in Pages
               PROVE  num_ref_to_page'[q] >= Cardinality(Holders(q)')
    BY SMTT(40) DEF RefCounted
  <2>1. /\ num_ref_to_page[q] \in Nat /\ num_ref_to_page[q] >= Cardinality(Holders(q))
        /\ num_ref_to_page'[q] = num_ref_to_page[q] /\ q # NoPage
    BY DEF Types, AllocOK, Safe, RefCounted, FreeUnchanged, Pages, NoPage
  <2>2. Cardinality(Holders(q)') <= Cardinality(Holders(q))
    <3>1. CASE t \in Holders(q) /\ e \notin Holders(q)
      <4>1. Holders(q)' \subseteq (Holders(q) \ {t}) \cup {e}
        BY SMTT(40), <2>1, <3>1 DEF Holders
      <4> QED
        BY SMTT(40), <3>1, <4>1, HoldersFinite, CountMove
    <3>2. CASE t \notin Holders(q) /\ e \in Holders(q)
      <4>1. Holders(q)' \subseteq (Holders(q) \ {e}) \cup {t}
        BY SMTT(40), <2>1, <3>2 DEF Holders
      <4> QED
        BY SMTT(40), <3>2, <4>1, HoldersFinite, CountMove
    <3>3. CASE t \in Holders(q) <=> e \in Holders(q)
      <4>1. Holders(q)' \subseteq Holders(q)
        BY SMTT(40), <2>1, <3>3 DEF Holders
      <4> QED
        BY SMTT(40), <4>1, HoldersFinite, CountSub
    <3> QED
      BY SMTT(40), <3>1, <3>2, <3>3
  <2> QED
    BY SMTT(40), <2>1, <2>2, HoldersFinite
<1>2. WritableIsPrivate'
  <2> SUFFICES ASSUME NEW a \in Slots, NEW b \in Slots, a # b, hold'[a] = hold'[b],
                      hold'[a] # NoPage
               PROVE  "W" \notin perm'[a]
    BY DEF WritableIsPrivate
  <2>1. CASE a = t
    BY <2>1
  <2>2. CASE a = e
    <3>1. PICK c \in Slots \ {t} : hold[c] = hold[t]
      BY SMTT(40), <2>2
    <3> QED
      BY SMTT(40), <2>2, <3>1 DEF Safe, WritableIsPrivate
  <2>3. CASE a \notin {e, t}
    <3>1. PICK c \in Slots \ {a} : hold[c] = hold[a]
      BY <2>3
    <3> QED
      BY SMTT(40), <2>3, <3>1 DEF Safe, WritableIsPrivate
  <2> QED
    BY SMTT(40), <2>1, <2>2, <2>3
<1> QED
  BY SMTT(40), <1>1, <1>2, FreeKept DEF Safe

(* kfree_original puts the page it was given on the free list. *)
LEMMA SafePush ==
  ASSUME Types, Safe, NEW p \in Procs, KfreeOriginal(p), UNCHANGED <<hold, perm>>
  PROVE  Safe'
<1>1. RefCounted' /\ WritableIsPrivate'
  BY DEF Safe, RefCounted, WritableIsPrivate, Holders, KfreeOriginal
<1>2. FreePagesUnused'
  <2>1. /\ freelist \in Seq(Pages) /\ limbo \in [Procs -> Pages \cup {NoPage}]
        /\ limbo[p] \in Pages /\ limbo[p] # NoPage
        /\ freelist' = <<limbo[p]>> \o freelist /\ limbo' = [limbo EXCEPT ![p] = NoPage]
        /\ num_ref_to_page' = num_ref_to_page
    BY DEF Types, AllocOK, KfreeOriginal
  <2>2. \A i \in DOMAIN freelist' :
          \/ i = 1 /\ freelist'[i] = limbo[p]
          \/ i # 1 /\ i \in Int /\ i - 1 \in DOMAIN freelist /\ freelist'[i] = freelist[i - 1]
    BY <2>1
  <2>3. \A i, j \in DOMAIN freelist' : i # j => freelist'[i] # freelist'[j]
    BY SMTT(40), <2>1, <2>2 DEF Safe, FreePagesUnused
  <2>4. \A i \in DOMAIN freelist' : num_ref_to_page'[freelist'[i]] = 0
    BY SMTT(40), <2>1, <2>2 DEF Safe, FreePagesUnused
  <2>5. \A q \in Procs : limbo'[q] # NoPage => q # p /\ limbo'[q] = limbo[q]
    BY <2>1
  <2>6. ASSUME NEW q \in Procs, limbo'[q] # NoPage
        PROVE  /\ num_ref_to_page'[limbo'[q]] = 0
               /\ \A i \in DOMAIN freelist' : freelist'[i] # limbo'[q]
               /\ \A r \in Procs \ {q} : limbo'[r] # limbo'[q]
    <3>1. q # p /\ limbo'[q] = limbo[q] /\ limbo[q] # NoPage /\ limbo[p] # limbo[q]
      BY SMTT(40), <2>1, <2>5, <2>6 DEF Safe, FreePagesUnused
    <3>2. num_ref_to_page'[limbo'[q]] = 0
      BY SMTT(40), <2>1, <3>1 DEF Safe, FreePagesUnused
    <3>3. \A i \in DOMAIN freelist' : freelist'[i] # limbo'[q]
      BY SMTT(40), <2>2, <3>1 DEF Safe, FreePagesUnused
    <3>4. \A r \in Procs \ {q} : limbo'[r] # limbo'[q]
      BY SMTT(40), <2>1, <3>1 DEF Safe, FreePagesUnused
    <3> QED
      BY SMTT(40), <3>2, <3>3, <3>4
  <2> QED
    BY SMTT(40), <2>3, <2>4, <2>6 DEF FreePagesUnused
<1> QED
  BY <1>1, <1>2 DEF Safe

-----------------------------------------------------------------------------
(* The initial state, and one step for each action. *)

LEMMA InitSafe == Init => Safe
<1> SUFFICES ASSUME Init PROVE Safe
  OBVIOUS
<1>1. NPages \in Nat /\ NPages >= 3
  BY SMTT(40), Constants
<1>2. /\ \A sl \in Slots :
           hold[sl] = IF sl = <<InitSpace, PT>> THEN NPages
                      ELSE IF sl = <<InitSpace, DIR>> THEN NPages - 1
                      ELSE IF sl = <<InitSpace, 0>> THEN NPages - 2 ELSE NoPage
      /\ num_ref_to_page = [pg \in Pages |-> IF pg > NPages - 3 THEN 1 ELSE 0]
  BY DEF Init
<1>3. \A a, b \in Slots : hold[a] = hold[b] /\ hold[a] # NoPage => a = b
  BY <1>1, <1>2 DEF NoPage
<1>4. RefCounted
  <2> SUFFICES ASSUME NEW pg \in Pages
               PROVE  num_ref_to_page[pg] >= Cardinality(Holders(pg))
    BY DEF RefCounted
  <2>1. CASE Holders(pg) = {}
    <3>1. Cardinality(Holders(pg)) = 0
      BY SMTT(40), <2>1, FS_EmptySet
    <3>2. num_ref_to_page[pg] \in Nat
      BY <1>2
    <3> QED
      BY SMTT(40), <3>1, <3>2
  <2>2. CASE Holders(pg) # {}
    <3>1. PICK sl \in Slots : hold[sl] = pg
      BY <2>2 DEF Holders
    <3>2. Holders(pg) \subseteq {} \cup {sl}
      BY <1>3, <3>1 DEF Holders, Pages, NoPage
    <3>3. Cardinality(Holders(pg)) <= 1
      BY SMTT(40), <3>2, CountAdd, FS_EmptySet
    <3>4. pg > NPages - 3
      BY SMTT(40), <1>1, <1>2, <3>1 DEF Pages, NoPage
    <3>5. num_ref_to_page[pg] = 1
      BY SMTT(40), <1>2, <3>4
    <3> QED
      BY SMTT(40), <3>3, <3>5, HoldersFinite
  <2> QED
    BY <2>1, <2>2
<1>5. FreePagesUnused
  <2>1. freelist = [i \in 1..(NPages - 3) |-> NPages - 2 - i]
    BY <1>1 DEF Init, FreeListBelow
  <2>2. \A i \in DOMAIN freelist : /\ i \in Int /\ freelist[i] = NPages - 2 - i
                                   /\ freelist[i] \in Pages /\ ~(freelist[i] > NPages - 3)
    BY SMTT(40), <1>1, <2>1 DEF Pages
  <2>3. \A i \in DOMAIN freelist : num_ref_to_page[freelist[i]] = 0
    BY SMTT(40), <1>2, <2>2
  <2>4. \A i, j \in DOMAIN freelist : i # j => freelist[i] # freelist[j]
    BY SMTT(40), <1>1, <2>2
  <2>5. \A p \in Procs : limbo[p] = NoPage
    BY Constants DEF Init
  <2> QED
    BY SMTT(40), <2>3, <2>4, <2>5 DEF FreePagesUnused
<1>6. WritableIsPrivate
  BY <1>3 DEF WritableIsPrivate
<1> QED
  BY SMTT(40), <1>4, <1>5, <1>6 DEF Safe

(* Steps that leave counts, free list and slots alone. *)
LEMMA SafeSame ==
  ASSUME Types, Safe, FreeUnchanged, UNCHANGED <<hold, perm>>
  PROVE  Safe'
  BY SMTT(40), SafeShrink

(* A page from kalloc goes into a slot that exists. *)
LEMMA SafeAllocPut ==
  ASSUME Types, Safe, NEW pg \in Pages, NEW v, KallocReturns(pg, v), NEW sl \in Slots,
         NEW fl, Put(sl, pg, fl)
  PROVE  Safe'
<1>1. /\ hold'[sl] = pg
      /\ \A x \in Slots \ {sl} : hold'[x] = hold[x] /\ perm'[x] = perm[x]
  BY DEF Put, Types, TableOK
<1> QED
  BY SMTT(40), <1>1, SafeAlloc

LEMMA CowfaultSafe ==
  ASSUME Types, Safe, NEW p \in Procs,
         CowfaultAlloc(p) \/ CowfaultCopy(p) \/ CowfaultFree(p)
  PROVE  Safe'
<1>1. <<p, TMP>> \in Slots
  BY SlotFacts
<1>2. CASE CowfaultAlloc(p)
  BY SMTT(40), <1>1, <1>2, SafeAllocPut DEF CowfaultAlloc
<1>3. CASE CowfaultCopy(p)
  <2> DEFINE e == FaultSlot(p)
             t == <<p, TMP>>
  <2>1. e \in Slots /\ e # t
    <3>1. k[p] \in Frame /\ FaultSlot(p) \in Slots
      BY ZenonT(60), <1>3, Running DEF CowfaultCopy, At
    <3>2. PageOf(k[p].cur) # TMP
      BY <3>1, FrameNumbers, Constants DEF PageOf, TMP, NullAddr
    <3> QED
      BY ZenonT(60), <3>1, <3>2 DEF FaultSlot
  <2>2. /\ hold' = [hold EXCEPT ![e] = hold[t], ![t] = hold[e]]
        /\ perm' = [perm EXCEPT ![e] = perm[t], ![t] = {}]
        /\ FreeUnchanged
    BY <1>3 DEF CowfaultCopy, FreeUnchanged
  <2>3. t \in Slots
    BY SMTT(40), <1>1
  <2> HIDE DEF e, t
  <2>4. /\ hold'[e] = hold[t] /\ hold'[t] = hold[e] /\ perm'[e] = perm[t] /\ perm'[t] = {}
        /\ \A x \in Slots \ {e, t} : hold'[x] = hold[x] /\ perm'[x] = perm[x]
    BY SMTT(40), <2>1, <2>2, <2>3 DEF Types, TableOK
  <2> QED
    BY ZenonT(60), <2>1, <2>2, <2>3, <2>4, SafeMove
<1>4. CASE CowfaultFree(p)
  <2>1. hold[<<p, TMP>>] # NoPage /\ limbo[p] = NoPage
    BY ZenonT(60), <1>4, Running DEF CowfaultFree, At, ThreadOK
  <2> QED
    BY SMTT(40), <1>1, <1>4, <2>1, SafeDrop DEF CowfaultFree
<1> QED
  BY SMTT(40), <1>2, <1>3, <1>4

LEMMA ForkSafe ==
  ASSUME Types, Safe, NEW p \in Procs, UvmcopyShare(p) \/ UvmcopyError(p)
  PROVE  Safe'
<1>1. <<p, TMP>> \in Slots
  BY SMTT(40), SlotFacts
<1>2. CASE UvmcopyShare(p)
  <2> DEFINE old == <<as[p], k[p].cur>>
             t == <<p, TMP>>
             flags == (perm[old] \ {"W"}) \cup {"COW"}
  <2>1. k[p] \in Frame /\ as[p] \in Spaces /\ k[p].cur >= 0 /\ k[p].cur < k[p].lim
    BY ZenonT(60), <1>2, Running DEF UvmcopyShare, At, ThreadOK
  <2>2. k[p].cur \in VAs /\ k[p].cur # TMP
    BY <2>1, FrameNumbers, Constants DEF VAs, TMP
  <2>3. old \in Slots /\ t \in Slots /\ old # t /\ "W" \notin flags
    BY ZenonT(60), <1>1, <2>1, <2>2, SlotFacts
  <2>4. /\ hold[old] # NoPage /\ IncreaseNumRef(hold[old])
        /\ hold' = [hold EXCEPT ![t] = hold[old]]
        /\ perm' = [perm EXCEPT ![old] = flags, ![t] = flags]
    BY <1>2 DEF UvmcopyShare
  <2> HIDE DEF old, t, flags
  <2> QED
    BY ZenonT(60), <2>3, <2>4, SafeShare
<1>3. CASE UvmcopyError(p)
  <2>1. FreeUnchanged
    BY SMTT(40), <1>3 DEF UvmcopyError, kallocVars, FreeUnchanged
  <2>2. \A sl \in Slots : /\ hold'[sl] \in {hold[sl], NoPage}
                          /\ "W" \in perm'[sl] => "W" \in perm[sl]
    BY SMTT(40), <1>1, <1>3 DEF UvmcopyError, Put, Types, TableOK
  <2> QED
    BY SMTT(40), <2>1, <2>2, SafeShrink
<1> QED
  BY SMTT(40), <1>2, <1>3

LEMMA MappagesSafe ==
  ASSUME Types, Safe, NEW p \in Procs, MappagesDir(p) \/ MappagesEntry(p)
  PROVE  Safe'
<1>1. /\ k[p] \in Frame /\ k[p].tgt \in Spaces /\ k[p].cur >= 0 /\ k[p].cur < k[p].lim
      /\ <<p, TMP>> \in Slots
  BY ZenonT(60), Running, SlotFacts DEF MappagesDir, MappagesEntry, At, ThreadOK
<1>2. CASE MappagesDir(p)
  BY ZenonT(60), <1>1, <1>2, SlotFacts, SafeAllocPut DEF MappagesDir
<1>3. CASE MappagesEntry(p)
  <2> DEFINE e == <<k[p].tgt, k[p].cur>>
             t == <<p, TMP>>
  <2>1. k[p].cur \in VAs /\ k[p].cur # TMP
    BY <1>1, FrameNumbers, Constants DEF VAs, TMP
  <2>2. e \in Slots /\ e # t /\ t \in Slots
    BY SMTT(40), <1>1, <2>1, SlotFacts
  <2>3. /\ hold' = [hold EXCEPT ![e] = hold[t], ![t] = NoPage]
        /\ perm' = [perm EXCEPT ![e] = perm[t], ![t] = {}]
        /\ FreeUnchanged
    BY SMTT(40), <1>3 DEF MappagesEntry, kallocVars, FreeUnchanged
  <2> HIDE DEF e, t
  <2>4. /\ hold'[e] = hold[t] /\ hold'[t] = NoPage /\ perm'[e] = perm[t] /\ perm'[t] = {}
        /\ \A x \in Slots \ {e, t} : hold'[x] = hold[x] /\ perm'[x] = perm[x]
    BY SMTT(40), <2>2, <2>3 DEF Types, TableOK
  <2> QED
    BY ZenonT(60), <2>2, <2>3, <2>4, SafeMove
<1> QED
  BY <1>2, <1>3

LEMMA UvmallocSafe ==
  ASSUME Types, Safe, NEW p \in Procs, UvmallocMem(p) \/ UvmallocNoDir(p)
  PROVE  Safe'
<1>1. <<p, TMP>> \in Slots
  BY SlotFacts
<1>2. CASE UvmallocMem(p)
  BY SMTT(40), <1>1, <1>2, SafeAllocPut DEF UvmallocMem
<1>3. CASE UvmallocNoDir(p)
  <2>1. hold[<<p, TMP>>] # NoPage /\ limbo[p] = NoPage
    BY ZenonT(60), <1>3, Running DEF UvmallocNoDir, At, ThreadOK
  <2> QED
    BY SMTT(40), <1>1, <1>3, <2>1, SafeDrop DEF UvmallocNoDir
<1> QED
  BY <1>2, <1>3

LEMMA FreeSafe ==
  ASSUME Types, Safe, NEW p \in Procs, UvmunmapPage(p) \/ FreewalkDir(p) \/ FreewalkRoot(p)
  PROVE  Safe'
<1>1. k[p] \in Frame /\ k[p].tgt \in Spaces /\ limbo[p] = NoPage
  BY ZenonT(60), Running DEF UvmunmapPage, FreewalkDir, FreewalkRoot, At, ThreadOK
<1>2. CASE UvmunmapPage(p)
  <2>1. k[p].cur >= 0 /\ k[p].cur < k[p].lim
    BY ZenonT(60), <1>2, Running DEF UvmunmapPage, At, ThreadOK
  <2>2. k[p].cur \in VAs
    BY <1>1, <2>1, FrameNumbers, Constants DEF VAs
  <2>3. <<k[p].tgt, k[p].cur>> \in Slots
    BY SMTT(40), <1>1, <2>2, SlotFacts
  <2> QED
    BY <1>1, <1>2, <2>3, SafeDrop DEF UvmunmapPage
<1>3. CASE FreewalkDir(p)
  BY ZenonT(60), <1>1, <1>3, SlotFacts, SafeDrop DEF FreewalkDir
<1>4. CASE FreewalkRoot(p)
  BY <1>1, <1>4, SlotFacts, SafeDrop DEF FreewalkRoot
<1> QED
  BY <1>2, <1>3, <1>4

LEMMA ExecCommitSafe ==
  ASSUME Types, Safe, NEW p \in Procs, ExecCommit(p)
  PROVE  Safe'
<1>1. FreeUnchanged
  BY DEF ExecCommit, kallocVars, FreeUnchanged
<1>2. \A sl \in Slots : /\ hold'[sl] \in {hold[sl], NoPage}
                        /\ "W" \in perm'[sl] => "W" \in perm[sl]
  BY DEF ExecCommit, Types, TableOK
<1> QED
  BY SMTT(40), <1>1, <1>2, SafeShrink

LEMMA NewRootSafe ==
  ASSUME Types, Safe, FreeSpaces # {},
         \E pg \in Pages : KallocReturns(pg, Zero) /\ Put(<<NewSpace, PT>>, pg, {})
  PROVE  Safe'
<1>1. <<NewSpace, PT>> \in Slots
  BY ZenonT(60), SlotFacts DEF NewSpace, FreeSpaces
<1> QED
  BY SMTT(40), <1>1, SafeAllocPut

LEMMA NextSafe == Types /\ Safe /\ [Next]_vars => Safe'
<1> SUFFICES ASSUME Types, Safe, [Next]_vars PROVE Safe'
  OBVIOUS
<1>1. CASE UNCHANGED vars
  BY SMTT(40), <1>1, SafeSame DEF vars, kallocVars, cowVars, FreeUnchanged
<1>2. ASSUME NEW p \in Procs,
             \/ \E va \in VAs, v \in Vals : UserStore(p, va, v) \/ CopyOut(p, va, v)
             \/ \E a \in NullAddr..(NVA - 1) : StoreFault(p, a)
             \/ \E n \in 1..NVA : Grow(p, n) \/ Shrink(p, n)
             \/ Exit(p) \/ ExecBad(p) \/ ExecBadArgs(p) \/ Reap(p) \/ CopyOutMove(p) \/ ForkDone(p)
      PROVE  Safe'
  <2>1. FreeUnchanged /\ UNCHANGED <<hold, perm>>
    BY ZenonT(60), <1>2 DEF UserStore, CopyOut, StoreFault, Grow, Shrink, Exit, ExecBad, ExecBadArgs, Reap,
       CopyOutMove, ForkDone, FreeUnchanged, kallocVars, cowVars
  <2> QED
    BY SMTT(40), <2>1, SafeSame
<1>3. ASSUME NEW p \in Procs,
             \/ CowfaultReject(p) \/ CowfaultIgnore(p) \/ CowfaultNoMem(p)
             \/ UvmallocNoMem(p) \/ UvmallocDone(p) \/ UvmunmapDone(p)
      PROVE  Safe'
  <2>1. FreeUnchanged /\ UNCHANGED <<hold, perm>>
    BY ZenonT(60), <1>3 DEF CowfaultReject, CowfaultIgnore, CowfaultNoMem, UvmallocNoMem,
       UvmallocDone, UvmunmapDone, FreeUnchanged, kallocVars
  <2> QED
    BY <2>1, SafeSame
<1>4. ASSUME NEW p \in Procs, (\E c \in Procs \ {p} : ForkAlloc(p, c)) \/ ExecStart(p)
      PROVE  Safe'
  BY ZenonT(60), <1>4, NewRootSafe DEF ForkAlloc, ExecStart
<1>5. ASSUME NEW p \in Procs, KfreePush(p) PROVE Safe'
  BY SMTT(40), <1>5, SafePush DEF KfreePush, cowVars
<1>6. ASSUME NEW p \in Procs, UserStep(p) PROVE Safe'
  BY SMTT(40), <1>2, <1>4, <1>6 DEF UserStep
<1>7. ASSUME NEW p \in Procs, KernelStep(p) PROVE Safe'
  BY SMTT(40), <1>2, <1>3, <1>5, <1>7, CowfaultSafe, ForkSafe, MappagesSafe, UvmallocSafe,
     FreeSafe, ExecCommitSafe DEF KernelStep
<1> QED
  BY <1>1, <1>6, <1>7 DEF Next

(* Whatever the processes do, and wherever each is inside fork, exec, exit *)
(* or a store fault: every place that keeps a page is counted, so kfree    *)
(* never frees a page that a page table maps; the free list never holds a  *)
(* page in use; and a page that some entry maps writable is kept by that   *)
(* entry alone.                                                            *)
THEOREM CowIsSafe == Spec => [](RefCounted /\ FreePagesUnused /\ WritableIsPrivate)
<1>1. Init => Types /\ Safe
  BY SMTT(40), InitTypes, InitSafe
<1>2. Types /\ Safe /\ [Next]_vars => (Types /\ Safe)'
  BY SMTT(40), NextTypes, NextSafe
<1>3. Spec => [](Types /\ Safe)
  BY <1>1, <1>2, PTL DEF Spec
<1>4. Types /\ Safe => RefCounted /\ FreePagesUnused /\ WritableIsPrivate
  BY DEF Safe
<1> QED
  BY <1>3, <1>4, PTL
=============================================================================
