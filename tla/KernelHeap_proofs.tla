-------------------------- MODULE KernelHeap_proofs --------------------------
(***************************************************************************)
(* Proofs about KernelHeap, for every size of the heap and of the memory   *)
(* and every number of descriptors that is at least the number of pages.   *)
(* What the operations do to a list of blocks is in                        *)
(* DynamicAllocator_proofs.                                                *)
(***************************************************************************)
EXTENDS KernelHeap, DynamicAllocator_proofs, FiniteSetTheorems

(***************************************************************************)
(* The inductive invariant.  The free blocks are in order and never touch, *)
(* the allocated ones are in order, and between them they cover the heap   *)
(* once; every descriptor is in a list.                                    *)
(***************************************************************************)
ListsInv ==
  /\ FreeMemBlocksList \in Seq(Block) /\ Apart(FreeMemBlocksList)
  /\ AllocMemBlocksList \in Seq(Block) /\ Ascending(AllocMemBlocksList)
  /\ PagesOf(FreeMemBlocksList) \cap PagesOf(AllocMemBlocksList) = {}
  /\ PagesOf(FreeMemBlocksList) \cup PagesOf(AllocMemBlocksList) = Page
  /\ AvailableMemBlocks \in Int
  /\ AvailableMemBlocks + Len(FreeMemBlocksList) + Len(AllocMemBlocksList)
       = MAX_MEM_BLOCK_CNT

(***************************************************************************)
(* Every frame is once in the free list, or mapped at the page that        *)
(* frame_va says, or held elsewhere.                                       *)
(***************************************************************************)
Owned(table, free, va, held) ==
  /\ table \in [Page -> Frame \cup {NONE}] /\ free \in Seq(Frame)
  /\ va \in [Frame -> Page \cup {NONE}] /\ held \subseteq Frame
  /\ \A i, j \in DOMAIN free : free[i] = free[j] => i = j
  /\ \A p \in Page, f \in Frame : va[f] = p <=> table[p] = f
  /\ \A i \in DOMAIN free : va[free[i]] = NONE /\ free[i] \notin held
  /\ \A f \in held : va[f] = NONE
  /\ \A f \in Frame : \/ \E i \in DOMAIN free : free[i] = f
                      \/ va[f] # NONE
                      \/ f \in held

FramesInv == Owned(page_table, free_frame_list, frame_va, elsewhere)

(***************************************************************************)
(* No page of a free block is mapped; every page of an allocated one is,   *)
(* unless the kmalloc() that took it stopped half way.                     *)
(***************************************************************************)
PagesInv ==
  /\ \A p \in PagesOf(FreeMemBlocksList) : page_table[p] = NONE
  /\ \A i \in DOMAIN AllocMemBlocksList :
       AllocMemBlocksList[i] \notin halted =>
         \A p \in Pages(AllocMemBlocksList[i]) : page_table[p] # NONE

HeapInv == ListsInv /\ FramesInv /\ PagesInv
-----------------------------------------------------------------------------
LEMMA InitLists == Init => ListsInv
<1> SUFFICES ASSUME Init PROVE ListsInv
  OBVIOUS
<1> DEFINE b == [sva |-> 1, size |-> HeapPages]
<1>1. /\ FreeMemBlocksList = <<b>> /\ AllocMemBlocksList = <<>>
      /\ AvailableMemBlocks = MAX_MEM_BLOCK_CNT - 1
      /\ HeapPages \in Nat \ {0} /\ MAX_MEM_BLOCK_CNT \in Nat
  BY HeapAssumption DEF Init
<1>2. b \in Block /\ b.sva = 1 /\ b.size = HeapPages
  BY <1>1 DEF Block
<1>3. \A p : p \in Pages(b) <=> p \in Page
  BY <1>1, <1>2, PagesIs DEF Page
<1> HIDE DEF b
<1>4. FreeMemBlocksList \in Seq(Block) /\ Apart(FreeMemBlocksList)
  BY <1>1, <1>2 DEF Apart
<1>5. AllocMemBlocksList \in Seq(Block) /\ Ascending(AllocMemBlocksList)
  BY <1>1 DEF Ascending
<1>6. \A p : p \in PagesOf(FreeMemBlocksList) <=> p \in Page
  <2>1. \A p : p \in PagesOf(<<b>>) <=> \E i \in DOMAIN <<b>> : p \in Pages(<<b>>[i])
    BY DEF PagesOf
  <2> QED BY <1>1, <1>3, <2>1
<1>7. PagesOf(AllocMemBlocksList) = {}
  BY <1>1 DEF PagesOf
<1>8. AvailableMemBlocks + Len(FreeMemBlocksList) + Len(AllocMemBlocksList)
        = MAX_MEM_BLOCK_CNT
  BY <1>1
<1> QED BY <1>1, <1>4, <1>5, <1>6, <1>7, <1>8 DEF ListsInv

LEMMA InitFrames == Init => FramesInv /\ PagesInv
<1> SUFFICES ASSUME Init PROVE FramesInv /\ PagesInv
  OBVIOUS
<1>1. /\ page_table = [p \in Page |-> NONE] /\ frame_va = [f \in Frame |-> NONE]
      /\ free_frame_list = [i \in 1 .. Frames |-> i] /\ elsewhere = {}
      /\ Frames \in Nat /\ HeapPages \in Nat
  BY HeapAssumption DEF Init
<1>2. /\ free_frame_list \in Seq(Frame) /\ DOMAIN free_frame_list = 1 .. Frames
      /\ \A i \in 1 .. Frames : free_frame_list[i] = i
  BY <1>1 DEF Frame
<1>3. NONE \notin Page /\ NONE \notin Frame
  BY <1>1 DEF Page, Frame, NONE
<1>4. FramesInv
  BY <1>1, <1>2, <1>3 DEF FramesInv, Owned, Frame
<1>5. \A p \in PagesOf(FreeMemBlocksList) : page_table[p] = NONE
  <2>1. ListsInv
    BY InitLists
  <2>2. PagesOf(FreeMemBlocksList) \subseteq Page
    BY <2>1 DEF ListsInv
  <2> QED BY <1>1, <2>2
<1>6. AllocMemBlocksList = <<>>
  BY DEF Init
<1> QED BY <1>4, <1>5, <1>6 DEF PagesInv
-----------------------------------------------------------------------------
(***************************************************************************)
(* The lists after kmalloc() and kfree().                                  *)
(***************************************************************************)
LEMMA TakeLists ==
  ASSUME ListsInv, NEW i \in DOMAIN FreeMemBlocksList, NEW size \in Nat \ {0},
         size <= FreeMemBlocksList[i].size, kmalloc_at(i, size)
  PROVE  LET b == taken(FreeMemBlocksList, i, size)
         IN /\ ListsInv' /\ b \in Block
            /\ Pages(b) \subseteq PagesOf(FreeMemBlocksList)
            /\ PagesOf(FreeMemBlocksList') = PagesOf(FreeMemBlocksList) \ Pages(b)
            /\ ToSet(AllocMemBlocksList') = ToSet(AllocMemBlocksList) \cup {b}
<1> DEFINE F == FreeMemBlocksList
           A == AllocMemBlocksList
           b == taken(F, i, size)
           F2 == take_block(F, i, size)
           A2 == insert_sorted_allocList(A, b)
<1>1. /\ F \in Seq(Block) /\ Apart(F) /\ A \in Seq(Block) /\ Ascending(A)
      /\ PagesOf(F) \cap PagesOf(A) = {} /\ PagesOf(F) \cup PagesOf(A) = Page
      /\ AvailableMemBlocks \in Int
      /\ AvailableMemBlocks + Len(F) + Len(A) = MAX_MEM_BLOCK_CNT
  BY DEF ListsInv
<1>2. /\ FreeMemBlocksList' = F2 /\ AllocMemBlocksList' = A2
      /\ AvailableMemBlocks' = AvailableMemBlocks - descriptors_used(F, i, size)
  BY DEF kmalloc_at
<1>3. TakeResult(F, F2, b) /\ Len(F2) = Len(F) + descriptors_used(F, i, size) - 1
  BY <1>1, TakeKeeps
<1>4. /\ F2 \in Seq(Block) /\ Apart(F2) /\ b \in Block
      /\ PagesOf(F2) \cup Pages(b) = PagesOf(F) /\ PagesOf(F2) \cap Pages(b) = {}
  BY <1>3 DEF TakeResult
<1> HIDE DEF F2, b
<1>5. PagesOf(A) \cap Pages(b) = {}
  BY <1>1, <1>4
<1>6. AllocResult(A, A2, b)
  BY <1>1, <1>4, <1>5, InsertAllocKeeps
<1>7. /\ A2 \in Seq(Block) /\ Ascending(A2) /\ Len(A2) = Len(A) + 1
      /\ PagesOf(A2) = PagesOf(A) \cup Pages(b) /\ ToSet(A2) = ToSet(A) \cup {b}
  BY <1>6 DEF AllocResult
<1> HIDE DEF A2
<1>8. descriptors_used(F, i, size) \in Int
  BY DEF descriptors_used
<1>9. /\ AvailableMemBlocks' \in Int
      /\ AvailableMemBlocks' + Len(F2) + Len(A2) = MAX_MEM_BLOCK_CNT
  <2>1. PICK d \in Int, a \in Int, m \in Int, n \in Int :
          /\ d = descriptors_used(F, i, size) /\ a = AvailableMemBlocks
          /\ m = Len(F) /\ n = Len(A)
    BY <1>1, <1>8
  <2>2. (a - d) + (m + d - 1) + (n + 1) = a + m + n
    OBVIOUS
  <2> QED BY <1>1, <1>2, <1>3, <1>7, <2>1, <2>2
<1>10. PagesOf(F2) \cap PagesOf(A2) = {} /\ PagesOf(F2) \cup PagesOf(A2) = Page
  BY <1>1, <1>4, <1>7
<1>11. ListsInv'
  BY <1>2, <1>4, <1>7, <1>9, <1>10 DEF ListsInv, Page
<1>12. Pages(b) \subseteq PagesOf(F) /\ PagesOf(F2) = PagesOf(F) \ Pages(b)
  BY <1>4
<1> QED BY <1>2, <1>4, <1>7, <1>11, <1>12 DEF b

LEMMA FreeLists ==
  ASSUME ListsInv, NEW va, kfree(va)
  PROVE  \E i \in DOMAIN AllocMemBlocksList :
           /\ ListsInv' /\ AllocMemBlocksList[i] \in Block
           /\ unmap_block(AllocMemBlocksList[i])
           /\ halted' = halted \ {AllocMemBlocksList[i]} /\ elsewhere' = elsewhere
           /\ PagesOf(FreeMemBlocksList')
                = PagesOf(FreeMemBlocksList) \cup Pages(AllocMemBlocksList[i])
           /\ ToSet(AllocMemBlocksList')
                = ToSet(AllocMemBlocksList) \ {AllocMemBlocksList[i]}
<1> DEFINE F == FreeMemBlocksList
           A == AllocMemBlocksList
           found == find_block(A, va)
           i == Min(found)
           b == A[i]
           F2 == insert_sorted_with_merge_freeList(F, b)
           A2 == RemoveAt(A, i)
<1>1. /\ F \in Seq(Block) /\ Apart(F) /\ A \in Seq(Block) /\ Ascending(A)
      /\ PagesOf(F) \cap PagesOf(A) = {} /\ PagesOf(F) \cup PagesOf(A) = Page
      /\ AvailableMemBlocks \in Int
      /\ AvailableMemBlocks + Len(F) + Len(A) = MAX_MEM_BLOCK_CNT
  BY DEF ListsInv
<1>2. /\ found # {} /\ FreeMemBlocksList' = F2 /\ AllocMemBlocksList' = A2
      /\ AvailableMemBlocks' = AvailableMemBlocks + descriptors_freed(F, F2)
      /\ unmap_block(b) /\ halted' = halted \ {b} /\ elsewhere' = elsewhere
  BY DEF kfree
<1>3. found \in SUBSET Nat /\ found \subseteq DOMAIN A
  BY <1>1 DEF find_block
<1>4. i \in DOMAIN A
  BY <1>2, <1>3, SmallestIs
<1> HIDE DEF i
<1>5. b \in Block
  BY <1>1, <1>4
<1>6. \A p \in Pages(b) : p \in PagesOf(A)
  BY <1>1, <1>4, PagesOfIs
<1>7. LET n == RemoveAt(A, i)
      IN /\ n \in Seq(Block) /\ Len(n) = Len(A) - 1
         /\ Ascending(n) /\ (Apart(A) => Apart(n))
         /\ PagesOf(n) = PagesOf(A) \ Pages(A[i])
         /\ ToSet(n) = ToSet(A) \ {A[i]}
  BY <1>1, <1>4, RemoveBlock
<1>8. /\ A2 \in Seq(Block) /\ Len(A2) = Len(A) - 1 /\ Ascending(A2)
      /\ PagesOf(A2) = PagesOf(A) \ Pages(b) /\ ToSet(A2) = ToSet(A) \ {b}
  BY <1>7
<1> HIDE DEF A2, b
<1>9. PagesOf(F) \cap Pages(b) = {}
  BY <1>1, <1>6
<1>10. MergeResult(F, F2, b)
  BY <1>1, <1>5, <1>9, MergeKeeps
<1>11. F2 \in Seq(Block) /\ Apart(F2) /\ PagesOf(F2) = PagesOf(F) \cup Pages(b)
  BY <1>10 DEF MergeResult
<1> HIDE DEF F2
<1>12. /\ AvailableMemBlocks' \in Int
       /\ AvailableMemBlocks' + Len(F2) + Len(A2) = MAX_MEM_BLOCK_CNT
  <2>1. PICK a \in Int, m \in Int, n \in Int, m2 \in Int :
          a = AvailableMemBlocks /\ m = Len(F) /\ n = Len(A) /\ m2 = Len(F2)
    BY <1>1, <1>11
  <2>2. descriptors_freed(F, F2) = m + 1 - m2
    BY <2>1 DEF descriptors_freed
  <2>3. (a + (m + 1 - m2)) + m2 + (n - 1) = a + m + n
    OBVIOUS
  <2> QED BY <1>1, <1>2, <1>8, <2>1, <2>2, <2>3
<1>13. PagesOf(F2) \cap PagesOf(A2) = {} /\ PagesOf(F2) \cup PagesOf(A2) = Page
  BY <1>1, <1>6, <1>8, <1>11
<1>14. ListsInv'
  BY <1>2, <1>8, <1>11, <1>12, <1>13 DEF ListsInv, Page
<1> QED BY <1>2, <1>4, <1>5, <1>8, <1>11, <1>14 DEF b
-----------------------------------------------------------------------------
(***************************************************************************)
(* The frames after allocate_chunk().                                      *)
(***************************************************************************)
LEMMA OwnedIs ==
  ASSUME NEW table, NEW free, NEW va, NEW held, Owned(table, free, va, held)
  PROVE  /\ table \in [Page -> Frame \cup {NONE}] /\ free \in Seq(Frame)
         /\ va \in [Frame -> Page \cup {NONE}] /\ held \subseteq Frame
         /\ DOMAIN free = 1 .. Len(free) /\ Len(free) \in Nat
         /\ \A i \in DOMAIN free : free[i] \in Frame
         /\ NONE \notin Page /\ NONE \notin Frame
<1>1. NONE \notin Page /\ NONE \notin Frame
  BY HeapAssumption DEF Page, Frame, NONE
<1> QED BY <1>1 DEF Owned

TableAfter(table, free, sva, now) ==
  [p \in Page |-> IF p \in now THEN free[p - sva + 1] ELSE table[p]]

VaAfter(va, free, sva, now) ==
  [f \in Frame |-> IF \E p \in now : f = free[p - sva + 1]
                   THEN CHOOSE p \in now : f = free[p - sva + 1] ELSE va[f]]

LEMMA ChunkKeeps ==
  ASSUME NEW table, NEW free, NEW va, NEW held, Owned(table, free, va, held),
         NEW sva \in Nat, NEW n \in Nat, n <= Len(free), NEW now \in SUBSET Page,
         \A p : p \in now <=> p \in Int /\ sva <= p /\ p < sva + n,
         \A p \in now : table[p] = NONE
  PROVE  Owned(TableAfter(table, free, sva, now), SubSeq(free, n + 1, Len(free)),
               VaAfter(va, free, sva, now), held)
<1> DEFINE at(p) == p - sva + 1
           T == [p \in Page |-> IF p \in now THEN free[at(p)] ELSE table[p]]
           L == SubSeq(free, n + 1, Len(free))
           V == [f \in Frame |-> IF \E p \in now : f = free[at(p)]
                                 THEN CHOOSE p \in now : f = free[at(p)] ELSE va[f]]
           Taken(f) == \E i \in 1 .. n : f = free[i]
<1>0. /\ \A p \in now : at(p) \in 1 .. n /\ table[p] = NONE
      /\ \A p, q \in now : at(p) = at(q) => p = q
      /\ \A i \in 1 .. n : \E p \in now : at(p) = i
  <2>1. \A i \in 1 .. n : i + sva - 1 \in now /\ at(i + sva - 1) = i
    OBVIOUS
  <2>2. \A i \in 1 .. n : \E p \in now : at(p) = i
    BY <2>1
  <2>3. \A p \in now : at(p) \in 1 .. n /\ table[p] = NONE
    OBVIOUS
  <2>4. \A p, q \in now : at(p) = at(q) => p = q
    OBVIOUS
  <2> QED BY <2>2, <2>3, <2>4
<1> HIDE DEF at
<1>1. /\ table \in [Page -> Frame \cup {NONE}] /\ free \in Seq(Frame)
      /\ va \in [Frame -> Page \cup {NONE}] /\ held \subseteq Frame
      /\ DOMAIN free = 1 .. Len(free) /\ Len(free) \in Nat
      /\ \A i \in DOMAIN free : free[i] \in Frame
      /\ NONE \notin Page /\ NONE \notin Frame
  BY OwnedIs
<1>2. /\ \A i, j \in DOMAIN free : free[i] = free[j] => i = j
      /\ \A p \in Page, f \in Frame : va[f] = p <=> table[p] = f
      /\ \A i \in DOMAIN free : va[free[i]] = NONE /\ free[i] \notin held
      /\ \A f \in held : va[f] = NONE
      /\ \A f \in Frame : \/ \E i \in DOMAIN free : free[i] = f
                          \/ va[f] # NONE
                          \/ f \in held
  BY DEF Owned
<1>3. \A i \in 1 .. n : i \in DOMAIN free
  BY <1>1
<1>4. /\ L \in Seq(Frame) /\ DOMAIN L = 1 .. Len(free) - n
      /\ \A j \in 1 .. Len(free) - n : L[j] = free[j + n] /\ j + n \in DOMAIN free
  BY <1>1
<1>5. \A f \in Frame : Taken(f) <=> \E p \in now : f = free[at(p)]
  BY <1>0
<1>6. \A f \in Frame : /\ Taken(f) => V[f] \in now /\ f = free[at(V[f])]
                       /\ ~Taken(f) => V[f] = va[f]
  BY <1>5
<1>7. /\ \A p \in now : T[p] = free[at(p)] /\ T[p] \in Frame
      /\ \A p \in Page \ now : T[p] = table[p]
  BY <1>0, <1>1, <1>3
<1>8. \A f \in Frame : Taken(f) => va[f] = NONE /\ f \notin held
  BY <1>2, <1>3
<1>9. T \in [Page -> Frame \cup {NONE}]
  BY <1>1, <1>7
<1>10. V \in [Frame -> Page \cup {NONE}]
  BY <1>1, <1>6
<1> HIDE DEF T, L, V
<1>11. \A i, j \in DOMAIN L : L[i] = L[j] => i = j
  <2> SUFFICES ASSUME NEW i \in DOMAIN L, NEW j \in DOMAIN L, L[i] = L[j] PROVE i = j
    OBVIOUS
  <2>1. /\ L[i] = free[i + n] /\ i + n \in DOMAIN free
        /\ L[j] = free[j + n] /\ j + n \in DOMAIN free
    BY <1>4
  <2>2. i + n = j + n
    BY <1>2, <2>1
  <2> QED BY <1>1, <1>4, <2>2
<1>12. ASSUME NEW p \in Page, NEW f \in Frame PROVE V[f] = p <=> T[p] = f
  <2>1. CASE p \in now
    <3>1. ASSUME V[f] = p PROVE T[p] = f
      <4>1. ASSUME ~Taken(f) PROVE FALSE
        <5>1. va[f] = p
          BY <1>6, <3>1, <4>1
        <5>2. table[p] = f /\ table[p] = NONE
          BY <1>0, <1>2, <2>1, <5>1
        <5> QED BY <1>1, <5>2
      <4> QED BY <1>6, <1>7, <2>1, <3>1, <4>1
    <3>2. ASSUME T[p] = f PROVE V[f] = p
      <4>1. f = free[at(p)] /\ Taken(f)
        BY <1>5, <1>7, <2>1, <3>2
      <4>2. V[f] \in now /\ f = free[at(V[f])]
        BY <1>6, <4>1
      <4>3. at(V[f]) = at(p)
        BY <1>0, <1>2, <1>3, <2>1, <4>1, <4>2
      <4> QED BY <1>0, <2>1, <4>2, <4>3
    <3> QED BY <3>1, <3>2
  <2>2. CASE p \notin now
    <3>1. ASSUME V[f] = p PROVE T[p] = f
      BY <1>2, <1>6, <1>7, <2>2, <3>1
    <3>2. ASSUME T[p] = f PROVE V[f] = p
      <4>1. va[f] = p
        BY <1>2, <1>7, <2>2, <3>2
      <4>2. ~Taken(f)
        BY <1>1, <1>8, <4>1
      <4> QED BY <1>6, <4>1, <4>2
    <3> QED BY <3>1, <3>2
  <2> QED BY <2>1, <2>2
<1>13. ASSUME NEW j \in DOMAIN L PROVE V[L[j]] = NONE /\ L[j] \notin held
  <2>1. L[j] = free[j + n] /\ j + n \in DOMAIN free /\ j \in Nat \ {0}
    BY <1>4
  <2>2. L[j] \in Frame /\ va[L[j]] = NONE /\ L[j] \notin held
    BY <1>1, <1>2, <2>1
  <2>3. ~Taken(L[j])
    <3> SUFFICES ASSUME NEW i \in 1 .. n, free[j + n] = free[i] PROVE FALSE
      BY <2>1
    <3>1. j + n = i
      BY <1>2, <1>3, <2>1
    <3> QED BY <2>1, <3>1
  <2> QED BY <1>6, <2>2, <2>3
<1>14. ASSUME NEW f \in held PROVE V[f] = NONE
  BY <1>1, <1>2, <1>6, <1>8
<1>15. ASSUME NEW f \in Frame
       PROVE  (\E i \in DOMAIN L : L[i] = f) \/ V[f] # NONE \/ f \in held
  <2>1. CASE Taken(f)
    BY <1>1, <1>6, <2>1
  <2>2. CASE ~Taken(f)
    <3>1. ASSUME NEW i \in DOMAIN free, free[i] = f PROVE \E j \in DOMAIN L : L[j] = f
      <4>1. i \in Nat /\ i <= Len(free) /\ ~(i <= n) /\ 1 <= i
        BY <1>1, <2>2, <3>1
      <4>2. i - n \in DOMAIN L /\ (i - n) + n = i
        BY <1>1, <1>4, <4>1
      <4>3. L[i - n] = free[i]
        BY <1>4, <4>2
      <4> QED BY <3>1, <4>2, <4>3
    <3> QED BY <1>2, <1>6, <2>2, <3>1
  <2> QED BY <2>1, <2>2
<1>16. Owned(T, L, V, held)
  BY <1>1, <1>4, <1>9, <1>10, <1>11, <1>12, <1>13, <1>14, <1>15 DEF Owned
<1> QED BY <1>16 DEF T, L, V, at, TableAfter, VaAfter
-----------------------------------------------------------------------------
(***************************************************************************)
(* The frames after unmap_frame() of a set of pages.  The place of a page  *)
(* is the number of mapped pages that are not below it: the places are the *)
(* numbers from one to the number of the pages.                            *)
(***************************************************************************)
LEMMA Places ==
  ASSUME NEW S \in SUBSET Int, IsFiniteSet(S)
  PROVE  /\ Cardinality(S) \in Nat
         /\ \A p \in S : Cardinality({q \in S : q >= p}) \in 1 .. Cardinality(S)
         /\ \A i \in 1 .. Cardinality(S) : \E p \in S : Cardinality({q \in S : q >= p}) = i
         /\ \A p, r \in S : Cardinality({q \in S : q >= p}) = Cardinality({q \in S : q >= r})
                            => p = r
<1> DEFINE up(p) == {q \in S : q >= p}
           g == [p \in S |-> Cardinality(up(p))]
           n == Cardinality(S)
<1>1. n \in Nat
  BY FS_CardinalityType
<1>2. ASSUME NEW p \in S PROVE IsFiniteSet(up(p)) /\ Cardinality(up(p)) \in 1 .. n
  <2>1. IsFiniteSet(up(p)) /\ Cardinality(up(p)) <= n
    BY FS_Subset
  <2>2. Cardinality(up(p)) \in Nat
    BY <2>1, FS_CardinalityType
  <2>3. up(p) # {}
    <3>1. p \in Int /\ p >= p
      OBVIOUS
    <3> QED BY <3>1
  <2>4. Cardinality(up(p)) # 0
    BY <2>1, <2>3, FS_EmptySet
  <2> QED BY <1>1, <2>1, <2>2, <2>4
<1>3. ASSUME NEW p \in S, NEW q \in S, p < q PROVE Cardinality(up(p)) # Cardinality(up(q))
  <2>1. p \in Int /\ q \in Int /\ p \in up(p) /\ p \notin up(q)
    BY <1>3
  <2>2. up(q) \in SUBSET up(p)
    <3> SUFFICES ASSUME NEW r \in S, r >= q PROVE r >= p
      OBVIOUS
    <3>1. r \in Int
      OBVIOUS
    <3> QED BY <1>3, <2>1, <3>1
  <2>3. IsFiniteSet(up(p))
    BY <1>2
  <2> HIDE DEF up
  <2> QED BY <2>1, <2>2, <2>3, FS_Subset
<1>4. g \in Injection(S, 1 .. n)
  <2>1. g \in [S -> 1 .. n]
    BY <1>2
  <2>2. \A p, q \in S : g[p] = g[q] => p = q
    <3> SUFFICES ASSUME NEW p \in S, NEW q \in S, p # q PROVE g[p] # g[q]
      OBVIOUS
    <3>1. p < q \/ q < p
      OBVIOUS
    <3>2. g[p] = Cardinality(up(p)) /\ g[q] = Cardinality(up(q))
      OBVIOUS
    <3> HIDE DEF g, up
    <3> QED BY <1>3, <3>1, <3>2
  <2> QED BY <2>1, <2>2 DEF Injection, IsInjective
<1>5. IsFiniteSet(1 .. n) /\ Cardinality(1 .. n) = n
  <2>1. IsFiniteSet(1 .. n) /\ Cardinality(1 .. n) = IF 1 > n THEN 0 ELSE n - 1 + 1
    BY <1>1, FS_Interval
  <2> QED BY <1>1, <2>1
<1>6. g \in Surjection(S, 1 .. n)
  <2> HIDE DEF g
  <2> QED BY <1>4, <1>5, FS_Injection
<1>7. \A i \in 1 .. n : \E p \in S : g[p] = i
  BY <1>6 DEF Surjection
<1>8. ASSUME NEW p \in S, NEW r \in S, Cardinality(up(p)) = Cardinality(up(r)) PROVE p = r
  <2>1. p = r \/ p < r \/ r < p
    OBVIOUS
  <2> HIDE DEF up
  <2> QED BY <1>3, <1>8, <2>1
<1> QED BY <1>1, <1>2, <1>7, <1>8

TableCut(table, mapped) == [p \in Page |-> IF p \in mapped THEN NONE ELSE table[p]]

Freed(table, mapped) ==
  [i \in 1 .. Cardinality(mapped) |->
     table[CHOOSE p \in mapped : Cardinality({q \in mapped : q >= p}) = i]]

VaCut(va, table, P) == [f \in Frame |-> IF \E p \in P : table[p] = f THEN NONE ELSE va[f]]

LEMMA UnmapKeeps ==
  ASSUME NEW table, NEW free, NEW va, NEW held, Owned(table, free, va, held),
         NEW P \in SUBSET Page, NEW mapped, mapped = {p \in P : table[p] # NONE}
  PROVE  Owned(TableCut(table, mapped), Freed(table, mapped) \o free,
               VaCut(va, table, P), held)
<1> DEFINE T == [p \in Page |-> IF p \in mapped THEN NONE ELSE table[p]]
           place(p) == Cardinality({q \in mapped : q >= p})
           m == Cardinality(mapped)
           pick(i) == CHOOSE p \in mapped : place(p) = i
           freed == [i \in 1 .. m |-> table[pick(i)]]
           L == freed \o free
           V == [f \in Frame |-> IF \E p \in P : table[p] = f THEN NONE ELSE va[f]]
           gone(f) == \E p \in P : table[p] = f
<1>1. /\ table \in [Page -> Frame \cup {NONE}] /\ free \in Seq(Frame)
      /\ va \in [Frame -> Page \cup {NONE}] /\ held \subseteq Frame
      /\ DOMAIN free = 1 .. Len(free) /\ Len(free) \in Nat
      /\ \A i \in DOMAIN free : free[i] \in Frame
      /\ NONE \notin Page /\ NONE \notin Frame
  BY OwnedIs
<1>2. /\ \A i, j \in DOMAIN free : free[i] = free[j] => i = j
      /\ \A p \in Page, f \in Frame : va[f] = p <=> table[p] = f
      /\ \A i \in DOMAIN free : va[free[i]] = NONE /\ free[i] \notin held
      /\ \A f \in held : va[f] = NONE
      /\ \A f \in Frame : \/ \E i \in DOMAIN free : free[i] = f
                          \/ va[f] # NONE
                          \/ f \in held
  BY DEF Owned
<1>3. /\ mapped \in SUBSET Int /\ mapped \in SUBSET Page /\ IsFiniteSet(mapped)
      /\ \A p \in mapped : p \in P /\ table[p] \in Frame
  <2>1. HeapPages \in Nat /\ IsFiniteSet(Page) /\ Page \subseteq Int
    <3>1. HeapPages \in Nat
      BY HeapAssumption
    <3> QED BY <3>1, FS_Interval DEF Page
  <2>2. mapped \in SUBSET Page
    OBVIOUS
  <2> QED BY <1>1, <2>1, <2>2, FS_Subset
<1>4. /\ m \in Nat
      /\ \A p \in mapped : place(p) \in 1 .. m
      /\ \A i \in 1 .. m : \E p \in mapped : place(p) = i
      /\ \A p, r \in mapped : place(p) = place(r) => p = r
  BY <1>3, Places
<1> HIDE DEF m, place
<1>5. \A i \in 1 .. m : pick(i) \in mapped /\ place(pick(i)) = i
  BY <1>4
<1>6. \A p \in mapped : pick(place(p)) = p
  BY <1>4, <1>5
<1> HIDE DEF pick
<1>7. /\ freed \in Seq(Frame) /\ Len(freed) = m /\ DOMAIN freed = 1 .. m
      /\ \A i \in 1 .. m : freed[i] = table[pick(i)] /\ freed[i] \in Frame
                           /\ va[freed[i]] = pick(i) /\ pick(i) \in Page
  BY <1>2, <1>3, <1>4, <1>5
<1>8. \A i, j \in 1 .. m : freed[i] = freed[j] => i = j
  BY <1>5, <1>7
<1>9. ASSUME NEW f \in Frame
      PROVE  /\ gone(f) <=> \E p \in mapped : table[p] = f
             /\ gone(f) <=> \E i \in 1 .. m : freed[i] = f
             /\ V[f] = IF gone(f) THEN NONE ELSE va[f]
  <2>1. gone(f) => \E p \in mapped : table[p] = f
    BY <1>1
  <2>2. (\E p \in mapped : table[p] = f) => \E i \in 1 .. m : freed[i] = f
    BY <1>4, <1>6, <1>7
  <2>3. (\E i \in 1 .. m : freed[i] = f) => gone(f)
    BY <1>3, <1>5, <1>7
  <2>4. V[f] = IF gone(f) THEN NONE ELSE va[f]
    OBVIOUS
  <2> QED BY <2>1, <2>2, <2>3, <2>4
<1> HIDE DEF freed
<1>10. /\ L \in Seq(Frame) /\ DOMAIN L = 1 .. m + Len(free)
       /\ \A i \in 1 .. m + Len(free) :
            L[i] = IF i <= m THEN freed[i] ELSE free[i - m]
  <2>1. /\ L \in Seq(Frame) /\ Len(L) = Len(freed) + Len(free)
        /\ \A i \in 1 .. Len(freed) + Len(free) :
             L[i] = IF i <= Len(freed) THEN freed[i] ELSE free[i - Len(freed)]
    <3>1. freed \in Seq(Frame) /\ free \in Seq(Frame)
      BY <1>1, <1>7
    <3> QED BY <3>1, ConcatProperties
  <2> QED BY <1>7, <2>1
<1>11. \A i \in DOMAIN L : i \in Nat /\ (i <= m => i \in 1 .. m)
                           /\ (~(i <= m) => i - m \in DOMAIN free)
  BY <1>1, <1>4, <1>10
<1>12. T \in [Page -> Frame \cup {NONE}] /\ V \in [Frame -> Page \cup {NONE}]
  BY <1>1
<1> HIDE DEF L, gone
<1>13. \A i, j \in DOMAIN L : L[i] = L[j] => i = j
  <2> SUFFICES ASSUME NEW i \in DOMAIN L, NEW j \in DOMAIN L, L[i] = L[j] PROVE i = j
    OBVIOUS
  <2>1. CASE i <= m /\ j <= m
    BY <1>8, <1>10, <1>11, <2>1
  <2>2. CASE ~(i <= m) /\ ~(j <= m)
    <3>1. free[i - m] = free[j - m] /\ i - m \in DOMAIN free /\ j - m \in DOMAIN free
      BY <1>10, <1>11, <2>2
    <3>2. i - m = j - m
      BY <1>2, <3>1
    <3> QED BY <1>4, <1>11, <3>2
  <2>3. ASSUME NEW k \in 1 .. m, NEW l \in DOMAIN free, freed[k] = free[l] PROVE FALSE
    BY <1>1, <1>2, <1>7, <2>3
  <2> QED BY <1>10, <1>11, <2>1, <2>2, <2>3
<1>14. ASSUME NEW p \in Page, NEW f \in Frame PROVE V[f] = p <=> T[p] = f
  <2>1. T[p] = IF p \in mapped THEN NONE ELSE table[p]
    OBVIOUS
  <2>2. CASE gone(f)
    <3>1. V[f] # p
      BY <1>1, <1>9, <2>2
    <3>2. ASSUME T[p] = f PROVE FALSE
      <4>1. table[p] = f /\ p \notin mapped
        BY <1>1, <2>1, <3>2
      <4>2. PICK r \in mapped : table[r] = f
        BY <1>9, <2>2
      <4>3. va[f] = p /\ va[f] = r
        BY <1>2, <1>3, <4>1, <4>2
      <4> QED BY <4>1, <4>2, <4>3
    <3> QED BY <3>1, <3>2
  <2>3. CASE ~gone(f)
    <3>1. V[f] = p <=> table[p] = f
      BY <1>2, <1>9, <2>3
    <3>2. p \in mapped => table[p] # f /\ T[p] # f
      BY <1>1, <1>9, <2>1, <2>3
    <3> QED BY <2>1, <3>1, <3>2
  <2> QED BY <2>2, <2>3
<1>15. \A f \in Frame : va[f] = NONE => V[f] = NONE
  BY <1>9
<1>16. ASSUME NEW i \in DOMAIN L PROVE V[L[i]] = NONE /\ L[i] \notin held
  <2>1. CASE i <= m
    <3>1. L[i] = freed[i] /\ i \in 1 .. m
      BY <1>10, <1>11, <2>1
    <3>2. L[i] \in Frame /\ gone(L[i]) /\ va[L[i]] # NONE
      BY <1>1, <1>7, <1>9, <3>1
    <3> QED BY <1>2, <1>9, <3>2
  <2>2. CASE ~(i <= m)
    <3>1. L[i] = free[i - m] /\ i - m \in DOMAIN free
      BY <1>10, <1>11, <2>2
    <3> QED BY <1>1, <1>2, <1>15, <3>1
  <2> QED BY <2>1, <2>2
<1>17. ASSUME NEW f \in Frame
       PROVE  (\E i \in DOMAIN L : L[i] = f) \/ V[f] # NONE \/ f \in held
  <2>1. CASE gone(f)
    <3>1. PICK i \in 1 .. m : freed[i] = f
      BY <1>9, <2>1
    <3>2. i \in DOMAIN L /\ i <= m
      BY <1>1, <1>4, <1>10
    <3> QED BY <1>10, <3>1, <3>2
  <2>2. CASE ~gone(f) /\ \E i \in DOMAIN free : free[i] = f
    <3>1. PICK i \in DOMAIN free : free[i] = f
      BY <2>2
    <3>2. i + m \in DOMAIN L /\ ~(i + m <= m) /\ (i + m) - m = i
      BY <1>1, <1>4, <1>10
    <3>3. L[i + m] = free[i]
      BY <1>10, <3>2
    <3> QED BY <3>1, <3>2, <3>3
  <2>3. CASE ~gone(f) /\ ~\E i \in DOMAIN free : free[i] = f
    BY <1>2, <1>9, <2>3
  <2> QED BY <2>1, <2>2, <2>3
<1>18. \A f \in held : V[f] = NONE
  BY <1>1, <1>2, <1>15
<1> HIDE DEF T, V
<1>19. Owned(T, L, V, held)
  BY <1>1, <1>10, <1>12, <1>13, <1>14, <1>16, <1>17, <1>18 DEF Owned
<1> QED BY <1>19 DEF T, L, V, freed, pick, place, m, TableCut, Freed, VaCut
-----------------------------------------------------------------------------
(***************************************************************************)
(* Every action keeps the invariant; kmalloc() and kfree() change the      *)
(* mapping of no page outside the block they take or free.                 *)
(***************************************************************************)
LEMMA InList ==
  ASSUME NEW S, NEW list \in Seq(S)
  PROVE  \A x : x \in ToSet(list) <=> \E i \in DOMAIN list : list[i] = x
BY DEF ToSet

LEMMA KmallocKeeps ==
  ASSUME HeapInv, NEW i \in DOMAIN FreeMemBlocksList, NEW size \in Nat \ {0},
         size <= FreeMemBlocksList[i].size, kmalloc_at(i, size)
  PROVE  /\ HeapInv'
         /\ \A p \in Page \ Pages(taken(FreeMemBlocksList, i, size)) :
              page_table'[p] = page_table[p]
<1> DEFINE b == taken(FreeMemBlocksList, i, size)
           n == Min({b.size, Len(free_frame_list)})
           now == {p \in Pages(b) : p - b.sva + 1 <= n}
<1>1. ListsInv /\ FramesInv /\ PagesInv
  BY DEF HeapInv
<1>2. /\ ListsInv' /\ b \in Block
      /\ Pages(b) \subseteq PagesOf(FreeMemBlocksList)
      /\ PagesOf(FreeMemBlocksList') = PagesOf(FreeMemBlocksList) \ Pages(b)
      /\ ToSet(AllocMemBlocksList') = ToSet(AllocMemBlocksList) \cup {b}
  BY <1>1, TakeLists
<1>3. b.size = size
  BY DEF taken
<1>4. Pages(b) \subseteq Page /\ \A p \in Pages(b) : page_table[p] = NONE
  BY <1>1, <1>2 DEF ListsInv, PagesInv
<1>5. ~is_mapped(b)
  BY <1>4 DEF is_mapped
<1>6. allocate_chunk(b) /\ elsewhere' = elsewhere
      /\ halted' = IF is_mapped(b) \/ size > Len(free_frame_list)
                   THEN halted \cup {b} ELSE halted
  BY DEF kmalloc_at
<1> HIDE DEF b
<1>7. /\ page_table' = TableAfter(page_table, free_frame_list, b.sva, now)
      /\ frame_va' = VaAfter(frame_va, free_frame_list, b.sva, now)
      /\ free_frame_list' = SubSeq(free_frame_list, n + 1, Len(free_frame_list))
  BY <1>5, <1>6 DEF allocate_chunk, TableAfter, VaAfter
<1>8. Owned(page_table, free_frame_list, frame_va, elsewhere)
  BY <1>1 DEF FramesInv
<1>9. Len(free_frame_list) \in Nat /\ NONE \notin Frame
      /\ page_table \in [Page -> Frame \cup {NONE}]
      /\ \A j \in 1 .. Len(free_frame_list) : free_frame_list[j] \in Frame
  BY <1>8, OwnedIs
<1>10. n \in Nat /\ n <= size /\ n <= Len(free_frame_list)
       /\ (~(size > Len(free_frame_list)) => n = size)
  <2> DEFINE S == {b.size, Len(free_frame_list)}
  <2>1. S \in SUBSET Nat /\ S # {}
    BY <1>3, <1>9
  <2>2. n \in S /\ \A k \in S : n <= k
    BY <2>1, SmallestIs
  <2> HIDE DEF n
  <2> QED BY <1>3, <1>9, <2>2
<1> HIDE DEF n
<1>11. b.sva \in Nat /\ \A p : p \in Pages(b) <=> p \in Int /\ b.sva <= p /\ p < b.sva + size
  <2>1. b.sva \in Nat /\ End(b) = b.sva + b.size
        /\ \A p : p \in Pages(b) <=> p \in Int /\ b.sva <= p /\ p < End(b)
    BY <1>2, PagesIs
  <2> QED BY <1>3, <2>1
<1>12. \A p : p \in now <=> p \in Int /\ b.sva <= p /\ p < b.sva + n
  BY <1>10, <1>11
<1>13. now \in SUBSET Page /\ \A p \in now : page_table[p] = NONE
  BY <1>4
<1>14. n = size => now = Pages(b)
  BY <1>11, <1>12
<1>15. \A p \in now : p - b.sva + 1 \in 1 .. Len(free_frame_list)
  BY <1>9, <1>10, <1>11, <1>12
<1> HIDE DEF now
<1>16. Owned(TableAfter(page_table, free_frame_list, b.sva, now),
             SubSeq(free_frame_list, n + 1, Len(free_frame_list)),
             VaAfter(frame_va, free_frame_list, b.sva, now), elsewhere)
  BY <1>8, <1>10, <1>11, <1>12, <1>13, ChunkKeeps
<1>17. FramesInv'
  BY <1>6, <1>7, <1>16 DEF FramesInv, Owned, Page, Frame
<1>18. /\ \A p \in Page : p \in now => page_table'[p] \in Frame
       /\ \A p \in Page : p \notin now => page_table'[p] = page_table[p]
  BY <1>7, <1>9, <1>15 DEF TableAfter
<1>19. now \subseteq Pages(b)
  BY DEF now
<1>20. \A p \in PagesOf(FreeMemBlocksList') : page_table'[p] = NONE
  BY <1>1, <1>2, <1>18, <1>19 DEF PagesInv, ListsInv
<1>21. ASSUME NEW j \in DOMAIN AllocMemBlocksList', AllocMemBlocksList'[j] \notin halted',
              NEW p \in Pages(AllocMemBlocksList'[j])
       PROVE  page_table'[p] # NONE
  <2>1. AllocMemBlocksList'[j] \in ToSet(AllocMemBlocksList) \cup {b}
    <3>1. AllocMemBlocksList' \in Seq(Block)
      BY <1>2 DEF ListsInv
    <3> QED BY <1>2, <3>1, InList
  <2>2. CASE AllocMemBlocksList'[j] = b
    <3>1. ~(size > Len(free_frame_list)) /\ p \in Pages(b)
      BY <1>6, <1>21, <2>2
    <3>2. p \in now /\ p \in Page
      BY <1>4, <1>10, <1>14, <3>1
    <3> QED BY <1>9, <1>18, <3>2
  <2>3. CASE AllocMemBlocksList'[j] \in ToSet(AllocMemBlocksList)
    <3>1. AllocMemBlocksList \in Seq(Block)
      BY <1>1 DEF ListsInv
    <3>2. PICK k \in DOMAIN AllocMemBlocksList :
                 AllocMemBlocksList[k] = AllocMemBlocksList'[j]
      BY <2>3, <3>1, InList
    <3>3. AllocMemBlocksList[k] \notin halted
      BY <1>6, <1>21, <3>2
    <3>4. page_table[p] # NONE
      BY <1>1, <1>21, <3>2, <3>3 DEF PagesInv
    <3>5. p \in Page
      <4>1. p \in PagesOf(AllocMemBlocksList)
        BY <1>21, <3>1, <3>2, PagesOfIs
      <4> QED BY <1>1, <4>1 DEF ListsInv
    <3> QED BY <1>9, <1>18, <3>4, <3>5
  <2> QED BY <2>1, <2>2, <2>3
<1>22. PagesInv'
  BY <1>20, <1>21 DEF PagesInv
<1> QED BY <1>2, <1>17, <1>18, <1>19, <1>22 DEF HeapInv, b

LEMMA KfreeKeeps ==
  ASSUME HeapInv, NEW va, kfree(va)
  PROVE  \E i \in DOMAIN AllocMemBlocksList :
           /\ HeapInv'
           /\ ToSet(AllocMemBlocksList')
                = ToSet(AllocMemBlocksList) \ {AllocMemBlocksList[i]}
           /\ \A p \in Page \ Pages(AllocMemBlocksList[i]) : page_table'[p] = page_table[p]
<1>1. ListsInv /\ FramesInv /\ PagesInv
  BY DEF HeapInv
<1>2. PICK i \in DOMAIN AllocMemBlocksList :
        /\ ListsInv' /\ AllocMemBlocksList[i] \in Block
        /\ unmap_block(AllocMemBlocksList[i])
        /\ halted' = halted \ {AllocMemBlocksList[i]} /\ elsewhere' = elsewhere
        /\ PagesOf(FreeMemBlocksList')
             = PagesOf(FreeMemBlocksList) \cup Pages(AllocMemBlocksList[i])
        /\ ToSet(AllocMemBlocksList')
             = ToSet(AllocMemBlocksList) \ {AllocMemBlocksList[i]}
  BY <1>1, FreeLists
<1> DEFINE b == AllocMemBlocksList[i]
           P == Pages(b)
           mapped == {p \in P : page_table[p] # NONE}
<1>3. /\ AllocMemBlocksList \in Seq(Block) /\ Ascending(AllocMemBlocksList)
      /\ PagesOf(FreeMemBlocksList) \cup PagesOf(AllocMemBlocksList) = Page
  BY <1>1 DEF ListsInv
<1>4. \A k \in DOMAIN AllocMemBlocksList : Pages(AllocMemBlocksList[k]) \subseteq Page
  BY <1>3, PagesOfIs
<1>5. P \subseteq Page
  BY <1>4
<1>6. /\ page_table' = TableCut(page_table, mapped)
      /\ free_frame_list' = Freed(page_table, mapped) \o free_frame_list
      /\ frame_va' = VaCut(frame_va, page_table, P)
  BY <1>2 DEF unmap_block, unmap_frame, free_frames, TableCut, Freed, VaCut
<1>7. /\ \A p \in Page : p \in mapped => page_table'[p] = NONE
      /\ \A p \in Page : p \notin mapped => page_table'[p] = page_table[p]
  BY <1>6 DEF TableCut
<1>8. \A p \in Page : /\ p \in P => page_table'[p] = NONE
                      /\ p \notin P => page_table'[p] = page_table[p]
  BY <1>7
<1>9. FramesInv'
  <2>1. Owned(page_table, free_frame_list, frame_va, elsewhere)
    BY <1>1 DEF FramesInv
  <2>2. mapped = {p \in P : page_table[p] # NONE} /\ P \in SUBSET Page
    BY <1>5
  <2> HIDE DEF mapped, P
  <2>3. Owned(TableCut(page_table, mapped), Freed(page_table, mapped) \o free_frame_list,
              VaCut(frame_va, page_table, P), elsewhere)
    BY <2>1, <2>2, UnmapKeeps
  <2> QED BY <1>2, <1>6, <2>3 DEF FramesInv, Owned, Page, Frame
<1> HIDE DEF mapped, P
<1>10. \A p \in PagesOf(FreeMemBlocksList') : page_table'[p] = NONE
  <2> SUFFICES ASSUME NEW p \in PagesOf(FreeMemBlocksList') PROVE page_table'[p] = NONE
    OBVIOUS
  <2>1. p \in PagesOf(FreeMemBlocksList) \/ p \in P
    BY <1>2 DEF P
  <2>2. p \in PagesOf(FreeMemBlocksList) => p \in Page /\ page_table[p] = NONE
    BY <1>1, <1>3 DEF PagesInv
  <2> QED BY <1>5, <1>8, <2>1, <2>2
<1>11. ASSUME NEW j \in DOMAIN AllocMemBlocksList', AllocMemBlocksList'[j] \notin halted',
              NEW p \in Pages(AllocMemBlocksList'[j])
       PROVE  page_table'[p] # NONE
  <2>1. AllocMemBlocksList' \in Seq(Block)
    BY <1>2 DEF ListsInv
  <2>2. AllocMemBlocksList'[j] \in ToSet(AllocMemBlocksList) \ {b}
    BY <1>2, <2>1, InList
  <2>3. PICK k \in DOMAIN AllocMemBlocksList :
               AllocMemBlocksList[k] = AllocMemBlocksList'[j]
    BY <1>3, <2>2, InList
  <2>4. k # i
    BY <2>2, <2>3
  <2>5. AllocMemBlocksList[k] \notin halted /\ p \in Pages(AllocMemBlocksList[k])
    BY <1>2, <1>11, <2>2, <2>3
  <2>6. page_table[p] # NONE /\ p \in Page
    BY <1>1, <1>4, <2>5 DEF PagesInv
  <2>7. p \notin P
    BY <1>3, <2>4, <2>5, PageInOneBlock DEF P
  <2> QED BY <1>8, <2>6, <2>7
<1>12. PagesInv'
  BY <1>10, <1>11 DEF PagesInv
<1>13. \A p \in Page \ Pages(AllocMemBlocksList[i]) : page_table'[p] = page_table[p]
  BY <1>8 DEF P
<1> QED BY <1>2, <1>9, <1>12, <1>13 DEF HeapInv

(* The rest of the kernel takes the first free frame, or gives one back. *)
LEMMA AllocateFrameKeeps ==
  ASSUME FramesInv, allocate_frame
  PROVE  FramesInv'
<1> DEFINE free == free_frame_list
           L == Tail(free)
           H == elsewhere \cup {Head(free)}
<1>1. Owned(page_table, free, frame_va, elsewhere)
  BY DEF FramesInv
<1>2. /\ page_table \in [Page -> Frame \cup {NONE}] /\ free \in Seq(Frame)
      /\ frame_va \in [Frame -> Page \cup {NONE}] /\ elsewhere \subseteq Frame
      /\ DOMAIN free = 1 .. Len(free) /\ Len(free) \in Nat
      /\ \A i \in DOMAIN free : free[i] \in Frame
  BY <1>1, OwnedIs
<1>3. /\ free # <<>> /\ elsewhere' = H /\ free_frame_list' = L
      /\ page_table' = page_table /\ frame_va' = frame_va
  BY DEF allocate_frame
<1>4. /\ \A i, j \in DOMAIN free : free[i] = free[j] => i = j
      /\ \A i \in DOMAIN free : frame_va[free[i]] = NONE /\ free[i] \notin elsewhere
      /\ \A f \in elsewhere : frame_va[f] = NONE
      /\ \A f \in Frame : \/ \E i \in DOMAIN free : free[i] = f
                          \/ frame_va[f] # NONE
                          \/ f \in elsewhere
  BY <1>1 DEF Owned
<1>5. /\ 1 \in DOMAIN free /\ Head(free) = free[1]
      /\ L \in Seq(Frame) /\ DOMAIN L = 1 .. Len(free) - 1
      /\ \A i \in 1 .. Len(free) - 1 : L[i] = free[i + 1] /\ i + 1 \in DOMAIN free /\ i + 1 # 1
  BY <1>2, <1>3
<1>6. \A i, j \in DOMAIN L : L[i] = L[j] => i = j
  <2> SUFFICES ASSUME NEW i \in DOMAIN L, NEW j \in DOMAIN L, L[i] = L[j] PROVE i = j
    OBVIOUS
  <2>1. i + 1 = j + 1
    BY <1>4, <1>5
  <2> QED BY <1>2, <1>5, <2>1
<1>7. \A i \in DOMAIN L : frame_va[L[i]] = NONE /\ L[i] \notin H
  BY <1>4, <1>5
<1>8. H \subseteq Frame /\ \A f \in H : frame_va[f] = NONE
  BY <1>2, <1>4, <1>5
<1>9. \A f \in Frame : (\E i \in DOMAIN L : L[i] = f) \/ frame_va[f] # NONE \/ f \in H
  <2> SUFFICES ASSUME NEW i \in DOMAIN free, free[i] \notin H
               PROVE  \E j \in DOMAIN L : L[j] = free[i]
    BY <1>4
  <2>1. i # 1
    BY <1>5
  <2>2. i - 1 \in DOMAIN L /\ (i - 1) + 1 = i
    BY <1>2, <1>5, <2>1
  <2>3. L[i - 1] = free[i]
    BY <1>5, <2>2
  <2> QED BY <2>2, <2>3
<1> HIDE DEF L, H
<1>10. Owned(page_table, L, frame_va, H)
  BY <1>1, <1>2, <1>5, <1>6, <1>7, <1>8, <1>9 DEF Owned
<1> QED BY <1>3, <1>10 DEF FramesInv, Owned, Page, Frame

LEMMA FreeFrameKeeps ==
  ASSUME FramesInv, NEW f \in Frame, free_frame(f)
  PROVE  FramesInv'
<1> DEFINE free == free_frame_list
           L == <<f>> \o free
           H == elsewhere \ {f}
<1>1. Owned(page_table, free, frame_va, elsewhere)
  BY DEF FramesInv
<1>2. /\ page_table \in [Page -> Frame \cup {NONE}] /\ free \in Seq(Frame)
      /\ frame_va \in [Frame -> Page \cup {NONE}] /\ elsewhere \subseteq Frame
      /\ DOMAIN free = 1 .. Len(free) /\ Len(free) \in Nat
      /\ \A i \in DOMAIN free : free[i] \in Frame
  BY <1>1, OwnedIs
<1>3. /\ f \in elsewhere /\ elsewhere' = H /\ free_frame_list' = L
      /\ page_table' = page_table /\ frame_va' = frame_va
  BY DEF free_frame
<1>4. /\ \A i, j \in DOMAIN free : free[i] = free[j] => i = j
      /\ \A i \in DOMAIN free : frame_va[free[i]] = NONE /\ free[i] \notin elsewhere
      /\ \A g \in elsewhere : frame_va[g] = NONE
      /\ \A g \in Frame : \/ \E i \in DOMAIN free : free[i] = g
                          \/ frame_va[g] # NONE
                          \/ g \in elsewhere
  BY <1>1 DEF Owned
<1>5. /\ L \in Seq(Frame) /\ DOMAIN L = 1 .. Len(free) + 1 /\ L[1] = f
      /\ \A i \in DOMAIN L : i # 1 => L[i] = free[i - 1] /\ i - 1 \in DOMAIN free
      /\ \A i \in DOMAIN free : i + 1 \in DOMAIN L /\ L[i + 1] = free[i]
  BY <1>2
<1>6. \A i, j \in DOMAIN L : L[i] = L[j] => i = j
  <2> SUFFICES ASSUME NEW i \in DOMAIN L, NEW j \in DOMAIN L, L[i] = L[j] PROVE i = j
    OBVIOUS
  <2>1. CASE i # 1 /\ j # 1
    <3>1. i - 1 = j - 1
      BY <1>4, <1>5, <2>1
    <3> QED BY <1>2, <1>5, <3>1
  <2>2. ASSUME NEW k \in DOMAIN L, k # 1 PROVE L[k] # f
    BY <1>3, <1>4, <1>5, <2>2
  <2> QED BY <1>5, <2>1, <2>2
<1>7. \A i \in DOMAIN L : frame_va[L[i]] = NONE /\ L[i] \notin H
  BY <1>3, <1>4, <1>5
<1>8. H \subseteq Frame /\ \A g \in H : frame_va[g] = NONE
  BY <1>2, <1>4
<1>9. 1 \in DOMAIN L
  BY <1>2, <1>5
<1>10. \A g \in Frame : (\E i \in DOMAIN L : L[i] = g) \/ frame_va[g] # NONE \/ g \in H
  <2> SUFFICES ASSUME NEW g \in Frame, frame_va[g] = NONE, g \notin H
               PROVE  \E i \in DOMAIN L : L[i] = g
    OBVIOUS
  <2>1. CASE g = f
    BY <1>5, <1>9, <2>1
  <2>2. CASE g # f
    <3>1. PICK i \in DOMAIN free : free[i] = g
      BY <1>4, <2>2
    <3> QED BY <1>5, <3>1
  <2> QED BY <2>1, <2>2
<1> HIDE DEF L, H
<1>11. Owned(page_table, L, frame_va, H)
  BY <1>1, <1>2, <1>5, <1>6, <1>7, <1>8, <1>10 DEF Owned
<1> QED BY <1>3, <1>11 DEF FramesInv, Owned, Page, Frame

LEMMA InitInv == Init => HeapInv
BY InitLists, InitFrames DEF HeapInv

(* kmalloc() under either strategy takes a block that is large enough. *)
LEMMA KmallocTakes ==
  ASSUME HeapInv, NEW size \in Sizes, kmalloc(size)
  PROVE  \E i \in DOMAIN FreeMemBlocksList :
           /\ size \in Nat \ {0} /\ size <= FreeMemBlocksList[i].size
           /\ kmalloc_at(i, size)
           /\ _KHeapPlacementStrategy = "FIRSTFIT" => i = FF(FreeMemBlocksList, size)
<1>1. size \in Nat \ {0} /\ FreeMemBlocksList \in Seq(Block)
      /\ Fits(FreeMemBlocksList, size) # {}
  BY HeapAssumption DEF HeapInv, ListsInv, kmalloc
<1>2. CASE /\ _KHeapPlacementStrategy = "FIRSTFIT"
           /\ kmalloc_at(FF(FreeMemBlocksList, size), size)
  BY <1>1, <1>2, FFFits
<1>3. CASE /\ _KHeapPlacementStrategy = "BESTFIT"
           /\ kmalloc_at(BF(FreeMemBlocksList, size), size)
  BY <1>1, <1>3, BFFits
<1> QED BY <1>2, <1>3 DEF kmalloc

LEMMA NextInv == HeapInv /\ [Next]_vars => HeapInv'
<1> SUFFICES ASSUME HeapInv, [Next]_vars PROVE HeapInv'
  OBVIOUS
<1>1. ASSUME NEW size \in Sizes, kmalloc(size) PROVE HeapInv'
  <2>1. PICK i \in DOMAIN FreeMemBlocksList :
               /\ size \in Nat \ {0} /\ size <= FreeMemBlocksList[i].size
               /\ kmalloc_at(i, size)
    BY <1>1, KmallocTakes
  <2> QED BY <2>1, KmallocKeeps
<1>2. ASSUME NEW va \in Page, kfree(va) PROVE HeapInv'
  BY <1>2, KfreeKeeps
<1>3. ASSUME UNCHANGED <<FreeMemBlocksList, AllocMemBlocksList, AvailableMemBlocks,
                         page_table, halted>>
      PROVE  ListsInv' /\ PagesInv'
  BY <1>3 DEF HeapInv, ListsInv, PagesInv, PagesOf, Pages, End, Apart, Ascending, Page
<1>4. ASSUME UNCHANGED <<page_table, free_frame_list, frame_va, elsewhere>>
      PROVE  FramesInv'
  BY <1>4 DEF HeapInv, FramesInv, Owned, Page, Frame
<1>5. ASSUME NEW strategy, set_strategy(strategy) PROVE HeapInv'
  BY <1>3, <1>4, <1>5 DEF set_strategy, HeapInv
<1>6. CASE allocate_frame
  <2>1. FramesInv'
    BY <1>6, AllocateFrameKeeps DEF HeapInv
  <2> QED BY <1>3, <1>6, <2>1 DEF allocate_frame, HeapInv
<1>7. ASSUME NEW f \in Frame, free_frame(f) PROVE HeapInv'
  <2>1. FramesInv'
    BY <1>7, FreeFrameKeeps DEF HeapInv
  <2> QED BY <1>3, <1>7, <2>1 DEF free_frame, HeapInv
<1>8. CASE UNCHANGED vars
  BY <1>3, <1>4, <1>8 DEF vars, HeapInv
<1> QED BY <1>1, <1>2, <1>5, <1>6, <1>7, <1>8 DEF Next
-----------------------------------------------------------------------------
(***************************************************************************)
(* What the invariant implies.                                             *)
(***************************************************************************)
LEMMA BothLists ==
  ASSUME NEW F \in Seq(Block), NEW A \in Seq(Block)
  PROVE  /\ F \o A \in Seq(Block) /\ DOMAIN (F \o A) = 1 .. Len(F) + Len(A)
         /\ Len(F) \in Nat /\ Len(A) \in Nat
         /\ \A i \in DOMAIN (F \o A) :
              \/ i <= Len(F) /\ i \in DOMAIN F /\ (F \o A)[i] = F[i]
              \/ ~(i <= Len(F)) /\ i - Len(F) \in DOMAIN A /\ (F \o A)[i] = A[i - Len(F)]
         /\ \A i \in DOMAIN F : i \in DOMAIN (F \o A) /\ (F \o A)[i] = F[i]
         /\ \A i \in DOMAIN A : i + Len(F) \in DOMAIN (F \o A) /\ (F \o A)[i + Len(F)] = A[i]
<1> DEFINE B == F \o A
<1>1. /\ B \in Seq(Block) /\ Len(B) = Len(F) + Len(A)
      /\ \A i \in 1 .. Len(F) + Len(A) : B[i] = IF i <= Len(F) THEN F[i] ELSE A[i - Len(F)]
  BY ConcatProperties
<1> HIDE DEF B
<1>2. Len(F) \in Nat /\ Len(A) \in Nat /\ DOMAIN F = 1 .. Len(F) /\ DOMAIN A = 1 .. Len(A)
  OBVIOUS
<1>3. DOMAIN B = 1 .. Len(F) + Len(A)
  BY <1>1
<1>4. ASSUME NEW i \in DOMAIN B
      PROVE  \/ i <= Len(F) /\ i \in DOMAIN F /\ B[i] = F[i]
             \/ ~(i <= Len(F)) /\ i - Len(F) \in DOMAIN A /\ B[i] = A[i - Len(F)]
  BY <1>1, <1>2, <1>3
<1>5. ASSUME NEW i \in DOMAIN F PROVE i \in DOMAIN B /\ B[i] = F[i]
  BY <1>1, <1>2, <1>3
<1>6. ASSUME NEW i \in DOMAIN A PROVE i + Len(F) \in DOMAIN B /\ B[i + Len(F)] = A[i]
  <2>1. i + Len(F) \in DOMAIN B /\ ~(i + Len(F) <= Len(F)) /\ (i + Len(F)) - Len(F) = i
    BY <1>2, <1>3
  <2> QED BY <1>1, <1>3, <2>1
<1> QED BY <1>1, <1>2, <1>3, <1>4, <1>5, <1>6 DEF B

LEMMA BlocksAreApart ==
  ASSUME ListsInv
  PROVE  LET blocks == FreeMemBlocksList \o AllocMemBlocksList
         IN \A i, j \in DOMAIN blocks :
              i # j => Pages(blocks[i]) \cap Pages(blocks[j]) = {}
<1> DEFINE F == FreeMemBlocksList
           A == AllocMemBlocksList
           B == F \o A
<1>1. /\ F \in Seq(Block) /\ Ascending(F) /\ A \in Seq(Block) /\ Ascending(A)
      /\ PagesOf(F) \cap PagesOf(A) = {}
  BY ApartAscends DEF ListsInv
<1>2. /\ Len(F) \in Nat /\ DOMAIN B = 1 .. Len(F) + Len(A) /\ Len(A) \in Nat
      /\ \A i \in DOMAIN B :
           \/ i <= Len(F) /\ i \in DOMAIN F /\ B[i] = F[i]
           \/ ~(i <= Len(F)) /\ i - Len(F) \in DOMAIN A /\ B[i] = A[i - Len(F)]
  BY <1>1, BothLists
<1> HIDE DEF B
<1> SUFFICES ASSUME NEW i \in DOMAIN B, NEW j \in DOMAIN B, i # j
             PROVE  Pages(B[i]) \cap Pages(B[j]) = {}
  BY DEF B
<1>3. \A k \in DOMAIN F : Pages(F[k]) \subseteq PagesOf(F)
  BY <1>1, PagesOfIs
<1>4. \A k \in DOMAIN A : Pages(A[k]) \subseteq PagesOf(A)
  BY <1>1, PagesOfIs
<1>5. CASE i <= Len(F) /\ j <= Len(F)
  BY <1>1, <1>2, <1>5, PageInOneBlock
<1>6. CASE ~(i <= Len(F)) /\ ~(j <= Len(F))
  <2>1. i - Len(F) # j - Len(F)
    BY <1>2
  <2> QED BY <1>1, <1>2, <1>6, <2>1, PageInOneBlock
<1>7. CASE i <= Len(F) /\ ~(j <= Len(F))
  BY <1>1, <1>2, <1>3, <1>4, <1>7
<1>8. CASE ~(i <= Len(F)) /\ j <= Len(F)
  BY <1>1, <1>2, <1>3, <1>4, <1>8
<1> QED BY <1>5, <1>6, <1>7, <1>8

LEMMA InvTiled == HeapInv => HeapIsTiled
<1> SUFFICES ASSUME HeapInv PROVE HeapIsTiled
  OBVIOUS
<1> DEFINE F == FreeMemBlocksList
           A == AllocMemBlocksList
           B == F \o A
<1>1. ListsInv
  BY DEF HeapInv
<1>2. /\ F \in Seq(Block) /\ Apart(F) /\ A \in Seq(Block) /\ Ascending(A)
      /\ PagesOf(F) \cup PagesOf(A) = Page
  BY <1>1 DEF ListsInv
<1>3. PagesOf(B) = Page
  <2>0. /\ \A i \in DOMAIN B :
             \/ i <= Len(F) /\ i \in DOMAIN F /\ B[i] = F[i]
             \/ ~(i <= Len(F)) /\ i - Len(F) \in DOMAIN A /\ B[i] = A[i - Len(F)]
        /\ \A i \in DOMAIN F : i \in DOMAIN B /\ B[i] = F[i]
        /\ \A i \in DOMAIN A : i + Len(F) \in DOMAIN B /\ B[i + Len(F)] = A[i]
    BY <1>2, BothLists
  <2> HIDE DEF B
  <2>1. /\ \A i \in DOMAIN B : \/ \E k \in DOMAIN F : B[i] = F[k]
                              \/ \E k \in DOMAIN A : B[i] = A[k]
        /\ \A k \in DOMAIN F : \E i \in DOMAIN B : B[i] = F[k]
        /\ \A k \in DOMAIN A : \E i \in DOMAIN B : B[i] = A[k]
    BY <2>0
  <2>3. ASSUME NEW p PROVE p \in PagesOf(B) <=> p \in PagesOf(F) \/ p \in PagesOf(A)
    BY <2>1, PagesOfIs
  <2> QED BY <1>2, <2>3
<1>4. \A i, j \in DOMAIN B : i # j => Pages(B[i]) \cap Pages(B[j]) = {}
  BY <1>1, BlocksAreApart
<1>5. \A i \in 1 .. Len(F) - 1 : End(F[i]) < F[i + 1].sva
  <2> SUFFICES ASSUME NEW i \in 1 .. Len(F) - 1 PROVE End(F[i]) < F[i + 1].sva
    OBVIOUS
  <2>1. i \in DOMAIN F /\ i + 1 \in DOMAIN F /\ i < i + 1
    BY <1>2
  <2> QED BY <1>2, <2>1 DEF Apart
<1>6. \A i \in 1 .. Len(A) - 1 : End(A[i]) <= A[i + 1].sva
  <2> SUFFICES ASSUME NEW i \in 1 .. Len(A) - 1 PROVE End(A[i]) <= A[i + 1].sva
    OBVIOUS
  <2>1. i \in DOMAIN A /\ i + 1 \in DOMAIN A /\ i < i + 1
    BY <1>2
  <2> QED BY <1>2, <2>1 DEF Ascending
<1> QED BY <1>3, <1>4, <1>5, <1>6 DEF HeapIsTiled

(***************************************************************************)
(* Blocks have different first pages, and the second page of a free block  *)
(* that can be split is the first of none: there are fewer blocks than     *)
(* pages.                                                                  *)
(***************************************************************************)
LEMMA InvDescriptors == HeapInv => DescriptorsSuffice
<1> SUFFICES ASSUME HeapInv PROVE DescriptorsSuffice
  OBVIOUS
<1> DEFINE F == FreeMemBlocksList
           A == AllocMemBlocksList
           B == F \o A
           n == Len(F) + Len(A)
<1>1. ListsInv
  BY DEF HeapInv
<1>2. /\ F \in Seq(Block) /\ A \in Seq(Block)
      /\ PagesOf(F) \cup PagesOf(A) = Page
      /\ AvailableMemBlocks \in Int
      /\ AvailableMemBlocks + Len(F) + Len(A) = MAX_MEM_BLOCK_CNT
      /\ HeapPages \in Nat \ {0} /\ MAX_MEM_BLOCK_CNT \in Nat
      /\ MAX_MEM_BLOCK_CNT >= HeapPages
  BY <1>1, HeapAssumption DEF ListsInv
<1> SUFFICES ASSUME NEW s \in DOMAIN F, F[s].size > 1 PROVE AvailableMemBlocks > 0
  BY <1>2 DEF DescriptorsSuffice
<1>3. /\ B \in Seq(Block) /\ DOMAIN B = 1 .. n /\ s \in DOMAIN B /\ B[s] = F[s]
      /\ Len(F) \in Nat /\ Len(A) \in Nat
  BY <1>2, BothLists
<1>4. \A i, j \in DOMAIN B : i # j => Pages(B[i]) \cap Pages(B[j]) = {}
  BY <1>1, BlocksAreApart
<1>5. PagesOf(B) = Page
  BY InvTiled DEF HeapIsTiled
<1> HIDE DEF B
<1>6. \A i \in DOMAIN B : B[i].sva \in Pages(B[i]) /\ B[i].sva \in Page
  <2> SUFFICES ASSUME NEW i \in DOMAIN B
               PROVE  B[i].sva \in Pages(B[i]) /\ B[i].sva \in Page
    OBVIOUS
  <2>1. B[i] \in Block
    BY <1>3
  <2>2. B[i].sva \in Nat /\ B[i].size \in Nat \ {0} /\ End(B[i]) = B[i].sva + B[i].size
    BY <2>1, PagesIs
  <2>3. B[i].sva \in Int /\ B[i].sva <= B[i].sva /\ B[i].sva < End(B[i])
    BY <2>2
  <2>4. B[i].sva \in Pages(B[i])
    BY <2>1, <2>3, PagesIs
  <2> QED BY <1>5, <2>4, PagesOfIs
<1>7. PICK second : /\ second \in Pages(B[s]) /\ second # B[s].sva /\ second \in Page
  <2>1. B[s] \in Block
    BY <1>3
  <2>2. B[s].sva \in Nat /\ End(B[s]) = B[s].sva + B[s].size /\ B[s].size \in Nat
    BY <2>1, PagesIs
  <2>3. B[s].size > 1
    BY <1>3
  <2>4. PICK q \in Nat : q = B[s].sva + 1
    BY <2>2
  <2>5. q \in Int /\ B[s].sva <= q /\ q < End(B[s]) /\ q # B[s].sva
    BY <2>2, <2>3, <2>4
  <2>6. q \in Pages(B[s])
    BY <2>1, <2>5, PagesIs
  <2> QED BY <1>3, <1>5, <2>5, <2>6, PagesOfIs
<1> DEFINE T == Page \ {second}
           g == [i \in 1 .. n |-> B[i].sva]
<1>8. \A i \in 1 .. n : B[i].sva # second
  BY <1>3, <1>4, <1>6, <1>7
<1>9. g \in Injection(1 .. n, T)
  <2>1. g \in [1 .. n -> T]
    BY <1>3, <1>6, <1>8
  <2>2. \A i, j \in 1 .. n : g[i] = g[j] => i = j
    <3> SUFFICES ASSUME NEW i \in 1 .. n, NEW j \in 1 .. n, B[i].sva = B[j].sva PROVE i = j
      OBVIOUS
    <3> QED BY <1>3, <1>4, <1>6
  <2> HIDE DEF g, T
  <2> QED BY <2>1, <2>2, Zenon DEF Injection, IsInjective
<1>10. IsFiniteSet(Page) /\ Cardinality(Page) = HeapPages
  <2>1. IsFiniteSet(1 .. HeapPages)
        /\ Cardinality(1 .. HeapPages) = IF 1 > HeapPages THEN 0 ELSE HeapPages - 1 + 1
    <3>1. 1 \in Int /\ HeapPages \in Int
      BY <1>2
    <3> QED BY <3>1, FS_Interval
  <2> QED BY <1>2, <2>1 DEF Page
<1>11. IsFiniteSet(T) /\ Cardinality(T) = HeapPages - 1
  <2>1. IsFiniteSet(T) /\ Cardinality(T) = IF second \in Page THEN Cardinality(Page) - 1
                                           ELSE Cardinality(Page)
    BY <1>10, FS_RemoveElement
  <2> QED BY <1>7, <1>10, <2>1
<1> HIDE DEF g, T
<1>12. Cardinality(1 .. n) <= HeapPages - 1
  BY <1>9, <1>11, FS_Injection
<1>13. Cardinality(1 .. n) = n /\ n \in Nat
  <2>1. n \in Nat
    BY <1>3
  <2>2. Cardinality(1 .. n) = IF 1 > n THEN 0 ELSE n - 1 + 1
    BY <2>1, FS_Interval
  <2> HIDE DEF n
  <2> QED BY <2>1, <2>2
<1>14. AvailableMemBlocks + n = MAX_MEM_BLOCK_CNT
  BY <1>2, <1>3
<1> HIDE DEF n
<1> QED BY <1>2, <1>12, <1>13, <1>14

LEMMA InvMapping == HeapInv => MappingMatchesLists
<1> SUFFICES ASSUME HeapInv PROVE MappingMatchesLists
  OBVIOUS
<1>1. Owned(page_table, free_frame_list, frame_va, elsewhere) /\ PagesInv
  BY DEF HeapInv, FramesInv
<1>2. /\ \A i, j \in DOMAIN free_frame_list :
           free_frame_list[i] = free_frame_list[j] => i = j
      /\ \A p \in Page, f \in Frame : frame_va[f] = p <=> page_table[p] = f
      /\ \A i \in DOMAIN free_frame_list :
           frame_va[free_frame_list[i]] = NONE /\ free_frame_list[i] \notin elsewhere
      /\ \A f \in elsewhere : frame_va[f] = NONE
      /\ \A f \in Frame : \/ \E i \in DOMAIN free_frame_list : free_frame_list[i] = f
                          \/ frame_va[f] # NONE
                          \/ f \in elsewhere
  BY <1>1 DEF Owned
<1>3. frame_va \in [Frame -> Page \cup {NONE}] /\ NONE \notin Page
  BY <1>1, OwnedIs
<1>4. ASSUME NEW f \in Frame
      PROVE  Cardinality({i \in DOMAIN free_frame_list : free_frame_list[i] = f})
               + Cardinality({p \in Page : page_table[p] = f})
               + (IF f \in elsewhere THEN 1 ELSE 0) = 1
  <2> DEFINE I == {i \in DOMAIN free_frame_list : free_frame_list[i] = f}
             P == {p \in Page : page_table[p] = f}
  <2>1. P = {} \/ P = {frame_va[f]}
    BY <1>2
  <2>2. P # {} <=> frame_va[f] # NONE
    BY <1>2, <1>3
  <2>3. I = {} \/ \E i : I = {i}
    BY <1>2
  <2>4. I # {} => frame_va[f] = NONE /\ f \notin elsewhere
    BY <1>2
  <2>5. f \in elsewhere => frame_va[f] = NONE
    BY <1>2
  <2>6. I # {} \/ frame_va[f] # NONE \/ f \in elsewhere
    BY <1>2
  <2> HIDE DEF I, P
  <2>7. Cardinality(I) = IF I = {} THEN 0 ELSE 1
    BY <2>3, FS_EmptySet, FS_Singleton
  <2>8. Cardinality(P) = IF P = {} THEN 0 ELSE 1
    BY <2>1, FS_EmptySet, FS_Singleton
  <2>9. Cardinality(I) + Cardinality(P) + (IF f \in elsewhere THEN 1 ELSE 0) = 1
    BY <2>2, <2>4, <2>5, <2>6, <2>7, <2>8
  <2> QED BY <2>9 DEF I, P
<1> QED BY <1>1, <1>2, <1>4 DEF MappingMatchesLists, PagesInv
-----------------------------------------------------------------------------
(***************************************************************************)
(* The steps.                                                              *)
(***************************************************************************)

(* A run of free pages lies in one block, because free blocks never touch. *)
LEMMA RunInOneBlock ==
  ASSUME NEW F \in Seq(Block), Apart(F), NEW p \in Nat, NEW size \in Nat \ {0},
         \A q \in Int : p <= q /\ q < p + size => q \in PagesOf(F)
  PROVE  \E i \in DOMAIN F : size <= F[i].size /\ F[i].sva <= p
<1>1. p \in PagesOf(F)
  OBVIOUS
<1>2. PICK i \in DOMAIN F : p \in Pages(F[i])
  BY <1>1, PagesOfIs
<1>3. PICK lo \in Nat, n \in Nat, hi \in Nat :
        lo = F[i].sva /\ n = F[i].size /\ hi = End(F[i]) /\ hi = lo + n
  BY NumbersIs, SMTT(30) DEF Numbers
<1>4. lo <= p /\ p < hi
  BY <1>2, <1>3, PagesIs
<1>5. ASSUME hi < p + size PROVE FALSE
  <2>1. hi \in PagesOf(F)
    BY <1>4, <1>5
  <2>2. PICK j \in DOMAIN F : hi \in Pages(F[j])
    BY <2>1, PagesOfIs
  <2>3. F[j].sva <= hi /\ hi < End(F[j])
    BY <2>2, PagesIs
  <2>4. PICK l2 \in Nat, h2 \in Nat : l2 = F[j].sva /\ h2 = End(F[j])
    BY NumbersIs DEF Numbers
  <2>5. l2 <= hi /\ hi < h2
    BY <2>3, <2>4
  <2>6. i \in Int /\ j \in Int
    OBVIOUS
  <2>7. j # i
    <3>1. hi # h2
      BY <2>5
    <3> QED BY <1>3, <2>4, <3>1
  <2>8. i < j => hi < l2
    BY <1>3, <2>4 DEF Apart
  <2>9. j < i => h2 < lo
    BY <1>3, <2>4 DEF Apart
  <2> QED BY <1>4, <2>5, <2>6, <2>7, <2>8, <2>9
<1>6. size <= n
  BY <1>3, <1>4, <1>5
<1> QED BY <1>3, <1>4, <1>6

(* First fit takes the lowest run of unused pages that is long enough. *)
LEMMA FirstFitIsLowest ==
  ASSUME HeapInv, NEW size \in Nat \ {0}, Fits(FreeMemBlocksList, size) # {}
  PROVE  FreeMemBlocksList[FF(FreeMemBlocksList, size)].sva = Min(Holes(size))
<1> DEFINE F == FreeMemBlocksList
           i == FF(F, size)
           b == F[i]
<1>1. /\ F \in Seq(Block) /\ Apart(F) /\ PagesOf(F) \cap PagesOf(AllocMemBlocksList) = {}
      /\ PagesOf(F) \cup PagesOf(AllocMemBlocksList) = Page
  BY DEF HeapInv, ListsInv
<1>2. Unused = PagesOf(F)
  BY <1>1 DEF Unused
<1>3. /\ i \in DOMAIN F /\ size <= F[i].size
      /\ \A j \in DOMAIN F : size <= F[j].size => i <= j
  BY <1>1, FFFits
<1> HIDE DEF i
<1>4. b \in Block
  BY <1>1, <1>3
<1>5. PICK lo \in Nat, n \in Nat : lo = b.sva /\ n = b.size /\ End(b) = lo + n /\ size <= n
  BY <1>3, <1>4, PagesIs
<1>6. lo \in Holes(size)
  <2>1. ASSUME NEW q \in lo .. lo + size - 1 PROVE q \in PagesOf(F)
    <3>1. q \in Int /\ lo <= q /\ q < lo + n
      BY <1>5
    <3>2. q \in Pages(b)
      BY <1>4, <1>5, <3>1, PagesIs
    <3> QED BY <1>3, <3>2, PagesOfIs
  <2>2. lo \in lo .. lo + size - 1
    OBVIOUS
  <2>3. lo \in Page
    BY <1>1, <2>1, <2>2
  <2> QED BY <1>2, <2>1, <2>3 DEF Holes
<1>7. ASSUME NEW p \in Holes(size) PROVE lo <= p
  <2>1. p \in Page /\ p .. p + size - 1 \subseteq PagesOf(F)
    BY <1>2 DEF Holes
  <2>2. p \in Nat
    BY <2>1, HeapAssumption DEF Page
  <2>3. \A q \in Int : p <= q /\ q < p + size => q \in PagesOf(F)
    BY <2>1, <2>2
  <2>4. PICK j \in DOMAIN F : size <= F[j].size /\ F[j].sva <= p
    BY <1>1, <2>2, <2>3, RunInOneBlock
  <2>5. i <= j
    BY <1>3, <2>4
  <2>6. i = j \/ i < j
    BY <1>1, <1>3, <2>5
  <2>7. CASE i = j
    BY <1>5, <2>4, <2>7
  <2>8. CASE i < j
    <3>1. F[i].sva < F[j].sva /\ F[i].sva \in Nat /\ F[j].sva \in Nat
      BY <1>1, <1>3, <2>8, AddressesAscend, ApartAscends
    <3> QED BY <1>5, <2>2, <2>4, <3>1
  <2> QED BY <2>6, <2>7, <2>8
<1>8. Holes(size) \in SUBSET Nat
  BY HeapAssumption DEF Holes, Page
<1>9. Min(Holes(size)) \in Holes(size) /\ \A k \in Holes(size) : Min(Holes(size)) <= k
  BY <1>6, <1>8, SmallestIs
<1>10. Min(Holes(size)) \in Nat /\ Min(Holes(size)) <= lo /\ lo <= Min(Holes(size))
  BY <1>6, <1>7, <1>8, <1>9
<1>11. Min(Holes(size)) = lo
  BY <1>10
<1> QED BY <1>5, <1>11 DEF i

(* What AllocationsStayPut says of a step. *)
StaysPut ==
  /\ \A i \in DOMAIN AllocMemBlocksList :
       LET blk == AllocMemBlocksList[i]
       IN Contains(AllocMemBlocksList', blk)
          => \A p \in Pages(blk) : page_table'[p] = page_table[p]
  /\ \A blk \in ToSet(AllocMemBlocksList') \ ToSet(AllocMemBlocksList) :
       _KHeapPlacementStrategy = "FIRSTFIT" => blk.sva = Min(Holes(blk.size))

LEMMA StepStaysPut == HeapInv /\ [Next]_vars => [StaysPut]_vars
<1> SUFFICES ASSUME HeapInv, Next PROVE StaysPut
  OBVIOUS
<1> DEFINE A == AllocMemBlocksList
<1>1. /\ A \in Seq(Block) /\ Ascending(A)
      /\ PagesOf(FreeMemBlocksList) \cap PagesOf(A) = {}
      /\ PagesOf(FreeMemBlocksList) \cup PagesOf(A) = Page
      /\ FreeMemBlocksList \in Seq(Block)
  BY DEF HeapInv, ListsInv
<1>2. \A i \in DOMAIN A : Pages(A[i]) \subseteq PagesOf(A)
  BY PagesOfIs
<1>3. ASSUME NEW size \in Sizes, kmalloc(size) PROVE StaysPut
  <2>1. PICK i \in DOMAIN FreeMemBlocksList :
          /\ size \in Nat \ {0} /\ size <= FreeMemBlocksList[i].size
          /\ kmalloc_at(i, size)
          /\ _KHeapPlacementStrategy = "FIRSTFIT" => i = FF(FreeMemBlocksList, size)
    BY <1>3, KmallocTakes
  <2> DEFINE b == taken(FreeMemBlocksList, i, size)
  <2>2. \A p \in Page \ Pages(b) : page_table'[p] = page_table[p]
    BY <2>1, KmallocKeeps
  <2>3. /\ Pages(b) \subseteq PagesOf(FreeMemBlocksList)
        /\ ToSet(AllocMemBlocksList') = ToSet(A) \cup {b}
    BY <2>1, TakeLists DEF HeapInv
  <2>4. b.sva = FreeMemBlocksList[i].sva /\ b.size = size
    BY DEF taken
  <2>5. Fits(FreeMemBlocksList, size) # {}
    BY <1>3 DEF kmalloc
  <2>6. _KHeapPlacementStrategy = "FIRSTFIT" => b.sva = Min(Holes(b.size))
    BY <2>1, <2>4, <2>5, FirstFitIsLowest
  <2> HIDE DEF b
  <2>7. ASSUME NEW k \in DOMAIN A, NEW p \in Pages(A[k]) PROVE page_table'[p] = page_table[p]
    BY <1>1, <1>2, <2>2, <2>3
  <2> QED BY <2>3, <2>6, <2>7 DEF StaysPut
<1>4. ASSUME NEW va \in Page, kfree(va) PROVE StaysPut
  <2>1. PICK i \in DOMAIN A :
          /\ HeapInv' /\ ToSet(AllocMemBlocksList') = ToSet(A) \ {A[i]}
          /\ \A p \in Page \ Pages(A[i]) : page_table'[p] = page_table[p]
    BY <1>4, KfreeKeeps
  <2>2. ASSUME NEW k \in DOMAIN A, Contains(AllocMemBlocksList', A[k]), NEW p \in Pages(A[k])
        PROVE  page_table'[p] = page_table[p]
    <3>1. AllocMemBlocksList' \in Seq(Block)
      BY <2>1 DEF HeapInv, ListsInv
    <3>2. A[k] \in ToSet(AllocMemBlocksList')
      BY <2>2, <3>1, InList DEF Contains
    <3>3. k # i
      BY <2>1, <3>2
    <3>4. p \notin Pages(A[i])
      BY <1>1, <2>2, <3>3, PageInOneBlock
    <3> QED BY <1>1, <1>2, <2>1, <2>2, <3>4
  <2> QED BY <2>1, <2>2 DEF StaysPut
<1>5. ASSUME UNCHANGED <<AllocMemBlocksList, page_table>> PROVE StaysPut
  BY <1>5 DEF StaysPut
<1>6. ASSUME NEW strategy, set_strategy(strategy) PROVE StaysPut
  BY <1>5, <1>6 DEF set_strategy
<1>7. CASE allocate_frame
  BY <1>5, <1>7 DEF allocate_frame
<1>8. ASSUME NEW f \in Frame, free_frame(f) PROVE StaysPut
  BY <1>5, <1>8 DEF free_frame
<1> QED BY <1>3, <1>4, <1>6, <1>7, <1>8 DEF Next
-----------------------------------------------------------------------------
(***************************************************************************)
(* HeapIsTiled: whatever kmalloc() and kfree() split and merge, every page *)
(* of the heap is in exactly one block, and free blocks never touch.       *)
(***************************************************************************)
THEOREM HeapStaysTiled == Spec => []HeapIsTiled
BY InitInv, NextInv, InvTiled, PTL DEF Spec

(***************************************************************************)
(* DescriptorsSuffice: as many descriptors as pages are enough for         *)
(* alloc_block_FF() and alloc_block_BF() to take one without a check.      *)
(***************************************************************************)
THEOREM DescriptorsAreEnough == Spec => []DescriptorsSuffice
BY InitInv, NextInv, InvDescriptors, PTL DEF Spec

(***************************************************************************)
(* MappingMatchesLists: no frame is lost or in two hands, and page table,  *)
(* reverse map and block lists agree, also after a kmalloc() that stopped  *)
(* half way.                                                               *)
(***************************************************************************)
THEOREM MappingKept == Spec => []MappingMatchesLists
BY InitInv, NextInv, InvMapping, PTL DEF Spec

(***************************************************************************)
(* AllocationsStayPut: no step remaps a page of a block that stays, and    *)
(* kmalloc() under first fit takes the lowest run that is long enough.     *)
(***************************************************************************)
THEOREM OwnersKeepTheirPages == Spec => AllocationsStayPut
<1>1. Spec => [][StaysPut]_vars
  BY InitInv, NextInv, StepStaysPut, PTL DEF Spec
<1> QED BY <1>1 DEF AllocationsStayPut, StaysPut
=============================================================================
