------------------------- MODULE SharedMemory_proofs -------------------------
(***************************************************************************)
(* Proofs about SharedMemory, for every number of environments, names,     *)
(* objects, frames and pages of the heap.                                  *)
(***************************************************************************)
EXTENDS SharedMemory, DynamicAllocator_proofs, FiniteSetTheorems

(***************************************************************************)
(* The inductive invariant.  The lists of a heap are in order and cover no *)
(* page twice; the pages of free and of private blocks are not mapped.     *)
(***************************************************************************)
HeapOK(F, A) ==
  /\ F \in Seq(Block) /\ Apart(F) /\ A \in Seq(Block) /\ Ascending(A)
  /\ PagesOf(F) \cap PagesOf(A) = {}
  /\ PagesOf(F) \subseteq HeapPage /\ PagesOf(A) \subseteq HeapPage

HeapsInv ==
  /\ FreeMemBlocksList \in [Env -> Seq(Block)] /\ AllocMemBlocksList \in [Env -> Seq(Block)]
  /\ \A e \in Env : HeapOK(FreeMemBlocksList[e], AllocMemBlocksList[e])

TablesInv ==
  /\ page_table \in [Env -> [HeapPage -> Mapping \cup {NONE}]]
  /\ \A e \in Env :
       \A p \in PagesOf(FreeMemBlocksList[e]) \cup PagesOf(AllocMemBlocksList[e]) :
         page_table[e][p] = NONE

(***************************************************************************)
(* An object that createSharedObject() completed has a name and stores a   *)
(* frame for each of its pages.  Every frame is stored once.               *)
(***************************************************************************)
Named(share) == share # NONE /\ share.ownerID # NONE

SharesInv ==
  /\ shares \in [ID -> Share \cup {NONE}] /\ allocated \in 0 .. Frames
  /\ \A i \in ID : shares[i] # NONE =>
       \A k \in DOMAIN shares[i].frames : shares[i].frames[k] < allocated
  /\ \A i, j \in ID : shares[i] # NONE /\ shares[j] # NONE =>
       \A k \in DOMAIN shares[i].frames, l \in DOMAIN shares[j].frames :
         shares[i].frames[k] = shares[j].frames[l] => i = j /\ k = l
  /\ \A i \in ID : Named(shares[i]) =>
       shares[i].size = Len(shares[i].frames) /\ shares[i].size >= 1
  /\ \A i, j \in ID :
       /\ Named(shares[i]) /\ Named(shares[j])
       /\ shares[i].ownerID = shares[j].ownerID /\ shares[i].name = shares[j].name
       => i = j

(***************************************************************************)
(* The pages at which an environment has an object show its frames.        *)
(***************************************************************************)
Shows(e, o, share, table) ==
  /\ Named(share) /\ o.va + share.size <= HeapSize
  /\ \A k \in 0 .. share.size - 1 :
       /\ table[o.va + k] # NONE /\ table[o.va + k].frame = share.frames[k + 1]
       /\ ~share.isWritable /\ share.ownerID # e => ~table[o.va + k].writable

ObjectsInv ==
  /\ objects \in [Env -> SUBSET Object]
  /\ \A e \in Env : \A o \in objects[e] : Shows(e, o, shares[o.id], page_table[e])

(***************************************************************************)
(* What getSizeOfSharedObject() answered is still true when the second     *)
(* call of sget() comes.                                                   *)
(***************************************************************************)
Answers(share, r) ==
  Named(share) /\ share.ownerID = r.ownerID /\ share.name = r.name /\ share.size = r.size

RequestsInv ==
  /\ request \in [Env -> Request \cup {NONE}]
  /\ \A e \in Env : request[e] # NONE => \E i \in ID : Answers(shares[i], request[e])

(***************************************************************************)
(* References of frames and of objects.                                    *)
(***************************************************************************)
ShownAt(table, f) ==
  {x \in Env \X HeapPage : table[x[1]][x[2]] # NONE /\ table[x[1]][x[2]].frame = f}

Holders(held, i) == UNION {{<<e, o>> : o \in {x \in held[e] : x.id = i}} : e \in Env}

FrameReferencesInv ==
  /\ references \in [Frame -> Nat]
  /\ \A f \in Frame : references[f] = Cardinality(ShownAt(page_table, f))

ObjectReferencesInv ==
  \A i \in ID : shares[i] # NONE =>
    shares[i].references = Cardinality(Holders(objects, i))

SharedInv == /\ HeapsInv /\ TablesInv /\ SharesInv /\ ObjectsInv /\ RequestsInv
             /\ FrameReferencesInv /\ ObjectReferencesInv
-----------------------------------------------------------------------------
LEMMA Constants ==
  /\ HeapSize \in Nat \ {0} /\ Frames \in Nat /\ MAX_SHARES \in Nat /\ Size \subseteq Nat \ {0}
  /\ IsFiniteSet(Env) /\ NONE \notin Env /\ NONE \notin Share /\ NONE \notin Mapping
  /\ NONE \notin Request
  /\ \A p : p \in HeapPage <=> p \in Int /\ 0 <= p /\ p < HeapSize
  /\ \A f : f \in Frame <=> f \in Int /\ 0 <= f /\ f < Frames
  /\ IsFiniteSet(HeapPage) /\ IsFiniteSet(ID) /\ ID \subseteq Nat
<1>1. /\ HeapSize \in Nat \ {0} /\ Frames \in Nat /\ MAX_SHARES \in Nat
      /\ Size \subseteq Nat \ {0} /\ IsFiniteSet(Env) /\ NONE \notin Env /\ NONE \notin Share
      /\ NONE \notin Mapping /\ NONE \notin Request
  BY SharedMemoryAssumption
<1>2. 0 \in Int /\ HeapSize - 1 \in Int /\ MAX_SHARES - 1 \in Int
  BY <1>1
<1>3. IsFiniteSet(HeapPage) /\ IsFiniteSet(ID)
  BY <1>2, FS_Interval DEF HeapPage, ID
<1>4. \A p : p \in HeapPage <=> p \in Int /\ 0 <= p /\ p < HeapSize
  BY <1>1 DEF HeapPage
<1>5. \A f : f \in Frame <=> f \in Int /\ 0 <= f /\ f < Frames
  BY <1>1 DEF Frame
<1>6. ID \subseteq Nat
  BY <1>1 DEF ID
<1> QED BY <1>1, <1>3, <1>4, <1>5, <1>6

LEMMA ShareFields ==
  ASSUME NEW share \in Share
  PROVE  /\ share.ownerID \in Env \cup {NONE} /\ share.name \in Name \cup {NONE}
         /\ share.size \in 0 .. HeapSize /\ share.isWritable \in BOOLEAN
         /\ share.references \in Nat /\ share.frames \in Seq(Frame)
BY DEF Share

(***************************************************************************)
(* The heap after alloc_block_FF().                                        *)
(***************************************************************************)
LEMMA TakeHeap ==
  ASSUME HeapsInv, NEW e \in Env, NEW size \in Nat \ {0}, HasRoom(e, size),
         alloc_block_FF(e, size)
  PROVE  \E F, b :
           /\ FirstFit(e, size) = b /\ b \in Block /\ b.size = size
           /\ FreeMemBlocksList' = [FreeMemBlocksList EXCEPT ![e] = F]
           /\ F \in Seq(Block) /\ HeapOK(F, AllocMemBlocksList[e])
           /\ Pages(b) \subseteq PagesOf(FreeMemBlocksList[e])
           /\ PagesOf(F) = PagesOf(FreeMemBlocksList[e]) \ Pages(b)
<1> DEFINE L == FreeMemBlocksList[e]
           A == AllocMemBlocksList[e]
           i == FF(L, size)
           F == take_block(L, i, size)
           b == taken(L, i, size)
<1>1. /\ L \in Seq(Block) /\ Apart(L) /\ A \in Seq(Block) /\ Ascending(A)
      /\ PagesOf(L) \cap PagesOf(A) = {}
      /\ PagesOf(L) \subseteq HeapPage /\ PagesOf(A) \subseteq HeapPage
  BY DEF HeapsInv, HeapOK
<1>2. Fits(L, size) # {}
  BY DEF HasRoom
<1>3. i \in DOMAIN L /\ size <= L[i].size
  BY <1>1, <1>2, FFFits
<1>4. FirstFit(e, size) = b /\ b.size = size
  BY DEF FirstFit, taken
<1>5. FreeMemBlocksList' = [FreeMemBlocksList EXCEPT ![e] = F]
  BY DEF alloc_block_FF
<1> HIDE DEF i
<1>6. TakeResult(L, F, b)
  BY <1>1, <1>3, TakeKeeps
<1>7. /\ F \in Seq(Block) /\ Apart(F) /\ b \in Block
      /\ PagesOf(F) \cup Pages(b) = PagesOf(L) /\ PagesOf(F) \cap Pages(b) = {}
  BY <1>6 DEF TakeResult
<1> HIDE DEF F, b
<1>8. HeapOK(F, A)
  BY <1>1, <1>7 DEF HeapOK
<1>9. Pages(b) \subseteq PagesOf(L) /\ PagesOf(F) = PagesOf(L) \ Pages(b)
  BY <1>7
<1> QED BY <1>4, <1>5, <1>7, <1>8, <1>9

(* The heaps and tables of the others do not change. *)
LEMMA HeapsAfter ==
  ASSUME HeapsInv, NEW e \in Env, NEW F, NEW A, HeapOK(F, A),
         FreeMemBlocksList' = [FreeMemBlocksList EXCEPT ![e] = F],
         AllocMemBlocksList' = [AllocMemBlocksList EXCEPT ![e] = A]
  PROVE  /\ HeapsInv' /\ FreeMemBlocksList'[e] = F /\ AllocMemBlocksList'[e] = A
         /\ \A d \in Env \ {e} : /\ FreeMemBlocksList'[d] = FreeMemBlocksList[d]
                                 /\ AllocMemBlocksList'[d] = AllocMemBlocksList[d]
<1>1. F \in Seq(Block) /\ A \in Seq(Block)
  BY DEF HeapOK
<1>2. /\ FreeMemBlocksList \in [Env -> Seq(Block)] /\ AllocMemBlocksList \in [Env -> Seq(Block)]
      /\ \A d \in Env : HeapOK(FreeMemBlocksList[d], AllocMemBlocksList[d])
  BY DEF HeapsInv
<1>3. /\ FreeMemBlocksList' \in [Env -> Seq(Block)]
      /\ AllocMemBlocksList' \in [Env -> Seq(Block)]
  BY <1>1, <1>2
<1>4. /\ FreeMemBlocksList'[e] = F /\ AllocMemBlocksList'[e] = A
      /\ \A d \in Env \ {e} : /\ FreeMemBlocksList'[d] = FreeMemBlocksList[d]
                              /\ AllocMemBlocksList'[d] = AllocMemBlocksList[d]
  BY <1>2
<1>5. \A d \in Env : HeapOK(FreeMemBlocksList'[d], AllocMemBlocksList'[d])
  BY <1>2, <1>4
<1>6. HeapsInv'
  BY <1>3, <1>5 DEF HeapsInv, HeapOK, PagesOf, Pages, End, Apart, Ascending, HeapPage
<1> QED BY <1>4, <1>6

LEMMA HeapsKept ==
  ASSUME HeapsInv, TablesInv, UNCHANGED <<FreeMemBlocksList, AllocMemBlocksList, page_table>>
  PROVE  HeapsInv' /\ TablesInv'
<1>1. HeapsInv'
  BY DEF HeapsInv
<1>2. TablesInv'
  BY DEF TablesInv, Mapping, Frame, HeapPage
<1> QED BY <1>1, <1>2

(* What depends on neither heap. *)
LEMMA RestKept ==
  ASSUME SharedInv, UNCHANGED <<shares, page_table, allocated, references, objects>>
  PROVE  /\ SharesInv' /\ ObjectsInv' /\ FrameReferencesInv' /\ ObjectReferencesInv'
         /\ request' = request => RequestsInv'
<1>1. SharesInv'
  BY DEF SharedInv, SharesInv, Named, Share, ID, Frame
<1>2. ObjectsInv'
  BY DEF SharedInv, ObjectsInv, Shows, Named, Object, HeapPage, ID
<1>3. FrameReferencesInv'
  BY DEF SharedInv, FrameReferencesInv, ShownAt, Frame, HeapPage
<1>4. ObjectReferencesInv'
  BY DEF SharedInv, ObjectReferencesInv, Holders, ID
<1>5. request' = request => RequestsInv'
  BY DEF SharedInv, RequestsInv, Answers, Named, Request, ID
<1> QED BY <1>1, <1>2, <1>3, <1>4, <1>5

(* A heap whose blocks cover the same pages as before. *)
LEMMA SamePagesKeeps ==
  ASSUME SharedInv, NEW e \in Env, NEW F, NEW A, HeapOK(F, A),
         FreeMemBlocksList' = [FreeMemBlocksList EXCEPT ![e] = F],
         AllocMemBlocksList' = [AllocMemBlocksList EXCEPT ![e] = A],
         PagesOf(F) \cup PagesOf(A)
           \subseteq PagesOf(FreeMemBlocksList[e]) \cup PagesOf(AllocMemBlocksList[e]),
         UNCHANGED <<shares, page_table, allocated, references, objects, request>>
  PROVE  SharedInv'
<1>1. HeapsInv /\ TablesInv
  BY DEF SharedInv
<1>2. /\ HeapsInv' /\ FreeMemBlocksList'[e] = F /\ AllocMemBlocksList'[e] = A
      /\ \A d \in Env \ {e} : /\ FreeMemBlocksList'[d] = FreeMemBlocksList[d]
                              /\ AllocMemBlocksList'[d] = AllocMemBlocksList[d]
  BY <1>1, HeapsAfter
<1>3. page_table' \in [Env -> [HeapPage -> Mapping \cup {NONE}]]
  BY <1>1 DEF TablesInv
<1>4. ASSUME NEW d \in Env,
             NEW p \in PagesOf(FreeMemBlocksList'[d]) \cup PagesOf(AllocMemBlocksList'[d])
      PROVE  page_table'[d][p] = NONE
  <2>1. p \in PagesOf(FreeMemBlocksList[d]) \cup PagesOf(AllocMemBlocksList[d])
    <3>1. CASE d = e
      BY <1>2, <1>4, <3>1
    <3>2. CASE d # e
      BY <1>2, <1>4, <3>2
    <3> QED BY <3>1, <3>2
  <2> QED BY <1>1, <2>1 DEF TablesInv
<1>5. TablesInv'
  BY <1>3, <1>4 DEF TablesInv, Mapping, Frame, HeapPage
<1>6. /\ SharesInv' /\ ObjectsInv' /\ FrameReferencesInv' /\ ObjectReferencesInv' /\ RequestsInv'
  BY RestKept
<1> QED BY <1>2, <1>5, <1>6 DEF SharedInv

LEMMA MallocKeeps ==
  ASSUME SharedInv, NEW e \in Env, NEW size \in Size, malloc(e, size)
  PROVE  SharedInv'
<1> DEFINE L == FreeMemBlocksList[e]
           A == AllocMemBlocksList[e]
<1>1. HeapsInv /\ size \in Nat \ {0}
  BY Constants DEF SharedInv
<1>2. PICK F, b :
        /\ FirstFit(e, size) = b /\ b \in Block /\ b.size = size
        /\ FreeMemBlocksList' = [FreeMemBlocksList EXCEPT ![e] = F]
        /\ F \in Seq(Block) /\ HeapOK(F, A)
        /\ Pages(b) \subseteq PagesOf(L) /\ PagesOf(F) = PagesOf(L) \ Pages(b)
  BY <1>1, TakeHeap DEF malloc
<1> DEFINE A2 == insert_sorted_allocList(A, b)
<1>3. AllocMemBlocksList' = [AllocMemBlocksList EXCEPT ![e] = A2]
      /\ UNCHANGED <<shares, page_table, allocated, references, objects, request>>
  BY <1>2 DEF malloc, memory
<1>4. /\ F \in Seq(Block) /\ Apart(F) /\ A \in Seq(Block) /\ Ascending(A)
      /\ PagesOf(F) \subseteq HeapPage /\ PagesOf(A) \subseteq HeapPage
      /\ PagesOf(L) \subseteq HeapPage /\ PagesOf(L) \cap PagesOf(A) = {}
  BY <1>1, <1>2 DEF HeapsInv, HeapOK
<1>5. PagesOf(A) \cap Pages(b) = {}
  BY <1>2, <1>4
<1>6. AllocResult(A, A2, b)
  BY <1>2, <1>4, <1>5, InsertAllocKeeps
<1>7. A2 \in Seq(Block) /\ Ascending(A2) /\ PagesOf(A2) = PagesOf(A) \cup Pages(b)
  BY <1>6 DEF AllocResult
<1> HIDE DEF A2
<1>8. HeapOK(F, A2)
  BY <1>2, <1>4, <1>7 DEF HeapOK
<1>9. PagesOf(F) \cup PagesOf(A2) \subseteq PagesOf(L) \cup PagesOf(A)
  BY <1>2, <1>7
<1> QED BY <1>2, <1>3, <1>8, <1>9, SamePagesKeeps

LEMMA FreeKeeps ==
  ASSUME SharedInv, NEW e \in Env, NEW va, free(e, va)
  PROVE  SharedInv'
<1> DEFINE L == FreeMemBlocksList[e]
           A == AllocMemBlocksList[e]
           found == find_block(A, va)
           i == Min(found)
           b == A[i]
           F == insert_sorted_with_merge_freeList(L, b)
           A2 == RemoveAt(A, i)
<1>1. /\ L \in Seq(Block) /\ Apart(L) /\ A \in Seq(Block) /\ Ascending(A)
      /\ PagesOf(L) \cap PagesOf(A) = {}
      /\ PagesOf(L) \subseteq HeapPage /\ PagesOf(A) \subseteq HeapPage
  BY DEF SharedInv, HeapsInv, HeapOK
<1>2. /\ found # {}
      /\ AllocMemBlocksList' = [AllocMemBlocksList EXCEPT ![e] = A2]
      /\ FreeMemBlocksList' = [FreeMemBlocksList EXCEPT ![e] = F]
      /\ UNCHANGED <<shares, page_table, allocated, references, objects, request>>
  BY DEF free, memory
<1>3. found \in SUBSET Nat /\ found \subseteq DOMAIN A
  BY <1>1 DEF find_block
<1>4. i \in DOMAIN A
  BY <1>2, <1>3, SmallestIs
<1> HIDE DEF i
<1>5. b \in Block
  BY <1>1, <1>4
<1>6. \A p \in Pages(b) : p \in PagesOf(A)
  BY <1>4, PagesOfIs
<1>7. LET n == RemoveAt(A, i)
      IN /\ n \in Seq(Block) /\ Len(n) = Len(A) - 1
         /\ Ascending(n) /\ (Apart(A) => Apart(n))
         /\ PagesOf(n) = PagesOf(A) \ Pages(A[i])
         /\ ToSet(n) = ToSet(A) \ {A[i]}
  BY <1>1, <1>4, RemoveBlock
<1>8. A2 \in Seq(Block) /\ Ascending(A2) /\ PagesOf(A2) = PagesOf(A) \ Pages(b)
  BY <1>7
<1> HIDE DEF A2, b
<1>9. PagesOf(L) \cap Pages(b) = {}
  BY <1>1, <1>6
<1>10. MergeResult(L, F, b)
  BY <1>1, <1>5, <1>9, MergeKeeps
<1>11. F \in Seq(Block) /\ Apart(F) /\ PagesOf(F) = PagesOf(L) \cup Pages(b)
  BY <1>10 DEF MergeResult
<1> HIDE DEF F
<1>12. HeapOK(F, A2)
  BY <1>1, <1>6, <1>8, <1>11 DEF HeapOK
<1>13. PagesOf(F) \cup PagesOf(A2) \subseteq PagesOf(L) \cup PagesOf(A)
  BY <1>6, <1>8, <1>11
<1> QED BY <1>2, <1>12, <1>13, SamePagesKeeps
-----------------------------------------------------------------------------
(***************************************************************************)
(* map_frame() of a sequence of frames.                                    *)
(***************************************************************************)
MapResult(old, new, e, va, frames, writable) ==
  /\ new \in [Env -> [HeapPage -> Mapping \cup {NONE}]]
  /\ \A d \in Env \ {e} : new[d] = old[d]
  /\ \A p \in HeapPage : p \notin va .. va + Len(frames) - 1 => new[e][p] = old[e][p]
  /\ \A k \in 1 .. Len(frames) :
       /\ va + k - 1 \in HeapPage /\ old[e][va + k - 1] = NONE
       /\ new[e][va + k - 1] = [frame |-> frames[k], writable |-> writable]
       /\ new[e][va + k - 1] # NONE

OneEach(frames) == \A k, l \in DOMAIN frames : frames[k] = frames[l] => k = l

LEMMA MapFrames ==
  ASSUME page_table \in [Env -> [HeapPage -> Mapping \cup {NONE}]], NEW e \in Env,
         NEW va \in Nat, NEW frames \in Seq(Frame), va + Len(frames) <= HeapSize,
         \A k \in 1 .. Len(frames) : page_table[e][va + k - 1] = NONE,
         NEW writable \in BOOLEAN, map_frames(e, va, frames, writable)
  PROVE  MapResult(page_table, page_table', e, va, frames, writable)
<1> DEFINE t == mapped_at(page_table[e], va, frames, writable)
           n == Len(frames)
<1>1. page_table' = [page_table EXCEPT ![e] = t]
  BY DEF map_frames
<1>2. n \in Nat /\ \A k \in 1 .. n : frames[k] \in Frame
  OBVIOUS
<1> HIDE DEF n
<1>3. ASSUME NEW p \in HeapPage, p - va \in 0 .. n - 1
      PROVE  t[p] = [frame |-> frames[p - va + 1], writable |-> writable] /\ t[p] \in Mapping
  <2>1. t[p] = [frame |-> frames[p - va + 1], writable |-> writable]
    BY <1>3 DEF mapped_at, n
  <2>2. p - va + 1 \in 1 .. n
    BY <1>2, <1>3, Constants
  <2>3. frames[p - va + 1] \in Frame
    BY <1>2, <2>2
  <2> QED BY <2>1, <2>3 DEF Mapping
<1>4. ASSUME NEW p \in HeapPage, ~(p - va \in 0 .. n - 1)
      PROVE  t[p] = page_table[e][p]
  BY <1>4 DEF mapped_at, n
<1>5. t \in [HeapPage -> Mapping \cup {NONE}]
  <2>1. \A p \in HeapPage : t[p] \in Mapping \cup {NONE}
    BY <1>3, <1>4
  <2>2. t = [p \in HeapPage |-> t[p]]
    BY DEF mapped_at
  <2> HIDE DEF t
  <2> QED BY <2>1, <2>2
<1> HIDE DEF t
<1>6. page_table' \in [Env -> [HeapPage -> Mapping \cup {NONE}]]
  BY <1>1, <1>5
<1>7. page_table'[e] = t /\ \A d \in Env \ {e} : page_table'[d] = page_table[d]
  BY <1>1
<1>8. ASSUME NEW p \in HeapPage, p \notin va .. va + n - 1
      PROVE  page_table'[e][p] = page_table[e][p]
  <2>1. ~(p - va \in 0 .. n - 1)
    BY <1>2, <1>8, Constants
  <2> QED BY <1>4, <1>7, <2>1
<1>9. ASSUME NEW k \in 1 .. n
      PROVE  /\ va + k - 1 \in HeapPage /\ page_table[e][va + k - 1] = NONE
             /\ page_table'[e][va + k - 1] = [frame |-> frames[k], writable |-> writable]
             /\ page_table'[e][va + k - 1] # NONE
  <2>1. PICK p \in Int : p = va + k - 1
    BY <1>2
  <2>2. p \in HeapPage /\ p - va \in 0 .. n - 1 /\ p - va + 1 = k
    <3>1. va + n <= HeapSize
      BY DEF n
    <3>2. HeapSize \in Nat
      BY Constants
    <3>3. 0 <= p /\ p < HeapSize /\ p - va \in 0 .. n - 1 /\ p - va + 1 = k
      BY <1>2, <2>1, <3>1, <3>2
    <3> QED BY <3>3, Constants
  <2>3. t[p] = [frame |-> frames[k], writable |-> writable] /\ t[p] \in Mapping
    BY <1>3, <2>2
  <2>4. page_table[e][p] = NONE
    BY <2>1 DEF n
  <2> QED BY <1>7, <2>1, <2>2, <2>3, <2>4, Constants
<1> QED BY <1>6, <1>7, <1>8, <1>9 DEF MapResult, n

LEMMA ShownIs ==
  ASSUME NEW table, NEW f
  PROVE  /\ ShownAt(table, f) \subseteq Env \X HeapPage /\ IsFiniteSet(ShownAt(table, f))
         /\ \A d \in Env, p \in HeapPage :
              <<d, p>> \in ShownAt(table, f) <=> table[d][p] # NONE /\ table[d][p].frame = f
<1>1. ShownAt(table, f) \subseteq Env \X HeapPage
  BY DEF ShownAt
<1>2. IsFiniteSet(Env) /\ IsFiniteSet(HeapPage)
  BY Constants
<1>3. IsFiniteSet(Env \X HeapPage)
  BY <1>2, FS_Product
<1>4. IsFiniteSet(ShownAt(table, f))
  BY <1>1, <1>3, FS_Subset
<1>5. ASSUME NEW d \in Env, NEW p \in HeapPage
      PROVE  <<d, p>> \in ShownAt(table, f) <=> table[d][p] # NONE /\ table[d][p].frame = f
  BY DEF ShownAt
<1> QED BY <1>1, <1>4, <1>5

(* A frame that is not mapped is shown where it was, and one that is, once more. *)
LEMMA ShownAfter ==
  ASSUME NEW old, NEW new, NEW e \in Env, NEW va \in Nat, NEW frames \in Seq(Frame),
         NEW writable, MapResult(old, new, e, va, frames, writable), OneEach(frames),
         NEW f \in Frame
  PROVE  Cardinality(ShownAt(new, f)) = IF f \in ToSet(frames)
                                        THEN Cardinality(ShownAt(old, f)) + 1
                                        ELSE Cardinality(ShownAt(old, f))
<1>1. /\ \A d \in Env \ {e} : new[d] = old[d]
      /\ \A p \in HeapPage : p \notin va .. va + Len(frames) - 1 => new[e][p] = old[e][p]
      /\ \A k \in 1 .. Len(frames) :
           /\ va + k - 1 \in HeapPage /\ old[e][va + k - 1] = NONE
           /\ new[e][va + k - 1].frame = frames[k] /\ new[e][va + k - 1] # NONE
  <2>1. ASSUME NEW k \in 1 .. Len(frames)
        PROVE  /\ va + k - 1 \in HeapPage /\ old[e][va + k - 1] = NONE
               /\ new[e][va + k - 1].frame = frames[k] /\ new[e][va + k - 1] # NONE
    <3>1. /\ va + k - 1 \in HeapPage /\ old[e][va + k - 1] = NONE
          /\ new[e][va + k - 1] = [frame |-> frames[k], writable |-> writable]
          /\ new[e][va + k - 1] # NONE
      BY DEF MapResult
    <3>2. [frame |-> frames[k], writable |-> writable].frame = frames[k]
      OBVIOUS
    <3> QED BY <3>1, <3>2
  <2> QED BY <2>1 DEF MapResult
<1>2. DOMAIN frames = 1 .. Len(frames) /\ Len(frames) \in Nat
  OBVIOUS
<1>3. ASSUME NEW p \in HeapPage, p \in va .. va + Len(frames) - 1
      PROVE  \E k \in 1 .. Len(frames) : p = va + k - 1
  <2>1. p - va + 1 \in 1 .. Len(frames) /\ p = va + (p - va + 1) - 1
    BY <1>2, <1>3, Constants
  <2> QED BY <2>1
<1>4. \A x \in Env \X HeapPage : \E d \in Env, p \in HeapPage : x = <<d, p>>
  OBVIOUS
<1>5. CASE f \notin ToSet(frames)
  <2>1. ASSUME NEW d \in Env, NEW p \in HeapPage
        PROVE  <<d, p>> \in ShownAt(new, f) <=> <<d, p>> \in ShownAt(old, f)
    <3>1. CASE d # e
      BY <1>1, <3>1, ShownIs
    <3>2. CASE d = e /\ p \notin va .. va + Len(frames) - 1
      BY <1>1, <3>2, ShownIs
    <3>3. CASE d = e /\ p \in va .. va + Len(frames) - 1
      <4>1. PICK k \in 1 .. Len(frames) : p = va + k - 1
        BY <1>3, <3>3
      <4>2. frames[k] # f
        BY <1>2, <1>5 DEF ToSet
      <4>3. old[d][p] = NONE /\ new[d][p].frame # f
        BY <1>1, <3>3, <4>1, <4>2
      <4> QED BY <4>3, ShownIs
    <3> QED BY <3>1, <3>2, <3>3
  <2>2. ShownAt(new, f) \subseteq Env \X HeapPage /\ ShownAt(old, f) \subseteq Env \X HeapPage
    BY ShownIs
  <2>3. ASSUME NEW x \in Env \X HeapPage
        PROVE  x \in ShownAt(new, f) <=> x \in ShownAt(old, f)
    <3>1. PICK d \in Env, p \in HeapPage : x = <<d, p>>
      BY <1>4
    <3> QED BY <2>1, <3>1
  <2>4. ShownAt(new, f) = ShownAt(old, f)
    BY <2>2, <2>3
  <2> QED BY <1>5, <2>4
<1>6. CASE f \in ToSet(frames)
  <2>1. PICK k \in 1 .. Len(frames) : frames[k] = f
    BY <1>2, <1>6 DEF ToSet
  <2>2. PICK q \in HeapPage : q = va + k - 1
    BY <1>1
  <2>3. old[e][q] = NONE /\ new[e][q] # NONE /\ new[e][q].frame = f
    BY <1>1, <2>1, <2>2
  <2>4. ASSUME NEW d \in Env, NEW p \in HeapPage, ~(d = e /\ p = q)
        PROVE  <<d, p>> \in ShownAt(new, f) <=> <<d, p>> \in ShownAt(old, f)
    <3>1. CASE d # e
      BY <1>1, <3>1, ShownIs
    <3>2. CASE d = e /\ p \notin va .. va + Len(frames) - 1
      BY <1>1, <3>2, ShownIs
    <3>3. CASE d = e /\ p \in va .. va + Len(frames) - 1
      <4>1. PICK l \in 1 .. Len(frames) : p = va + l - 1
        BY <1>3, <3>3
      <4>2. l # k
        BY <2>2, <2>4, <3>3, <4>1
      <4>3. frames[l] # f
        BY <1>2, <2>1, <4>2 DEF OneEach
      <4>4. old[d][p] = NONE /\ new[d][p].frame # f
        BY <1>1, <3>3, <4>1, <4>3
      <4> QED BY <4>4, ShownIs
    <3> QED BY <3>1, <3>2, <3>3
  <2>5. <<e, q>> \in ShownAt(new, f) /\ <<e, q>> \notin ShownAt(old, f)
    BY <2>3, ShownIs
  <2>6. ShownAt(new, f) \subseteq Env \X HeapPage /\ ShownAt(old, f) \subseteq Env \X HeapPage
    BY ShownIs
  <2>7. ASSUME NEW x \in Env \X HeapPage
        PROVE  x \in ShownAt(new, f) <=> x \in ShownAt(old, f) \cup {<<e, q>>}
    <3>1. PICK d \in Env, p \in HeapPage : x = <<d, p>>
      BY <1>4
    <3>2. CASE d = e /\ p = q
      BY <2>5, <3>1, <3>2
    <3>3. CASE ~(d = e /\ p = q)
      <4>1. x # <<e, q>>
        BY <3>1, <3>3
      <4> QED BY <2>4, <3>1, <3>3, <4>1
    <3> QED BY <3>2, <3>3
  <2>8. ShownAt(new, f) = ShownAt(old, f) \cup {<<e, q>>}
    BY <2>5, <2>6, <2>7
  <2>9. IsFiniteSet(ShownAt(old, f))
    BY ShownIs
  <2>10. Cardinality(ShownAt(old, f) \cup {<<e, q>>}) = Cardinality(ShownAt(old, f)) + 1
    BY <2>5, <2>9, FS_AddElement
  <2> QED BY <1>6, <2>8, <2>10
<1> QED BY <1>5, <1>6

LEMMA MapReferences ==
  ASSUME FrameReferencesInv, NEW e \in Env, NEW va \in Nat, NEW frames \in Seq(Frame),
         NEW writable, MapResult(page_table, page_table', e, va, frames, writable),
         OneEach(frames), map_frames(e, va, frames, writable)
  PROVE  FrameReferencesInv'
<1>1. /\ references \in [Frame -> Nat]
      /\ \A f \in Frame : references[f] = Cardinality(ShownAt(page_table, f))
  BY DEF FrameReferencesInv
<1>2. references' = [f \in Frame |-> IF f \in ToSet(frames) THEN references[f] + 1
                                    ELSE references[f]]
  BY DEF map_frames, count_references
<1>3. references' \in [Frame -> Nat]
  BY <1>1, <1>2
<1>4. ASSUME NEW f \in Frame PROVE references'[f] = Cardinality(ShownAt(page_table', f))
  <2>1. references'[f] = IF f \in ToSet(frames) THEN references[f] + 1 ELSE references[f]
    BY <1>2
  <2>2. Cardinality(ShownAt(page_table', f)) = IF f \in ToSet(frames)
                                        THEN Cardinality(ShownAt(page_table, f)) + 1
                                        ELSE Cardinality(ShownAt(page_table, f))
    BY ShownAfter
  <2> QED BY <1>1, <2>1, <2>2
<1> QED BY <1>3, <1>4 DEF FrameReferencesInv, ShownAt, Frame, HeapPage

(***************************************************************************)
(* A block is taken from the heap and frames are mapped there.             *)
(***************************************************************************)
LEMMA BlockMapped ==
  ASSUME SharedInv, NEW e \in Env, NEW size \in Nat \ {0}, HasRoom(e, size),
         alloc_block_FF(e, size), AllocMemBlocksList' = AllocMemBlocksList,
         NEW frames \in Seq(Frame), OneEach(frames), Len(frames) <= size,
         NEW writable \in BOOLEAN,
         map_frames(e, FirstFit(e, size).sva, frames, writable)
  PROVE  /\ HeapsInv' /\ TablesInv' /\ FrameReferencesInv'
         /\ \E va \in HeapPage :
              /\ va = FirstFit(e, size).sva /\ va + size <= HeapSize
              /\ page_table[e][va] = NONE
              /\ MapResult(page_table, page_table', e, va, frames, writable)
<1> DEFINE L == FreeMemBlocksList[e]
           A == AllocMemBlocksList[e]
<1>1. /\ HeapsInv /\ TablesInv /\ FrameReferencesInv
      /\ page_table \in [Env -> [HeapPage -> Mapping \cup {NONE}]]
  BY DEF SharedInv, TablesInv
<1>2. PICK F, b :
        /\ FirstFit(e, size) = b /\ b \in Block /\ b.size = size
        /\ FreeMemBlocksList' = [FreeMemBlocksList EXCEPT ![e] = F]
        /\ F \in Seq(Block) /\ HeapOK(F, A)
        /\ Pages(b) \subseteq PagesOf(L) /\ PagesOf(F) = PagesOf(L) \ Pages(b)
  BY <1>1, TakeHeap
<1>3. PICK va \in Nat : va = b.sva /\ End(b) = va + size
  BY <1>2, PagesIs
<1>4. /\ \A p : p \in Pages(b) <=> p \in Int /\ va <= p /\ p < va + size
      /\ va \in Pages(b) /\ va + size - 1 \in Pages(b)
  BY <1>2, <1>3, PagesIs
<1>5. PagesOf(L) \subseteq HeapPage /\ PagesOf(A) \subseteq HeapPage /\ PagesOf(L) \cap PagesOf(A) = {}
  BY <1>1 DEF HeapsInv, HeapOK
<1>6. va \in HeapPage /\ va + size <= HeapSize
  <2>1. va \in HeapPage /\ va + size - 1 \in HeapPage
    BY <1>2, <1>4, <1>5
  <2>2. va + size - 1 < HeapSize /\ HeapSize \in Nat
    BY <2>1, Constants
  <2> QED BY <2>1, <2>2
<1>7. \A p \in Pages(b) : page_table[e][p] = NONE
  BY <1>1, <1>2 DEF TablesInv
<1>8. PICK n \in Nat : n = Len(frames) /\ n <= size
  OBVIOUS
<1>9. \A k \in 1 .. Len(frames) : page_table[e][va + k - 1] = NONE
  <2> SUFFICES ASSUME NEW k \in 1 .. n PROVE page_table[e][va + k - 1] = NONE
    BY <1>8
  <2>1. va + k - 1 \in Pages(b)
    BY <1>4, <1>8
  <2> QED BY <1>7, <2>1
<1>10. va + Len(frames) <= HeapSize
  BY <1>6, <1>8, Constants
<1>11. map_frames(e, va, frames, writable)
  BY <1>2, <1>3
<1>12. MapResult(page_table, page_table', e, va, frames, writable)
  BY <1>1, <1>9, <1>10, <1>11, MapFrames
<1>13. FrameReferencesInv'
  BY <1>1, <1>11, <1>12, MapReferences
<1>14. AllocMemBlocksList' = [AllocMemBlocksList EXCEPT ![e] = A]
  BY <1>1 DEF HeapsInv
<1>15. /\ HeapsInv' /\ FreeMemBlocksList'[e] = F /\ AllocMemBlocksList'[e] = A
       /\ \A d \in Env \ {e} : /\ FreeMemBlocksList'[d] = FreeMemBlocksList[d]
                               /\ AllocMemBlocksList'[d] = AllocMemBlocksList[d]
  BY <1>1, <1>2, <1>14, HeapsAfter
<1>16. /\ page_table' \in [Env -> [HeapPage -> Mapping \cup {NONE}]]
       /\ \A d \in Env \ {e} : page_table'[d] = page_table[d]
       /\ \A p \in HeapPage : p \notin va .. va + Len(frames) - 1
                                => page_table'[e][p] = page_table[e][p]
  BY <1>12 DEF MapResult
<1>17. ASSUME NEW d \in Env,
              NEW p \in PagesOf(FreeMemBlocksList'[d]) \cup PagesOf(AllocMemBlocksList'[d])
       PROVE  page_table'[d][p] = NONE
  <2>1. CASE d # e
    <3>1. p \in PagesOf(FreeMemBlocksList[d]) \cup PagesOf(AllocMemBlocksList[d])
      BY <1>15, <1>17, <2>1
    <3>2. page_table[d][p] = NONE
      BY <1>1, <3>1 DEF TablesInv
    <3> QED BY <1>16, <2>1, <3>2
  <2>2. CASE d = e
    <3>1. p \in PagesOf(L) \cup PagesOf(A) /\ p \notin Pages(b)
      BY <1>2, <1>5, <1>15, <1>17, <2>2
    <3>2. p \in HeapPage /\ p \in Int
      BY <1>5, <3>1, Constants
    <3>3. p \notin va .. va + Len(frames) - 1
      <4>1. ~(va <= p /\ p < va + size)
        BY <1>4, <3>1, <3>2
      <4> QED BY <1>8, <3>2, <4>1
    <3>4. page_table[e][p] = NONE
      BY <1>1, <3>1 DEF TablesInv
    <3> QED BY <1>16, <2>2, <3>2, <3>3, <3>4
  <2> QED BY <2>1, <2>2
<1>18. TablesInv'
  BY <1>16, <1>17 DEF TablesInv, Mapping, Frame, HeapPage
<1>19. page_table[e][va] = NONE /\ va = FirstFit(e, size).sva
  BY <1>2, <1>3, <1>4, <1>7
<1> QED BY <1>6, <1>12, <1>13, <1>15, <1>18, <1>19

(* What an environment has of an object, it still has after more frames are mapped. *)
LEMMA ShowsKept ==
  ASSUME NEW old, NEW new, NEW e \in Env, NEW va \in Nat, NEW frames \in Seq(Frame),
         NEW writable, MapResult(old, new, e, va, frames, writable),
         NEW d \in Env, NEW o \in Object, NEW share \in Share, NEW share2 \in Share,
         share2.ownerID = share.ownerID, share2.size = share.size,
         share2.isWritable = share.isWritable, share2.frames = share.frames,
         Shows(d, o, share, old[d])
  PROVE  Shows(d, o, share2, new[d])
<1>1. o.va \in Nat /\ share.size \in Nat /\ o.va + share.size <= HeapSize
  BY ShareFields, Constants DEF Shows, Object, HeapPage
<1>2. share2 # NONE /\ share2.ownerID # NONE
  BY Constants DEF Shows, Named
<1>3. ASSUME NEW k \in 0 .. share.size - 1
      PROVE  new[d][o.va + k] = old[d][o.va + k]
  <2>0. k \in Int /\ 0 <= k /\ k < share.size /\ HeapSize \in Nat
    BY <1>1, <1>3, Constants
  <2>1. o.va + k \in HeapPage
    <3>1. o.va + k \in Int /\ 0 <= o.va + k /\ o.va + k < HeapSize
      BY <1>1, <2>0
    <3> QED BY <3>1, Constants
  <2>2. old[d][o.va + k] # NONE
    BY <1>3 DEF Shows
  <2>3. CASE d # e
    BY <2>3 DEF MapResult
  <2>4. CASE d = e
    <3>1. SUFFICES o.va + k \notin va .. va + Len(frames) - 1
      BY <2>1, <2>4 DEF MapResult
    <3>2. SUFFICES ASSUME o.va + k \in va .. va + Len(frames) - 1 PROVE FALSE
      OBVIOUS
    <3>3. PICK p \in Int : p = o.va + k
      BY <1>1
    <3>4. Len(frames) \in Nat
      OBVIOUS
    <3>5. PICK l \in 1 .. Len(frames) : p = va + l - 1
      <4>1. p - va + 1 \in 1 .. Len(frames) /\ p = va + (p - va + 1) - 1
        BY <3>2, <3>3, <3>4
      <4> QED BY <4>1
    <3>6. old[e][va + l - 1] = NONE
      BY DEF MapResult
    <3> QED BY <2>2, <2>4, <3>3, <3>5, <3>6
  <2> QED BY <2>3, <2>4
<1>4. ASSUME NEW k \in 0 .. share.size - 1
      PROVE  /\ new[d][o.va + k] # NONE /\ new[d][o.va + k].frame = share.frames[k + 1]
             /\ ~share.isWritable /\ share.ownerID # d => ~new[d][o.va + k].writable
  BY <1>3 DEF Shows
<1> QED BY <1>1, <1>2, <1>4 DEF Shows, Named
-----------------------------------------------------------------------------
(***************************************************************************)
(* Objects and shares.                                                     *)
(***************************************************************************)
LEMMA HeldIs ==
  ASSUME NEW held \in [Env -> SUBSET Object], NEW i \in ID
  PROVE  /\ IsFiniteSet(Holders(held, i)) /\ Cardinality(Holders(held, i)) \in Nat
         /\ \A x : x \in Holders(held, i)
              <=> \E d \in Env : \E o \in held[d] : o.id = i /\ x = <<d, o>>
<1>1. \A x : x \in Holders(held, i)
        <=> \E d \in Env : \E o \in held[d] : o.id = i /\ x = <<d, o>>
  BY DEF Holders
<1>2. IsFiniteSet(Object)
  <2> DEFINE g == [x \in HeapPage \X ID |-> [va |-> x[1], id |-> x[2]]]
  <2>1. IsFiniteSet(HeapPage) /\ IsFiniteSet(ID)
    BY Constants
  <2>2. IsFiniteSet(HeapPage \X ID)
    BY <2>1, FS_Product
  <2>3. g \in [HeapPage \X ID -> Object]
    BY DEF Object
  <2>4. ASSUME NEW o \in Object PROVE \E x \in HeapPage \X ID : g[x] = o
    <3>1. o.va \in HeapPage /\ o.id \in ID /\ o = [va |-> o.va, id |-> o.id]
      BY DEF Object
    <3>2. <<o.va, o.id>> \in HeapPage \X ID /\ g[<<o.va, o.id>>] = o
      BY <3>1
    <3> QED BY <3>2
  <2>5. g \in Surjection(HeapPage \X ID, Object)
    BY <2>3, <2>4 DEF Surjection
  <2> HIDE DEF g
  <2> QED BY <2>2, <2>5, FS_Surjection
<1>3. IsFiniteSet(Env \X Object)
  BY <1>2, Constants, FS_Product
<1>4. Holders(held, i) \subseteq Env \X Object
  BY <1>1
<1>5. IsFiniteSet(Holders(held, i))
  BY <1>3, <1>4, FS_Subset
<1>6. Cardinality(Holders(held, i)) \in Nat
  BY <1>5, FS_CardinalityType
<1> QED BY <1>1, <1>5, <1>6

LEMMA HoldersAfter ==
  ASSUME NEW old \in [Env -> SUBSET Object], NEW new \in [Env -> SUBSET Object],
         NEW e \in Env, NEW o \in Object, o \notin old[e], new[e] = old[e] \cup {o},
         \A d \in Env \ {e} : new[d] = old[d], NEW i \in ID
  PROVE  /\ Cardinality(Holders(old, i)) \in Nat
         /\ Cardinality(Holders(new, i)) = IF i = o.id THEN Cardinality(Holders(old, i)) + 1
                                                       ELSE Cardinality(Holders(old, i))
<1>1. /\ IsFiniteSet(Holders(old, i)) /\ Cardinality(Holders(old, i)) \in Nat
      /\ \A x : x \in Holders(old, i)
           <=> \E d \in Env : \E q \in old[d] : q.id = i /\ x = <<d, q>>
  BY HeldIs
<1>2. \A x : x \in Holders(new, i)
        <=> \E d \in Env : \E q \in new[d] : q.id = i /\ x = <<d, q>>
  BY HeldIs
<1>3. \A d \in Env : \A q : q \in new[d] <=> q \in old[d] \/ (d = e /\ q = o)
  OBVIOUS
<1>4. CASE i # o.id
  <2>1. ASSUME NEW x, x \in Holders(new, i) PROVE x \in Holders(old, i)
    <3>0. PICK d \in Env : \E q \in new[d] : q.id = i /\ x = <<d, q>>
      BY <1>2, <2>1
    <3>1. PICK q \in new[d] : q.id = i /\ x = <<d, q>>
      BY <3>0
    <3>2. q \in old[d]
      BY <1>3, <1>4, <3>1
    <3> QED BY <1>1, <3>1, <3>2
  <2>2. ASSUME NEW x, x \in Holders(old, i) PROVE x \in Holders(new, i)
    <3>0. PICK d \in Env : \E q \in old[d] : q.id = i /\ x = <<d, q>>
      BY <1>1, <2>2
    <3>1. PICK q \in old[d] : q.id = i /\ x = <<d, q>>
      BY <3>0
    <3>2. q \in new[d]
      BY <1>3, <3>1
    <3> QED BY <1>2, <3>1, <3>2
  <2>3. Holders(new, i) = Holders(old, i)
    BY <2>1, <2>2
  <2> QED BY <1>1, <1>4, <2>3
<1>5. CASE i = o.id
  <2>1. ASSUME NEW x, x \in Holders(new, i) PROVE x \in Holders(old, i) \cup {<<e, o>>}
    <3>0. PICK d \in Env : \E q \in new[d] : q.id = i /\ x = <<d, q>>
      BY <1>2, <2>1
    <3>1. PICK q \in new[d] : q.id = i /\ x = <<d, q>>
      BY <3>0
    <3>2. CASE q \in old[d]
      BY <1>1, <3>1, <3>2
    <3>3. CASE d = e /\ q = o
      BY <3>1, <3>3
    <3> QED BY <1>3, <3>1, <3>2, <3>3
  <2>2. ASSUME NEW x, x \in Holders(old, i) PROVE x \in Holders(new, i)
    <3>0. PICK d \in Env : \E q \in old[d] : q.id = i /\ x = <<d, q>>
      BY <1>1, <2>2
    <3>1. PICK q \in old[d] : q.id = i /\ x = <<d, q>>
      BY <3>0
    <3>2. q \in new[d]
      BY <1>3, <3>1
    <3> QED BY <1>2, <3>1, <3>2
  <2>3. <<e, o>> \in Holders(new, i)
    BY <1>2, <1>3, <1>5
  <2>4. Holders(new, i) = Holders(old, i) \cup {<<e, o>>}
    BY <2>1, <2>2, <2>3
  <2>5. <<e, o>> \notin Holders(old, i)
    BY <1>1
  <2>6. Cardinality(Holders(old, i) \cup {<<e, o>>}) = Cardinality(Holders(old, i)) + 1
    BY <1>1, <2>5, FS_AddElement
  <2> QED BY <1>1, <1>5, <2>4, <2>6
<1> QED BY <1>4, <1>5

LEMMA ObjectAdded ==
  ASSUME ObjectsInv, NEW e \in Env, NEW o \in Object, o \notin objects[e],
         objects' = [objects EXCEPT ![e] = @ \cup {o}]
  PROVE  /\ objects' \in [Env -> SUBSET Object] /\ objects'[e] = objects[e] \cup {o}
         /\ \A d \in Env \ {e} : objects'[d] = objects[d]
         /\ \A i \in ID : /\ Cardinality(Holders(objects, i)) \in Nat
                          /\ Cardinality(Holders(objects', i)) =
                               IF i = o.id THEN Cardinality(Holders(objects, i)) + 1
                                           ELSE Cardinality(Holders(objects, i))
<1>1. objects \in [Env -> SUBSET Object]
  BY DEF ObjectsInv
<1>2. /\ objects' \in [Env -> SUBSET Object] /\ objects'[e] = objects[e] \cup {o}
      /\ \A d \in Env \ {e} : objects'[d] = objects[d]
  BY <1>1
<1>3. ASSUME NEW i \in ID
      PROVE  /\ Cardinality(Holders(objects, i)) \in Nat
             /\ Cardinality(Holders(objects', i)) =
                  IF i = o.id THEN Cardinality(Holders(objects, i)) + 1
                              ELSE Cardinality(Holders(objects, i))
  <2>1. PICK old \in [Env -> SUBSET Object], new \in [Env -> SUBSET Object] :
          old = objects /\ new = objects'
    BY <1>1, <1>2, Zenon
  <2>2. o \notin old[e] /\ new[e] = old[e] \cup {o} /\ \A d \in Env \ {e} : new[d] = old[d]
    BY <1>2, <2>1, Zenon
  <2>3. /\ Cardinality(Holders(old, i)) \in Nat
        /\ Cardinality(Holders(new, i)) = IF i = o.id THEN Cardinality(Holders(old, i)) + 1
                                                      ELSE Cardinality(Holders(old, i))
    BY <2>2, HoldersAfter
  <2> QED BY <2>1, <2>3
<1> QED BY <1>2, <1>3

LEMMA NewFrames ==
  ASSUME SharesInv, NEW n \in Nat, allocated + n <= Frames
  PROVE  LET frames == allocate_frames(n)
         IN /\ frames \in Seq(Frame) /\ Len(frames) = n /\ OneEach(frames)
            /\ \A k \in 1 .. n : allocated <= frames[k] /\ frames[k] < allocated + n
<1> DEFINE frames == allocate_frames(n)
<1>1. allocated \in Nat /\ Frames \in Nat
  BY Constants DEF SharesInv
<1>2. ASSUME NEW k \in 1 .. n
      PROVE  /\ frames[k] = allocated + k - 1 /\ frames[k] \in Frame
             /\ allocated <= frames[k] /\ frames[k] < allocated + n
  <2>1. frames[k] = allocated + k - 1
    BY DEF allocate_frames
  <2>2. PICK f \in Int : f = allocated + k - 1
    BY <1>1
  <2>3. 0 <= f /\ f < Frames /\ allocated <= f /\ f < allocated + n
    BY <1>1, <2>2
  <2> HIDE DEF frames
  <2> QED BY <2>1, <2>2, <2>3, Constants
<1>3. frames = [k \in 1 .. n |-> frames[k]] /\ DOMAIN frames = 1 .. n
  BY DEF allocate_frames
<1> HIDE DEF frames
<1>4. frames \in Seq(Frame) /\ Len(frames) = n
  BY <1>2, <1>3
<1>5. OneEach(frames)
  BY <1>1, <1>2, <1>3 DEF OneEach
<1> QED BY <1>2, <1>4, <1>5 DEF frames

(* A share for the empty slot id whose frames are new. *)
NewShare(id, share) ==
  /\ id \in ID /\ shares[id] = NONE /\ share \in Share
  /\ shares' = [shares EXCEPT ![id] = share]
  /\ allocated' \in allocated .. Frames
  /\ OneEach(share.frames)
  /\ \A k \in DOMAIN share.frames :
       allocated <= share.frames[k] /\ share.frames[k] < allocated'
  /\ Named(share) =>
       /\ share.size = Len(share.frames) /\ share.size >= 1
       /\ ~Exists(share.ownerID, share.name)

LEMMA NewShareKeeps ==
  ASSUME SharedInv, NEW id, NEW share, NewShare(id, share)
  PROVE  /\ SharesInv' /\ (request' = request => RequestsInv')
         /\ shares'[id] = share /\ \A i \in ID \ {id} : shares'[i] = shares[i]
         /\ \A e \in Env : \A o \in objects[e] : o.id \in ID \ {id}
<1>1. /\ shares \in [ID -> Share \cup {NONE}] /\ allocated \in Nat
      /\ \A i \in ID : shares[i] # NONE =>
           \A k \in DOMAIN shares[i].frames : shares[i].frames[k] < allocated
      /\ \A i, j \in ID : shares[i] # NONE /\ shares[j] # NONE =>
           \A k \in DOMAIN shares[i].frames, l \in DOMAIN shares[j].frames :
             shares[i].frames[k] = shares[j].frames[l] => i = j /\ k = l
      /\ \A i \in ID : Named(shares[i]) =>
           shares[i].size = Len(shares[i].frames) /\ shares[i].size >= 1
      /\ \A i, j \in ID :
           /\ Named(shares[i]) /\ Named(shares[j])
           /\ shares[i].ownerID = shares[j].ownerID /\ shares[i].name = shares[j].name
           => i = j
  BY Constants DEF SharedInv, SharesInv
<1>2. /\ id \in ID /\ shares[id] = NONE /\ share \in Share /\ share # NONE
      /\ OneEach(share.frames)
      /\ \A k \in DOMAIN share.frames :
           allocated <= share.frames[k] /\ share.frames[k] < allocated'
  BY Constants DEF NewShare
<1>3. allocated' \in Nat /\ allocated <= allocated' /\ allocated' \in 0 .. Frames
  BY <1>1, Constants DEF NewShare
<1>4. /\ shares' \in [ID -> Share \cup {NONE}]
      /\ shares'[id] = share /\ \A i \in ID \ {id} : shares'[i] = shares[i]
  BY <1>1, <1>2 DEF NewShare
<1>5. ASSUME NEW s \in Share
      PROVE  \A k \in DOMAIN s.frames : s.frames[k] \in Nat
  <2>1. s.frames \in Seq(Frame)
    BY ShareFields
  <2>2. \A k \in DOMAIN s.frames : s.frames[k] \in Frame
    BY <2>1
  <2>3. \A f \in Frame : f \in Nat
    BY Constants
  <2> QED BY <2>2, <2>3
<1>6. ASSUME NEW i \in ID, shares'[i] # NONE
      PROVE  \A k \in DOMAIN shares'[i].frames : shares'[i].frames[k] < allocated'
  <2>1. CASE i = id
    BY <1>2, <1>4, <2>1
  <2>2. CASE i # id
    <3>1. shares'[i] = shares[i] /\ shares[i] # NONE /\ shares[i] \in Share
      BY <1>1, <1>4, <1>6, <2>2
    <3>2. ASSUME NEW k \in DOMAIN shares[i].frames PROVE shares[i].frames[k] < allocated'
      <4>1. shares[i].frames[k] < allocated /\ shares[i].frames[k] \in Nat
        BY <1>1, <1>5, <3>1
      <4> QED BY <1>1, <1>3, <4>1
    <3> QED BY <3>1, <3>2
  <2> QED BY <2>1, <2>2
<1>7. ASSUME NEW i \in ID \ {id}, shares[i] # NONE,
             NEW k \in DOMAIN shares[i].frames, NEW l \in DOMAIN share.frames
      PROVE  shares[i].frames[k] # share.frames[l]
  <2>1. shares[i] \in Share
    BY <1>1, <1>7
  <2>2. /\ shares[i].frames[k] < allocated /\ shares[i].frames[k] \in Nat
        /\ allocated <= share.frames[l] /\ share.frames[l] \in Nat
    BY <1>1, <1>2, <1>5, <1>7, <2>1
  <2> QED BY <1>1, <2>2
<1>8. ASSUME NEW i \in ID, NEW j \in ID, shares'[i] # NONE, shares'[j] # NONE,
             NEW k \in DOMAIN shares'[i].frames, NEW l \in DOMAIN shares'[j].frames,
             shares'[i].frames[k] = shares'[j].frames[l]
      PROVE  i = j /\ k = l
  <2>1. CASE i = id /\ j = id
    BY <1>2, <1>4, <1>8, <2>1 DEF OneEach
  <2>2. CASE i # id /\ j # id
    BY <1>1, <1>4, <1>8, <2>2
  <2>3. CASE i = id /\ j # id
    BY <1>4, <1>7, <1>8, <2>3
  <2>4. CASE i # id /\ j = id
    BY <1>4, <1>7, <1>8, <2>4
  <2> QED BY <2>1, <2>2, <2>3, <2>4
<1>9. ASSUME NEW i \in ID, Named(shares'[i])
      PROVE  shares'[i].size = Len(shares'[i].frames) /\ shares'[i].size >= 1
  <2>1. CASE i = id
    BY <1>4, <1>9, <2>1 DEF NewShare
  <2>2. CASE i # id
    BY <1>1, <1>4, <1>9, <2>2
  <2> QED BY <2>1, <2>2
<1>10. ASSUME NEW i \in ID \ {id}, Named(shares[i]), Named(share),
              shares[i].ownerID = share.ownerID, shares[i].name = share.name
       PROVE  FALSE
  <2>1. i \in get_share_object_ID(share.ownerID, share.name)
    BY <1>10 DEF get_share_object_ID, Named
  <2> QED BY <1>10, <2>1 DEF NewShare, Exists
<1>11. ASSUME NEW i \in ID, NEW j \in ID, Named(shares'[i]), Named(shares'[j]),
              shares'[i].ownerID = shares'[j].ownerID, shares'[i].name = shares'[j].name
       PROVE  i = j
  <2>1. CASE i # id /\ j # id
    BY <1>1, <1>4, <1>11, <2>1
  <2>2. CASE i = id /\ j # id
    BY <1>4, <1>10, <1>11, <2>2
  <2>3. CASE i # id /\ j = id
    BY <1>4, <1>10, <1>11, <2>3
  <2> QED BY <2>1, <2>2, <2>3
<1>12. SharesInv'
  BY <1>3, <1>4, <1>6, <1>8, <1>9, <1>11 DEF SharesInv, Named, Share, ID, Frame
<1>13. ASSUME request' = request PROVE RequestsInv'
  <2>1. /\ request \in [Env -> Request \cup {NONE}]
        /\ \A e \in Env : request[e] # NONE => \E i \in ID : Answers(shares[i], request[e])
    BY DEF SharedInv, RequestsInv
  <2>2. ASSUME NEW e \in Env, request[e] # NONE
        PROVE  \E i \in ID : Answers(shares'[i], request[e])
    <3>1. PICK i \in ID : Answers(shares[i], request[e])
      BY <2>1, <2>2
    <3>2. i # id
      BY <1>2, <3>1 DEF Answers, Named
    <3> QED BY <1>4, <3>1, <3>2
  <2> QED BY <1>13, <2>1, <2>2 DEF RequestsInv, Request, Answers, Named, ID
<1>14. ASSUME NEW e \in Env, NEW o \in objects[e] PROVE o.id \in ID \ {id}
  <2>1. o \in Object /\ Named(shares[o.id])
    BY DEF SharedInv, ObjectsInv, Shows
  <2> QED BY <1>2, <2>1 DEF Object, Named
<1> QED BY <1>4, <1>12, <1>13, <1>14

SameShare(s, t) ==
  /\ s = NONE <=> t = NONE
  /\ s # NONE => /\ t.ownerID = s.ownerID /\ t.name = s.name /\ t.size = s.size
                 /\ t.isWritable = s.isWritable /\ t.frames = s.frames

LEMMA ObjectsKept ==
  ASSUME SharedInv, NEW e \in Env, NEW va \in Nat, NEW frames \in Seq(Frame), NEW writable,
         MapResult(page_table, page_table', e, va, frames, writable),
         shares' \in [ID -> Share \cup {NONE}],
         \A d \in Env : \A o \in objects[d] : SameShare(shares[o.id], shares'[o.id])
  PROVE  \A d \in Env : \A o \in objects[d] : Shows(d, o, shares'[o.id], page_table'[d])
<1> SUFFICES ASSUME NEW d \in Env, NEW o \in objects[d]
             PROVE  Shows(d, o, shares'[o.id], page_table'[d])
  OBVIOUS
<1>1. o \in Object /\ Shows(d, o, shares[o.id], page_table[d])
  BY DEF SharedInv, ObjectsInv
<1>2. o.id \in ID
  BY <1>1 DEF Object
<1>3. shares[o.id] # NONE /\ shares[o.id] \in Share
  BY <1>1, <1>2 DEF SharedInv, SharesInv, Shows, Named
<1>4. PICK s, t, old, new :
        /\ s = shares[o.id] /\ t = shares'[o.id] /\ s \in Share /\ t \in Share
        /\ old = page_table /\ new = page_table'
  BY <1>2, <1>3 DEF SameShare
<1>5. /\ s \in Share /\ t \in Share
      /\ t.ownerID = s.ownerID /\ t.size = s.size /\ t.isWritable = s.isWritable
      /\ t.frames = s.frames
  BY <1>3, <1>4 DEF SameShare
<1>6. MapResult(old, new, e, va, frames, writable) /\ Shows(d, o, s, old[d])
  BY <1>1, <1>4
<1>7. Shows(d, o, t, new[d])
  BY <1>1, <1>5, <1>6, ShowsKept
<1> QED BY <1>4, <1>7

LEMMA SameSharesKeep ==
  ASSUME SharedInv, allocated' = allocated, shares' \in [ID -> Share \cup {NONE}],
         \A i \in ID : SameShare(shares[i], shares'[i]),
         request' \in [Env -> Request \cup {NONE}],
         \A e \in Env : request'[e] # NONE => request'[e] = request[e]
  PROVE  SharesInv' /\ RequestsInv'
<1>1. /\ shares \in [ID -> Share \cup {NONE}] /\ allocated \in 0 .. Frames
      /\ \A i \in ID : shares[i] # NONE =>
           \A k \in DOMAIN shares[i].frames : shares[i].frames[k] < allocated
      /\ \A i, j \in ID : shares[i] # NONE /\ shares[j] # NONE =>
           \A k \in DOMAIN shares[i].frames, l \in DOMAIN shares[j].frames :
             shares[i].frames[k] = shares[j].frames[l] => i = j /\ k = l
      /\ \A i \in ID : Named(shares[i]) =>
           shares[i].size = Len(shares[i].frames) /\ shares[i].size >= 1
      /\ \A i, j \in ID :
           /\ Named(shares[i]) /\ Named(shares[j])
           /\ shares[i].ownerID = shares[j].ownerID /\ shares[i].name = shares[j].name
           => i = j
  BY DEF SharedInv, SharesInv
<1>2. ASSUME NEW i \in ID, shares'[i] # NONE
      PROVE  /\ shares[i] # NONE /\ shares'[i].frames = shares[i].frames
             /\ shares'[i].ownerID = shares[i].ownerID /\ shares'[i].name = shares[i].name
             /\ shares'[i].size = shares[i].size
  BY <1>2 DEF SameShare
<1>3. ASSUME NEW i \in ID, shares'[i] # NONE
      PROVE  \A k \in DOMAIN shares'[i].frames : shares'[i].frames[k] < allocated'
  BY <1>1, <1>2, <1>3
<1>4. ASSUME NEW i \in ID, NEW j \in ID, shares'[i] # NONE, shares'[j] # NONE,
             NEW k \in DOMAIN shares'[i].frames, NEW l \in DOMAIN shares'[j].frames,
             shares'[i].frames[k] = shares'[j].frames[l]
      PROVE  i = j /\ k = l
  BY <1>1, <1>2, <1>4
<1>5. ASSUME NEW i \in ID, Named(shares'[i])
      PROVE  /\ Named(shares[i])
             /\ shares'[i].size = Len(shares'[i].frames) /\ shares'[i].size >= 1
  <2>1. Named(shares[i])
    BY <1>2, <1>5 DEF Named
  <2> QED BY <1>1, <1>2, <1>5, <2>1 DEF Named
<1>6. ASSUME NEW i \in ID, NEW j \in ID, Named(shares'[i]), Named(shares'[j]),
             shares'[i].ownerID = shares'[j].ownerID, shares'[i].name = shares'[j].name
      PROVE  i = j
  <2>1. /\ Named(shares[i]) /\ Named(shares[j])
        /\ shares[i].ownerID = shares[j].ownerID /\ shares[i].name = shares[j].name
    BY <1>2, <1>5, <1>6 DEF Named
  <2> QED BY <1>1, <2>1
<1>7. SharesInv'
  BY <1>1, <1>3, <1>4, <1>5, <1>6 DEF SharesInv, Named, Share, ID, Frame
<1>8. ASSUME NEW e \in Env, request'[e] # NONE
      PROVE  \E i \in ID : Answers(shares'[i], request'[e])
  <2>1. request'[e] = request[e] /\ request[e] # NONE
    BY <1>8
  <2>2. PICK i \in ID : Answers(shares[i], request[e])
    BY <2>1 DEF SharedInv, RequestsInv
  <2>3. Answers(shares'[i], request[e])
    BY <2>2 DEF Answers, Named, SameShare
  <2> QED BY <2>1, <2>3
<1>9. RequestsInv'
  BY <1>8 DEF RequestsInv, Request, Answers, Named, ID
<1> QED BY <1>7, <1>9
-----------------------------------------------------------------------------
(***************************************************************************)
(* The other actions.                                                      *)
(***************************************************************************)
LEMMA SmallocKeeps ==
  ASSUME SharedInv, NEW e \in Env, NEW name \in Name, NEW size \in Size,
         NEW isWritable \in BOOLEAN, smalloc(e, name, size, isWritable)
  PROVE  SharedInv'
<1> DEFINE frames == allocate_frames(size)
           id == Min(EmptyShares)
           share == [ownerID |-> e, name |-> name, size |-> size, isWritable |-> isWritable,
                     references |-> 1, frames |-> frames]
<1>1. /\ HasRoom(e, size) /\ alloc_block_FF(e, size) /\ ~Exists(e, name) /\ EmptyShares # {}
      /\ allocated + size <= Frames /\ map_frames(e, FirstFit(e, size).sva, frames, TRUE)
      /\ allocated' = allocated + size /\ shares' = [shares EXCEPT ![id] = share]
      /\ objects' = [objects EXCEPT ![e] = @ \cup {[va |-> FirstFit(e, size).sva, id |-> id]}]
      /\ AllocMemBlocksList' = AllocMemBlocksList /\ request' = request
  BY DEF smalloc
<1>2. /\ size \in Nat \ {0} /\ SharesInv /\ ObjectsInv /\ ObjectReferencesInv
      /\ allocated \in Nat /\ Frames \in Nat
  BY Constants DEF SharedInv, SharesInv
<1>3. id \in ID /\ shares[id] = NONE
  <2>1. EmptyShares \in SUBSET Nat
    BY Constants DEF EmptyShares
  <2>2. id \in EmptyShares
    BY <1>1, <2>1, SmallestIs
  <2> HIDE DEF id
  <2> QED BY <2>2 DEF EmptyShares
<1>4. /\ frames \in Seq(Frame) /\ Len(frames) = size /\ OneEach(frames)
      /\ \A k \in 1 .. size : allocated <= frames[k] /\ frames[k] < allocated + size
  BY <1>1, <1>2, NewFrames
<1> HIDE DEF frames, id
<1>5. /\ HeapsInv' /\ TablesInv' /\ FrameReferencesInv'
      /\ \E va \in HeapPage :
           /\ va = FirstFit(e, size).sva /\ va + size <= HeapSize
           /\ page_table[e][va] = NONE
           /\ MapResult(page_table, page_table', e, va, frames, TRUE)
  <2>1. Len(frames) <= size /\ TRUE \in BOOLEAN
    BY <1>2, <1>4
  <2>2. /\ HasRoom(e, size) /\ alloc_block_FF(e, size)
        /\ map_frames(e, FirstFit(e, size).sva, frames, TRUE)
        /\ AllocMemBlocksList' = AllocMemBlocksList
    BY <1>1
  <2>3. frames \in Seq(Frame) /\ OneEach(frames) /\ size \in Nat \ {0}
    BY <1>2, <1>4
  <2> QED BY <2>1, <2>2, <2>3, BlockMapped, ZenonT(30)
<1>6. PICK va \in HeapPage :
        /\ va = FirstFit(e, size).sva /\ va + size <= HeapSize
        /\ MapResult(page_table, page_table', e, va, frames, TRUE)
  BY <1>5
<1>7. va \in Nat /\ va + size \in Nat
  BY <1>2, Constants
<1>8. share \in Share
  <2>1. size \in 0 .. HeapSize
    BY <1>2, <1>6, <1>7, Constants
  <2> QED BY <1>4, <2>1 DEF Share
<1>9. /\ share.ownerID = e /\ share.name = name /\ share.size = size
      /\ share.frames = frames /\ share.references = 1
  OBVIOUS
<1> HIDE DEF share
<1>10. NewShare(id, share)
  <2>1. allocated' \in allocated .. Frames
    BY <1>1, <1>2
  <2>2. \A k \in DOMAIN share.frames :
          allocated <= share.frames[k] /\ share.frames[k] < allocated'
    BY <1>1, <1>4, <1>9
  <2>3. share.size = Len(share.frames) /\ share.size >= 1 /\ ~Exists(share.ownerID, share.name)
    BY <1>1, <1>2, <1>4, <1>9
  <2>4. OneEach(share.frames)
    BY <1>4, <1>9
  <2> QED BY <1>1, <1>3, <1>8, <2>1, <2>2, <2>3, <2>4 DEF NewShare
<1>11. /\ SharesInv' /\ RequestsInv'
       /\ shares'[id] = share /\ \A i \in ID \ {id} : shares'[i] = shares[i]
       /\ \A d \in Env : \A q \in objects[d] : q.id \in ID \ {id}
  BY <1>1, <1>10, NewShareKeeps
<1> DEFINE o == [va |-> va, id |-> id]
<1>12. o \in Object /\ o.va = va /\ o.id = id
  BY <1>3 DEF Object
<1>13. objects' = [objects EXCEPT ![e] = @ \cup {o}]
  BY <1>1, <1>6
<1> HIDE DEF o
<1>14. o \notin objects[e]
  BY <1>11, <1>12
<1>15. /\ objects' \in [Env -> SUBSET Object] /\ objects'[e] = objects[e] \cup {o}
       /\ \A d \in Env \ {e} : objects'[d] = objects[d]
       /\ \A i \in ID : /\ Cardinality(Holders(objects, i)) \in Nat
                        /\ Cardinality(Holders(objects', i)) =
                             IF i = o.id THEN Cardinality(Holders(objects, i)) + 1
                                         ELSE Cardinality(Holders(objects, i))
  BY <1>2, <1>12, <1>13, <1>14, ObjectAdded
<1>16. \A d \in Env : \A q \in objects[d] : Shows(d, q, shares'[q.id], page_table'[d])
  <2>1. \A d \in Env : \A q \in objects[d] : SameShare(shares[q.id], shares'[q.id])
    BY <1>11 DEF SameShare
  <2>2. shares' \in [ID -> Share \cup {NONE}]
    BY <1>2, <1>1, <1>8 DEF SharesInv
  <2> QED BY <1>4, <1>6, <1>7, <2>1, <2>2, ObjectsKept
<1>17. Shows(e, o, shares'[o.id], page_table'[e])
  <2>1. ASSUME NEW k \in 0 .. size - 1
        PROVE  /\ page_table'[e][va + k] # NONE
               /\ page_table'[e][va + k].frame = share.frames[k + 1]
    <3>1. PICK l \in 1 .. size : l = k + 1 /\ va + l - 1 = va + k
      BY <1>2, <1>7, <2>1
    <3>2. /\ page_table'[e][va + l - 1] = [frame |-> frames[l], writable |-> TRUE]
          /\ page_table'[e][va + l - 1] # NONE
      BY <1>4, <1>6 DEF MapResult
    <3>3. page_table'[e][va + l - 1].frame = frames[l]
      BY <3>2
    <3> QED BY <1>9, <3>1, <3>2, <3>3
  <2>2. Named(share)
    BY <1>8, <1>9, Constants DEF Named
  <2> QED BY <1>6, <1>9, <1>11, <1>12, <2>1, <2>2 DEF Shows
<1>18. ObjectsInv'
  <2>1. ASSUME NEW d \in Env, NEW q \in objects'[d]
        PROVE  Shows(d, q, shares'[q.id], page_table'[d])
    BY <1>15, <1>16, <1>17, <2>1
  <2> QED BY <1>15, <2>1 DEF ObjectsInv, Shows, Named, Object, HeapPage, ID
<1>19. Cardinality(Holders(objects, id)) = 0
  <2>1. \A x : x \in Holders(objects, id)
              <=> \E d \in Env : \E q \in objects[d] : q.id = id /\ x = <<d, q>>
    BY <1>2, <1>3, HeldIs DEF ObjectsInv
  <2>2. Holders(objects, id) = {}
    BY <1>11, <2>1
  <2> QED BY <2>2, FS_EmptySet
<1>20. ASSUME NEW i \in ID, shares'[i] # NONE
       PROVE  shares'[i].references = Cardinality(Holders(objects', i))
  <2>1. CASE i = id
    BY <1>9, <1>11, <1>12, <1>15, <1>19, <2>1
  <2>2. CASE i # id
    BY <1>2, <1>11, <1>12, <1>15, <1>20, <2>2 DEF ObjectReferencesInv
  <2> QED BY <2>1, <2>2
<1>21. ObjectReferencesInv'
  BY <1>20 DEF ObjectReferencesInv, Holders, ID
<1> QED BY <1>5, <1>11, <1>18, <1>21 DEF SharedInv

LEMMA SmallocFailsKeeps ==
  ASSUME SharedInv, NEW e \in Env, NEW name, NEW size \in Size, smalloc_fails(e, name, size)
  PROVE  SharedInv'
<1> DEFINE L == FreeMemBlocksList[e]
           A == AllocMemBlocksList[e]
<1>1. HeapsInv /\ size \in Nat \ {0}
  BY Constants DEF SharedInv
<1>2. /\ HasRoom(e, size) /\ alloc_block_FF(e, size) /\ AllocMemBlocksList' = AllocMemBlocksList
      /\ UNCHANGED <<shares, page_table, allocated, references, objects, request>>
  BY DEF smalloc_fails, memory
<1>3. PICK F, b :
        /\ FirstFit(e, size) = b /\ b \in Block /\ b.size = size
        /\ FreeMemBlocksList' = [FreeMemBlocksList EXCEPT ![e] = F]
        /\ F \in Seq(Block) /\ HeapOK(F, A)
        /\ Pages(b) \subseteq PagesOf(L) /\ PagesOf(F) = PagesOf(L) \ Pages(b)
  BY <1>1, <1>2, TakeHeap
<1>4. AllocMemBlocksList' = [AllocMemBlocksList EXCEPT ![e] = A]
  BY <1>1, <1>2 DEF HeapsInv
<1>5. PagesOf(F) \cup PagesOf(A) \subseteq PagesOf(L) \cup PagesOf(A)
  BY <1>3
<1> QED BY <1>2, <1>3, <1>4, <1>5, SamePagesKeeps

LEMMA SmallocPanicsKeeps ==
  ASSUME SharedInv, NEW e \in Env, NEW name, NEW size \in Size, smalloc_panics(e, name, size)
  PROVE  SharedInv'
<1> DEFINE id == Min(EmptyShares)
<1>1. /\ HasRoom(e, size) /\ alloc_block_FF(e, size) /\ EmptyShares # {}
      /\ AllocMemBlocksList' = AllocMemBlocksList
      /\ objects' = objects /\ request' = request
  BY DEF smalloc_panics
<1>2. PICK n \in 0 .. size, lost \in {0, 1} :
        /\ n + lost <= size /\ allocated + n + lost <= Frames
        /\ map_frames(e, FirstFit(e, size).sva, allocate_frames(n), TRUE)
        /\ allocated' = allocated + n + lost
        /\ \E stored \in IF n = 1 /\ lost = 0 THEN {0, 1} ELSE {n} :
             shares' = [shares EXCEPT ![id] =
               [ownerID |-> NONE, name |-> NONE, size |-> 0, isWritable |-> FALSE,
                references |-> 0, frames |-> allocate_frames(stored)]]
  BY DEF smalloc_panics
<1>3. PICK stored \in IF n = 1 /\ lost = 0 THEN {0, 1} ELSE {n} :
        shares' = [shares EXCEPT ![id] =
          [ownerID |-> NONE, name |-> NONE, size |-> 0, isWritable |-> FALSE,
           references |-> 0, frames |-> allocate_frames(stored)]]
  BY <1>2
<1> DEFINE frames == allocate_frames(n)
           kept == allocate_frames(stored)
           share == [ownerID |-> NONE, name |-> NONE, size |-> 0, isWritable |-> FALSE,
                     references |-> 0, frames |-> kept]
<1>4. /\ size \in Nat \ {0} /\ SharesInv /\ ObjectsInv /\ ObjectReferencesInv
      /\ allocated \in Nat /\ Frames \in Nat
  BY Constants DEF SharedInv, SharesInv
<1>5. n \in Nat /\ stored \in Nat /\ stored <= n /\ n <= size /\ lost \in Nat
  BY <1>4
<1>6. id \in ID /\ shares[id] = NONE
  <2>1. EmptyShares \in SUBSET Nat
    BY Constants DEF EmptyShares
  <2>2. id \in EmptyShares
    BY <1>1, <2>1, SmallestIs
  <2> HIDE DEF id
  <2> QED BY <2>2 DEF EmptyShares
<1>7. allocated + n <= Frames /\ allocated + stored <= Frames
  BY <1>2, <1>4, <1>5
<1>8. frames \in Seq(Frame) /\ Len(frames) = n /\ OneEach(frames)
  BY <1>4, <1>5, <1>7, NewFrames
<1>9. /\ kept \in Seq(Frame) /\ Len(kept) = stored /\ OneEach(kept)
      /\ \A k \in 1 .. stored : allocated <= kept[k] /\ kept[k] < allocated + stored
  BY <1>4, <1>5, <1>7, NewFrames
<1>10. shares' = [shares EXCEPT ![id] = share]
  BY <1>3
<1>11. map_frames(e, FirstFit(e, size).sva, frames, TRUE)
  BY <1>2
<1> HIDE DEF frames, id, kept
<1>12. /\ HeapsInv' /\ TablesInv' /\ FrameReferencesInv'
       /\ \E va \in HeapPage :
            /\ va = FirstFit(e, size).sva /\ va + size <= HeapSize
            /\ page_table[e][va] = NONE
            /\ MapResult(page_table, page_table', e, va, frames, TRUE)
  <2>1. Len(frames) <= size /\ TRUE \in BOOLEAN
    BY <1>5, <1>8
  <2>2. /\ HasRoom(e, size) /\ alloc_block_FF(e, size)
        /\ AllocMemBlocksList' = AllocMemBlocksList
    BY <1>1
  <2>3. frames \in Seq(Frame) /\ OneEach(frames) /\ size \in Nat \ {0}
    BY <1>4, <1>8
  <2> QED BY <1>11, <2>1, <2>2, <2>3, BlockMapped, ZenonT(30)
<1>13. PICK va \in HeapPage : MapResult(page_table, page_table', e, va, frames, TRUE)
  BY <1>12
<1>14. va \in Nat
  BY Constants
<1>15. share \in Share
  <2>1. 0 \in 0 .. HeapSize
    BY Constants
  <2> QED BY <1>9, <2>1 DEF Share
<1>16. share.ownerID = NONE /\ share.frames = kept /\ share.references = 0
  OBVIOUS
<1> HIDE DEF share
<1>17. NewShare(id, share)
  <2>1. allocated' \in allocated .. Frames /\ allocated + stored <= allocated'
    BY <1>2, <1>4, <1>5
  <2>2. ASSUME NEW k \in DOMAIN share.frames
        PROVE  allocated <= share.frames[k] /\ share.frames[k] < allocated'
    <3>1. k \in 1 .. stored /\ kept[k] \in Nat
      BY <1>9, <1>16, Constants
    <3>2. allocated <= kept[k] /\ kept[k] < allocated + stored
      BY <1>9, <3>1
    <3> QED BY <1>4, <1>5, <1>16, <2>1, <3>1, <3>2
  <2>3. ~Named(share)
    BY <1>16 DEF Named
  <2>4. OneEach(share.frames)
    BY <1>9, <1>16
  <2> QED BY <1>6, <1>10, <1>15, <2>1, <2>2, <2>3, <2>4 DEF NewShare
<1>18. /\ SharesInv' /\ RequestsInv'
       /\ shares'[id] = share /\ \A i \in ID \ {id} : shares'[i] = shares[i]
       /\ \A d \in Env : \A q \in objects[d] : q.id \in ID \ {id}
  BY <1>1, <1>17, NewShareKeeps
<1>19. \A d \in Env : \A q \in objects[d] : Shows(d, q, shares'[q.id], page_table'[d])
  <2>1. \A d \in Env : \A q \in objects[d] : SameShare(shares[q.id], shares'[q.id])
    BY <1>18 DEF SameShare
  <2>2. shares' \in [ID -> Share \cup {NONE}]
    BY <1>4, <1>10, <1>15 DEF SharesInv
  <2> QED BY <1>8, <1>13, <1>14, <2>1, <2>2, ObjectsKept
<1>20. ObjectsInv'
  BY <1>1, <1>4, <1>19 DEF ObjectsInv, Shows, Named, Object, HeapPage, ID
<1>21. Cardinality(Holders(objects, id)) = 0
  <2>1. \A x : x \in Holders(objects, id)
              <=> \E d \in Env : \E q \in objects[d] : q.id = id /\ x = <<d, q>>
    BY <1>4, <1>6, HeldIs DEF ObjectsInv
  <2>2. Holders(objects, id) = {}
    BY <1>18, <2>1
  <2> QED BY <2>2, FS_EmptySet
<1>22. ASSUME NEW i \in ID, shares'[i] # NONE
       PROVE  shares'[i].references = Cardinality(Holders(objects', i))
  <2>1. CASE i = id
    BY <1>1, <1>16, <1>18, <1>21, <2>1
  <2>2. CASE i # id
    BY <1>1, <1>4, <1>18, <1>22, <2>2 DEF ObjectReferencesInv
  <2> QED BY <2>1, <2>2
<1>23. ObjectReferencesInv'
  BY <1>22 DEF ObjectReferencesInv, Holders, ID
<1> QED BY <1>12, <1>18, <1>20, <1>23 DEF SharedInv

(* The object that get_share_object_ID() finds. *)
LEMMA FoundIs ==
  ASSUME SharesInv, NEW ownerID \in Env, NEW name, Exists(ownerID, name)
  PROVE  \E id \in ID :
           /\ id = Min(get_share_object_ID(ownerID, name))
           /\ Named(shares[id]) /\ shares[id].ownerID = ownerID /\ shares[id].name = name
           /\ \A i \in ID : Named(shares[i]) /\ shares[i].ownerID = ownerID
                              /\ shares[i].name = name => i = id
<1> DEFINE found == get_share_object_ID(ownerID, name)
           id == Min(found)
<1>1. found # {} /\ found \in SUBSET Nat /\ found \subseteq ID
  BY Constants DEF Exists, get_share_object_ID
<1>2. id \in found
  BY <1>1, SmallestIs
<1> HIDE DEF id
<1>3. id \in ID /\ shares[id] # NONE /\ shares[id].ownerID = ownerID /\ shares[id].name = name
  BY <1>2 DEF get_share_object_ID
<1>4. Named(shares[id])
  BY <1>3, Constants DEF Named
<1>5. \A i \in ID : Named(shares[i]) /\ shares[i].ownerID = ownerID
                      /\ shares[i].name = name => i = id
  BY <1>3, <1>4 DEF SharesInv
<1> QED BY <1>3, <1>4, <1>5 DEF id

LEMMA SgetSizeKeeps ==
  ASSUME SharedInv, NEW e \in Env, NEW ownerID \in Env, NEW name \in Name,
         sget_size(e, ownerID, name)
  PROVE  SharedInv'
<1>1. /\ Exists(ownerID, name)
      /\ request' = [request EXCEPT ![e] =
           [ownerID |-> ownerID, name |-> name,
            size |-> shares[Min(get_share_object_ID(ownerID, name))].size]]
      /\ UNCHANGED <<FreeMemBlocksList, AllocMemBlocksList, shares, page_table, allocated,
                     references, objects>>
  BY DEF sget_size, heaps, memory
<1>2. SharesInv /\ RequestsInv /\ HeapsInv /\ TablesInv
  BY DEF SharedInv
<1>3. PICK id \in ID :
        /\ id = Min(get_share_object_ID(ownerID, name))
        /\ Named(shares[id]) /\ shares[id].ownerID = ownerID /\ shares[id].name = name
  BY <1>1, <1>2, FoundIs
<1> DEFINE r == [ownerID |-> ownerID, name |-> name, size |-> shares[id].size]
<1>4. request' = [request EXCEPT ![e] = r]
  BY <1>1, <1>3
<1>5. r \in Request /\ Answers(shares[id], r)
  <2>1. shares[id] \in Share /\ shares[id].size >= 1
    BY <1>2, <1>3 DEF SharesInv, Named
  <2>2. shares[id].size \in 1 .. HeapSize
    BY <2>1, ShareFields, Constants
  <2> QED BY <1>3, <2>2 DEF Request, Answers
<1> HIDE DEF r
<1>6. /\ request' \in [Env -> Request \cup {NONE}] /\ request'[e] = r
      /\ \A d \in Env \ {e} : request'[d] = request[d]
  BY <1>2, <1>4, <1>5 DEF RequestsInv
<1>7. ASSUME NEW d \in Env, request'[d] # NONE
      PROVE  \E i \in ID : Answers(shares'[i], request'[d])
  <2>1. CASE d = e
    BY <1>1, <1>5, <1>6, <2>1
  <2>2. CASE d # e
    BY <1>1, <1>2, <1>6, <1>7, <2>2 DEF RequestsInv
  <2> QED BY <2>1, <2>2
<1>8. RequestsInv'
  BY <1>6, <1>7 DEF RequestsInv, Request, Answers, Named, ID
<1>9. SharesInv' /\ ObjectsInv' /\ FrameReferencesInv' /\ ObjectReferencesInv'
  BY <1>1, RestKept
<1>10. HeapsInv' /\ TablesInv'
  BY <1>1, <1>2, HeapsKept
<1> QED BY <1>8, <1>9, <1>10 DEF SharedInv

LEMMA SgetKeeps ==
  ASSUME SharedInv, NEW e \in Env, sget(e)
  PROVE  SharedInv'
<1> DEFINE r == request[e]
<1>1. /\ SharesInv /\ ObjectsInv /\ ObjectReferencesInv /\ RequestsInv
      /\ shares \in [ID -> Share \cup {NONE}]
      /\ request \in [Env -> Request \cup {NONE}]
  BY DEF SharedInv, SharesInv, RequestsInv
<1>2. r # NONE /\ r \in Request
  BY <1>1 DEF sget
<1>3. r.ownerID \in Env /\ r.size \in Nat \ {0}
  BY <1>2, Constants DEF Request
<1>4. PICK i \in ID : Answers(shares[i], r)
  BY <1>1, <1>2 DEF RequestsInv
<1>5. Exists(r.ownerID, r.name)
  BY <1>4 DEF Exists, get_share_object_ID, Answers, Named
<1>6. PICK id \in ID :
        /\ id = Min(get_share_object_ID(r.ownerID, r.name))
        /\ Named(shares[id]) /\ shares[id].ownerID = r.ownerID /\ shares[id].name = r.name
        /\ \A j \in ID : Named(shares[j]) /\ shares[j].ownerID = r.ownerID
                           /\ shares[j].name = r.name => j = id
  BY <1>1, <1>3, <1>5, FoundIs
<1>7. i = id
  BY <1>4, <1>6 DEF Answers
<1> DEFINE share == shares[id]
           more == [share EXCEPT !.references = @ + 1]
<1>8. share \in Share /\ share.size = r.size /\ share.size = Len(share.frames)
  BY <1>1, <1>4, <1>6, <1>7 DEF Answers, Named, SharesInv
<1>9. /\ share.frames \in Seq(Frame) /\ share.isWritable \in BOOLEAN /\ share.references \in Nat
  BY <1>8, ShareFields
<1>10. frames_from_storage(share) = share.frames /\ permission(share) = share.isWritable
  <2>1. SubSeq(share.frames, 1, Len(share.frames)) = share.frames
    <3> DEFINE fr == share.frames
    <3>1. fr \in Seq(Frame)
      BY <1>9
    <3> HIDE DEF fr
    <3>2. SubSeq(fr, 1, Len(fr)) = fr
      BY <3>1
    <3> QED BY <3>2 DEF fr
  <2> QED BY <1>8, <2>1 DEF frames_from_storage, permission
<1>11. /\ HasRoom(e, r.size) /\ alloc_block_FF(e, r.size)
       /\ map_frames(e, FirstFit(e, r.size).sva, frames_from_storage(share), permission(share))
       /\ shares' = [shares EXCEPT ![id].references = @ + 1]
       /\ objects' = [objects EXCEPT ![e] = @ \cup {[va |-> FirstFit(e, r.size).sva, id |-> id]}]
       /\ request' = [request EXCEPT ![e] = NONE]
       /\ AllocMemBlocksList' = AllocMemBlocksList /\ allocated' = allocated
  BY <1>6 DEF sget
<1>12. shares' = [shares EXCEPT ![id] = more]
  BY <1>11
<1>13. /\ more \in Share /\ more.ownerID = share.ownerID /\ more.name = share.name
       /\ more.size = share.size /\ more.isWritable = share.isWritable
       /\ more.frames = share.frames /\ more.references = share.references + 1
  BY <1>8, <1>9 DEF Share
<1>14. share # NONE /\ more # NONE
  BY <1>8, <1>13, Constants
<1> DEFINE frames == share.frames
           size == r.size
           writable == share.isWritable
<1>15. OneEach(frames)
  BY <1>1, <1>14 DEF OneEach, SharesInv
<1>16. /\ frames \in Seq(Frame) /\ size \in Nat \ {0} /\ writable \in BOOLEAN
       /\ Len(frames) = size /\ HasRoom(e, size) /\ alloc_block_FF(e, size)
       /\ map_frames(e, FirstFit(e, size).sva, frames, writable)
  BY <1>3, <1>8, <1>9, <1>10, <1>11
<1>17. shares'[id] = more /\ \A j \in ID \ {id} : shares'[j] = shares[j]
  BY <1>1, <1>12
<1>18. shares' \in [ID -> Share \cup {NONE}]
  BY <1>1, <1>12, <1>13
<1> HIDE DEF more
<1>19. \A j \in ID : SameShare(shares[j], shares'[j])
  <2>1. SameShare(share, more)
    BY <1>13, <1>14 DEF SameShare
  <2>2. \A j \in ID \ {id} : SameShare(shares[j], shares'[j])
    BY <1>17 DEF SameShare
  <2> QED BY <1>17, <2>1, <2>2
<1>20. /\ request' \in [Env -> Request \cup {NONE}]
       /\ \A d \in Env : request'[d] # NONE => request'[d] = request[d]
  BY <1>1, <1>11
<1>21. SharesInv' /\ RequestsInv'
  BY <1>11, <1>18, <1>19, <1>20, SameSharesKeep
<1> HIDE DEF frames, size, writable, share
<1>22. /\ HeapsInv' /\ TablesInv' /\ FrameReferencesInv'
       /\ \E va \in HeapPage :
            /\ va = FirstFit(e, size).sva /\ va + size <= HeapSize
            /\ page_table[e][va] = NONE
            /\ MapResult(page_table, page_table', e, va, frames, writable)
  <2>1. Len(frames) <= size
    BY <1>16
  <2> QED BY <1>11, <1>15, <1>16, <2>1, BlockMapped, ZenonT(30)
<1>23. PICK va \in HeapPage :
         /\ va = FirstFit(e, size).sva /\ va + size <= HeapSize
         /\ page_table[e][va] = NONE
         /\ MapResult(page_table, page_table', e, va, frames, writable)
  BY <1>22
<1>24. va \in Nat
  BY Constants
<1> DEFINE o == [va |-> va, id |-> id]
<1>25. o \in Object /\ o.va = va /\ o.id = id
  BY <1>6 DEF Object
<1>26. objects' = [objects EXCEPT ![e] = @ \cup {o}]
  BY <1>11, <1>23 DEF size
<1> HIDE DEF o
<1>27. o \notin objects[e]
  <2> SUFFICES ASSUME o \in objects[e] PROVE FALSE
    OBVIOUS
  <2>1. Shows(e, o, share, page_table[e])
    BY <1>1, <1>25 DEF ObjectsInv, share
  <2>2. 0 \in 0 .. share.size - 1 /\ va + 0 = va
    BY <1>3, <1>8, <1>24
  <2>3. page_table[e][va + 0] # NONE
    BY <1>25, <2>1, <2>2 DEF Shows
  <2> QED BY <1>23, <2>2, <2>3
<1>28. /\ objects' \in [Env -> SUBSET Object] /\ objects'[e] = objects[e] \cup {o}
       /\ \A d \in Env \ {e} : objects'[d] = objects[d]
       /\ \A j \in ID : /\ Cardinality(Holders(objects, j)) \in Nat
                        /\ Cardinality(Holders(objects', j)) =
                             IF j = o.id THEN Cardinality(Holders(objects, j)) + 1
                                         ELSE Cardinality(Holders(objects, j))
  BY <1>1, <1>25, <1>26, <1>27, ObjectAdded
<1>29. \A d \in Env : \A q \in objects[d] : Shows(d, q, shares'[q.id], page_table'[d])
  <2>1. \A d \in Env : \A q \in objects[d] : SameShare(shares[q.id], shares'[q.id])
    BY <1>1, <1>19 DEF ObjectsInv, Object
  <2> QED BY <1>16, <1>18, <1>23, <1>24, <2>1, ObjectsKept
<1>30. Shows(e, o, shares'[o.id], page_table'[e])
  <2>1. ASSUME NEW k \in 0 .. size - 1
        PROVE  /\ page_table'[e][va + k] # NONE
               /\ page_table'[e][va + k].frame = frames[k + 1]
               /\ page_table'[e][va + k].writable = writable
    <3>1. PICK l \in 1 .. size : l = k + 1 /\ va + l - 1 = va + k
      BY <1>16, <1>24, <2>1
    <3>2. /\ page_table'[e][va + l - 1] = [frame |-> frames[l], writable |-> writable]
          /\ page_table'[e][va + l - 1] # NONE
      BY <1>16, <1>23 DEF MapResult
    <3>3. /\ page_table'[e][va + l - 1].frame = frames[l]
          /\ page_table'[e][va + l - 1].writable = writable
      BY <3>2
    <3> QED BY <3>1, <3>2, <3>3
  <2>2. Named(more)
    BY <1>6, <1>13, <1>14 DEF Named, share
  <2>3. /\ more.size = size /\ more.frames = frames /\ more.isWritable = writable
    BY <1>8, <1>13 DEF size, frames, writable
  <2>4. Shows(e, o, more, page_table'[e])
    BY <1>23, <1>25, <2>1, <2>2, <2>3 DEF Shows
  <2> QED BY <1>17, <1>25, <2>4
<1>31. ObjectsInv'
  <2>1. ASSUME NEW d \in Env, NEW q \in objects'[d]
        PROVE  Shows(d, q, shares'[q.id], page_table'[d])
    BY <1>28, <1>29, <1>30, <2>1
  <2> QED BY <1>28, <2>1 DEF ObjectsInv, Shows, Named, Object, HeapPage, ID
<1>32. ASSUME NEW j \in ID, shares'[j] # NONE
       PROVE  shares'[j].references = Cardinality(Holders(objects', j))
  <2>1. CASE j = id
    <3>1. share.references = Cardinality(Holders(objects, id))
      BY <1>1, <1>14 DEF ObjectReferencesInv, share
    <3> QED BY <1>13, <1>17, <1>25, <1>28, <2>1, <3>1
  <2>2. CASE j # id
    BY <1>1, <1>17, <1>25, <1>28, <1>32, <2>2 DEF ObjectReferencesInv
  <2> QED BY <2>1, <2>2
<1>33. ObjectReferencesInv'
  BY <1>32 DEF ObjectReferencesInv, Holders, ID
<1> QED BY <1>21, <1>22, <1>31, <1>33 DEF SharedInv

LEMMA SgetNoRoomKeeps ==
  ASSUME SharedInv, NEW e \in Env, sget_no_room(e)
  PROVE  SharedInv'
<1>1. /\ request' = [request EXCEPT ![e] = NONE]
      /\ UNCHANGED <<FreeMemBlocksList, AllocMemBlocksList, shares, page_table, allocated,
                     references, objects>>
  BY DEF sget_no_room, heaps, memory
<1>2. SharesInv /\ RequestsInv /\ HeapsInv /\ TablesInv
  BY DEF SharedInv
<1>3. /\ request' \in [Env -> Request \cup {NONE}]
      /\ \A d \in Env : request'[d] # NONE => request'[d] = request[d]
  BY <1>1, <1>2 DEF RequestsInv
<1>4. RequestsInv'
  <2>1. \A d \in Env : request'[d] # NONE => \E i \in ID : Answers(shares'[i], request'[d])
    BY <1>1, <1>2, <1>3 DEF RequestsInv
  <2> QED BY <1>3, <2>1 DEF RequestsInv, Request, Answers, Named, ID
<1>5. SharesInv' /\ ObjectsInv' /\ FrameReferencesInv' /\ ObjectReferencesInv'
  BY <1>1, RestKept
<1>6. HeapsInv' /\ TablesInv'
  BY <1>1, <1>2, HeapsKept
<1> QED BY <1>4, <1>5, <1>6 DEF SharedInv

(* Steps that end a program change nothing of this. *)
LEMMA OutcomeKeeps ==
  ASSUME SharedInv, UNCHANGED <<heaps, shares, memory, objects, request>>
  PROVE  SharedInv'
<1>1. UNCHANGED <<FreeMemBlocksList, AllocMemBlocksList, shares, page_table, allocated,
                  references, objects, request>>
  BY DEF heaps, memory
<1>2. HeapsInv' /\ TablesInv'
  BY <1>1, HeapsKept DEF SharedInv
<1>3. /\ SharesInv' /\ ObjectsInv' /\ FrameReferencesInv' /\ ObjectReferencesInv' /\ RequestsInv'
  BY <1>1, RestKept
<1> QED BY <1>2, <1>3 DEF SharedInv
-----------------------------------------------------------------------------
LEMMA InitHeaps == Init => HeapsInv
<1> SUFFICES ASSUME Init PROVE HeapsInv
  OBVIOUS
<1> DEFINE b == [sva |-> 0, size |-> HeapSize]
           F == <<b>>
<1>1. /\ FreeMemBlocksList = [e \in Env |-> F] /\ AllocMemBlocksList = [e \in Env |-> <<>>]
  BY DEF Init, initialize_heaps
<1>2. b \in Block /\ b.sva = 0 /\ b.size = HeapSize
  BY Constants DEF Block
<1> HIDE DEF b
<1>3. F \in Seq(Block) /\ Apart(F)
  BY <1>2 DEF Apart
<1>4. <<>> \in Seq(Block) /\ Ascending(<<>>) /\ PagesOf(<<>>) = {}
  BY DEF Ascending, PagesOf
<1>5. \A p \in Pages(b) : p \in HeapPage
  <2>1. \A p : p \in Pages(b) <=> p \in Int /\ b.sva <= p /\ p < End(b)
    BY <1>2, PagesIs
  <2>2. End(b) = HeapSize
    BY <1>2, Constants DEF End
  <2> QED BY <1>2, <2>1, <2>2, Constants
<1>6. PagesOf(F) \subseteq HeapPage
  <2>1. \A p : p \in PagesOf(<<b>>) <=> \E i \in DOMAIN <<b>> : p \in Pages(<<b>>[i])
    BY DEF PagesOf
  <2> QED BY <1>5, <2>1
<1> HIDE DEF F
<1>7. HeapOK(F, <<>>)
  BY <1>3, <1>4, <1>6 DEF HeapOK
<1> QED BY <1>1, <1>3, <1>4, <1>7 DEF HeapsInv

LEMMA InitInv == Init => SharedInv
<1> SUFFICES ASSUME Init PROVE SharedInv
  OBVIOUS
<1>1. HeapsInv
  BY InitHeaps
<1>2. TablesInv
  <2>1. \A e \in Env : \A p \in HeapPage : page_table[e][p] = NONE
    BY DEF Init
  <2>2. \A e \in Env : PagesOf(FreeMemBlocksList[e]) \cup PagesOf(AllocMemBlocksList[e])
                         \subseteq HeapPage
    BY <1>1 DEF HeapsInv, HeapOK
  <2>3. page_table \in [Env -> [HeapPage -> Mapping \cup {NONE}]]
    BY DEF Init
  <2> QED BY <2>1, <2>2, <2>3 DEF TablesInv
<1>3. SharesInv
  BY Constants DEF Init, SharesInv, Named
<1>4. ObjectsInv
  BY DEF Init, ObjectsInv
<1>5. RequestsInv
  BY DEF Init, RequestsInv
<1>6. FrameReferencesInv
  <2>1. ASSUME NEW f \in Frame PROVE references[f] = Cardinality(ShownAt(page_table, f))
    <3>1. \A e \in Env, p \in HeapPage : page_table[e][p] = NONE
      BY DEF Init
    <3>2. ShownAt(page_table, f) = {}
      BY <3>1 DEF ShownAt
    <3> QED BY <3>2, FS_EmptySet DEF Init
  <2> QED BY <2>1 DEF FrameReferencesInv, Init
<1>7. ObjectReferencesInv
  BY DEF Init, ObjectReferencesInv
<1> QED BY <1>1, <1>2, <1>3, <1>4, <1>5, <1>6, <1>7 DEF SharedInv

LEMMA NextInv == SharedInv /\ [Next]_vars => SharedInv'
<1> SUFFICES ASSUME SharedInv, [Next]_vars PROVE SharedInv'
  OBVIOUS
<1>1. CASE UNCHANGED vars
  BY <1>1, OutcomeKeeps DEF vars
<1>2. CASE Next
  <2>1. PICK e \in Env :
          \/ \E size \in Size : malloc(e, size)
          \/ \E va \in HeapPage : free(e, va) \/ free_shared(e, va) \/ write_read_only(e, va)
          \/ \E name \in Name, size \in Size :
               \/ \E isWritable \in BOOLEAN : smalloc(e, name, size, isWritable)
               \/ smalloc_fails(e, name, size)
               \/ smalloc_panics(e, name, size)
          \/ \E ownerID \in Env, name \in Name : sget_size(e, ownerID, name)
          \/ sget(e) \/ sget_no_room(e)
          \/ env_exit(e)
    BY <1>2 DEF Next
  <2>2. ASSUME NEW size \in Size, malloc(e, size) PROVE SharedInv'
    BY <2>2, MallocKeeps
  <2>3. ASSUME NEW va \in HeapPage, free(e, va) PROVE SharedInv'
    BY <2>3, FreeKeeps
  <2>4. ASSUME NEW va \in HeapPage, free_shared(e, va) \/ write_read_only(e, va)
        PROVE  SharedInv'
    BY <2>4, OutcomeKeeps DEF free_shared, write_read_only
  <2>5. ASSUME NEW name \in Name, NEW size \in Size, NEW isWritable \in BOOLEAN,
               smalloc(e, name, size, isWritable)
        PROVE  SharedInv'
    BY <2>5, SmallocKeeps
  <2>6. ASSUME NEW name \in Name, NEW size \in Size, smalloc_fails(e, name, size)
        PROVE  SharedInv'
    BY <2>6, SmallocFailsKeeps
  <2>7. ASSUME NEW name \in Name, NEW size \in Size, smalloc_panics(e, name, size)
        PROVE  SharedInv'
    BY <2>7, SmallocPanicsKeeps
  <2>8. ASSUME NEW ownerID \in Env, NEW name \in Name, sget_size(e, ownerID, name)
        PROVE  SharedInv'
    BY <2>8, SgetSizeKeeps
  <2>9. CASE sget(e)
    BY <2>9, SgetKeeps
  <2>10. CASE sget_no_room(e)
    BY <2>10, SgetNoRoomKeeps
  <2>11. CASE env_exit(e)
    BY <2>11, OutcomeKeeps DEF env_exit
  <2> QED BY <2>1, <2>2, <2>3, <2>4, <2>5, <2>6, <2>7, <2>8, <2>9, <2>10, <2>11
<1> QED BY <1>1, <1>2
-----------------------------------------------------------------------------
LEMMA InvAgrees == SharedInv => MappingsAgree
<1> SUFFICES ASSUME SharedInv PROVE MappingsAgree
  OBVIOUS
<1>1. SharesInv /\ ObjectsInv
  BY DEF SharedInv
<1>2. ASSUME NEW ownerID \in Env, NEW name \in Name
      PROVE  Cardinality(get_share_object_ID(ownerID, name)) <= 1
  <2> DEFINE found == get_share_object_ID(ownerID, name)
  <2>1. CASE found = {}
    BY <2>1, FS_EmptySet
  <2>2. CASE found # {}
    <3>1. PICK id \in ID :
            \A i \in ID : Named(shares[i]) /\ shares[i].ownerID = ownerID
                            /\ shares[i].name = name => i = id
      BY <1>1, <2>2, FoundIs DEF Exists
    <3>2. \A i \in found : i = id
      BY <3>1, Constants DEF get_share_object_ID, Named
    <3>3. found = {id}
      BY <2>2, <3>2
    <3>4. Cardinality({id}) = 1
      BY FS_Singleton
    <3> HIDE DEF found
    <3>5. Cardinality(found) = 1
      BY <3>3, <3>4
    <3> QED BY <3>5 DEF found
  <2> QED BY <2>1, <2>2
<1>3. ASSUME NEW e \in Env, NEW o \in objects[e]
      PROVE  /\ \A k \in 0 .. shares[o.id].size - 1 :
                  /\ page_table[e][o.va + k] # NONE
                  /\ page_table[e][o.va + k].frame = shares[o.id].frames[k + 1]
             /\ ~shares[o.id].isWritable /\ shares[o.id].ownerID # e
                  => \A va \in PagesOfObject(o) : ~page_table[e][va].writable
  BY <1>1 DEF ObjectsInv, Shows, PagesOfObject
<1>4. ASSUME NEW i \in ID \ EmptyShares, NEW j \in ID \ EmptyShares, i # j
      PROVE  ToSet(shares[i].frames) \cap ToSet(shares[j].frames) = {}
  <2>1. shares[i] # NONE /\ shares[j] # NONE
    BY DEF EmptyShares
  <2>2. \A k \in DOMAIN shares[i].frames, l \in DOMAIN shares[j].frames :
          shares[i].frames[k] # shares[j].frames[l]
    BY <1>1, <1>4, <2>1 DEF SharesInv
  <2> QED BY <2>2 DEF ToSet
<1> QED BY <1>2, <1>3, <1>4 DEF MappingsAgree

LEMMA InvCounts == SharedInv => ReferencesCountMappings
BY DEF SharedInv, FrameReferencesInv, ObjectReferencesInv, ReferencesCountMappings, ShownAt,
       Holders, EmptyShares

(* Two objects of one environment have no page in common. *)
LEMMA ObjectsApart ==
  ASSUME SharesInv, ObjectsInv, NEW e \in Env, NEW o \in objects[e], NEW q \in objects[e],
         NEW v, v \in PagesOfObject(o), v \in PagesOfObject(q)
  PROVE  o = q
<1>1. PICK k \in 0 .. shares[o.id].size - 1 : v = o.va + k
  BY DEF PagesOfObject
<1>2. PICK l \in 0 .. shares[q.id].size - 1 : v = q.va + l
  BY DEF PagesOfObject
<1>3. /\ o \in Object /\ Shows(e, o, shares[o.id], page_table[e])
      /\ q \in Object /\ Shows(e, q, shares[q.id], page_table[e])
  BY DEF ObjectsInv
<1>4. /\ o.va \in Int /\ o.id \in ID /\ o = [va |-> o.va, id |-> o.id]
      /\ q.va \in Int /\ q.id \in ID /\ q = [va |-> q.va, id |-> q.id]
  BY <1>3, Constants DEF Object
<1>5. shares[o.id].frames[k + 1] = shares[q.id].frames[l + 1]
  BY <1>1, <1>2, <1>3 DEF Shows
<1>6. /\ shares[o.id] # NONE /\ shares[q.id] # NONE
      /\ shares[o.id] \in Share /\ shares[q.id] \in Share
      /\ shares[o.id].size = Len(shares[o.id].frames)
      /\ shares[q.id].size = Len(shares[q.id].frames)
  BY <1>3, <1>4 DEF Shows, Named, SharesInv
<1>7. ASSUME NEW s \in Share, s.size = Len(s.frames), NEW m \in 0 .. s.size - 1
      PROVE  m + 1 \in DOMAIN s.frames
  <2>1. s.frames \in Seq(Frame)
    BY ShareFields
  <2>2. DOMAIN s.frames = 1 .. Len(s.frames) /\ Len(s.frames) \in Nat
    BY <2>1
  <2>3. m + 1 \in 1 .. Len(s.frames)
    BY <1>7, <2>2
  <2> QED BY <2>2, <2>3
<1>8. k + 1 \in DOMAIN shares[o.id].frames /\ l + 1 \in DOMAIN shares[q.id].frames
  BY <1>6, <1>7
<1>9. o.id = q.id /\ k + 1 = l + 1
  BY <1>4, <1>5, <1>6, <1>8 DEF SharesInv
<1>10. o.va = q.va
  BY <1>1, <1>2, <1>4, <1>9
<1> QED BY <1>4, <1>9, <1>10

LEMMA InvDisjoint == SharedInv => BlocksDisjoint
<1> SUFFICES ASSUME SharedInv, NEW e \in Env
             PROVE  LET blocks == [i \in DOMAIN FreeMemBlocksList[e] |-> Pages(FreeMemBlocksList[e][i])]
                          \o [i \in DOMAIN AllocMemBlocksList[e] |-> Pages(AllocMemBlocksList[e][i])]
                    IN /\ \A i, j \in DOMAIN blocks : i # j => blocks[i] \cap blocks[j] = {}
                       /\ \A o \in objects[e] :
                            /\ \A i \in DOMAIN blocks : blocks[i] \cap PagesOfObject(o) = {}
                            /\ \A q \in objects[e] \ {o} :
                                 PagesOfObject(o) \cap PagesOfObject(q) = {}
  BY DEF BlocksDisjoint
<1> DEFINE F == FreeMemBlocksList[e]
           A == AllocMemBlocksList[e]
           f == [i \in DOMAIN F |-> Pages(F[i])]
           a == [i \in DOMAIN A |-> Pages(A[i])]
           blocks == f \o a
<1>1. /\ F \in Seq(Block) /\ Apart(F) /\ A \in Seq(Block) /\ Ascending(A)
      /\ PagesOf(F) \cap PagesOf(A) = {}
      /\ SharesInv /\ ObjectsInv /\ TablesInv
  BY DEF SharedInv, HeapsInv, HeapOK
<1>2. Ascending(F)
  BY <1>1, ApartAscends
<1>3. \A p \in PagesOf(F) \cup PagesOf(A) : page_table[e][p] = NONE
  BY <1>1 DEF TablesInv
<1> HIDE DEF F, A
<1>4. PICK n \in Nat, m \in Nat :
        n = Len(F) /\ m = Len(A) /\ DOMAIN F = 1 .. n /\ DOMAIN A = 1 .. m
  BY <1>1
<1>5. /\ f \in Seq(SUBSET Int) /\ Len(f) = n /\ a \in Seq(SUBSET Int) /\ Len(a) = m
      /\ \A i \in 1 .. n : f[i] = Pages(F[i])
      /\ \A i \in 1 .. m : a[i] = Pages(A[i])
  <2>1. \A i \in DOMAIN F : Pages(F[i]) \in SUBSET Int
    BY DEF Pages
  <2>2. \A i \in DOMAIN A : Pages(A[i]) \in SUBSET Int
    BY DEF Pages
  <2> QED BY <1>4, <2>1, <2>2
<1> HIDE DEF f, a
<1>6. /\ blocks \in Seq(SUBSET Int) /\ Len(blocks) = n + m
      /\ \A i \in 1 .. n + m : blocks[i] = IF i <= n THEN f[i] ELSE a[i - n]
  BY <1>5, ConcatProperties
<1>7. DOMAIN blocks = 1 .. n + m
  BY <1>6
<1> HIDE DEF blocks
<1>8. ASSUME NEW i \in DOMAIN blocks
      PROVE  \/ i \in DOMAIN F /\ blocks[i] = Pages(F[i])
             \/ i > n /\ i - n \in DOMAIN A /\ blocks[i] = Pages(A[i - n])
  <2>1. CASE i <= n
    <3>1. i \in 1 .. n
      BY <1>7, <2>1
    <3> QED BY <1>4, <1>5, <1>6, <1>7, <2>1, <3>1
  <2>2. CASE ~(i <= n)
    <3>1. i - n \in 1 .. m /\ i > n
      BY <1>7, <2>2
    <3>2. a[i - n] = Pages(A[i - n])
      BY <1>5, <3>1
    <3> QED BY <1>4, <1>6, <1>7, <2>2, <3>1, <3>2
  <2> QED BY <2>1, <2>2
<1>9. /\ \A i \in DOMAIN F : Pages(F[i]) \subseteq PagesOf(F)
      /\ \A i \in DOMAIN A : Pages(A[i]) \subseteq PagesOf(A)
  BY PagesOfIs
<1>10. ASSUME NEW i \in DOMAIN blocks, NEW j \in DOMAIN blocks, i # j
       PROVE  blocks[i] \cap blocks[j] = {}
  <2>1. i \in Int /\ j \in Int
    BY <1>7
  <2>2. CASE i \in DOMAIN F /\ blocks[i] = Pages(F[i]) /\ j \in DOMAIN F /\ blocks[j] = Pages(F[j])
    BY <1>1, <1>2, <1>10, <2>2, PageInOneBlock
  <2>3. CASE /\ i - n \in DOMAIN A /\ blocks[i] = Pages(A[i - n])
             /\ j - n \in DOMAIN A /\ blocks[j] = Pages(A[j - n])
    <3>1. i - n # j - n
      BY <1>10, <2>1
    <3>2. Pages(A[i - n]) \cap Pages(A[j - n]) = {}
      BY <1>1, <2>3, <3>1, PageInOneBlock
    <3> QED BY <2>3, <3>2
  <2>4. CASE /\ i \in DOMAIN F /\ blocks[i] = Pages(F[i])
             /\ j - n \in DOMAIN A /\ blocks[j] = Pages(A[j - n])
    BY <1>1, <1>9, <2>4
  <2>5. CASE /\ i - n \in DOMAIN A /\ blocks[i] = Pages(A[i - n])
             /\ j \in DOMAIN F /\ blocks[j] = Pages(F[j])
    BY <1>1, <1>9, <2>5
  <2> QED BY <1>8, <2>2, <2>3, <2>4, <2>5
<1>11. ASSUME NEW o \in objects[e], NEW i \in DOMAIN blocks
       PROVE  blocks[i] \cap PagesOfObject(o) = {}
  <2>1. \A v \in PagesOfObject(o) : page_table[e][v] # NONE
    BY <1>1 DEF ObjectsInv, Shows, PagesOfObject
  <2>2. \A v \in blocks[i] : page_table[e][v] = NONE
    BY <1>3, <1>8, <1>9
  <2> QED BY <2>1, <2>2
<1>12. ASSUME NEW o \in objects[e], NEW q \in objects[e] \ {o}
       PROVE  PagesOfObject(o) \cap PagesOfObject(q) = {}
  BY <1>1, ObjectsApart
<1>13. /\ \A i, j \in DOMAIN blocks : i # j => blocks[i] \cap blocks[j] = {}
       /\ \A o \in objects[e] :
            /\ \A i \in DOMAIN blocks : blocks[i] \cap PagesOfObject(o) = {}
            /\ \A q \in objects[e] \ {o} : PagesOfObject(o) \cap PagesOfObject(q) = {}
  BY <1>10, <1>11, <1>12
<1> QED BY <1>13 DEF blocks, f, a, F, A

(***************************************************************************)
(* In every reachable state every holder of a shared object sees its       *)
(* frames, nobody but the owner writes a read-only one, and no owner has   *)
(* two objects of one name: smalloc() and sget() of shared_memory_manager  *)
(* agree, even when others run between the two calls of sget().            *)
(***************************************************************************)
THEOREM SharedMappingsAgree == Spec => []MappingsAgree
<1>1. Spec => []SharedInv
  BY InitInv, NextInv, PTL DEF Spec
<1> QED BY <1>1, InvAgrees, PTL

(***************************************************************************)
(* map_frame() and getSharedObject() count every page that shows a frame   *)
(* and every pointer to an object that was handed out, and nothing else.   *)
(***************************************************************************)
THEOREM SharedReferencesExact == Spec => []ReferencesCountMappings
<1>1. Spec => []SharedInv
  BY InitInv, NextInv, PTL DEF Spec
<1> QED BY <1>1, InvCounts, PTL

(***************************************************************************)
(* The free blocks, the blocks of malloc() and the shared objects of one   *)
(* user heap never overlap.                                                *)
(***************************************************************************)
THEOREM UserHeapDisjoint == Spec => []BlocksDisjoint
<1>1. Spec => []SharedInv
  BY InitInv, NextInv, PTL DEF Spec
<1> QED BY <1>1, InvDisjoint, PTL
=============================================================================
