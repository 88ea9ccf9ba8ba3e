------------------------------ MODULE UserHeap ------------------------------
(***************************************************************************)
(* The user heap of lib/uheap.c at its real size, and what the kernel does *)
(* for it: a heap is a record, a call of malloc(), free(), smalloc() or    *)
(* sget() an operator on it.  Addresses and sizes count pages from         *)
(* USER_HEAP_START.  The working set holds every page that is touched,     *)
(* which the programs under user/ ask for: nothing is replaced.            *)
(***************************************************************************)
EXTENDS DynamicAllocator, FiniteSets

CONSTANTS HEAP_PAGES,      \* (USER_HEAP_MAX - USER_HEAP_START) / PAGE_SIZE
          PAGES_IN_TABLE,  \* entries of a page table
          NODES_IN_PAGE    \* MemBlocks in a page

NULL == -1
InHeap == 0 .. HEAP_PAGES - 1

(***************************************************************************)
(* What is mapped: the heap's pages in the working set with the block that *)
(* wrote them, the ranges of shared variables, and the page tables of the  *)
(* heap's range.  objects are the shared variables themselves, array the   *)
(* frames of MemBlockNodes[].                                              *)
(***************************************************************************)
PDX(page) == page \div PAGES_IN_TABLE

resident_pages(h) == {r.page : r \in h.resident}

table_is_empty(h, t) ==
  /\ \A p \in resident_pages(h) : PDX(p) # t
  /\ \A b \in h.shared : PDX(b.sva) > t \/ PDX(End(b) - 1) < t

tables_between(first, last) == PDX(first) .. PDX(last)

frames_used(h) ==
  h.array + Cardinality(h.resident) + Cardinality(h.tables)
  + FoldSet(LAMBDA o, sum : sum + o.size + 2, 0, h.objects)

(***************************************************************************)
(* initialize_dyn_block_system() on the first call, malloc(0) here.        *)
(***************************************************************************)
no_heap ==
  [alloc |-> <<>>, free |-> <<>>, available |-> 0, array |-> 0, ptrs |-> [i \in 0 .. 13 |-> NULL],
   resident |-> {}, shared |-> {}, tables |-> {}, objects |-> {}]

initialize_dyn_block_system(h) ==
  LET array == (HEAP_PAGES + NODES_IN_PAGE - 1) \div NODES_IN_PAGE
      tables == (array + PAGES_IN_TABLE - 1) \div PAGES_IN_TABLE
  IN [h EXCEPT !.free = <<[sva |-> 0, size |-> HEAP_PAGES]>>, !.available = HEAP_PAGES - 1,
               !.array = array + tables]

(***************************************************************************)
(* alloc_block_FF() with the lists of the heap.  malloc() puts the block   *)
(* in AllocMemBlocksList, smalloc() and sget() only map it.                *)
(***************************************************************************)
alloc_block_FF(h, pages) ==
  LET k == FF(h.free, pages)
  IN [h EXCEPT !.free = take_block(@, k, pages), !.available = @ - descriptors_used(h.free, k, pages)]

malloc(h, i, pages) ==
  IF Fits(h.free, pages) = {} THEN [h EXCEPT !.ptrs[i] = NULL]
  ELSE LET block == taken(h.free, FF(h.free, pages), pages)
       IN [alloc_block_FF(h, pages) EXCEPT !.alloc = insert_sorted_allocList(@, block),
                                           !.ptrs[i] = block.sva]

share(h, i, name, pages) ==
  LET block == taken(h.free, FF(h.free, pages), pages)
  IN [alloc_block_FF(h, pages) EXCEPT
        !.shared = @ \cup {block}, !.ptrs[i] = block.sva,
        !.objects = @ \cup {[name |-> name, size |-> pages]},
        !.tables = @ \cup tables_between(block.sva, End(block) - 1)]

smalloc(h, i, pages) ==
  IF Fits(h.free, pages) = {} THEN [h EXCEPT !.ptrs[i] = NULL] ELSE share(h, i, i, pages)

sget(h, i, name) ==
  LET object == CHOOSE o \in h.objects : o.name = name
  IN IF Fits(h.free, object.size) = {} THEN [h EXCEPT !.ptrs[i] = NULL]
     ELSE share(h, i, name, object.size)

(***************************************************************************)
(* A page that is touched is placed by the page fault handler, with a page *)
(* table if its range has none; the block's number stands for the value    *)
(* that is written.                                                        *)
(***************************************************************************)
place(h, i, pages) ==
  [h EXCEPT !.resident = {r \in @ : r.page \notin pages} \cup [page : pages, value : {i}],
            !.tables = @ \cup {PDX(p) : p \in pages}]

(***************************************************************************)
(* free_user_mem(): the pages of the range that are in the working set are *)
(* unmapped, and then the page tables of the range that are empty freed.   *)
(***************************************************************************)
free_user_mem_keeps_tables(h, block) ==
  [h EXCEPT !.resident = {r \in @ : r.page \notin Pages(block)}]

free_user_mem(h, block) ==
  LET unmapped == [h EXCEPT !.resident = {r \in @ : r.page \notin Pages(block)}]
      range == tables_between(block.sva, End(block) - 1)
  IN [unmapped EXCEPT !.tables = @ \ {t \in range : table_is_empty(unmapped, t)}]

free(h, va) ==
  LET k == Min(find_block(h.alloc, va))
      merged == insert_sorted_with_merge_freeList(h.free, h.alloc[k])
  IN [free_user_mem(h, h.alloc[k]) EXCEPT
        !.alloc = RemoveAt(@, k), !.free = merged,
        !.available = @ + descriptors_freed(h.free, merged)]

HeapBlocks(h) == Range(h.alloc) \cup Range(h.free) \cup h.shared

(***************************************************************************)
(* The blocks tile the heap without overlap, and every node of             *)
(* MemBlockNodes[] describes a block or is available, the nodes of shared  *)
(* blocks included.                                                        *)
(***************************************************************************)
Tiled(h) ==
  /\ FoldSet(LAMBDA b, sum : sum + b.size, 0, HeapBlocks(h)) = HEAP_PAGES
  /\ \A b \in HeapBlocks(h) : b.sva = 0 \/ \E c \in HeapBlocks(h) : End(c) = b.sva
  /\ Cardinality(HeapBlocks(h)) + h.available = HEAP_PAGES

(***************************************************************************)
(* The page tables of the heap's range are those that hold a page.         *)
(***************************************************************************)
TablesInUse(h) ==
  h.tables = {t \in 0 .. PDX(HEAP_PAGES - 1) : ~table_is_empty(h, t)}
=============================================================================
