----------------------------- MODULE KernelHeap -----------------------------
(***************************************************************************)
(* The kernel heap of kern/mem/kheap.c: kmalloc() and kfree() with the     *)
(* block lists of lib/dynamic_allocator.c, the kernel page table of the    *)
(* heap range and the physical frames of kern/mem/memory_manager.c.  The   *)
(* kernel is not preemptible: a call is one step, and a call that runs out *)
(* of frames stops half way in panic().                                    *)
(***************************************************************************)
EXTENDS DynamicAllocator

CONSTANTS HeapPages,          \* pages of the heap behind MemBlockNodes[]
          Frames,             \* physical frames
          MAX_MEM_BLOCK_CNT,  \* length of MemBlockNodes[]
          Sizes               \* sizes that callers ask for, in pages

ASSUME HeapAssumption ==
  /\ HeapPages \in Nat \ {0} /\ Frames \in Nat
  /\ MAX_MEM_BLOCK_CNT \in Nat /\ MAX_MEM_BLOCK_CNT >= HeapPages
  /\ Sizes \subseteq Nat \ {0}

Page == 1 .. HeapPages
Frame == 1 .. Frames
NONE == 0    \* no frame, or no page

VARIABLES
  FreeMemBlocksList,
  AllocMemBlocksList,
  AvailableMemBlocks,       \* length of AvailableMemBlocksList
  _KHeapPlacementStrategy,
  page_table,               \* the frame each page of the heap is mapped to
  free_frame_list,
  frame_va,                 \* va of struct FrameInfo
  elsewhere,                \* frames that the rest of the kernel holds
  halted                    \* history: blocks of a kmalloc() that panicked

vars == <<FreeMemBlocksList, AllocMemBlocksList, AvailableMemBlocks,
          _KHeapPlacementStrategy, page_table, free_frame_list, frame_va,
          elsewhere, halted>>

TypeOK ==
  /\ FreeMemBlocksList \in Seq(MemBlock)
  /\ AllocMemBlocksList \in Seq(MemBlock)
  /\ AvailableMemBlocks \in 0 .. MAX_MEM_BLOCK_CNT
  /\ _KHeapPlacementStrategy \in {"FIRSTFIT", "BESTFIT", "OTHER"}
  /\ page_table \in [Page -> Frame \cup {NONE}]
  /\ free_frame_list \in Seq(Frame)
  /\ frame_va \in [Frame -> Page \cup {NONE}]
  /\ elsewhere \subseteq Frame
  /\ halted \subseteq MemBlock

(***************************************************************************)
(* initialize_dyn_block_system(): one free block; the node it takes is the *)
(* last of AvailableMemBlocksList.                                         *)
(***************************************************************************)
Init ==
  /\ FreeMemBlocksList = <<[sva |-> 1, size |-> HeapPages]>>
  /\ AllocMemBlocksList = <<>>
  /\ AvailableMemBlocks = MAX_MEM_BLOCK_CNT - 1
  /\ _KHeapPlacementStrategy = "FIRSTFIT"
  /\ page_table = [p \in Page |-> NONE]
  /\ free_frame_list = [i \in 1 .. Frames |-> i]
  /\ frame_va = [f \in Frame |-> NONE]
  /\ elsewhere = {}
  /\ halted = {}

(***************************************************************************)
(* allocate_chunk() on the kernel directory: nothing is done if a page of  *)
(* the range is mapped; otherwise the pages are mapped one by one to the   *)
(* first free frames, until the range ends or allocate_frame() panics.     *)
(* The page tables of the kernel exist since boot.                         *)
(***************************************************************************)
is_mapped(blk) == \E p \in Pages(blk) : page_table[p] # NONE

allocate_chunk(blk) ==
  LET n == IF is_mapped(blk) THEN 0 ELSE Min({blk.size, Len(free_frame_list)})
      index(p) == p - blk.sva + 1
      now == {p \in Pages(blk) : index(p) <= n}
  IN /\ page_table' = [p \in Page |-> IF p \in now THEN free_frame_list[index(p)]
                                      ELSE page_table[p]]
     /\ frame_va' = [f \in Frame |->
          IF \E p \in now : f = free_frame_list[index(p)]
          THEN CHOOSE p \in now : f = free_frame_list[index(p)] ELSE frame_va[f]]
     /\ free_frame_list' = SubSeq(free_frame_list, n + 1, Len(free_frame_list))

(***************************************************************************)
(* kmalloc() with the block at position i of the free list.  The block is  *)
(* in AllocMemBlocksList before it is mapped: when allocate_chunk() panics *)
(* half way it stays there and no caller has its address.                  *)
(***************************************************************************)
kmalloc_at(i, size) ==
  LET blk == taken(FreeMemBlocksList, i, size)
  IN /\ FreeMemBlocksList' = take_block(FreeMemBlocksList, i, size)
     /\ AvailableMemBlocks' =
          AvailableMemBlocks - descriptors_used(FreeMemBlocksList, i, size)
     /\ AllocMemBlocksList' = insert_sorted_allocList(AllocMemBlocksList, blk)
     /\ allocate_chunk(blk)
     /\ halted' = IF is_mapped(blk) \/ size > Len(free_frame_list)
                  THEN halted \cup {blk} ELSE halted
     /\ UNCHANGED <<_KHeapPlacementStrategy, elsewhere>>

(***************************************************************************)
(* kmalloc() under either strategy.  With no block large enough, or under  *)
(* another strategy, it returns NULL and changes nothing.                  *)
(***************************************************************************)
kmalloc(size) ==
  /\ Fits(FreeMemBlocksList, size) # {}
  /\ \/ /\ _KHeapPlacementStrategy = "FIRSTFIT"
        /\ kmalloc_at(FF(FreeMemBlocksList, size), size)
     \/ /\ _KHeapPlacementStrategy = "BESTFIT"
        /\ kmalloc_at(BF(FreeMemBlocksList, size), size)

(***************************************************************************)
(* unmap_frame() of every page of a block: the frame, whose only reference *)
(* this was, is cleared and goes to the head of free_frame_list, so that   *)
(* the frame of the highest page comes first.                              *)
(***************************************************************************)
unmap_frame(pages) ==
  LET mapped == {p \in pages : page_table[p] # NONE}
      place(p) == Cardinality({q \in mapped : q >= p})
      freed == [i \in 1 .. Cardinality(mapped) |->
                  page_table[CHOOSE p \in mapped : place(p) = i]]
  IN /\ page_table' = [p \in Page |-> IF p \in mapped THEN NONE ELSE page_table[p]]
     /\ free_frame_list' = freed \o free_frame_list

free_frames_keeps_va(pages) == UNCHANGED frame_va
free_frames(pages) ==
  frame_va' = [f \in Frame |-> IF \E p \in pages : page_table[p] = f
                               THEN NONE ELSE frame_va[f]]

unmap_block(blk) == unmap_frame(Pages(blk)) /\ free_frames(Pages(blk))

(***************************************************************************)
(* kfree() of any address.  An address that no block starts at is ignored. *)
(***************************************************************************)
kfree(va) ==
  LET found == find_block(AllocMemBlocksList, va)
      blk == AllocMemBlocksList[Min(found)]
      free == insert_sorted_with_merge_freeList(FreeMemBlocksList, blk)
  IN /\ found # {}
     /\ AllocMemBlocksList' = RemoveAt(AllocMemBlocksList, Min(found))
     /\ unmap_block(blk)
     /\ FreeMemBlocksList' = free
     /\ AvailableMemBlocks' =
          AvailableMemBlocks + descriptors_freed(FreeMemBlocksList, free)
     /\ halted' = halted \ {blk}
     /\ UNCHANGED <<_KHeapPlacementStrategy, elsewhere>>

(***************************************************************************)
(* The prompt's commands that select a placement strategy.                 *)
(***************************************************************************)
set_strategy(strategy) ==
  /\ _KHeapPlacementStrategy' = strategy
  /\ UNCHANGED <<FreeMemBlocksList, AllocMemBlocksList, AvailableMemBlocks,
                 page_table, free_frame_list, frame_va, elsewhere, halted>>

(***************************************************************************)
(* The rest of the kernel allocates and frees frames for user pages.       *)
(***************************************************************************)
allocate_frame ==
  /\ free_frame_list # <<>>
  /\ elsewhere' = elsewhere \cup {Head(free_frame_list)}
  /\ free_frame_list' = Tail(free_frame_list)
  /\ UNCHANGED <<FreeMemBlocksList, AllocMemBlocksList, AvailableMemBlocks,
                 _KHeapPlacementStrategy, page_table, frame_va, halted>>

free_frame(f) ==
  /\ f \in elsewhere
  /\ elsewhere' = elsewhere \ {f}
  /\ free_frame_list' = <<f>> \o free_frame_list
  /\ UNCHANGED <<FreeMemBlocksList, AllocMemBlocksList, AvailableMemBlocks,
                 _KHeapPlacementStrategy, page_table, frame_va, halted>>

Next ==
  \/ \E size \in Sizes : kmalloc(size)
  \/ \E va \in Page : kfree(va)
  \/ \E strategy \in {"FIRSTFIT", "BESTFIT", "OTHER"} : set_strategy(strategy)
  \/ allocate_frame
  \/ \E f \in Frame : free_frame(f)

Spec == Init /\ [][Next]_vars
-----------------------------------------------------------------------------
(***************************************************************************)
(* Every page of the heap is in exactly one block, free or allocated: no   *)
(* split, merge or half-done kmalloc() loses a page or hands it out twice. *)
(* Both lists are sorted, and two free blocks never touch, so that a       *)
(* request fails only when no run of unused pages is long enough.          *)
(***************************************************************************)
HeapIsTiled ==
  LET blocks == FreeMemBlocksList \o AllocMemBlocksList
  IN /\ PagesOf(blocks) = Page
     /\ \A i, j \in DOMAIN blocks :
          i # j => Pages(blocks[i]) \cap Pages(blocks[j]) = {}
     /\ \A i \in 1 .. Len(FreeMemBlocksList) - 1 :
          End(FreeMemBlocksList[i]) < FreeMemBlocksList[i + 1].sva
     /\ \A i \in 1 .. Len(AllocMemBlocksList) - 1 :
          End(AllocMemBlocksList[i]) <= AllocMemBlocksList[i + 1].sva

(***************************************************************************)
(* Every node of MemBlockNodes[] is in one of the lists, and while a block *)
(* can be split there is a node for its new part: alloc_block_FF() takes   *)
(* LIST_FIRST of AvailableMemBlocksList without a check.                   *)
(***************************************************************************)
DescriptorsSuffice ==
  /\ AvailableMemBlocks + Len(FreeMemBlocksList) + Len(AllocMemBlocksList)
       = MAX_MEM_BLOCK_CNT
  /\ (\E i \in DOMAIN FreeMemBlocksList : FreeMemBlocksList[i].size > 1)
       => AvailableMemBlocks > 0

(***************************************************************************)
(* Block lists, page table, frame list and reverse map agree. Every frame  *)
(* is free, mapped at one page of the heap or held elsewhere; the pages of *)
(* a block that kmalloc() returned are all mapped, the pages of free       *)
(* blocks never are (allocate_chunk() would refuse the block); and         *)
(* kheap_virtual_address() of a frame is the page that is mapped to it, as *)
(* get_page_table() relies on.                                             *)
(***************************************************************************)
MappingMatchesLists ==
  /\ \A f \in Frame :
       Cardinality({i \in DOMAIN free_frame_list : free_frame_list[i] = f})
         + Cardinality({p \in Page : page_table[p] = f})
         + (IF f \in elsewhere THEN 1 ELSE 0) = 1
  /\ \A p \in PagesOf(FreeMemBlocksList) : page_table[p] = NONE
  /\ \A i \in DOMAIN AllocMemBlocksList :
       AllocMemBlocksList[i] \notin halted =>
         \A p \in Pages(AllocMemBlocksList[i]) : page_table[p] # NONE
  /\ \A p \in Page, f \in Frame : frame_va[f] = p <=> page_table[p] = f

(***************************************************************************)
(* Where so many unused pages lie in a row.                                *)
(***************************************************************************)
Unused == Page \ PagesOf(AllocMemBlocksList)

Holes(size) == {p \in Page : p .. p + size - 1 \subseteq Unused}

(***************************************************************************)
(* What a caller owns stays where it is: a block that remains allocated    *)
(* keeps the frames of its pages, and the block that kmalloc() adds under  *)
(* first fit starts at the lowest unused run of pages that is long enough. *)
(***************************************************************************)
AllocationsStayPut ==
  [][/\ \A i \in DOMAIN AllocMemBlocksList :
          LET blk == AllocMemBlocksList[i]
          IN Contains(AllocMemBlocksList', blk)
             => \A p \in Pages(blk) : page_table'[p] = page_table[p]
     /\ \A blk \in ToSet(AllocMemBlocksList') \ ToSet(AllocMemBlocksList) :
          _KHeapPlacementStrategy = "FIRSTFIT" => blk.sva = Min(Holes(blk.size))]_vars
=============================================================================
