-------------------------- MODULE DynamicAllocator --------------------------
(***************************************************************************)
(* The block lists of lib/dynamic_allocator.c, which the kernel heap and   *)
(* the user heap share.  A list is the sequence of its MemBlocks from      *)
(* lh_first to lh_last.  Addresses and sizes are counted in pages: every   *)
(* caller rounds to PAGE_SIZE.  Which node of MemBlockNodes[] describes a  *)
(* block does not matter, so that AvailableMemBlocksList is a number.      *)
(***************************************************************************)
EXTENDS Integers, Sequences, SequencesExt, FiniteSetsExt

MemBlock == [sva : Nat, size : Nat]

End(blk) == blk.sva + blk.size

Pages(blk) == blk.sva .. End(blk) - 1

PagesOf(list) == UNION {Pages(list[i]) : i \in DOMAIN list}

(***************************************************************************)
(* find_block() looks through AllocMemBlocksList, whatever list it is      *)
(* given: the positions it may stop at.                                    *)
(***************************************************************************)
find_block(list, va) == {i \in DOMAIN list : list[i].sva = va}

(***************************************************************************)
(* insert_sorted_allocList(): at the head, at the tail, or between the     *)
(* first two blocks that enclose the address.  A block whose address is    *)
(* already in the list is not inserted.                                    *)
(***************************************************************************)
insert_sorted_allocList(list, blk) ==
  LET enclosing == {i \in 1 .. Len(list) - 1 :
                      list[i].sva < blk.sva /\ blk.sva < list[i + 1].sva}
  IN IF list = <<>> \/ blk.sva < Head(list).sva THEN <<blk>> \o list
     ELSE IF blk.sva > Last(list).sva THEN Append(list, blk)
     ELSE IF enclosing # {} THEN InsertAt(list, Min(enclosing) + 1, blk)
     ELSE list

(***************************************************************************)
(* The positions of the blocks of exactly, and of more than, the size.     *)
(***************************************************************************)
Exact(list, size) == {i \in DOMAIN list : list[i].size = size}
Larger(list, size) == {i \in DOMAIN list : list[i].size > size}
Fits(list, size) == Exact(list, size) \cup Larger(list, size)

(***************************************************************************)
(* alloc_block_FF() (and alloc_block_NF(), the same code) takes the first  *)
(* block that is large enough ...                                          *)
(***************************************************************************)
FF_last(list, size) == Max(Fits(list, size))
FF(list, size) == Min(Fits(list, size))

(***************************************************************************)
(* ... and alloc_block_BF() the first exact one or else the first of the   *)
(* smallest larger ones.  With none it reads newsize and newveradd without *)
(* having set them: in the build of obj/kern/kernel.asm (-O0) newsize lies *)
(* where allocate_chunk() left a heap address, which is no block's size,   *)
(* and NULL is returned.                                                   *)
(***************************************************************************)
BF(list, size) ==
  IF Exact(list, size) # {} THEN Min(Exact(list, size))
  ELSE LET smallest == Min({list[i].size : i \in Larger(list, size)})
       IN Min({i \in Larger(list, size) : list[i].size = smallest})

(***************************************************************************)
(* Both take an exact block out of the list, and the low end of a larger   *)
(* one with a descriptor of AvailableMemBlocksList.                        *)
(***************************************************************************)
take_block_keeps_sva(list, i, size) ==
  IF list[i].size = size THEN RemoveAt(list, i)
  ELSE [list EXCEPT ![i].size = @ - size]

take_block(list, i, size) ==
  IF list[i].size = size THEN RemoveAt(list, i)
  ELSE [list EXCEPT ![i] = [sva |-> @.sva + size, size |-> @.size - size]]

taken(list, i, size) == [sva |-> list[i].sva, size |-> size]

descriptors_used(list, i, size) == IF list[i].size = size THEN 0 ELSE 1

(***************************************************************************)
(* insert_sorted_with_merge_freeList(): the block is inserted in front of  *)
(* the first one with a larger address, or is merged with its neighbours.  *)
(* Every merge gives a descriptor back.                                    *)
(***************************************************************************)
insert_no_next_merge(list, blk) ==
  LET later == {i \in DOMAIN list : list[i].sva > blk.sva}
      k == IF later = {} THEN Len(list) + 1 ELSE Min(later)
  IN IF k > 1 /\ End(list[k - 1]) = blk.sva
     THEN [list EXCEPT ![k - 1].size = @ + blk.size]
     ELSE InsertAt(list, k, blk)

insert_before(list, k, blk) ==
  LET prev == list[k - 1]
      iterator == list[k]
      extend_prev(n) == [list EXCEPT ![k - 1].size = @ + n]
      extend_iterator == [list EXCEPT ![k] = [sva |-> blk.sva, size |-> @.size + blk.size]]
  IN CASE k > 1 /\ End(prev) + blk.size = iterator.sva
            -> RemoveAt(extend_prev(blk.size + iterator.size), k)
       [] k > 1 /\ End(prev) + blk.size # iterator.sva /\ End(prev) = blk.sva
            -> extend_prev(blk.size)
       [] End(blk) = iterator.sva /\ (k = 1 \/ End(prev) # blk.sva)
            -> extend_iterator
       [] OTHER -> InsertAt(list, k, blk)

insert_sorted_with_merge_freeList(list, blk) ==
  LET last == Last(list)
      later == {i \in DOMAIN list : list[i].sva > blk.sva}
  IN IF list = <<>> THEN <<blk>>
     ELSE IF last.sva < blk.sva
          THEN IF End(last) = blk.sva
               THEN [list EXCEPT ![Len(list)].size = @ + blk.size]
               ELSE Append(list, blk)
     ELSE IF later # {} THEN insert_before(list, Min(later), blk)
     ELSE list

(***************************************************************************)
(* addToAvailMemBlocksList(): the nodes that merging a block into list     *)
(* left unused, one for each merge.                                        *)
(***************************************************************************)
descriptors_freed_once(list, merged) == IF Len(merged) <= Len(list) THEN 1 ELSE 0
descriptors_freed(list, merged) == Len(list) + 1 - Len(merged)
=============================================================================
