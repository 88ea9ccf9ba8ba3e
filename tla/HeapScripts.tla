---------------------------- MODULE HeapScripts ----------------------------
(***************************************************************************)
(* The programs of user/ that accept the user heap: each of them is the    *)
(* sequence of its calls with what it expects of every call (the address   *)
(* returned, the frames that the call takes or gives back, the value       *)
(* read).                                                                  *)
(***************************************************************************)
EXTENDS UserHeap

VARIABLES test,    \* the program that runs
          calls,   \* how many of its calls it has made
          uheap,   \* the lists of the allocator and what is mapped
          failed   \* the calls that were not what the program expects

heapScripts == <<test, calls, uheap, failed>>

MB(n) == 256 * n
roundup(kb) == (kb + 3) \div 4

(***************************************************************************)
(* A call and what the program expects of it: i is the element of          *)
(* ptr_allocations, pages the size rounded up to PAGE_SIZE.                *)
(***************************************************************************)
Call(op, i, pages, offsets, at, frames) ==
  [op |-> op, i |-> i, pages |-> pages, offsets |-> offsets, at |-> at, frames |-> frames]

init(frames) == Call("init", 0, 0, {}, {0}, frames)
malloc_at(i, kb, at) == Call("malloc", i, roundup(kb), {}, {at}, {0})
malloc_near(i, kb, at) == Call("malloc", i, roundup(kb), {}, {at, at + 1}, Nat)
malloc_above(i, kb, at) == Call("malloc", i, roundup(kb), {}, InHeap \ 0 .. at - 1, Nat)
malloc_fails(pages) == Call("malloc", 0, pages, {}, {NULL}, {0})
smalloc_at(i, kb, at, frames) == Call("smalloc", i, roundup(kb), {}, {at}, {frames})
sget_at(of, i, at) == Call("sget", i, of, {}, {at}, {0})
touch(i, offsets, frames) == Call("touch", i, 0, offsets, InHeap, frames)
read(i, offsets) == Call("read", i, 0, offsets, InHeap, Nat)
free_frames(i, frames) == Call("free", i, 0, {}, InHeap, {-frames})
free_any(i) == Call("free", i, 0, {}, InHeap, Nat \cup {-n : n \in 0 .. 9})
faults(i, offsets) == Call("bypass", i, 0, offsets, InHeap, {0})
frames_restored == Call("restored", 0, 0, {}, InHeap, {0})

(***************************************************************************)
(* The placement programs: holes of several sizes, filled by first fit ... *)
(***************************************************************************)
first_fit_holes(three_first, three_last) ==
  <<malloc_at(1, 1023, MB(1)), malloc_at(2, 1023, MB(2)), malloc_at(3, 1023, MB(3)),
    malloc_at(4, 2047, MB(4)), three_first, malloc_at(6, 3071, MB(8)), three_last,
    free_frames(1, 0), free_frames(4, 0), free_frames(6, 0)>>

tst_first_fit_1 ==
  <<init(Nat), malloc_at(0, 1023, 0)>>
  \o first_fit_holes(malloc_at(5, 2047, MB(6)), malloc_at(7, 3071, MB(11)))
  \o <<malloc_at(8, 511, MB(1)), malloc_at(9, 1023, MB(4)), malloc_at(10, 255, MB(1) + 128),
       malloc_at(11, 2048, MB(8)), malloc_at(12, 4095, MB(14)),
       free_frames(2, 0), free_frames(9, 0), free_frames(3, 0),
       malloc_at(13, 4096 + 255, MB(1) + 192)>>

(***************************************************************************)
(* ... holes that are too small and a heap that is too small ...           *)
(***************************************************************************)
tst_first_fit_2 ==
  <<init(Nat), malloc_fails(HEAP_PAGES + 1),
    malloc_at(0, 2047, 0), malloc_at(1, 2047, MB(2)), malloc_at(2, 3, MB(4)),
    malloc_at(3, 3, MB(4) + 1), free_frames(2, 0), malloc_at(4, 7, MB(4) + 2),
    free_frames(0, 0), malloc_at(5, 3071, MB(4) + 4), malloc_at(6, 2048 + 6, MB(7) + 4),
    free_frames(5, 0), free_frames(1, 0), malloc_at(7, 5120 - 1, MB(9) + 6),
    malloc_at(8, 3071, 0), malloc_fails(HEAP_PAGES - MB(14))>>

(***************************************************************************)
(* ... and holes that shared variables fill.  smalloc() takes the          *)
(* variable's pages, the page tables its range lacks and the two frames of *)
(* its frames storage; sget() only the page tables.                        *)
(***************************************************************************)
tst_first_fit_3_holes ==
  <<init(Nat), smalloc_at(0, 1024, 0, 256 + 1 + 2)>>
  \o first_fit_holes(smalloc_at(5, 2048, MB(6), 512 + 1 + 2),
                     smalloc_at(7, 3072, MB(11), 768 + 2 + 2))

tst_first_fit_3 ==
  tst_first_fit_3_holes
  \o <<malloc_at(8, 511, MB(1)), malloc_at(9, 1023, MB(4)),
       smalloc_at(10, 255, MB(1) + 128, 64 + 0 + 2),
       malloc_at(11, 2048, MB(8)), smalloc_at(12, 4095, MB(14), 1024 + 1 + 2),
       free_frames(2, 0), free_frames(9, 0), free_frames(3, 0),
       malloc_at(13, 1024 + 255, MB(1) + 192),
       smalloc_at(1, 4096, MB(18), 1024 + 1 + 2), sget_at(7, 2, MB(3)), sget_at(0, 3, MB(10))>>

(***************************************************************************)
(* The programs that accept malloc(): the empty heap, the addresses, the   *)
(* values kept in the blocks ...                                           *)
(***************************************************************************)
tst_malloc_0 == <<init({512 + 1})>>

tst_malloc_1 ==
  <<init(Nat), malloc_near(0, 2047, 0), malloc_near(1, 2047, MB(2)), malloc_near(2, 3, MB(4)),
    malloc_near(3, 3, MB(4) + 1), malloc_near(4, 7, MB(4) + 2),
    malloc_near(5, 3071, MB(4) + 4), malloc_near(6, 2047, MB(7) + 4)>>

tst_malloc_2 ==
  <<init(Nat), malloc_above(0, 2047, 0), touch(0, {0, 511}, Nat),
    malloc_above(1, 2047, 0), touch(1, {0, 511}, Nat), malloc_above(2, 3, 0), touch(2, {0}, Nat),
    malloc_above(3, 7, 0), touch(3, {0, 1}, Nat),
    read(0, {0, 511}), read(1, {0, 511}), read(2, {0}), read(3, {0, 1})>>

(***************************************************************************)
(* ... and the frames taken when the blocks are touched: a frame for each  *)
(* page and for each page table that is missing.                           *)
(***************************************************************************)
touched_blocks(small) ==
  <<init(Nat), malloc_near(0, 2047, 0), touch(0, {0, 511}, {2 + 1}),
    malloc_near(1, 2047, MB(2)), touch(1, {0, 511}, {2}),
    malloc_near(2, small, MB(4)), touch(2, {0}, {1 + 1}), malloc_near(3, small, MB(4) + 1),
    malloc_near(4, 7, MB(4) + 2), touch(4, {0, 1}, {2}), malloc_near(5, 3071, MB(4) + 4),
    malloc_near(6, 6143, MB(7) + 4), touch(6, {0, 767, 1535}, {3 + 2}),
    malloc_near(7, 14, MB(13) + 4), touch(7, {0, 3}, {2})>>

tst_malloc_3 == touched_blocks(3)

(***************************************************************************)
(* free() gives back the frames of the pages touched and of the page       *)
(* tables that hold no other page ...                                      *)
(***************************************************************************)
tst_free_1_allocations == touched_blocks(2)

tst_free_1 ==
  tst_free_1_allocations
  \o <<free_frames(0, 2), free_frames(1, 2 + 1), free_frames(6, 3 + 1), free_frames(4, 2),
       free_frames(5, 0), free_frames(2, 1 + 1), free_frames(3, 0), free_frames(7, 2 + 1),
       frames_restored>>

(***************************************************************************)
(* ... and an access to a freed block faults.  The program has the fault   *)
(* bypassed: the instruction is skipped and no page is placed.             *)
(***************************************************************************)
tst_free_2 ==
  LET sizes == <<2047, 2047, 2, 2, 7, 3071, 2047>>
      above == <<0, MB(2), MB(4), MB(4) + 1, MB(4) + 2, MB(4) + 4, MB(7) + 4>>
      allocation(i) == malloc_above(i - 1, sizes[i], above[i])
      freed(i) == <<free_any(i - 1), faults(i - 1, {0, roundup(sizes[i]) - 1})>>
  IN <<init(Nat)>> \o [i \in 1 .. 7 |-> allocation(i)]
     \o FlattenSeq([i \in 1 .. 7 |-> freed(i)]) \o <<frames_restored>>

HeapTests == [tst_first_fit_1 |-> tst_first_fit_1, tst_first_fit_2 |-> tst_first_fit_2,
              tst_first_fit_3 |-> tst_first_fit_3, tst_malloc_0 |-> tst_malloc_0,
              tst_malloc_1 |-> tst_malloc_1, tst_malloc_2 |-> tst_malloc_2,
              tst_malloc_3 |-> tst_malloc_3, tst_free_1 |-> tst_free_1, tst_free_2 |-> tst_free_2]

(***************************************************************************)
(* The effect of a call, and whether it is what the program expects.       *)
(***************************************************************************)
pages_at(h, c) == {h.ptrs[c.i] + o : o \in c.offsets}

effect(h, c) ==
  CASE c.op = "init" -> initialize_dyn_block_system(h)
    [] c.op = "malloc" -> malloc(h, c.i, c.pages)
    [] c.op = "smalloc" -> smalloc(h, c.i, c.pages)
    [] c.op = "sget" -> sget(h, c.i, c.pages)
    [] c.op = "touch" -> place(h, c.i, pages_at(h, c))
    [] c.op = "free" -> free(h, h.ptrs[c.i])
    [] c.op \in {"read", "bypass", "restored"} -> h

expected(h, c, after) ==
  /\ frames_used(after) - frames_used(h) \in c.frames
  /\ c.op \in {"malloc", "smalloc", "sget"} => after.ptrs[c.i] \in c.at
  /\ c.op = "init" => /\ after.alloc = <<>> /\ after.available = HEAP_PAGES - 1
                      /\ after.free = <<[sva |-> 0, size |-> HEAP_PAGES]>>
  /\ c.op = "touch" => pages_at(h, c) \subseteq resident_pages(after)
  /\ c.op = "read" => [page : pages_at(h, c), value : {c.i}] \subseteq h.resident
  /\ c.op = "free" => \A k \in find_block(h.alloc, h.ptrs[c.i]) :
                        resident_pages(after) \cap Pages(h.alloc[k]) = {}
  /\ c.op = "bypass" => pages_at(h, c) \cap resident_pages(h) = {}
  /\ c.op = "restored" => frames_used(h) = h.array

HeapScriptsInit ==
  test = "none" /\ calls = 0 /\ uheap = no_heap /\ failed = {}

load_heap_test ==
  /\ test = "none"
  /\ test' \in DOMAIN HeapTests
  /\ UNCHANGED <<calls, uheap, failed>>

next_call ==
  /\ test # "none" /\ calls < Len(HeapTests[test])
  /\ LET c == HeapTests[test][calls + 1]
         after == effect(uheap, c)
     IN /\ uheap' = after
        /\ failed' = IF expected(uheap, c, after) THEN failed ELSE failed \cup {calls + 1}
  /\ calls' = calls + 1
  /\ UNCHANGED test

HeapScriptsNext == load_heap_test \/ next_call

HeapScriptsTypeOK ==
  /\ test \in DOMAIN HeapTests \cup {"none"} /\ calls \in Nat /\ failed \subseteq 1 .. calls
  /\ HeapBlocks(uheap) \subseteq MemBlock
  /\ uheap.available \in 0 .. HEAP_PAGES - 1
  /\ \A r \in uheap.resident : r.page \in InHeap

(***************************************************************************)
(* What the programs of user/ check of the user heap holds at every call   *)
(* of theirs: addresses, frames taken and returned, values, faults. So     *)
(* does what they cannot see: the blocks tile the heap and use every node  *)
(* of MemBlockNodes[] once, and free() frees every page table that it      *)
(* empties and none that another block or a shared variable still uses.    *)
(***************************************************************************)
HeapTestsSucceed ==
  /\ failed = {}
  /\ uheap.array # 0 => Tiled(uheap) /\ TablesInUse(uheap)
============================================================================
