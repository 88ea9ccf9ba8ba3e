-------------------------- MODULE SortingPrograms --------------------------
(***************************************************************************)
(* The programs of user/ that sort an array on the user heap, round after  *)
(* round: quicksort_*.c, mergesort_*.c, their ef_ variants and             *)
(* tst_quicksort_freeHeap.c.  They are one loop with differences: what is  *)
(* typed, which algorithm sorts, which blocks are freed.  They disable     *)
(* interrupts while they talk to the user; nothing else runs here.         *)
(***************************************************************************)
EXTENDS UserHeap, Sorting

CONSTANTS INTS_IN_PAGE,  \* ints in a page, few enough that arrays take several
          SortSizes,     \* the numbers of elements that the user may enter
          Scenario,      \* what tst_quicksort_freeHeap.c wants entered first
          EF_LEAKAGE, EF_NOLEAKAGE,  \* the sizes fixed in the ef_ programs
          MaxRounds      \* bound on the rounds of a program

VARIABLE sorter

ArrayPages(n) == (n + INTS_IN_PAGE - 1) \div INTS_IN_PAGE
Typed == SortSizes \X {"a", "b", "c"}
YesNo == {"y", "n"}

(***************************************************************************)
(* What differs: the algorithm, whether Elements and whether the halves of *)
(* Merge() are freed, what is entered and answered in a round.  Programs   *)
(* that ask again on any other key only take y and n; for the others every *)
(* other key is an n.                                                      *)
(***************************************************************************)
Program(sort, frees, frees_halves, typed, answers) ==
  [sort |-> sort, frees |-> frees, frees_halves |-> frees_halves,
   typed |-> typed, answers |-> answers]

asked == [round \in 1 .. MaxRounds |-> Typed]
answered == [round \in 1 .. MaxRounds |-> YesNo]

quicksort_heap == Program("quick", FALSE, TRUE, asked, answered)
quicksort_freeheap == Program("quick", FALSE, TRUE, asked, answered)
quicksort_noleakage == Program("quick", TRUE, TRUE, asked, answered)
tst_quicksort_freeHeap == Program("quick", TRUE, TRUE, asked, answered)
mergesort_leakage == Program("merge", FALSE, FALSE, asked, answered)
mergesort_noleakage == Program("merge", TRUE, TRUE, asked, answered)
ef_mergesort_leakage ==
  Program("merge", FALSE, FALSE,
          [round \in 1 .. MaxRounds |-> {<<EF_LEAKAGE, IF round = 1 THEN "a" ELSE "c">>}],
          [round \in 1 .. MaxRounds |-> {IF round = 1 THEN "y" ELSE "n"}])
ef_mergesort_noleakage ==
  Program("merge", TRUE, TRUE, [round \in 1 .. MaxRounds |-> {<<EF_NOLEAKAGE, "a">>}],
          [round \in 1 .. MaxRounds |-> {"n"}])

SortingProgram ==
  [quicksort_heap |-> quicksort_heap, quicksort_freeheap |-> quicksort_freeheap,
   quicksort_noleakage |-> quicksort_noleakage,
   tst_quicksort_freeHeap |-> tst_quicksort_freeHeap,
   mergesort_leakage |-> mergesort_leakage, mergesort_noleakage |-> mergesort_noleakage,
   ef_mergesort_leakage |-> ef_mergesort_leakage,
   ef_mergesort_noleakage |-> ef_mergesort_noleakage]

it == SortingProgram[sorter.program]
IsTest == sorter.program = "tst_quicksort_freeHeap"

(***************************************************************************)
(* The arrays, sorted by QuickSort(), and the calls of Merge() in the      *)
(* order in which MSort() makes them.                                      *)
(***************************************************************************)
AllSizes == SortSizes \cup {EF_LEAKAGE, EF_NOLEAKAGE}
divides_by_zero(n, Chose) == Chose = "c" /\ n \in 1 .. 2
Initialized ==
  [t \in {u \in AllSizes \X {"a", "b", "c"} : ~divides_by_zero(u[1], u[2])} |->
     IF t[1] = 0 THEN <<>> ELSE Initialize(t[2], t[1])]
quick_sorted == [arr \in Range(Initialized) |-> QuickSort(arr)]

RECURSIVE merge_calls(_, _)
merge_calls(p, r) ==
  LET q == (p + r) \div 2
  IN IF p >= r THEN <<>>
     ELSE merge_calls(p, q) \o merge_calls(q + 1, r) \o <<[p |-> p, q |-> q, r |-> r]>>
MergeCalls == [n \in AllSizes |-> merge_calls(1, n)]

SortingInit ==
  sorter = [program |-> "none", phase |-> "load", round |-> 0, typed |-> <<0, "a">>,
            elements |-> <<>>, pending |-> <<>>, heap |-> no_heap, disk |-> FALSE,
            created |-> FALSE, past_end |-> {}, arrays |-> 0, merges |-> 0]

load_sorting_program ==
  /\ sorter.phase = "load"
  /\ \E name \in DOMAIN SortingProgram :
       sorter' = [sorter EXCEPT !.program = name, !.phase = "ask", !.round = 1,
                                !.heap = initialize_dyn_block_system(@)]

(***************************************************************************)
(* A round: the size is entered, the array allocated and initialised.      *)
(* malloc(0) is NULL.  Method c) with one or two elements divides by zero, *)
(* a trap that the kernel does not handle.  The test program first looks   *)
(* for pages of the heap in its working set and writes one element past    *)
(* the end.                                                                *)
(***************************************************************************)
WriteArray(h, n, past_end) ==
  place(h, 0, {h.ptrs[0] + o : o \in 0 .. ArrayPages(n) - 1} \cup past_end)

enter(n, Chose) ==
  LET allocated == IF n = 0 THEN [sorter.heap EXCEPT !.ptrs[0] = NULL]
                   ELSE malloc(sorter.heap, 0, ArrayPages(n))
      past_end == IF IsTest THEN {allocated.ptrs[0] + n \div INTS_IN_PAGE} ELSE {}
      traps == \/ divides_by_zero(n, Chose)
               \/ IsTest /\ (sorter.heap.resident # {} \/ n = 0)
      started == [sorter EXCEPT !.typed = <<n, Chose>>, !.created = FALSE]
  IN /\ sorter.phase = "ask" /\ <<n, Chose>> \in it.typed[sorter.round]
     /\ sorter' = IF traps THEN [started EXCEPT !.phase = "panic", !.heap = allocated]
                  ELSE [started EXCEPT
                          !.phase = "sort", !.elements = Initialized[<<n, Chose>>],
                          !.pending = MergeCalls[n], !.past_end = @ \cup past_end,
                          !.arrays = @ + (IF n = 0 THEN 0 ELSE 1),
                          !.heap = IF n = 0 THEN allocated ELSE WriteArray(allocated, n, past_end)]

(***************************************************************************)
(* The array is sorted; meanwhile a replaced page may get the page file's  *)
(* first page table for the heap.  Merge() works on copies of the halves.  *)
(***************************************************************************)
quick_sort ==
  /\ sorter.phase = "sort" /\ it.sort = "quick"
  /\ \E replaced \in IF IsTest THEN BOOLEAN ELSE {FALSE} :
       sorter' = [sorter EXCEPT !.phase = "check", !.elements = quick_sorted[@],
                                !.created = replaced /\ ~sorter.disk, !.disk = @ \/ replaced]

copy(h, i, n) ==
  LET allocated == malloc(h, i, ArrayPages(n))
  IN place(allocated, i, {allocated.ptrs[i] + o : o \in 0 .. ArrayPages(n) - 1})

free_halves_left_only(h) == free(h, h.ptrs[1])
free_halves(h) == free(free(h, h.ptrs[1]), h.ptrs[2])

merge ==
  /\ sorter.phase = "sort" /\ it.sort = "merge" /\ sorter.pending # <<>>
  /\ LET c == Head(sorter.pending)
         copied == copy(copy(sorter.heap, 1, c.q - c.p + 1), 2, c.r - c.q)
     IN sorter' = [sorter EXCEPT !.elements = Merge(@, c.p, c.q, c.r), !.pending = Tail(@),
                                 !.heap = IF it.frees_halves THEN free_halves(copied) ELSE copied,
                                 !.merges = @ + 1]

merge_sort_ends ==
  /\ sorter.phase = "sort" /\ it.sort = "merge" /\ sorter.pending = <<>>
  /\ sorter' = [sorter EXCEPT !.phase = "check"]

(***************************************************************************)
(* CheckSorted(), then free(Elements).  free(NULL) finds no block and      *)
(* reads its size at an address that is no page of the program.  In its    *)
(* first rounds the test program insists on its scenario, on a working set *)
(* without pages of the heap and on its frames: all are back, but for the  *)
(* one that it expects a page table of the page file to have taken.        *)
(***************************************************************************)
scenario_holds(after) ==
  sorter.round <= Len(Scenario) =>
    /\ sorter.typed = Scenario[sorter.round]
    /\ after.resident = {}
    /\ sorter.created = (sorter.round = 1)

check_and_free ==
  LET after == free(sorter.heap, sorter.heap.ptrs[0])
  IN /\ sorter.phase = "check"
     /\ sorter' =
          IF ~CheckSorted(sorter.elements) \/ (it.frees /\ sorter.heap.ptrs[0] = NULL)
            THEN [sorter EXCEPT !.phase = "panic"]
          ELSE IF ~it.frees THEN [sorter EXCEPT !.phase = "repeat"]
          ELSE [sorter EXCEPT !.heap = after,
                              !.phase = IF IsTest /\ ~scenario_holds(after) THEN "panic" ELSE "repeat"]

repeat ==
  /\ sorter.phase = "repeat" /\ sorter.round < MaxRounds
  /\ \E Chose \in it.answers[sorter.round] :
       sorter' = [sorter EXCEPT !.phase = IF Chose = "y" THEN "ask" ELSE "end",
                                !.round = IF Chose = "y" THEN @ + 1 ELSE @]

SortingNext ==
  \/ load_sorting_program
  \/ \E t \in AllSizes \X {"a", "b", "c"} : enter(t[1], t[2])
  \/ quick_sort \/ merge \/ merge_sort_ends \/ check_and_free \/ repeat

SortingTypeOK ==
  /\ sorter.program \in DOMAIN SortingProgram \cup {"none"}
  /\ sorter.phase \in {"load", "ask", "sort", "check", "repeat", "end", "panic"}
  /\ sorter.round \in 0 .. MaxRounds
  /\ HeapBlocks(sorter.heap) \subseteq MemBlock

(***************************************************************************)
(* What CheckSorted() looks at is the array that was initialised, sorted;  *)
(* the halves that Merge() copied were in nobody else's pages.             *)
(***************************************************************************)
ArrayIsSorted ==
  sorter.phase \in {"check", "repeat"} =>
    IsSortOf(sorter.elements, Initialized[sorter.typed])

(***************************************************************************)
(* A program that frees its blocks leaves the heap as it found it, round   *)
(* after round; one with a leak leaves one block for each array and two    *)
(* for each merge, and the heap around them is still tiled.  The only page *)
(* that free() leaves behind is the one that the test program writes past  *)
(* the end of an array that fills its pages.                               *)
(***************************************************************************)
LeaksAsNamed ==
  sorter.phase = "repeat" =>
    /\ Len(sorter.heap.alloc) = (IF it.frees THEN 0 ELSE sorter.arrays)
                                + (IF it.frees_halves THEN 0 ELSE 2 * sorter.merges)
    /\ Tiled(sorter.heap) /\ TablesInUse(sorter.heap)
    /\ resident_pages(sorter.heap) \subseteq PagesOf(sorter.heap.alloc) \cup sorter.past_end
    /\ sorter.typed[1] % INTS_IN_PAGE # 0 =>
         resident_pages(sorter.heap) \subseteq PagesOf(sorter.heap.alloc)

(***************************************************************************)
(* A sorting program does what its name says: it sorts, and leaks or does  *)
(* not leak, round after round.                                            *)
(***************************************************************************)
SortsAndLeaksAsNamed == ArrayIsSorted /\ LeaksAsNamed
=============================================================================
