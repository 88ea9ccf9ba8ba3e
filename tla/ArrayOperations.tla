-------------------------- MODULE ArrayOperations --------------------------
(***************************************************************************)
(* user/arrayOperations_Master.c: the master shares an array with three    *)
(* slaves (quick sort, merge sort, statistics), waits until they have      *)
(* counted themselves as finished, and validates what they shared.         *)
(***************************************************************************)
EXTENDS MidTerm, Sorting

CONSTANTS arrMaster, slave_qs, slave_ms, slave_stats,
          sizes           \* the numbers of elements that the user may enter

arrSlaves == {slave_qs, slave_ms, slave_stats}
NotShared == <<>>         \* sget() of an object that does not exist yet

(***************************************************************************)
(* The arrays that the master may share, and what the algorithms make of   *)
(* them.                                                                   *)
(***************************************************************************)
Arrays == {Initialize(c, n) : c \in {"a", "b"}, n \in sizes}
            \cup {Initialize("c", n) : n \in {k \in sizes : k >= 3}}

quicksorted == [arr \in Arrays |-> QSort_RAND(arr, 1, Len(arr))]
mergesorted == [arr \in Arrays |-> MSort(arr, 1, Len(arr))]
ArrayStats ==
  [arr \in Arrays |->
     [mean : {mean(arr)}, var : {var(arr)}, med : med(arr),
      min : {Min(Range(arr))}, max : {Max(Range(arr))}]]

ArrayInit ==
  /\ program = "array"
  /\ SemaphoresAre(<<>>)
  /\ pc = [p \in {arrMaster} \cup arrSlaves |-> IF p = arrMaster THEN "busy-wait" ELSE "copy"]
  /\ local = [p \in {arrMaster} \cup arrSlaves |-> [reg |-> 0, array |-> <<>>]]
  /\ \E arr \in Arrays :
       shared = [arr |-> arr, finishedCount |-> 0, quicksortedArr |-> NotShared,
                 mergesortedArr |-> NotShared, stats |-> NotShared]

(***************************************************************************)
(* A slave copies the array and works on the copy; the sorting slaves work *)
(* in the shared object itself, which exists from the start of the copy.   *)
(***************************************************************************)
copy_array(p) ==
  /\ step(p, "copy", "work")
  /\ local' = [local EXCEPT ![p].array = shared.arr]
  /\ UNCHANGED shared

quicksort ==
  /\ step(slave_qs, "work", "finish")
  /\ \E sorted \in quicksorted[local[slave_qs].array] :
       shared' = [shared EXCEPT !.quicksortedArr = sorted]
  /\ UNCHANGED local

mergesort ==
  /\ step(slave_ms, "work", "finish")
  /\ shared' = [shared EXCEPT !.mergesortedArr = mergesorted[local[slave_ms].array]]
  /\ UNCHANGED local

calculate_stats ==
  /\ step(slave_stats, "work", "finish")
  /\ \E stats \in ArrayStats[local[slave_stats].array] :
       shared' = [shared EXCEPT !.stats = stats]
  /\ UNCHANGED local

(***************************************************************************)
(* The master compares with the first, the last and the middle element of  *)
(* the sorted array, and with its own ArrayStats().                        *)
(***************************************************************************)
middle(n) == (n - 1) \div 2 + 1

validate ==
  LET n == Len(shared.arr)
      sorted == shared.quicksortedArr
  IN /\ step(arrMaster, "validate",
             IF /\ sorted # NotShared /\ CheckSorted(sorted)
                /\ shared.mergesortedArr # NotShared /\ CheckSorted(shared.mergesortedArr)
                /\ shared.stats = [mean |-> mean(shared.arr), var |-> var(shared.arr),
                                   med |-> sorted[middle(n)],
                                   min |-> sorted[1], max |-> sorted[n]]
             THEN "congratulations" ELSE "panic")
     /\ UNCHANGED <<local, shared>>

ArrayProcess(p) ==
  \/ p = arrMaster /\ (busy_wait(p, 3, "validate") \/ validate)
  \/ p \in arrSlaves /\ (copy_array(p) \/ declare_finishing(p))
  \/ p = slave_qs /\ quicksort
  \/ p = slave_ms /\ mergesort
  \/ p = slave_stats /\ calculate_stats
-----------------------------------------------------------------------------
(***************************************************************************)
(* The master looks at the results only when all three are there and are   *)
(* what they should be; it reports wrong statistics exactly when the slave *)
(* and the master mean different elements by the median (n is odd and the  *)
(* two middle elements differ).                                            *)
(***************************************************************************)
SlavesHaveFinished ==
  program = "array" /\ pc[arrMaster] \in {"validate", "congratulations", "panic"} =>
    /\ IsSortOf(shared.quicksortedArr, shared.arr)
    /\ shared.mergesortedArr = shared.quicksortedArr
    /\ LET n == Len(shared.arr)
           sorted == shared.quicksortedArr
       IN pc[arrMaster] = "panic" => n % 2 = 1 /\ sorted[middle(n)] # sorted[middle(n) - 1]
============================================================================
