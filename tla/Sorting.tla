------------------------------ MODULE Sorting ------------------------------
(***************************************************************************)
(* The algorithms of the sorting and statistics programs under user/.  An  *)
(* array is a sequence: Elements[i] of the code is Elements[i + 1] here,   *)
(* and startIndex, finalIndex, i and j are shifted in the same way.  The   *)
(* functions are repeated word for word in several programs; the           *)
(* definitions follow arrayOperations_*.c and quicksort_heap.c.            *)
(***************************************************************************)
EXTENDS Integers, Sequences, SequencesExt, FiniteSetsExt

Swap(Elements, First, Second) ==
  [Elements EXCEPT ![First] = Elements[Second], ![Second] = Elements[First]]

(***************************************************************************)
(* The two inner loops of QSort() and the outer one: where i and j stop.   *)
(***************************************************************************)
scan_up(Elements, startIndex, finalIndex, i) ==
  Min({k \in i .. finalIndex + 1 : k <= finalIndex => Elements[startIndex] < Elements[k]})

scan_down(Elements, startIndex, j) ==
  Max({k \in startIndex .. j : k > startIndex => Elements[startIndex] > Elements[k]})

RECURSIVE partition(_, _, _, _, _)
partition(Elements, startIndex, finalIndex, i, j) ==
  LET up == scan_up(Elements, startIndex, finalIndex, i)
      down == scan_down(Elements, startIndex, j)
  IN IF i > j THEN [arr |-> Swap(Elements, startIndex, j), i |-> i, j |-> j]
     ELSE partition(IF up <= down THEN Swap(Elements, up, down) ELSE Elements,
                    startIndex, finalIndex, up, down)

split(Elements, startIndex, finalIndex) ==
  partition(Elements, startIndex, finalIndex, startIndex + 1, finalIndex)

(***************************************************************************)
(* QSort() with the first element as the pivot, as quicksort_heap.c,       *)
(* quicksort_freeheap.c, quicksort_noleakage.c and                         *)
(* tst_quicksort_freeHeap.c sort ...                                       *)
(***************************************************************************)
RECURSIVE QSort(_, _, _)
QSort(Elements, startIndex, finalIndex) ==
  LET s == split(Elements, startIndex, finalIndex)
  IN IF startIndex >= finalIndex THEN Elements
     ELSE QSort(QSort(s.arr, startIndex, s.j - 1), s.i, finalIndex)

QuickSort(Elements) == QSort(Elements, 1, Len(Elements))

(***************************************************************************)
(* ... and the results that arrayOperations_quicksort.c may come to: its   *)
(* pivot depends on the time, RAND(s, e) lies in s .. e - 1.               *)
(***************************************************************************)
RAND(s, e) == s .. e - 1

RECURSIVE QSort_RAND(_, _, _), QSort_halves(_, _, _)
QSort_RAND(Elements, startIndex, finalIndex) ==
  IF startIndex >= finalIndex THEN {Elements}
  ELSE UNION {QSort_halves(split(Swap(Elements, startIndex, pvtIndex), startIndex, finalIndex),
                           startIndex, finalIndex) :
                pvtIndex \in RAND(startIndex, finalIndex)}

QSort_halves(s, startIndex, finalIndex) ==
  UNION {QSort_RAND(arr, s.i, finalIndex) : arr \in QSort_RAND(s.arr, startIndex, s.j - 1)}

(***************************************************************************)
(* QSort() of arrayOperations_stats.c: the element that the partitions     *)
(* bring to kIndex.                                                        *)
(***************************************************************************)
RECURSIVE QSort_kth(_, _, _, _), QSort_half(_, _, _, _)
QSort_kth(Elements, startIndex, finalIndex, kIndex) ==
  IF startIndex >= finalIndex THEN {Elements[finalIndex]}
  ELSE UNION {QSort_half(split(Swap(Elements, startIndex, pvtIndex), startIndex, finalIndex),
                         startIndex, finalIndex, kIndex) :
                pvtIndex \in RAND(startIndex, finalIndex)}

QSort_half(s, startIndex, finalIndex, kIndex) ==
  IF kIndex = s.j THEN {s.arr[kIndex]}
  ELSE IF kIndex < s.j THEN QSort_kth(s.arr, startIndex, s.j - 1, kIndex)
  ELSE QSort_kth(s.arr, s.i, finalIndex, kIndex)

KthElement(Elements, k) == QSort_kth(Elements, 1, Len(Elements), k)

(***************************************************************************)
(* ArrayStats(): sums, minimum and maximum in one loop, then the median    *)
(* and the variance.                                                       *)
(***************************************************************************)
mean(Elements) == FoldSeq(LAMBDA x, sum : sum + x, 0, Elements) \div Len(Elements)

var(Elements) ==
  LET m == mean(Elements)
  IN FoldSeq(LAMBDA x, sum : sum + (x - m) * (x - m), 0, Elements) \div Len(Elements)

med(Elements) == KthElement(Elements, Len(Elements) \div 2)

(***************************************************************************)
(* Merge() of the halves p .. q and q + 1 .. r, which are copied first.    *)
(***************************************************************************)
RECURSIVE merged(_, _)
merged(Left, Right) ==
  IF Left = <<>> \/ Right = <<>> THEN Left \o Right
  ELSE IF Head(Left) < Head(Right) THEN <<Head(Left)>> \o merged(Tail(Left), Right)
       ELSE <<Head(Right)>> \o merged(Left, Tail(Right))

Merge(A, p, q, r) ==
  SubSeq(A, 1, p - 1) \o merged(SubSeq(A, p, q), SubSeq(A, q + 1, r))
    \o SubSeq(A, r + 1, Len(A))

RECURSIVE MSort(_, _, _)
MSort(A, p, r) ==
  LET q == (p + r) \div 2
  IN IF p >= r THEN A ELSE Merge(MSort(MSort(A, p, q), q + 1, r), p, q, r)

CheckSorted(Elements) == \A i \in 1 .. Len(Elements) - 1 : Elements[i] <= Elements[i + 1]

(***************************************************************************)
(* The initialisation methods a), b) and c).  The last one divides by n/3: *)
(* it is not called with fewer than three elements here.                   *)
(***************************************************************************)
InitializeAscending(n) == [i \in 1 .. n |-> i - 1]
InitializeDescending(n) == [i \in 1 .. n |-> n - i]
InitializeSemiRandom(n) == [i \in 1 .. n |-> (i - 1) % (n \div 3)]

Initialize(Chose, n) ==
  CASE Chose = "a" -> InitializeAscending(n)
    [] Chose = "b" -> InitializeDescending(n)
    [] Chose = "c" -> InitializeSemiRandom(n)

-----------------------------------------------------------------------------
(***************************************************************************)
(* The reference: a sorted rearrangement of the same elements.             *)
(***************************************************************************)
IsSortOf(sorted, Elements) ==
  /\ CheckSorted(sorted)
  /\ Len(sorted) = Len(Elements)
  /\ \A v \in Range(Elements) \cup Range(sorted) :
       Cardinality({i \in DOMAIN Elements : Elements[i] = v})
         = Cardinality({i \in DOMAIN sorted : sorted[i] = v})
============================================================================
