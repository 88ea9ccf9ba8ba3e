----------------------- MODULE ChunkOperations_proofs -----------------------
(***************************************************************************)
(* Proofs about the chunk operations, for address spaces, memories and     *)
(* ranges of any size.  Every operation is a loop over pages that a panic  *)
(* ends; what a loop does is shown by induction over its rounds.           *)
(***************************************************************************)
EXTENDS ChunkOperations, FiniteSetTheorems, WellFoundedInduction, TLAPS

-----------------------------------------------------------------------------
(***************************************************************************)
(* Induction over the naturals, for the elements of a set.                 *)
(***************************************************************************)
LEMMA SetInduction ==
  ASSUME NEW S, 0 \in S, \A n \in Nat : n \in S => n + 1 \in S
  PROVE  Nat \subseteq S
<1> DEFINE T == Nat \ S
<1> SUFFICES ASSUME T # {} PROVE FALSE
  OBVIOUS
<1>1. IsWellFoundedOn({ss \in Nat \X Nat : ss[1] < ss[2]}, Nat)
  BY NatLessThanWellFounded DEF OpToRel
<1>2. PICK x \in T : \A y \in T : ~ (<<y, x>> \in {ss \in Nat \X Nat : ss[1] < ss[2]})
  BY <1>1, WFMin
<1>3. x \in Nat \ {0}
  OBVIOUS
<1>4. x - 1 \in Nat /\ x - 1 < x /\ (x - 1) + 1 = x
  BY <1>3
<1>5. x - 1 \notin T
  BY <1>2, <1>4
<1> QED BY <1>4, <1>5

(***************************************************************************)
(* One round of each of the loops: w says which loop it is.                *)
(***************************************************************************)
Round(w, x, k) ==
  IF w.loop = "allocate" THEN allocate_page(x, w.d + k, w.perm)
  ELSE IF w.loop = "cut" THEN cut_page(x, w.s + k, w.d + k)
  ELSE IF w.loop = "share" THEN share_page(x, w.s + k, w.d + k, w.perm)
  ELSE IF w.loop = "prepare"
  THEN prepare_page(x, ROUNDDOWN(w.s + k * PAGE_SIZE), ROUNDDOWN(w.d + k * PAGE_SIZE))
  ELSE copy_unit(x, w.s + k, w.d + k)

AfterRound(w, x, k) == IF x.outcome = "ok" THEN Round(w, x, k) ELSE x

(***************************************************************************)
(* The memories that a loop of n rounds goes through.                      *)
(***************************************************************************)
IsRun(run, w, m, n) ==
  /\ run[0] = m
  /\ \A k \in 0 .. n - 1 : run[k + 1] = AfterRound(w, run[k], k)

(***************************************************************************)
(* The function that FoldLeft() is defined by exists.                      *)
(***************************************************************************)
Folding(g, w, m, n) ==
  g = [s \in SUBSET (1 .. n) |-> IF s = {} THEN m ELSE AfterRound(w, g[s \ {Max(s)}], Max(s) - 1)]

LEMMA MaxOfRange ==
  ASSUME NEW n \in Nat, NEW s, s \subseteq 1 .. n + 1, n + 1 \in s
  PROVE  Max(s) = n + 1
<1>1. \A y \in s : y \in Int /\ n + 1 >= y
  OBVIOUS
<1>2. \E x \in s : \A y \in s : x >= y
  BY <1>1
<1> DEFINE x == Max(s)
<1>3. x \in s /\ \A y \in s : x >= y
  BY <1>2 DEF Max
<1> HIDE DEF x
<1>4. x \in Int /\ n + 1 >= x /\ x >= n + 1
  BY <1>1, <1>3
<1>5. x = n + 1
  BY <1>4
<1> QED BY <1>5 DEF x

LEMMA MaxInSet ==
  \A n \in Nat : \A s \in SUBSET (1 .. n) : s # {} => Max(s) \in 1 .. n
<1> DEFINE S == {n \in Nat : \A s \in SUBSET (1 .. n) : s # {} => Max(s) \in 1 .. n}
<1>1. 0 \in S
  <2>1. \A s \in SUBSET (1 .. 0) : s = {}
    OBVIOUS
  <2> QED BY <2>1
<1>2. ASSUME NEW n \in Nat, n \in S PROVE n + 1 \in S
  <2> SUFFICES ASSUME NEW s \in SUBSET (1 .. n + 1), s # {} PROVE Max(s) \in 1 .. n + 1
    OBVIOUS
  <2>1. CASE n + 1 \in s
    <3>1. s \subseteq 1 .. n + 1
      OBVIOUS
    <3>2. Max(s) = n + 1
      BY <2>1, <3>1, MaxOfRange, Zenon
    <3> QED BY <3>2
  <2>2. CASE n + 1 \notin s
    <3>1. s \in SUBSET (1 .. n)
      BY <2>2
    <3>2. Max(s) \in 1 .. n
      BY <1>2, <3>1
    <3> QED BY <3>2
  <2> QED BY <2>1, <2>2
<1> HIDE DEF S
<1>3. Nat \subseteq S
  BY <1>1, <1>2, SetInduction
<1> QED BY <1>3 DEF S

LEMMA FoldingExists ==
  ASSUME NEW w, NEW m
  PROVE  \A n \in Nat : \E g : Folding(g, w, m, n)
<1> DEFINE S == {n \in Nat : \E g : Folding(g, w, m, n)}
<1>1. 0 \in S
  <2> DEFINE g == [s \in SUBSET (1 .. 0) |-> m]
  <2>1. \A s \in SUBSET (1 .. 0) : s = {}
    OBVIOUS
  <2>2. Folding(g, w, m, 0)
    BY <2>1 DEF Folding
  <2> QED BY <2>2
<1>2. ASSUME NEW n \in Nat, n \in S PROVE n + 1 \in S
  <2>1. PICK g : Folding(g, w, m, n)
    BY <1>2
  <2> DEFINE h == [s \in SUBSET (1 .. n + 1) |->
                     IF n + 1 \in s THEN AfterRound(w, g[s \ {n + 1}], n) ELSE g[s]]
  <2>2. \A s \in SUBSET (1 .. n) : h[s] = g[s]
    OBVIOUS
  <2>3. ASSUME NEW s \in SUBSET (1 .. n + 1)
        PROVE  h[s] = IF s = {} THEN m ELSE AfterRound(w, h[s \ {Max(s)}], Max(s) - 1)
    <3>1. CASE n + 1 \in s
      <4>1. Max(s) = n + 1 /\ Max(s) - 1 = n
        <5>1. s \subseteq 1 .. n + 1
          OBVIOUS
        <5>2. Max(s) = n + 1
          BY <3>1, <5>1, MaxOfRange, Zenon
        <5> QED BY <5>2
      <4>2. s \ {n + 1} \in SUBSET (1 .. n)
        OBVIOUS
      <4>3. h[s] = AfterRound(w, g[s \ {n + 1}], n)
        BY <3>1
      <4>4. h[s \ {Max(s)}] = g[s \ {n + 1}]
        BY <4>1, <4>2, <2>2
      <4> HIDE DEF h
      <4> QED BY <3>1, <4>1, <4>3, <4>4
    <3>2. CASE n + 1 \notin s
      <4>1. s \in SUBSET (1 .. n)
        BY <3>2
      <4>2. h[s] = g[s]
        BY <4>1, <2>2
      <4>3. g[s] = IF s = {} THEN m ELSE AfterRound(w, g[s \ {Max(s)}], Max(s) - 1)
        BY <2>1, <4>1 DEF Folding
      <4>4. s \ {Max(s)} \in SUBSET (1 .. n)
        BY <4>1
      <4>5. h[s \ {Max(s)}] = g[s \ {Max(s)}]
        BY <4>4, <2>2
      <4> HIDE DEF h
      <4> QED BY <4>2, <4>3, <4>5
    <3> QED BY <3>1, <3>2
  <2>4. DOMAIN h = SUBSET (1 .. n + 1)
    OBVIOUS
  <2>5. h = [s \in SUBSET (1 .. n + 1) |-> h[s]]
    OBVIOUS
  <2> HIDE DEF h
  <2>6. h = [s \in SUBSET (1 .. n + 1) |-> IF s = {} THEN m ELSE AfterRound(w, h[s \ {Max(s)}], Max(s) - 1)]
    BY <2>3, <2>5
  <2>7. Folding(h, w, m, n + 1)
    BY <2>6 DEF Folding
  <2> QED BY <2>7
<1> HIDE DEF S
<1>3. Nat \subseteq S
  BY <1>1, <1>2, SetInduction
<1> QED BY <1>3 DEF S

(***************************************************************************)
(* It takes the initial segments of 1 .. n through the rounds.             *)
(***************************************************************************)
LEMMA FoldingRuns ==
  ASSUME NEW w, NEW m, NEW n \in Nat, NEW g, Folding(g, w, m, n)
  PROVE  \E run : IsRun(run, w, m, n) /\ run[n] = g[1 .. n]
<1> DEFINE run == [k \in 0 .. n |-> g[1 .. k]]
<1>1. \A k \in 0 .. n : 1 .. k \in SUBSET (1 .. n)
  OBVIOUS
<1>2. \A s \in SUBSET (1 .. n) : g[s] = IF s = {} THEN m ELSE AfterRound(w, g[s \ {Max(s)}], Max(s) - 1)
  BY DEF Folding
<1>3. run[0] = m
  <2>1. 1 .. 0 = {} /\ 0 \in 0 .. n
    OBVIOUS
  <2>2. g[{}] = m
    BY <1>1, <1>2, <2>1
  <2> QED BY <2>1, <2>2
<1>4. ASSUME NEW k \in 0 .. n - 1 PROVE run[k + 1] = AfterRound(w, run[k], k)
  <2>1. 1 .. k + 1 \in SUBSET (1 .. n) /\ 1 .. k + 1 # {} /\ (1 .. k + 1) \ {k + 1} = 1 .. k
    OBVIOUS
  <2>2. Max(1 .. k + 1) = k + 1
    <3>1. k \in Nat /\ 1 .. k + 1 \subseteq 1 .. k + 1 /\ k + 1 \in 1 .. k + 1
      OBVIOUS
    <3> QED BY <3>1, MaxOfRange
  <2>3. g[1 .. k + 1] = AfterRound(w, g[1 .. k], k)
    <3>1. g[1 .. k + 1] = AfterRound(w, g[(1 .. k + 1) \ {Max(1 .. k + 1)}], Max(1 .. k + 1) - 1)
      BY <1>2, <2>1
    <3>2. (k + 1) - 1 = k
      OBVIOUS
    <3> QED BY <2>1, <2>2, <3>1, <3>2
  <2>4. k \in 0 .. n /\ k + 1 \in 0 .. n
    OBVIOUS
  <2> QED BY <2>3, <2>4
<1>5. run[n] = g[1 .. n]
  OBVIOUS
<1> HIDE DEF run
<1>6. IsRun(run, w, m, n)
  BY <1>3, <1>4 DEF IsRun
<1> QED BY <1>5, <1>6
-----------------------------------------------------------------------------
(***************************************************************************)
(* The loops of the five operations are runs.                              *)
(***************************************************************************)
AllocatePages(m, d, perm, n) == ForEach(LAMBDA x, k : allocate_page(x, d + k, perm), m, Offsets(n))
CutPages(m, s, d, n) == ForEach(LAMBDA x, k : cut_page(x, s + k, d + k), m, Offsets(n))
SharePages(m, s, d, perm, n) ==
  ForEach(LAMBDA x, k : share_page(x, s + k, d + k, perm), m, Offsets(n))
PreparePages(m, s, d, size) ==
  ForEach(LAMBDA x, i : prepare_page(x, ROUNDDOWN(s + i), ROUNDDOWN(d + i)), m, Steps(size))
CopyUnits(m, s, d, n) == ForEach(LAMBDA x, i : copy_unit(x, s + i, d + i), m, Offsets(n))

LEMMA AllocateRuns ==
  ASSUME NEW m, NEW count \in Nat, NEW d, NEW perm
  PROVE  \E run :
           /\ IsRun(run, [loop |-> "allocate", d |-> d, perm |-> perm], m, count)
           /\ AllocatePages(m, d, perm, count) = run[count]
<1> DEFINE w == [loop |-> "allocate", d |-> d, perm |-> perm]
           n == count
           seq == Offsets(count)
           Body(g) == [s \in SUBSET DOMAIN seq |->
                         IF s = {} THEN m
                         ELSE IF g[s \ {Max(s)}].outcome = "ok"
                              THEN allocate_page(g[s \ {Max(s)}], d + seq[Max(s)], perm)
                              ELSE g[s \ {Max(s)}]]
           it == CHOOSE g : g = Body(g)
<1>1. AllocatePages(m, d, perm, count) = it[DOMAIN seq]
  BY DEF AllocatePages, ForEach, FoldLeft, MapThenFoldSet
<1>2. n \in Nat /\ DOMAIN seq = 1 .. n /\ \A i \in 1 .. n : seq[i] = i - 1
  BY DEF Offsets
<1>3. ASSUME NEW g PROVE Folding(g, w, m, n) <=> g = Body(g)
  <2>1. ASSUME NEW s \in SUBSET (1 .. n), s # {}
        PROVE  AfterRound(w, g[s \ {Max(s)}], Max(s) - 1)
                 = IF g[s \ {Max(s)}].outcome = "ok"
                   THEN allocate_page(g[s \ {Max(s)}], d + seq[Max(s)], perm)
                   ELSE g[s \ {Max(s)}]
    <3>1. Max(s) \in 1 .. n
      BY <1>2, <2>1, MaxInSet
    <3>2. seq[Max(s)] = Max(s) - 1
      BY <1>2, <3>1
    <3> HIDE DEF seq
    <3> QED BY <3>2 DEF AfterRound, Round
  <2> DEFINE F == [s \in SUBSET (1 .. n) |->
                     IF s = {} THEN m ELSE AfterRound(w, g[s \ {Max(s)}], Max(s) - 1)]
  <2>2. F = Body(g)
    <3> HIDE DEF w, seq
    <3> QED BY <1>2, <2>1
  <2>3. Folding(g, w, m, n) <=> g = F
    BY DEF Folding
  <2> HIDE DEF Body, F
  <2> QED BY <2>2, <2>3
<1>4. \E g : g = Body(g)
  <2>1. PICK g : Folding(g, w, m, n)
    BY <1>2, FoldingExists
  <2> HIDE DEF Body, w, n
  <2> QED BY <1>3, <2>1
<1>5. it = Body(it)
  <2> HIDE DEF Body
  <2> QED BY <1>4
<1>6. Folding(it, w, m, n)
  <2> HIDE DEF Body, it, w, n
  <2> QED BY <1>3, <1>5
<1>7. PICK run : IsRun(run, w, m, n) /\ run[n] = it[1 .. n]
  <2> HIDE DEF it, w, n
  <2> QED BY <1>2, <1>6, FoldingRuns
<1> HIDE DEF it
<1> QED BY <1>1, <1>2, <1>7

LEMMA CutRuns ==
  ASSUME NEW m, NEW count \in Nat, NEW from, NEW d
  PROVE  \E run :
           /\ IsRun(run, [loop |-> "cut", s |-> from, d |-> d], m, count)
           /\ CutPages(m, from, d, count) = run[count]
<1> DEFINE w == [loop |-> "cut", s |-> from, d |-> d]
           n == count
           seq == Offsets(count)
           Body(g) == [s \in SUBSET DOMAIN seq |->
                         IF s = {} THEN m
                         ELSE IF g[s \ {Max(s)}].outcome = "ok"
                              THEN cut_page(g[s \ {Max(s)}], from + seq[Max(s)], d + seq[Max(s)])
                              ELSE g[s \ {Max(s)}]]
           it == CHOOSE g : g = Body(g)
<1>1. CutPages(m, from, d, count) = it[DOMAIN seq]
  BY DEF CutPages, ForEach, FoldLeft, MapThenFoldSet
<1>2. n \in Nat /\ DOMAIN seq = 1 .. n /\ \A i \in 1 .. n : seq[i] = i - 1
  BY DEF Offsets
<1>3. ASSUME NEW g PROVE Folding(g, w, m, n) <=> g = Body(g)
  <2>1. ASSUME NEW s \in SUBSET (1 .. n), s # {}
        PROVE  AfterRound(w, g[s \ {Max(s)}], Max(s) - 1)
                 = IF g[s \ {Max(s)}].outcome = "ok"
                   THEN cut_page(g[s \ {Max(s)}], from + seq[Max(s)], d + seq[Max(s)])
                   ELSE g[s \ {Max(s)}]
    <3>1. Max(s) \in 1 .. n
      BY <1>2, <2>1, MaxInSet
    <3>2. seq[Max(s)] = Max(s) - 1
      BY <1>2, <3>1
    <3> HIDE DEF seq
    <3> QED BY <3>2 DEF AfterRound, Round
  <2> DEFINE F == [s \in SUBSET (1 .. n) |->
                     IF s = {} THEN m ELSE AfterRound(w, g[s \ {Max(s)}], Max(s) - 1)]
  <2>2. F = Body(g)
    <3> HIDE DEF w, seq
    <3> QED BY <1>2, <2>1
  <2>3. Folding(g, w, m, n) <=> g = F
    BY DEF Folding
  <2> HIDE DEF Body, F
  <2> QED BY <2>2, <2>3
<1>4. \E g : g = Body(g)
  <2>1. PICK g : Folding(g, w, m, n)
    BY <1>2, FoldingExists
  <2> HIDE DEF Body, w, n
  <2> QED BY <1>3, <2>1
<1>5. it = Body(it)
  <2> HIDE DEF Body
  <2> QED BY <1>4
<1>6. Folding(it, w, m, n)
  <2> HIDE DEF Body, it, w, n
  <2> QED BY <1>3, <1>5
<1>7. PICK run : IsRun(run, w, m, n) /\ run[n] = it[1 .. n]
  <2> HIDE DEF it, w, n
  <2> QED BY <1>2, <1>6, FoldingRuns
<1> HIDE DEF it
<1> QED BY <1>1, <1>2, <1>7

LEMMA ShareRuns ==
  ASSUME NEW m, NEW count \in Nat, NEW from, NEW d, NEW perm
  PROVE  \E run :
           /\ IsRun(run, [loop |-> "share", s |-> from, d |-> d, perm |-> perm], m, count)
           /\ SharePages(m, from, d, perm, count) = run[count]
<1> DEFINE w == [loop |-> "share", s |-> from, d |-> d, perm |-> perm]
           n == count
           seq == Offsets(count)
           Body(g) == [s \in SUBSET DOMAIN seq |->
                         IF s = {} THEN m
                         ELSE IF g[s \ {Max(s)}].outcome = "ok"
                              THEN share_page(g[s \ {Max(s)}], from + seq[Max(s)], d + seq[Max(s)], perm)
                              ELSE g[s \ {Max(s)}]]
           it == CHOOSE g : g = Body(g)
<1>1. SharePages(m, from, d, perm, count) = it[DOMAIN seq]
  BY DEF SharePages, ForEach, FoldLeft, MapThenFoldSet
<1>2. n \in Nat /\ DOMAIN seq = 1 .. n /\ \A i \in 1 .. n : seq[i] = i - 1
  BY DEF Offsets
<1>3. ASSUME NEW g PROVE Folding(g, w, m, n) <=> g = Body(g)
  <2>1. ASSUME NEW s \in SUBSET (1 .. n), s # {}
        PROVE  AfterRound(w, g[s \ {Max(s)}], Max(s) - 1)
                 = IF g[s \ {Max(s)}].outcome = "ok"
                   THEN share_page(g[s \ {Max(s)}], from + seq[Max(s)], d + seq[Max(s)], perm)
                   ELSE g[s \ {Max(s)}]
    <3>1. Max(s) \in 1 .. n
      BY <1>2, <2>1, MaxInSet
    <3>2. seq[Max(s)] = Max(s) - 1
      BY <1>2, <3>1
    <3> HIDE DEF seq
    <3> QED BY <3>2 DEF AfterRound, Round
  <2> DEFINE F == [s \in SUBSET (1 .. n) |->
                     IF s = {} THEN m ELSE AfterRound(w, g[s \ {Max(s)}], Max(s) - 1)]
  <2>2. F = Body(g)
    <3> HIDE DEF w, seq
    <3> QED BY <1>2, <2>1
  <2>3. Folding(g, w, m, n) <=> g = F
    BY DEF Folding
  <2> HIDE DEF Body, F
  <2> QED BY <2>2, <2>3
<1>4. \E g : g = Body(g)
  <2>1. PICK g : Folding(g, w, m, n)
    BY <1>2, FoldingExists
  <2> HIDE DEF Body, w, n
  <2> QED BY <1>3, <2>1
<1>5. it = Body(it)
  <2> HIDE DEF Body
  <2> QED BY <1>4
<1>6. Folding(it, w, m, n)
  <2> HIDE DEF Body, it, w, n
  <2> QED BY <1>3, <1>5
<1>7. PICK run : IsRun(run, w, m, n) /\ run[n] = it[1 .. n]
  <2> HIDE DEF it, w, n
  <2> QED BY <1>2, <1>6, FoldingRuns
<1> HIDE DEF it
<1> QED BY <1>1, <1>2, <1>7

LEMMA PrepareRuns ==
  ASSUME NEW m, NEW size, ROUNDUP(size) \in Nat, NEW from, NEW d
  PROVE  \E run :
           /\ IsRun(run, [loop |-> "prepare", s |-> from, d |-> d], m, ROUNDUP(size))
           /\ PreparePages(m, from, d, size) = run[ROUNDUP(size)]
<1> DEFINE w == [loop |-> "prepare", s |-> from, d |-> d]
           n == ROUNDUP(size)
           seq == Steps(size)
           Body(g) == [s \in SUBSET DOMAIN seq |->
                         IF s = {} THEN m
                         ELSE IF g[s \ {Max(s)}].outcome = "ok"
                              THEN prepare_page(g[s \ {Max(s)}], ROUNDDOWN(from + seq[Max(s)]), ROUNDDOWN(d + seq[Max(s)]))
                              ELSE g[s \ {Max(s)}]]
           it == CHOOSE g : g = Body(g)
<1>1. PreparePages(m, from, d, size) = it[DOMAIN seq]
  BY DEF PreparePages, ForEach, FoldLeft, MapThenFoldSet
<1>2. n \in Nat /\ DOMAIN seq = 1 .. n /\ \A i \in 1 .. n : seq[i] = (i - 1) * PAGE_SIZE
  BY DEF Steps
<1>3. ASSUME NEW g PROVE Folding(g, w, m, n) <=> g = Body(g)
  <2>1. ASSUME NEW s \in SUBSET (1 .. n), s # {}
        PROVE  AfterRound(w, g[s \ {Max(s)}], Max(s) - 1)
                 = IF g[s \ {Max(s)}].outcome = "ok"
                   THEN prepare_page(g[s \ {Max(s)}], ROUNDDOWN(from + seq[Max(s)]), ROUNDDOWN(d + seq[Max(s)]))
                   ELSE g[s \ {Max(s)}]
    <3>1. Max(s) \in 1 .. n
      BY <1>2, <2>1, MaxInSet
    <3>2. seq[Max(s)] = (Max(s) - 1) * PAGE_SIZE
      BY <1>2, <3>1
    <3> HIDE DEF seq
    <3> QED BY <3>2 DEF AfterRound, Round
  <2> DEFINE F == [s \in SUBSET (1 .. n) |->
                     IF s = {} THEN m ELSE AfterRound(w, g[s \ {Max(s)}], Max(s) - 1)]
  <2>2. F = Body(g)
    <3> HIDE DEF w, seq
    <3> QED BY <1>2, <2>1
  <2>3. Folding(g, w, m, n) <=> g = F
    BY DEF Folding
  <2> HIDE DEF Body, F
  <2> QED BY <2>2, <2>3
<1>4. \E g : g = Body(g)
  <2>1. PICK g : Folding(g, w, m, n)
    BY <1>2, FoldingExists
  <2> HIDE DEF Body, w, n
  <2> QED BY <1>3, <2>1
<1>5. it = Body(it)
  <2> HIDE DEF Body
  <2> QED BY <1>4
<1>6. Folding(it, w, m, n)
  <2> HIDE DEF Body, it, w, n
  <2> QED BY <1>3, <1>5
<1>7. PICK run : IsRun(run, w, m, n) /\ run[n] = it[1 .. n]
  <2> HIDE DEF it, w, n
  <2> QED BY <1>2, <1>6, FoldingRuns
<1> HIDE DEF it
<1> QED BY <1>1, <1>2, <1>7

LEMMA CopyRuns ==
  ASSUME NEW m, NEW count \in Nat, NEW from, NEW d
  PROVE  \E run :
           /\ IsRun(run, [loop |-> "copy", s |-> from, d |-> d], m, count)
           /\ CopyUnits(m, from, d, count) = run[count]
<1> DEFINE w == [loop |-> "copy", s |-> from, d |-> d]
           n == count
           seq == Offsets(count)
           Body(g) == [s \in SUBSET DOMAIN seq |->
                         IF s = {} THEN m
                         ELSE IF g[s \ {Max(s)}].outcome = "ok"
                              THEN copy_unit(g[s \ {Max(s)}], from + seq[Max(s)], d + seq[Max(s)])
                              ELSE g[s \ {Max(s)}]]
           it == CHOOSE g : g = Body(g)
<1>1. CopyUnits(m, from, d, count) = it[DOMAIN seq]
  BY DEF CopyUnits, ForEach, FoldLeft, MapThenFoldSet
<1>2. n \in Nat /\ DOMAIN seq = 1 .. n /\ \A i \in 1 .. n : seq[i] = i - 1
  BY DEF Offsets
<1>3. ASSUME NEW g PROVE Folding(g, w, m, n) <=> g = Body(g)
  <2>1. ASSUME NEW s \in SUBSET (1 .. n), s # {}
        PROVE  AfterRound(w, g[s \ {Max(s)}], Max(s) - 1)
                 = IF g[s \ {Max(s)}].outcome = "ok"
                   THEN copy_unit(g[s \ {Max(s)}], from + seq[Max(s)], d + seq[Max(s)])
                   ELSE g[s \ {Max(s)}]
    <3>1. Max(s) \in 1 .. n
      BY <1>2, <2>1, MaxInSet
    <3>2. seq[Max(s)] = Max(s) - 1
      BY <1>2, <3>1
    <3> HIDE DEF seq
    <3> QED BY <3>2 DEF AfterRound, Round
  <2> DEFINE F == [s \in SUBSET (1 .. n) |->
                     IF s = {} THEN m ELSE AfterRound(w, g[s \ {Max(s)}], Max(s) - 1)]
  <2>2. F = Body(g)
    <3> HIDE DEF w, seq
    <3> QED BY <1>2, <2>1
  <2>3. Folding(g, w, m, n) <=> g = F
    BY DEF Folding
  <2> HIDE DEF Body, F
  <2> QED BY <2>2, <2>3
<1>4. \E g : g = Body(g)
  <2>1. PICK g : Folding(g, w, m, n)
    BY <1>2, FoldingExists
  <2> HIDE DEF Body, w, n
  <2> QED BY <1>3, <2>1
<1>5. it = Body(it)
  <2> HIDE DEF Body
  <2> QED BY <1>4
<1>6. Folding(it, w, m, n)
  <2> HIDE DEF Body, it, w, n
  <2> QED BY <1>3, <1>5
<1>7. PICK run : IsRun(run, w, m, n) /\ run[n] = it[1 .. n]
  <2> HIDE DEF it, w, n
  <2> QED BY <1>2, <1>6, FoldingRuns
<1> HIDE DEF it
<1> QED BY <1>1, <1>2, <1>7

-----------------------------------------------------------------------------
(***************************************************************************)
(* The invariant, of a memory while an operation runs too.                 *)
(***************************************************************************)
TablesAt(m, f) == {t \in DOMAIN m.page_directory : m.page_directory[t] = f}

(***************************************************************************)
(* A frame is free, one table, or mapped.                                  *)
(***************************************************************************)
OneUse(m, f) ==
  \/ f \in m.free_frame_list /\ TablesAt(m, f) = {} /\ m.references[f] = 0
  \/ f \notin m.free_frame_list /\ TablesAt(m, f) = {} /\ m.references[f] > 0
  \/ /\ f \notin m.free_frame_list /\ m.references[f] = 0
     /\ \E t \in DOMAIN m.page_directory : TablesAt(m, f) = {t}

Accounted(m) ==
  /\ m \in Memory
  /\ \A f \in Frame : m.references[f] = Cardinality(MappedTo(m, f)) /\ OneUse(m, f)
  /\ \A p \in Page : is_mapped(m, p) => has_table(m, p)

LEMMA Numbers ==
  /\ PAGE_SIZE \in Nat \ {0} /\ NPTENTRIES \in Nat \ {0} /\ MaxPage \in Nat /\ Frames \in Nat
  /\ \A p \in Page : p \in Nat /\ PDX(p) \in {PDX(q) : q \in Page}
  /\ IsFiniteSet(Page) /\ \A f \in Frame : f \in Nat /\ f # NONE
<1>1. IsFiniteSet(0 .. MaxPage)
  BY ChunkAssumption, FS_Interval
<1> QED BY <1>1, ChunkAssumption DEF Page, Frame, NONE

(* The pages that show a frame are finitely many. *)
LEMMA MappedFinite ==
  ASSUME NEW m, NEW f
  PROVE  IsFiniteSet(MappedTo(m, f)) /\ Cardinality(MappedTo(m, f)) \in Nat
<1>1. MappedTo(m, f) \subseteq Page
  BY DEF MappedTo
<1> QED BY <1>1, Numbers, FS_Subset, FS_CardinalityType

LEMMA OneMore ==
  ASSUME NEW S, IsFiniteSet(S), NEW x, x \notin S
  PROVE  Cardinality(S \cup {x}) = Cardinality(S) + 1
BY FS_AddElement

LEMMA OneLess ==
  ASSUME NEW S, IsFiniteSet(S), NEW x, x \in S
  PROVE  Cardinality(S \ {x}) = Cardinality(S) - 1
BY FS_RemoveElement

(***************************************************************************)
(* The first free frame is one.                                            *)
(***************************************************************************)
LEMMA MinInSet ==
  ASSUME NEW S, S \subseteq Nat, S # {}
  PROVE  Min(S) \in S
<1>1. IsWellFoundedOn({ss \in Nat \X Nat : ss[1] < ss[2]}, Nat)
  BY NatLessThanWellFounded DEF OpToRel
<1>2. PICK x \in S : \A y \in S : ~ (<<y, x>> \in {ss \in Nat \X Nat : ss[1] < ss[2]})
  BY <1>1, WFMin
<1>3. \A y \in S : x =< y
  <2> SUFFICES ASSUME NEW y \in S, y < x PROVE FALSE
    OBVIOUS
  <2>1. <<y, x>> \in {ss \in Nat \X Nat : ss[1] < ss[2]}
    OBVIOUS
  <2> QED BY <1>2, <2>1
<1> QED BY <1>3 DEF Min

(***************************************************************************)
(* A mapped page has at least one reference to its frame.                  *)
(***************************************************************************)
LEMMA MappedFrame ==
  ASSUME NEW m, Accounted(m), NEW p \in Page, is_mapped(m, p)
  PROVE  /\ frame_at(m, p) \in Frame /\ m.references[frame_at(m, p)] \in Nat \ {0}
         /\ p \in MappedTo(m, frame_at(m, p))
         /\ frame_at(m, p) \notin m.free_frame_list /\ TablesAt(m, frame_at(m, p)) = {}
<1> DEFINE f == frame_at(m, p)
<1>1. f \in Frame
  BY DEF Accounted, Memory, Entry, NoEntry, is_mapped, frame_at
<1>2. p \in MappedTo(m, f)
  BY DEF MappedTo
<1> HIDE DEF f
<1>3. Cardinality(MappedTo(m, f)) \in Nat /\ Cardinality(MappedTo(m, f)) # 0
  BY <1>2, MappedFinite, FS_EmptySet
<1>4. m.references[f] \in Nat \ {0} /\ OneUse(m, f)
  BY <1>1, <1>3 DEF Accounted
<1> QED BY <1>1, <1>2, <1>4 DEF OneUse, f
-----------------------------------------------------------------------------
(***************************************************************************)
(* What the steps of an operation do to the fields of the memory.          *)
(***************************************************************************)
SameMappings(m, t) ==
  t.page_table = m.page_table /\ t.references = m.references /\ t.contents = m.contents

LEMMA TableTaken ==
  ASSUME NEW m \in Memory, m.outcome = "ok", NEW p \in Page, ~has_table(m, p), m.free_frame_list # {}
  PROVE  LET t == with_table(m, p)
         IN /\ new_frame(m) \in m.free_frame_list
            /\ t \in Memory /\ t.outcome = "ok" /\ SameMappings(m, t)
            /\ t.page_directory = [m.page_directory EXCEPT ![PDX(p)] = new_frame(m)]
            /\ t.free_frame_list = m.free_frame_list \ {new_frame(m)}
<1> DEFINE f == new_frame(m)
           x == [m EXCEPT !.free_frame_list = @ \ {f}]
           t == [x EXCEPT !.page_directory[PDX(p)] = f]
<1>1. m.free_frame_list \subseteq Frame /\ Frame \subseteq Nat
  BY Numbers DEF Memory
<1>2. f \in m.free_frame_list
  BY <1>1, MinInSet DEF new_frame
<1>3. take_frame(m) = x
  BY DEF take_frame
<1>4. PDX(p) \in {PDX(q) : q \in Page}
  OBVIOUS
<1> HIDE DEF f
<1>5. /\ x \in Memory /\ x.outcome = "ok" /\ x.page_directory = m.page_directory
      /\ x.page_table = m.page_table /\ x.references = m.references /\ x.contents = m.contents
      /\ x.free_frame_list = m.free_frame_list \ {f}
  BY DEF Memory
<1>6. with_table(m, p) = t
  BY <1>3, <1>5 DEF with_table, create_page_table, f
<1> HIDE DEF x
<1>7. /\ t.outcome = "ok" /\ t.page_table = x.page_table /\ t.references = x.references
      /\ t.contents = x.contents /\ t.free_frame_list = x.free_frame_list
      /\ t.page_directory = [x.page_directory EXCEPT ![PDX(p)] = f]
  BY <1>5 DEF Memory
<1>8. t \in Memory
  <2>1. [x.page_directory EXCEPT ![PDX(p)] = f] \in [{PDX(q) : q \in Page} -> Frame \cup {NONE}]
    BY <1>1, <1>2, <1>4, <1>5 DEF Memory
  <2>2. t = [x EXCEPT !.page_directory = [x.page_directory EXCEPT ![PDX(p)] = f]]
    BY <1>5 DEF Memory
  <2> DEFINE dir == [x.page_directory EXCEPT ![PDX(p)] = f]
  <2>3. [x EXCEPT !.page_directory = dir] \in Memory
    <3> HIDE DEF dir
    <3> QED BY <1>5, <2>1 DEF Memory, dir
  <2> QED BY <2>2, <2>3
<1> HIDE DEF t
<1> QED BY <1>2, <1>5, <1>6, <1>7, <1>8 DEF SameMappings, f
LEMMA TableKeepsAccount ==
  ASSUME NEW m, Accounted(m), m.outcome = "ok", NEW p \in Page, ~has_table(m, p),
         m.free_frame_list # {}
  PROVE  Accounted(with_table(m, p)) /\ has_table(with_table(m, p), p)
<1> DEFINE t == with_table(m, p)
           f == new_frame(m)
<1>1. /\ m \in Memory /\ f \in m.free_frame_list /\ f \in Frame
      /\ t \in Memory /\ t.outcome = "ok" /\ SameMappings(m, t)
      /\ t.page_directory = [m.page_directory EXCEPT ![PDX(p)] = f]
      /\ t.free_frame_list = m.free_frame_list \ {f}
  BY TableTaken DEF Accounted, Memory
<1>2. /\ PDX(p) \in DOMAIN m.page_directory /\ DOMAIN t.page_directory = DOMAIN m.page_directory
      /\ m.page_directory[PDX(p)] = NONE /\ f # NONE
  BY <1>1, Numbers DEF Memory, has_table
<1> HIDE DEF t, f
<1>3. /\ \A g : MappedTo(t, g) = MappedTo(m, g)
      /\ \A q \in Page : is_mapped(t, q) <=> is_mapped(m, q)
  BY <1>1 DEF MappedTo, frame_at, is_mapped, SameMappings
<1>4. \A q \in Page : has_table(m, q) \/ q = p => has_table(t, q)
  BY <1>1, <1>2, Numbers DEF has_table, Memory
<1>5. ASSUME NEW g \in Frame PROVE OneUse(t, g)
  <2>1. OneUse(m, g)
    BY DEF Accounted
  <2>2. t.references[g] = m.references[g]
    BY <1>1 DEF SameMappings
  <2>3. CASE g = f
    <3>1. TablesAt(m, f) = {} /\ m.references[f] = 0
      BY <1>1, <2>1, <2>3 DEF OneUse
    <3>2. TablesAt(t, f) = {PDX(p)}
      BY <1>1, <1>2, <3>1 DEF TablesAt
    <3> QED BY <1>1, <1>2, <2>2, <2>3, <3>1, <3>2 DEF OneUse
  <2>4. CASE g # f
    <3>1. TablesAt(t, g) = TablesAt(m, g)
      BY <1>1, <1>2, <2>4, Numbers DEF TablesAt
    <3>2. g \in t.free_frame_list <=> g \in m.free_frame_list
      BY <1>1, <2>4
    <3> QED BY <1>2, <2>1, <2>2, <3>1, <3>2 DEF OneUse
  <2> QED BY <2>3, <2>4
<1>6. \A g \in Frame : t.references[g] = Cardinality(MappedTo(t, g))
  BY <1>1, <1>3 DEF Accounted, SameMappings
<1>7. Accounted(t) /\ has_table(t, p)
  BY <1>1, <1>3, <1>4, <1>5, <1>6 DEF Accounted
<1> QED BY <1>7 DEF t

(***************************************************************************)
(* create_page_table() when it is needed: the tables that were there stay. *)
(***************************************************************************)
Stopped(m) == [m EXCEPT !.outcome = "panic"]

LEMMA StoppedAccounted ==
  ASSUME NEW m, Accounted(m), NEW o \in {"ok", "denied", "panic", "fault"}
  PROVE  LET t == [m EXCEPT !.outcome = o]
         IN /\ Accounted(t) /\ t.outcome = o /\ t.page_directory = m.page_directory
            /\ t.free_frame_list = m.free_frame_list /\ SameMappings(m, t)
<1> DEFINE t == [m EXCEPT !.outcome = o]
<1>1. /\ t \in Memory /\ t.outcome = o /\ t.page_directory = m.page_directory
      /\ t.free_frame_list = m.free_frame_list /\ SameMappings(m, t)
  BY DEF Accounted, Memory, SameMappings
<1> HIDE DEF t
<1>2. /\ \A f : MappedTo(t, f) = MappedTo(m, f) /\ TablesAt(t, f) = TablesAt(m, f)
      /\ \A p : (is_mapped(t, p) <=> is_mapped(m, p)) /\ (has_table(t, p) <=> has_table(m, p))
  BY <1>1 DEF MappedTo, frame_at, is_mapped, has_table, SameMappings, TablesAt
<1>3. \A f \in Frame : OneUse(t, f) <=> OneUse(m, f)
  BY <1>1, <1>2 DEF OneUse, SameMappings
<1>4. Accounted(t)
  BY <1>1, <1>2, <1>3 DEF Accounted, SameMappings
<1> QED BY <1>1, <1>4 DEF t

(* The frames that went became tables. *)
FramesBecameTables(m, t) ==
  /\ t.free_frame_list \subseteq m.free_frame_list
  /\ Tables(t) = Tables(m) \cup (m.free_frame_list \ t.free_frame_list)

LEMMA TableAdded ==
  ASSUME NEW m \in Memory, NEW t, NEW i \in DOMAIN m.page_directory, NEW f \in m.free_frame_list,
         m.page_directory[i] = NONE,
         t.page_directory = [m.page_directory EXCEPT ![i] = f],
         t.free_frame_list = m.free_frame_list \ {f}
  PROVE  FramesBecameTables(m, t)
<1> DEFINE before == m.page_directory
           after == t.page_directory
<1>1. f # NONE
  BY Numbers DEF Memory
<1>2. DOMAIN after = DOMAIN before /\ after[i] = f /\ \A j \in DOMAIN before : j # i => after[j] = before[j]
  OBVIOUS
<1>3. Tables(m) = {before[j] : j \in DOMAIN before} \ {NONE}
  BY DEF Tables
<1>4. Tables(t) = {after[j] : j \in DOMAIN after} \ {NONE}
  BY DEF Tables
<1>5. before[i] = NONE /\ i \in DOMAIN before
  OBVIOUS
<1> HIDE DEF before, after
<1>6. Tables(t) = Tables(m) \cup {f}
  <2>1. ASSUME NEW v \in Tables(t) PROVE v \in Tables(m) \cup {f}
    <3>1. PICK j \in DOMAIN before : v = after[j] /\ v # NONE
      BY <1>2, <1>4
    <3> QED BY <1>2, <1>3, <3>1
  <2>2. ASSUME NEW v \in Tables(m) PROVE v \in Tables(t)
    <3>1. PICK j \in DOMAIN before : v = before[j] /\ v # NONE
      BY <1>3
    <3>2. j # i
      BY <1>5, <3>1
    <3> QED BY <1>2, <1>4, <3>1, <3>2
  <2>3. f \in Tables(t)
    BY <1>1, <1>2, <1>4, <1>5
  <2> QED BY <2>1, <2>2, <2>3
<1> QED BY <1>6 DEF FramesBecameTables

LEMMA TableMade ==
  ASSUME NEW m, Accounted(m), m.outcome = "ok", NEW p \in Page
  PROVE  LET t == with_table(m, p)
         IN /\ Accounted(t) /\ SameMappings(m, t) /\ FramesBecameTables(m, t)
            /\ \/ t.outcome = "ok" /\ has_table(t, p)
               \/ t = Stopped(m) /\ t.outcome = "panic"
<1> DEFINE t == with_table(m, p)
<1>1. CASE has_table(m, p)
  BY <1>1 DEF with_table, SameMappings, FramesBecameTables
<1>2. CASE ~has_table(m, p) /\ m.free_frame_list = {}
  <2>1. take_frame(m) = Stopped(m)
    BY <1>2 DEF take_frame, Stopped
  <2> DEFINE y == Stopped(m)
  <2>4. /\ y.outcome = "panic" /\ Accounted(y) /\ SameMappings(m, y)
        /\ y.page_directory = m.page_directory /\ y.free_frame_list = m.free_frame_list
    BY StoppedAccounted DEF Stopped
  <2> HIDE DEF y
  <2>5. FramesBecameTables(m, y)
    BY <2>4 DEF FramesBecameTables, Tables
  <2> USE DEF y
  <2>2. Stopped(m).outcome = "panic" /\ Accounted(Stopped(m)) /\ SameMappings(m, Stopped(m))
        /\ FramesBecameTables(m, Stopped(m))
    BY <2>4, <2>5
  <2>3. t = Stopped(m)
    BY <1>2, <2>1, <2>2 DEF with_table, create_page_table
  <2> QED BY <2>2, <2>3
<1>3. CASE ~has_table(m, p) /\ m.free_frame_list # {}
  <2>1. m \in Memory /\ PDX(p) \in DOMAIN m.page_directory /\ m.page_directory[PDX(p)] = NONE
    BY <1>3, Numbers DEF Accounted, Memory, has_table
  <2>2. /\ SameMappings(m, t) /\ new_frame(m) \in m.free_frame_list /\ t.outcome = "ok"
        /\ t.page_directory = [m.page_directory EXCEPT ![PDX(p)] = new_frame(m)]
        /\ t.free_frame_list = m.free_frame_list \ {new_frame(m)}
    BY <1>3, <2>1, TableTaken
  <2>3. Accounted(t) /\ has_table(t, p)
    BY <1>3, TableKeepsAccount
  <2> HIDE DEF t
  <2>4. FramesBecameTables(m, t)
    BY <2>1, <2>2, TableAdded
  <2>5. Accounted(t) /\ SameMappings(m, t) /\ FramesBecameTables(m, t)
        /\ t.outcome = "ok" /\ has_table(t, p)
    BY <2>2, <2>3, <2>4
  <2> QED BY <2>5 DEF t
<1> QED BY <1>1, <1>2, <1>3
-----------------------------------------------------------------------------
Permission == SUBSET {"USER", "WRITEABLE"}

LEMMA MapFields ==
  ASSUME NEW m \in Memory, NEW f \in Frame, NEW p \in Page, NEW perm \in Permission
  PROVE  LET t == map_frame(m, f, p, perm)
         IN /\ t \in Memory /\ t.outcome = m.outcome /\ t.page_directory = m.page_directory
            /\ t.page_table = [m.page_table EXCEPT ![p] = [frame |-> f, perm |-> perm]]
            /\ t.references = [m.references EXCEPT ![f] = @ + 1]
            /\ t.free_frame_list = m.free_frame_list /\ t.contents = m.contents
<1> DEFINE table == [m.page_table EXCEPT ![p] = [frame |-> f, perm |-> perm]]
           refs == [m.references EXCEPT ![f] = @ + 1]
           t == [m EXCEPT !.page_table = table, !.references = refs]
<1>1. m.page_table \in [Page -> Entry \cup {NoEntry}] /\ m.references \in [Frame -> Nat]
  BY DEF Memory
<1>2. table \in [Page -> Entry \cup {NoEntry}]
  <2>1. [frame |-> f, perm |-> perm] \in Entry
    BY DEF Entry, Permission
  <2> QED BY <1>1, <2>1
<1>3. refs \in [Frame -> Nat]
  BY <1>1
<1>4. map_frame(m, f, p, perm) = t
  BY DEF map_frame, Memory
<1> HIDE DEF table, refs
<1>5. /\ t \in Memory /\ t.outcome = m.outcome /\ t.page_directory = m.page_directory
      /\ t.page_table = table /\ t.references = refs
      /\ t.free_frame_list = m.free_frame_list /\ t.contents = m.contents
  BY <1>2, <1>3 DEF Memory
<1> HIDE DEF t
<1> QED BY <1>4, <1>5 DEF table, refs

LEMMA UnmapFields ==
  ASSUME NEW m, Accounted(m), NEW p \in Page, is_mapped(m, p)
  PROVE  LET t == unmap_frame(m, p)
             f == frame_at(m, p)
         IN /\ t \in Memory /\ t.outcome = m.outcome /\ t.page_directory = m.page_directory
            /\ t.page_table = [m.page_table EXCEPT ![p] = NoEntry]
            /\ t.references = [m.references EXCEPT ![f] = @ - 1]
            /\ t.free_frame_list = IF m.references[f] = 1 THEN m.free_frame_list \cup {f} ELSE m.free_frame_list
            /\ t.contents = m.contents
<1> DEFINE f == frame_at(m, p)
           table == [m.page_table EXCEPT ![p] = NoEntry]
           refs == [m.references EXCEPT ![f] = @ - 1]
           free == IF m.references[f] = 1 THEN m.free_frame_list \cup {f} ELSE m.free_frame_list
           t == [m EXCEPT !.page_table = table, !.references = refs, !.free_frame_list = free]
<1>1. /\ m \in Memory /\ m.page_table \in [Page -> Entry \cup {NoEntry}] /\ m.references \in [Frame -> Nat]
      /\ m.free_frame_list \subseteq Frame
  BY DEF Accounted, Memory
<1>2. f \in Frame /\ m.references[f] \in Nat \ {0}
  BY MappedFrame
<1>3. unmap_frame(m, p) = t
  BY <1>1 DEF unmap_frame, Memory
<1> HIDE DEF f
<1>4. table \in [Page -> Entry \cup {NoEntry}]
  BY <1>1
<1>5. refs \in [Frame -> Nat]
  BY <1>1, <1>2
<1>6. free \in SUBSET Frame
  BY <1>1, <1>2
<1> HIDE DEF table, refs, free
<1>7. /\ t \in Memory /\ t.outcome = m.outcome /\ t.page_directory = m.page_directory
      /\ t.page_table = table /\ t.references = refs
      /\ t.free_frame_list = free /\ t.contents = m.contents
  BY <1>1, <1>4, <1>5, <1>6 DEF Memory
<1> HIDE DEF t
<1> QED BY <1>3, <1>7 DEF table, refs, free, f

(***************************************************************************)
(* map_frame() of a frame that is taken for it or mapped already.          *)
(***************************************************************************)
LEMMA MapKeepsAccount ==
  ASSUME NEW m, Accounted(m), NEW f \in Frame, NEW p \in Page, NEW perm \in Permission,
         ~is_mapped(m, p), has_table(m, p), m.references[f] > 0
  PROVE  Accounted(map_frame(m, f, p, perm))
<1> DEFINE t == map_frame(m, f, p, perm)
<1>1. m \in Memory
  BY DEF Accounted
<1>2. /\ t \in Memory /\ t.page_directory = m.page_directory
      /\ t.page_table = [m.page_table EXCEPT ![p] = [frame |-> f, perm |-> perm]]
      /\ t.references = [m.references EXCEPT ![f] = @ + 1]
      /\ t.free_frame_list = m.free_frame_list
  BY <1>1, MapFields
<1> HIDE DEF t
<1>3. /\ m.references \in [Frame -> Nat] /\ DOMAIN m.page_table = Page
      /\ \A g : TablesAt(t, g) = TablesAt(m, g)
      /\ \A q : has_table(t, q) <=> has_table(m, q)
  BY <1>1, <1>2 DEF Memory, TablesAt, has_table
<1>4. /\ \A q \in Page : q # p => frame_at(t, q) = frame_at(m, q)
      /\ frame_at(t, p) = f /\ frame_at(m, p) = NONE /\ f # NONE
  BY <1>2, <1>3, Numbers DEF frame_at, is_mapped
<1>5. MappedTo(t, f) = MappedTo(m, f) \cup {p} /\ p \notin MappedTo(m, f)
  BY <1>4 DEF MappedTo
<1>6. \A g \in Frame : g # f => MappedTo(t, g) = MappedTo(m, g)
  BY <1>4, Numbers DEF MappedTo
<1>7. ASSUME NEW g \in Frame PROVE t.references[g] = Cardinality(MappedTo(t, g)) /\ OneUse(t, g)
  <2>1. m.references[g] = Cardinality(MappedTo(m, g)) /\ OneUse(m, g) /\ m.references[g] \in Nat
    BY <1>3 DEF Accounted
  <2>2. CASE g = f
    <3>1. t.references[g] = m.references[g] + 1
      BY <1>2, <1>3, <2>2
    <3>2. Cardinality(MappedTo(t, g)) = Cardinality(MappedTo(m, g)) + 1
      BY <1>5, <2>2, MappedFinite, OneMore
    <3>3. g \notin m.free_frame_list /\ TablesAt(m, g) = {}
      BY <2>1, <2>2 DEF OneUse
    <3>4. t.references[g] > 0
      BY <2>1, <3>1
    <3> QED BY <1>2, <1>3, <2>1, <3>1, <3>2, <3>3, <3>4 DEF OneUse
  <2>3. CASE g # f
    <3>1. t.references[g] = m.references[g]
      BY <1>2, <1>3, <2>3
    <3> QED BY <1>2, <1>3, <1>6, <2>1, <2>3, <3>1 DEF OneUse
  <2> QED BY <2>2, <2>3
<1>8. \A q \in Page : is_mapped(t, q) => has_table(t, q)
  BY <1>3, <1>4 DEF is_mapped, Accounted
<1>9. Accounted(t)
  BY <1>2, <1>7, <1>8 DEF Accounted
<1> QED BY <1>9 DEF t

LEMMA UnmapKeepsAccount ==
  ASSUME NEW m, Accounted(m), NEW p \in Page, is_mapped(m, p)
  PROVE  Accounted(unmap_frame(m, p))
<1> DEFINE t == unmap_frame(m, p)
           f == frame_at(m, p)
<1>1. m \in Memory
  BY DEF Accounted
<1>2. /\ t \in Memory /\ t.page_directory = m.page_directory
      /\ t.page_table = [m.page_table EXCEPT ![p] = NoEntry]
      /\ t.references = [m.references EXCEPT ![f] = @ - 1]
      /\ t.free_frame_list = IF m.references[f] = 1 THEN m.free_frame_list \cup {f} ELSE m.free_frame_list
  BY UnmapFields
<1>3. /\ f \in Frame /\ m.references[f] \in Nat \ {0} /\ p \in MappedTo(m, f)
      /\ f \notin m.free_frame_list /\ TablesAt(m, f) = {}
  BY MappedFrame
<1>4. \A q : frame_at(m, q) = m.page_table[q].frame
  BY DEF frame_at
<1>5. m.page_table[p].frame = f
  BY DEF frame_at
<1> HIDE DEF t, f
<1>6. /\ m.references \in [Frame -> Nat] /\ DOMAIN m.page_table = Page
      /\ \A g : TablesAt(t, g) = TablesAt(m, g)
      /\ \A q : has_table(t, q) <=> has_table(m, q)
  BY <1>1, <1>2 DEF Memory, TablesAt, has_table
<1>7. /\ \A q \in Page : q # p => frame_at(t, q) = frame_at(m, q)
      /\ frame_at(t, p) = NONE /\ f # NONE
  BY <1>2, <1>3, <1>6, Numbers DEF frame_at, NoEntry
<1>8. MappedTo(t, f) = MappedTo(m, f) \ {p}
  BY <1>7 DEF MappedTo
<1>9. \A g \in Frame : g # f => MappedTo(t, g) = MappedTo(m, g)
  BY <1>4, <1>5, <1>7, Numbers DEF MappedTo
<1>10. ASSUME NEW g \in Frame PROVE t.references[g] = Cardinality(MappedTo(t, g)) /\ OneUse(t, g)
  <2>1. m.references[g] = Cardinality(MappedTo(m, g)) /\ OneUse(m, g) /\ m.references[g] \in Nat
    BY <1>6 DEF Accounted
  <2>2. CASE g = f
    <3>1. t.references[g] = m.references[g] - 1
      BY <1>2, <1>6, <2>2
    <3>2. Cardinality(MappedTo(t, g)) = Cardinality(MappedTo(m, g)) - 1
      BY <1>3, <1>8, <2>2, MappedFinite, OneLess
    <3>3. TablesAt(t, g) = {}
      BY <1>3, <1>6, <2>2
    <3>4. CASE m.references[f] = 1
      <4>1. g \in t.free_frame_list /\ t.references[g] = 0
        BY <1>2, <2>2, <3>1, <3>4
      <4> QED BY <2>1, <3>1, <3>2, <3>3, <4>1 DEF OneUse
    <3>5. CASE m.references[f] # 1
      <4>1. g \notin t.free_frame_list
        BY <1>2, <1>3, <2>2, <3>5
      <4>2. t.references[g] > 0
        BY <1>3, <2>2, <3>1, <3>5
      <4> QED BY <2>1, <3>1, <3>2, <3>3, <4>1, <4>2 DEF OneUse
    <3> QED BY <3>4, <3>5
  <2>3. CASE g # f
    <3>1. t.references[g] = m.references[g]
      BY <1>2, <1>6, <2>3
    <3>2. g \in t.free_frame_list <=> g \in m.free_frame_list
      BY <1>2, <2>3
    <3> QED BY <1>2, <1>6, <1>9, <2>1, <2>3, <3>1, <3>2 DEF OneUse
  <2> QED BY <2>2, <2>3
<1>11. \A q \in Page : is_mapped(t, q) => has_table(t, q)
  BY <1>6, <1>7 DEF is_mapped, Accounted
<1>12. Accounted(t)
  BY <1>2, <1>10, <1>11 DEF Accounted
<1> QED BY <1>12 DEF t
(***************************************************************************)
(* A frame that is taken from the list and mapped.                         *)
(***************************************************************************)
LEMMA FrameTaken ==
  ASSUME NEW m \in Memory, m.outcome = "ok", m.free_frame_list # {}
  PROVE  LET t == take_frame(m)
         IN /\ new_frame(m) \in m.free_frame_list /\ new_frame(m) \in Frame
            /\ t \in Memory /\ t.outcome = "ok" /\ SameMappings(m, t)
            /\ t.page_directory = m.page_directory
            /\ t.free_frame_list = m.free_frame_list \ {new_frame(m)}
<1> DEFINE f == new_frame(m)
           x == [m EXCEPT !.free_frame_list = @ \ {f}]
<1>1. m.free_frame_list \subseteq Frame /\ Frame \subseteq Nat
  BY Numbers DEF Memory
<1>2. f \in m.free_frame_list
  BY <1>1, MinInSet DEF new_frame
<1>3. take_frame(m) = x
  BY DEF take_frame
<1> HIDE DEF f
<1>4. /\ x \in Memory /\ x.outcome = "ok" /\ x.page_directory = m.page_directory
      /\ x.page_table = m.page_table /\ x.references = m.references /\ x.contents = m.contents
      /\ x.free_frame_list = m.free_frame_list \ {f}
  BY DEF Memory
<1> HIDE DEF x
<1> QED BY <1>1, <1>2, <1>3, <1>4 DEF SameMappings, f

LEMMA TakeAndMapKeepsAccount ==
  ASSUME NEW m, Accounted(m), m.outcome = "ok", NEW p \in Page, NEW perm \in Permission,
         ~is_mapped(m, p), has_table(m, p), m.free_frame_list # {}
  PROVE  LET t == map_frame(take_frame(m), new_frame(m), p, perm)
         IN /\ Accounted(t) /\ t.outcome = "ok" /\ new_frame(m) \in m.free_frame_list
            /\ t.page_table = [m.page_table EXCEPT ![p] = [frame |-> new_frame(m), perm |-> perm]]
            /\ t.contents = m.contents
<1> DEFINE u == take_frame(m)
           f == new_frame(m)
           t == map_frame(u, f, p, perm)
<1>1. m \in Memory
  BY DEF Accounted
<1>2. /\ f \in m.free_frame_list /\ f \in Frame /\ u \in Memory /\ u.outcome = "ok"
      /\ u.page_table = m.page_table /\ u.references = m.references /\ u.contents = m.contents
      /\ u.page_directory = m.page_directory /\ u.free_frame_list = m.free_frame_list \ {f}
  BY <1>1, FrameTaken DEF SameMappings
<1> HIDE DEF u, f
<1>3. /\ t \in Memory /\ t.outcome = "ok" /\ t.page_directory = m.page_directory
      /\ t.page_table = [m.page_table EXCEPT ![p] = [frame |-> f, perm |-> perm]]
      /\ t.references = [m.references EXCEPT ![f] = @ + 1]
      /\ t.free_frame_list = m.free_frame_list \ {f} /\ t.contents = m.contents
  BY <1>2, MapFields
<1> HIDE DEF t
<1>4. /\ m.references \in [Frame -> Nat] /\ DOMAIN m.page_table = Page
      /\ \A g : TablesAt(t, g) = TablesAt(m, g)
      /\ \A q : has_table(t, q) <=> has_table(m, q)
  BY <1>1, <1>3 DEF Memory, TablesAt, has_table
<1>5. /\ \A q \in Page : q # p => frame_at(t, q) = frame_at(m, q)
      /\ frame_at(t, p) = f /\ frame_at(m, p) = NONE /\ f # NONE
  BY <1>2, <1>3, <1>4, Numbers DEF frame_at, is_mapped
<1>6. MappedTo(t, f) = MappedTo(m, f) \cup {p} /\ p \notin MappedTo(m, f)
  BY <1>5 DEF MappedTo
<1>7. \A g \in Frame : g # f => MappedTo(t, g) = MappedTo(m, g)
  BY <1>5, Numbers DEF MappedTo
<1>8. ASSUME NEW g \in Frame PROVE t.references[g] = Cardinality(MappedTo(t, g)) /\ OneUse(t, g)
  <2>1. m.references[g] = Cardinality(MappedTo(m, g)) /\ OneUse(m, g) /\ m.references[g] \in Nat
    BY <1>4 DEF Accounted
  <2>2. CASE g = f
    <3>1. t.references[g] = m.references[g] + 1
      BY <1>3, <1>4, <2>2
    <3>2. Cardinality(MappedTo(t, g)) = Cardinality(MappedTo(m, g)) + 1
      BY <1>6, <2>2, MappedFinite, OneMore
    <3>3. g \notin t.free_frame_list /\ TablesAt(m, g) = {}
      BY <1>2, <1>3, <2>1, <2>2 DEF OneUse
    <3>4. t.references[g] > 0
      BY <2>1, <3>1
    <3> QED BY <1>4, <2>1, <3>1, <3>2, <3>3, <3>4 DEF OneUse
  <2>3. CASE g # f
    <3>1. t.references[g] = m.references[g]
      BY <1>3, <1>4, <2>3
    <3>2. g \in t.free_frame_list <=> g \in m.free_frame_list
      BY <1>3, <2>3
    <3> QED BY <1>3, <1>4, <1>7, <2>1, <2>3, <3>1, <3>2 DEF OneUse
  <2> QED BY <2>2, <2>3
<1>9. \A q \in Page : is_mapped(t, q) => has_table(t, q)
  BY <1>4, <1>5 DEF is_mapped, Accounted
<1>10. Accounted(t)
  BY <1>3, <1>8, <1>9 DEF Accounted
<1> QED BY <1>2, <1>3, <1>10 DEF t, f, u
-----------------------------------------------------------------------------
(***************************************************************************)
(* One round of each loop.                                                 *)
(***************************************************************************)
OnlyAt(m, t, p) == \A q \in Page : q # p => t.page_table[q] = m.page_table[q]

(* No other page shows the frame of p. *)
Unshared(m, p) == \A q \in Page : q # p => frame_at(m, q) # frame_at(m, p)

LEMMA PageAllocated ==
  ASSUME NEW m, Accounted(m), m.outcome = "ok", NEW p \in Page, NEW perm \in Permission,
         ~is_mapped(m, p)
  PROVE  LET t == allocate_page(m, p, perm)
         IN /\ Accounted(t) /\ OnlyAt(m, t, p) /\ t.contents = m.contents
            /\ \/ t.outcome = "ok" /\ is_mapped(t, p) /\ t.page_table[p].perm = perm /\ Unshared(t, p)
               \/ t.outcome = "panic" /\ t.page_table = m.page_table
<1> DEFINE x == with_table(m, p)
           u == take_frame(x)
           t == allocate_page(m, p, perm)
           Done(y) == /\ Accounted(y) /\ OnlyAt(m, y, p) /\ y.contents = m.contents
                      /\ \/ y.outcome = "ok" /\ is_mapped(y, p) /\ y.page_table[p].perm = perm /\ Unshared(y, p)
                         \/ y.outcome = "panic" /\ y.page_table = m.page_table
<1>1. /\ Accounted(x) /\ x.page_table = m.page_table /\ x.contents = m.contents
      /\ (x.outcome = "ok" /\ has_table(x, p)) \/ x.outcome = "panic"
  BY TableMade DEF SameMappings
<1>2. ~is_mapped(x, p)
  BY <1>1 DEF is_mapped, frame_at
<1> HIDE DEF x
<1>3. ASSUME x.outcome = "panic" PROVE Done(t)
  <2>1. t = x
    BY <1>3 DEF allocate_page, x
  <2> QED BY <1>1, <1>3, <2>1 DEF OnlyAt
<1>4. ASSUME x.outcome = "ok", x.free_frame_list = {} PROVE Done(t)
  <2>1. u = Stopped(x)
    BY <1>4 DEF take_frame, Stopped
  <2>2. Accounted(u) /\ u.outcome = "panic" /\ SameMappings(x, u)
    BY <1>1, <2>1, StoppedAccounted, ZenonT(30) DEF Stopped
  <2>3. t = u
    BY <1>4, <2>2 DEF allocate_page, x
  <2> HIDE DEF u, t
  <2> QED BY <1>1, <2>2, <2>3 DEF OnlyAt, SameMappings
<1>5. ASSUME x.outcome = "ok", x.free_frame_list # {} PROVE Done(t)
  <2>1. x \in Memory
    BY <1>1 DEF Accounted
  <2>2. u.outcome = "ok"
    BY <1>5, <2>1, FrameTaken
  <2>3. t = map_frame(u, new_frame(x), p, perm)
    BY <1>5, <2>2 DEF allocate_page, x
  <2>4. has_table(x, p)
    BY <1>1, <1>5
  <2>5. /\ Accounted(t) /\ t.outcome = "ok" /\ new_frame(x) \in x.free_frame_list
        /\ t.page_table = [x.page_table EXCEPT ![p] = [frame |-> new_frame(x), perm |-> perm]]
        /\ t.contents = x.contents
    BY <1>1, <1>2, <1>5, <2>3, <2>4, TakeAndMapKeepsAccount
  <2>6. new_frame(x) # NONE /\ DOMAIN x.page_table = Page
    BY <2>1, <2>5, Numbers DEF Memory
  <2> HIDE DEF t, u
  <2>7. is_mapped(t, p) /\ t.page_table[p].perm = perm
    <3>1. t.page_table[p] = [frame |-> new_frame(x), perm |-> perm]
      BY <2>5, <2>6
    <3>2. t.page_table[p].frame = new_frame(x) /\ t.page_table[p].perm = perm
      BY <3>1
    <3> HIDE DEF x
    <3>3. is_mapped(t, p)
      BY <2>6, <3>2, Zenon DEF is_mapped, frame_at
    <3> QED BY <3>2, <3>3
  <2>8. OnlyAt(m, t, p)
    BY <1>1, <2>5, <2>6 DEF OnlyAt
  <2>9. Unshared(t, p)
    <3> SUFFICES ASSUME NEW q \in Page, q # p PROVE frame_at(t, q) # frame_at(t, p)
      BY DEF Unshared
    <3>1. t.page_table[q] = x.page_table[q] /\ t.page_table[p].frame = new_frame(x)
      BY <2>5, <2>6
    <3>2. CASE is_mapped(x, q)
      <4>1. frame_at(x, q) \notin x.free_frame_list
        BY <1>1, <3>2, MappedFrame
      <4> QED BY <2>5, <3>1, <4>1 DEF frame_at
    <3>3. CASE ~is_mapped(x, q)
      BY <2>6, <3>1, <3>3 DEF frame_at, is_mapped
    <3> QED BY <3>2, <3>3
  <2> QED BY <1>1, <2>5, <2>7, <2>8, <2>9
<1>6. x.outcome = "panic" \/ x.outcome = "ok"
  BY <1>1
<1>7. Done(t)
  <2> HIDE DEF t, Done
  <2> QED BY <1>3, <1>4, <1>5, <1>6
<1> QED BY <1>7

(***************************************************************************)
(* cut_page(), share_page(): the page moves, or is shown twice; without a  *)
(* frame for the table nothing has happened to the pages.                  *)
(***************************************************************************)
Moved(m, s, d) == [m.page_table EXCEPT ![d] = m.page_table[s], ![s] = NoEntry]

LEMMA PageCut ==
  ASSUME NEW m, Accounted(m), m.outcome = "ok", NEW s \in Page, NEW d \in Page,
         is_mapped(m, s), ~is_mapped(m, d)
  PROVE  LET t == cut_page(m, s, d)
         IN /\ Accounted(t) /\ t.contents = m.contents
            /\ \/ t.outcome = "ok" /\ t.page_table = Moved(m, s, d)
               \/ t.outcome = "panic" /\ t.page_table = m.page_table
<1> DEFINE x == with_table(m, d)
           f == frame_at(x, s)
           q == x.page_table[s].perm
           u == map_frame(x, f, d, q)
           t == cut_page(m, s, d)
           Done(y) == /\ Accounted(y) /\ y.contents = m.contents
                      /\ \/ y.outcome = "ok" /\ y.page_table = Moved(m, s, d)
                         \/ y.outcome = "panic" /\ y.page_table = m.page_table
<1>1. /\ Accounted(x) /\ x.page_table = m.page_table /\ x.contents = m.contents
      /\ (x.outcome = "ok" /\ has_table(x, d)) \/ x.outcome = "panic"
  BY TableMade DEF SameMappings
<1>2. is_mapped(x, s) /\ ~is_mapped(x, d)
  BY <1>1 DEF is_mapped, frame_at
<1>3. ASSUME x.outcome = "panic" PROVE Done(t)
  <2>1. t = x
    BY <1>3 DEF cut_page
  <2> HIDE DEF x, t
  <2> QED BY <1>1, <1>3, <2>1
<1>4. ASSUME x.outcome = "ok" PROVE Done(t)
  <2>1. t = unmap_frame(u, s)
    BY <1>4 DEF cut_page
  <2> HIDE DEF x, t
  <2>2. x \in Memory /\ x.page_table \in [Page -> Entry \cup {NoEntry}]
    BY <1>1 DEF Accounted, Memory
  <2>3. /\ f \in Frame /\ x.references[f] > 0
        /\ x.page_table[s] \in Entry
    <3>1. frame_at(x, s) \in Frame /\ x.references[frame_at(x, s)] \in Nat \ {0}
      BY <1>1, <1>2, MappedFrame
    <3>2. x.page_table[s] \in Entry
      BY <1>2, <2>2 DEF is_mapped, frame_at, NoEntry, NONE
    <3> QED BY <3>1, <3>2
  <2>4. q \in Permission /\ x.page_table[s] = [frame |-> f, perm |-> q]
    BY <2>3 DEF Entry, Permission, frame_at
  <2> HIDE DEF f, q
  <2>5. Accounted(u)
    BY <1>1, <1>2, <1>4, <2>3, <2>4, MapKeepsAccount
  <2>11. /\ u.outcome = "ok" /\ u.contents = x.contents
         /\ u.page_table = [x.page_table EXCEPT ![d] = [frame |-> f, perm |-> q]]
    <3>1. /\ u \in Memory /\ u.outcome = x.outcome /\ u.page_directory = x.page_directory
          /\ u.page_table = [x.page_table EXCEPT ![d] = [frame |-> f, perm |-> q]]
          /\ u.references = [x.references EXCEPT ![f] = @ + 1]
          /\ u.free_frame_list = x.free_frame_list /\ u.contents = x.contents
      BY <2>2, <2>3, <2>4, MapFields
    <3> QED BY <1>4, <3>1
  <2> HIDE DEF u
  <2>6. /\ u.outcome = "ok" /\ u.contents = x.contents
        /\ u.page_table = [x.page_table EXCEPT ![d] = x.page_table[s]]
    BY <2>4, <2>11
  <2> HIDE DEF u
  <2>7. s # d
    BY <1>2
  <2>8. is_mapped(u, s)
    BY <1>2, <2>2, <2>6, <2>7 DEF is_mapped, frame_at
  <2>9. /\ Accounted(t) /\ t.outcome = "ok" /\ t.contents = u.contents
        /\ t.page_table = [u.page_table EXCEPT ![s] = NoEntry]
    BY <2>1, <2>5, <2>6, <2>8, UnmapFields, UnmapKeepsAccount
  <2>10. t.page_table = Moved(m, s, d)
    BY <1>1, <2>6, <2>9 DEF Moved
  <2> QED BY <1>1, <2>6, <2>9, <2>10
<1>5. Done(t)
  <2> HIDE DEF t, Done, x
  <2> QED BY <1>1, <1>3, <1>4
<1> QED BY <1>5

LEMMA PageShared ==
  ASSUME NEW m, Accounted(m), m.outcome = "ok", NEW s \in Page, NEW d \in Page, NEW perm \in Permission,
         is_mapped(m, s), ~is_mapped(m, d)
  PROVE  LET t == share_page(m, s, d, perm)
         IN /\ Accounted(t) /\ t.contents = m.contents /\ FramesBecameTables(m, t)
            /\ \/ /\ t.outcome = "ok"
                  /\ t.page_table = [m.page_table EXCEPT ![d] = [frame |-> frame_at(m, s), perm |-> perm]]
               \/ t.outcome = "panic" /\ t.page_table = m.page_table
<1> DEFINE x == with_table(m, d)
           f == frame_at(x, s)
           u == map_frame(x, f, d, perm)
           t == share_page(m, s, d, perm)
           Done(y) == /\ Accounted(y) /\ y.contents = m.contents /\ FramesBecameTables(m, y)
                      /\ \/ /\ y.outcome = "ok"
                            /\ y.page_table = [m.page_table EXCEPT ![d] = [frame |-> frame_at(m, s), perm |-> perm]]
                         \/ y.outcome = "panic" /\ y.page_table = m.page_table
<1>1. /\ Accounted(x) /\ x.page_table = m.page_table /\ x.contents = m.contents
      /\ FramesBecameTables(m, x)
      /\ (x.outcome = "ok" /\ has_table(x, d)) \/ x.outcome = "panic"
  BY TableMade DEF SameMappings
<1>2. is_mapped(x, s) /\ ~is_mapped(x, d)
  BY <1>1 DEF is_mapped, frame_at
<1>3. ASSUME x.outcome = "panic" PROVE Done(t)
  <2>1. t = x
    BY <1>3 DEF share_page
  <2> HIDE DEF x, t
  <2> QED BY <1>1, <1>3, <2>1
<1>4. ASSUME x.outcome = "ok" PROVE Done(t)
  <2>1. t = u
    BY <1>4 DEF share_page
  <2> HIDE DEF x, t
  <2>2. x \in Memory
    BY <1>1 DEF Accounted, Memory
  <2>6. f = frame_at(m, s)
    BY <1>1 DEF frame_at
  <2>3. f \in Frame /\ x.references[f] > 0
    <3>1. frame_at(x, s) \in Frame /\ x.references[frame_at(x, s)] \in Nat \ {0}
      BY <1>1, <1>2, MappedFrame
    <3> QED BY <3>1
  <2> HIDE DEF f
  <2>4. Accounted(u)
    BY <1>1, <1>2, <1>4, <2>3, MapKeepsAccount
  <2>5. /\ u.outcome = "ok" /\ u.contents = x.contents
        /\ u.free_frame_list = x.free_frame_list /\ u.page_directory = x.page_directory
        /\ u.page_table = [x.page_table EXCEPT ![d] = [frame |-> f, perm |-> perm]]
    <3>1. /\ u \in Memory /\ u.outcome = x.outcome /\ u.page_directory = x.page_directory
          /\ u.page_table = [x.page_table EXCEPT ![d] = [frame |-> f, perm |-> perm]]
          /\ u.references = [x.references EXCEPT ![f] = @ + 1]
          /\ u.free_frame_list = x.free_frame_list /\ u.contents = x.contents
      BY <2>2, <2>3, MapFields
    <3> QED BY <1>4, <3>1
  <2> HIDE DEF u
  <2>7. FramesBecameTables(m, u)
    BY <1>1, <2>5 DEF FramesBecameTables, Tables
  <2> QED BY <1>1, <2>1, <2>4, <2>5, <2>6, <2>7
<1>5. Done(t)
  <2> HIDE DEF t, Done, x
  <2> QED BY <1>1, <1>3, <1>4
<1> QED BY <1>5

(***************************************************************************)
(* prepare_page(): the page of the destination is there; what is mapped    *)
(* keeps its frame, what could be written still can, and a page whose      *)
(* frame nobody shares keeps it for itself.                                *)
(***************************************************************************)
Prepares(m, t) ==
  /\ \A q \in Page : is_mapped(m, q) => frame_at(t, q) = frame_at(m, q)
  /\ \A q \in Page : ~is_read_only(m, q) => ~is_read_only(t, q)
  /\ \A q \in Page : (is_mapped(m, q) => Unshared(m, q)) => (is_mapped(t, q) => Unshared(t, q))

LEMMA PermissionAdded ==
  ASSUME NEW m, Accounted(m), NEW d \in Page, is_mapped(m, d), NEW user \in Permission
  PROVE  LET t == [m EXCEPT !.page_table[d].perm = @ \cup user]
         IN /\ Accounted(t) /\ t.outcome = m.outcome /\ t.contents = m.contents
            /\ t.page_table = [m.page_table EXCEPT ![d] = [frame |-> frame_at(m, d), perm |-> m.page_table[d].perm \cup user]]
<1> DEFINE f == frame_at(m, d)
           q == m.page_table[d].perm
           new == [frame |-> f, perm |-> q \cup user]
           table == [m.page_table EXCEPT ![d] = new]
           t == [m EXCEPT !.page_table = table]
<1>1. m \in Memory /\ m.page_table \in [Page -> Entry \cup {NoEntry}]
  BY DEF Accounted, Memory
<1>2. m.page_table[d] \in Entry
  BY <1>1 DEF is_mapped, frame_at, NoEntry, NONE
<1>3. f \in Frame /\ q \in Permission /\ m.page_table[d] = [frame |-> f, perm |-> q]
  BY <1>2 DEF Entry, Permission, frame_at
<1>4. [m.page_table[d] EXCEPT !.perm = @ \cup user] = new
  <2>1. \A r \in Entry : [r EXCEPT !.perm = @ \cup user] = [frame |-> r.frame, perm |-> r.perm \cup user]
    BY DEF Entry
  <2> QED BY <1>2, <2>1 DEF frame_at
<1>5. [m EXCEPT !.page_table[d].perm = @ \cup user] = t
  BY <1>1, <1>4 DEF Memory
<1> HIDE DEF f, q
<1>6. new \in Entry
  BY <1>3 DEF Entry, Permission
<1> HIDE DEF new
<1>7. table \in [Page -> Entry \cup {NoEntry}]
  BY <1>1, <1>6
<1> HIDE DEF table
<1>8. /\ t \in Memory /\ t.outcome = m.outcome /\ t.page_directory = m.page_directory
      /\ t.page_table = table /\ t.references = m.references
      /\ t.free_frame_list = m.free_frame_list /\ t.contents = m.contents
  BY <1>1, <1>7 DEF Memory
<1> HIDE DEF t
<1>9. \A r \in Page : frame_at(t, r) = frame_at(m, r)
  BY <1>1, <1>3, <1>8 DEF frame_at, table, new
<1>10. /\ \A g : MappedTo(t, g) = MappedTo(m, g) /\ TablesAt(t, g) = TablesAt(m, g)
       /\ \A r \in Page : (is_mapped(t, r) <=> is_mapped(m, r)) /\ (has_table(t, r) <=> has_table(m, r))
  BY <1>8, <1>9 DEF MappedTo, TablesAt, is_mapped, has_table
<1>11. \A g \in Frame : OneUse(t, g) <=> OneUse(m, g)
  BY <1>8, <1>10 DEF OneUse
<1>12. Accounted(t)
  BY <1>8, <1>10, <1>11 DEF Accounted
<1> QED BY <1>5, <1>8, <1>12 DEF table, new, f, q

LEMMA PagePrepared ==
  ASSUME NEW m, Accounted(m), m.outcome = "ok", NEW s \in Page, NEW d \in Page
  PROVE  LET t == prepare_page(m, s, d)
         IN /\ Accounted(t) /\ t.contents = m.contents /\ Prepares(m, t)
            /\ (t.outcome = "ok" /\ is_mapped(t, d)) \/ t.outcome = "panic"
<1> DEFINE user == m.page_table[s].perm \cap {"USER"}
           t == prepare_page(m, s, d)
           Done(y) == /\ Accounted(y) /\ y.contents = m.contents /\ Prepares(m, y)
                      /\ (y.outcome = "ok" /\ is_mapped(y, d)) \/ y.outcome = "panic"
<1>1. user \in Permission /\ user \cup {"WRITEABLE"} \in Permission
  BY DEF Permission
<1>2. m \in Memory /\ DOMAIN m.page_table = Page
  BY DEF Accounted, Memory
<1>3. ASSUME is_mapped(m, d) PROVE Done(t)
  <2>1. t = [m EXCEPT !.page_table[d].perm = @ \cup user]
    BY <1>3 DEF prepare_page
  <2> HIDE DEF user
  <2>2. /\ Accounted(t) /\ t.outcome = m.outcome /\ t.contents = m.contents
        /\ t.page_table = [m.page_table EXCEPT ![d] = [frame |-> frame_at(m, d), perm |-> m.page_table[d].perm \cup user]]
    BY <1>1, <1>3, <2>1, PermissionAdded
  <2> HIDE DEF t
  <2>3. \A q \in Page : frame_at(t, q) = frame_at(m, q)
    BY <1>2, <2>2 DEF frame_at
  <2>4. \A q \in Page : "WRITEABLE" \in m.page_table[q].perm => "WRITEABLE" \in t.page_table[q].perm
    BY <1>2, <2>2
  <2>5. Prepares(m, t)
    BY <2>3, <2>4 DEF Prepares, is_mapped, is_read_only, Unshared
  <2>6. is_mapped(t, d)
    BY <1>3, <2>3 DEF is_mapped
  <2> QED BY <2>2, <2>5, <2>6
<1>4. ASSUME ~is_mapped(m, d) PROVE Done(t)
  <2>1. t = allocate_page(m, d, user \cup {"WRITEABLE"})
    BY <1>4 DEF prepare_page
  <2> DEFINE perm == user \cup {"WRITEABLE"}
  <2>2. "WRITEABLE" \in perm
    OBVIOUS
  <2> HIDE DEF perm
  <2>3. /\ Accounted(t) /\ OnlyAt(m, t, d) /\ t.contents = m.contents
        /\ \/ t.outcome = "ok" /\ is_mapped(t, d) /\ t.page_table[d].perm = perm /\ Unshared(t, d)
           \/ t.outcome = "panic" /\ t.page_table = m.page_table
    BY <1>1, <1>4, <2>1, PageAllocated, SMTT(30) DEF perm
  <2> HIDE DEF t
  <2>4. CASE t.outcome = "panic" /\ t.page_table = m.page_table
    <3>1. Prepares(m, t)
      BY <2>4 DEF Prepares, is_mapped, is_read_only, Unshared, frame_at
    <3> QED BY <2>3, <2>4, <3>1
  <2>5. CASE t.outcome = "ok" /\ is_mapped(t, d) /\ t.page_table[d].perm = perm /\ Unshared(t, d)
    <3>1. \A q \in Page : q # d => frame_at(t, q) = frame_at(m, q) /\ t.page_table[q].perm = m.page_table[q].perm
      BY <2>3 DEF OnlyAt, frame_at
    <3>2. \A q \in Page : is_mapped(m, q) => frame_at(t, q) = frame_at(m, q)
      BY <1>4, <3>1
    <3>3. \A q \in Page : ~is_read_only(m, q) => ~is_read_only(t, q)
      BY <2>2, <2>5, <3>1 DEF is_read_only, is_mapped
    <3>4. ASSUME NEW q \in Page, is_mapped(m, q) => Unshared(m, q), is_mapped(t, q) PROVE Unshared(t, q)
      <4>1. CASE q = d
        BY <2>5, <4>1
      <4>2. CASE q # d
        <5>1. is_mapped(m, q) /\ frame_at(t, q) = frame_at(m, q)
          BY <3>1, <3>4, <4>2 DEF is_mapped
        <5>2. Unshared(m, q)
          BY <3>4, <5>1
        <5>3. frame_at(t, d) # frame_at(t, q)
          BY <2>5, <4>2 DEF Unshared
        <5> QED BY <3>1, <5>1, <5>2, <5>3 DEF Unshared
      <4> QED BY <4>1, <4>2
    <3>5. Prepares(m, t)
      BY <3>2, <3>3, <3>4 DEF Prepares
    <3> QED BY <2>3, <2>5, <3>5
  <2> QED BY <2>3, <2>4, <2>5
<1>5. Done(t)
  <2> HIDE DEF t, Done
  <2> QED BY <1>3, <1>4
<1> QED BY <1>5

(***************************************************************************)
(* copy_unit(): one unit of one frame, or a fault.                         *)
(***************************************************************************)
SameFrames(m, t) ==
  /\ t.page_table = m.page_table /\ t.page_directory = m.page_directory
  /\ t.references = m.references /\ t.free_frame_list = m.free_frame_list

LEMMA SameFramesAccounted ==
  ASSUME NEW m, Accounted(m), NEW t \in Memory, SameFrames(m, t)
  PROVE  Accounted(t)
<1>1. /\ \A f : MappedTo(t, f) = MappedTo(m, f) /\ TablesAt(t, f) = TablesAt(m, f)
      /\ \A p : (is_mapped(t, p) <=> is_mapped(m, p)) /\ (has_table(t, p) <=> has_table(m, p))
  BY DEF MappedTo, frame_at, is_mapped, has_table, SameFrames, TablesAt
<1>2. \A f \in Frame : OneUse(t, f) <=> OneUse(m, f)
  BY <1>1 DEF OneUse, SameFrames
<1> QED BY <1>1, <1>2 DEF Accounted, SameFrames

Writable(m, p) == is_mapped(m, p) /\ ~is_read_only(m, p)

Written(m, a, v) ==
  [m.contents EXCEPT ![frame_at(m, ROUNDDOWN(a))]
     = [m.contents[frame_at(m, ROUNDDOWN(a))] EXCEPT ![a % PAGE_SIZE] = v]]

LEMMA UnitCopied ==
  ASSUME NEW m, Accounted(m), m.outcome = "ok", NEW source, NEW dest,
         ROUNDDOWN(source) \in Page, source % PAGE_SIZE \in Unit, ROUNDDOWN(dest) \in Page
  PROVE  LET t == copy_unit(m, source, dest)
         IN /\ Accounted(t) /\ SameFrames(m, t)
            /\ \/ /\ t.outcome = "ok" /\ Writable(m, ROUNDDOWN(dest))
                  /\ t.contents = Written(m, dest, unit_at(m, source))
               \/ t.outcome = "fault" /\ t.contents = m.contents
<1> DEFINE p == ROUNDDOWN(dest)
           f == frame_at(m, p)
           u == dest % PAGE_SIZE
           v == unit_at(m, source)
           t == copy_unit(m, source, dest)
           Done(y) == /\ Accounted(y) /\ SameFrames(m, y)
                      /\ \/ y.outcome = "ok" /\ Writable(m, p) /\ y.contents = Written(m, dest, v)
                         \/ y.outcome = "fault" /\ y.contents = m.contents
<1>1. m \in Memory
  BY DEF Accounted
<1>2. ASSUME is_mapped(m, ROUNDDOWN(source)), Writable(m, p) PROVE Done(t)
  <2>1. t = [m EXCEPT !.contents[f][u] = v]
    BY <1>2 DEF copy_unit, Writable
  <2>2. v \in Nat
    <3>1. frame_at(m, ROUNDDOWN(source)) \in Frame
      BY <1>2, MappedFrame
    <3> QED BY <1>1, <3>1 DEF Memory, unit_at
  <2>3. f \in Frame
    BY <1>2, MappedFrame DEF Writable
  <2> DEFINE new == Written(m, dest, v)
  <2>4. new = [m.contents EXCEPT ![f] = [m.contents[f] EXCEPT ![u] = v]]
    BY DEF Written
  <2> HIDE DEF f, u, v, new
  <2>5. new \in [Frame -> [Unit -> Nat]]
    BY <1>1, <2>2, <2>3, <2>4 DEF Memory
  <2>6. t = [m EXCEPT !.contents = new]
    <3>1. m.contents[f] \in [Unit -> Nat] /\ m.contents \in [Frame -> [Unit -> Nat]]
      BY <1>1, <2>3 DEF Memory
    <3> QED BY <1>1, <2>1, <2>4, <3>1 DEF Memory
  <2> HIDE DEF t
  <2>7. t \in Memory /\ t.outcome = "ok" /\ t.contents = new /\ SameFrames(m, t)
    BY <1>1, <2>5, <2>6 DEF Memory, SameFrames
  <2>8. Accounted(t)
    BY <2>7, SameFramesAccounted
  <2> QED BY <1>2, <2>7, <2>8 DEF new
<1>3. ASSUME ~(is_mapped(m, ROUNDDOWN(source)) /\ Writable(m, p)) PROVE Done(t)
  <2>1. t = [m EXCEPT !.outcome = "fault"]
    BY <1>3 DEF copy_unit, Writable
  <2> HIDE DEF t
  <2>2. t \in Memory /\ t.outcome = "fault" /\ t.contents = m.contents /\ SameFrames(m, t)
    BY <1>1, <2>1 DEF Memory, SameFrames
  <2> QED BY <2>2, SameFramesAccounted
<1>4. Done(t)
  <2> HIDE DEF t, Done
  <2> QED BY <1>2, <1>3
<1> QED BY <1>4
-----------------------------------------------------------------------------
(***************************************************************************)
(* Addresses and pages.                                                    *)
(***************************************************************************)
LEMMA Division ==
  ASSUME NEW a \in Nat, NEW P \in Nat \ {0}
  PROVE  a \div P \in Nat /\ (a \div P) * P <= a /\ a < (a \div P + 1) * P
BY SMT

LEMMA DivisionMonotone ==
  ASSUME NEW a \in Nat, NEW b \in Nat, a <= b, NEW P \in Nat \ {0}
  PROVE  a \div P <= b \div P
BY Division, SMT

LEMMA DivisionBelow ==
  ASSUME NEW a \in Nat, NEW q \in Nat, NEW P \in Nat \ {0}, a < (q + 1) * P
  PROVE  a \div P <= q
BY Division, SMT

LEMMA DivisionShift ==
  ASSUME NEW a \in Nat, NEW P \in Nat \ {0}, NEW k \in Nat
  PROVE  (a + k * P) \div P = a \div P + k
BY SMT

LEMMA DivisionUp ==
  ASSUME NEW a \in Nat \ {0}, NEW P \in Nat \ {0}
  PROVE  (a + P - 1) \div P = (a - 1) \div P + 1
BY SMT

LEMMA Remainder ==
  ASSUME NEW a \in Nat, NEW P \in Nat \ {0}
  PROVE  a % P \in 0 .. P - 1
OBVIOUS

LEMMA SamePlace ==
  ASSUME NEW a \in Nat, NEW b \in Nat, NEW P \in Nat \ {0}, a \div P = b \div P, a % P = b % P
  PROVE  a = b
OBVIOUS

LEMMA PageOfAddress ==
  ASSUME NEW a \in Address
  PROVE  a \in Nat /\ ROUNDDOWN(a) \in Page /\ a % PAGE_SIZE \in Unit
<1>1. a \in Nat /\ a < (MaxPage + 1) * PAGE_SIZE
  BY ChunkAssumption DEF Address
<1>2. ROUNDDOWN(a) \in Nat /\ ROUNDDOWN(a) <= MaxPage
  BY <1>1, ChunkAssumption, Division, DivisionBelow DEF ROUNDDOWN
<1>3. a % PAGE_SIZE \in Unit
  BY <1>1, ChunkAssumption, Remainder DEF Unit
<1> QED BY <1>1, <1>2, <1>3, ChunkAssumption DEF Page

LEMMA AddressOfPage ==
  ASSUME NEW p \in Page
  PROVE  p * PAGE_SIZE \in Address /\ ROUNDDOWN(p * PAGE_SIZE) = p
<1>1. PAGE_SIZE \in Nat \ {0} /\ p \in Nat /\ MaxPage \in Nat /\ p <= MaxPage
  BY ChunkAssumption DEF Page
<1>2. p * PAGE_SIZE \in Nat
  BY <1>1
<1>3. p * PAGE_SIZE + PAGE_SIZE <= (MaxPage + 1) * PAGE_SIZE
  BY <1>1, SMT
<1>4. p * PAGE_SIZE \in Address
  BY <1>1, <1>2, <1>3, SMT DEF Address
<1>5. (p * PAGE_SIZE) \div PAGE_SIZE = p
  BY <1>1
<1> QED BY <1>4, <1>5 DEF ROUNDDOWN

(***************************************************************************)
(* The pages of a range that is not empty: from the one of its first to    *)
(* the one of its last address.                                            *)
(***************************************************************************)
LEMMA PagesOfRange ==
  ASSUME NEW va \in Nat, NEW size \in Nat \ {0}
  PROVE  LET first == ROUNDDOWN(va)
             last == ROUNDDOWN(va + size - 1)
         IN /\ first \in Nat /\ last \in Nat /\ first <= last
            /\ ROUNDUP(va + size) - 1 = last /\ PagesFrom(va, size) = first .. last
            /\ IsFiniteSet(PagesFrom(va, size)) /\ Cardinality(PagesFrom(va, size)) = last - first + 1
            /\ \A i \in 0 .. size - 1 : va + i \in Nat /\ ROUNDDOWN(va + i) \in PagesFrom(va, size)
<1> DEFINE first == ROUNDDOWN(va)
           last == ROUNDDOWN(va + size - 1)
<1>1. PAGE_SIZE \in Nat \ {0}
  BY ChunkAssumption
<1>2. first \in Nat /\ last \in Nat /\ first <= last
  <2>1. va + size - 1 \in Nat /\ va <= va + size - 1
    OBVIOUS
  <2> QED BY <1>1, <2>1, Division, DivisionMonotone DEF ROUNDDOWN
<1>3. ROUNDUP(va + size) = last + 1
  <2>1. va + size \in Nat \ {0}
    OBVIOUS
  <2> QED BY <1>1, <2>1, DivisionUp DEF ROUNDUP, ROUNDDOWN
<1> HIDE DEF last
<1>4. ROUNDUP(va + size) - 1 = last
  BY <1>2, <1>3
<1>5. PagesFrom(va, size) = first .. last
  BY <1>4 DEF PagesFrom
<1>6. IsFiniteSet(first .. last) /\ Cardinality(first .. last) = last - first + 1
  <2> HIDE DEF first
  <2> QED BY <1>2, FS_Interval
<1>7. ASSUME NEW i \in 0 .. size - 1 PROVE va + i \in Nat /\ ROUNDDOWN(va + i) \in first .. last
  <2>1. va + i \in Nat /\ va <= va + i /\ va + i <= va + size - 1 /\ va + size - 1 \in Nat
    OBVIOUS
  <2>2. ROUNDDOWN(va + i) \in Nat /\ first <= ROUNDDOWN(va + i) /\ ROUNDDOWN(va + i) <= last
    BY <1>1, <2>1, Division, DivisionMonotone DEF ROUNDDOWN, last
  <2> HIDE DEF first
  <2> QED BY <1>2, <2>1, <2>2
<1> HIDE DEF first
<1> QED BY <1>2, <1>4, <1>5, <1>6, <1>7 DEF first, last
-----------------------------------------------------------------------------
(***************************************************************************)
(* The loops.  allocate_chunk(): only pages of the range change.           *)
(***************************************************************************)
LEMMA AllocateLoop ==
  ASSUME NEW m, Accounted(m), m.outcome = "ok", NEW d \in Nat, NEW n \in Nat, NEW perm \in Permission,
         \A k \in 0 .. n - 1 : d + k \in Page /\ ~is_mapped(m, d + k),
         NEW run, IsRun(run, [loop |-> "allocate", d |-> d, perm |-> perm], m, n)
  PROVE  Accounted(run[n]) /\ run[n].outcome \in {"ok", "panic"}
<1> DEFINE w == [loop |-> "allocate", d |-> d, perm |-> perm]
           Inv(x, k) == /\ Accounted(x) /\ x.outcome \in {"ok", "panic"}
                        /\ \A q \in Page : (q < d \/ q >= d + k) => x.page_table[q] = m.page_table[q]
           S == {k \in Nat : k <= n => Inv(run[k], k)}
<1>1. 0 \in S
  <2>1. run[0] = m
    BY DEF IsRun
  <2> HIDE DEF w
  <2> QED BY <2>1
<1>2. ASSUME NEW k \in Nat, k \in S PROVE k + 1 \in S
  <2> DEFINE x == run[k]
             y == run[k + 1]
  <2> SUFFICES ASSUME k + 1 <= n PROVE Inv(y, k + 1)
    OBVIOUS
  <2>1. Inv(x, k) /\ y = AfterRound(w, x, k) /\ d + k \in Page
    BY <1>2 DEF IsRun
  <2>2. ~is_mapped(m, d + k)
    OBVIOUS
  <2> HIDE DEF x, y
  <2>3. CASE x.outcome # "ok"
    <3>1. y = x
      BY <2>1, <2>3 DEF AfterRound
    <3>2. \A q \in Page : q >= d + (k + 1) => q >= d + k
      BY DEF Page
    <3> QED BY <2>1, <3>1, <3>2
  <2>4. CASE x.outcome = "ok"
    <3>1. y = allocate_page(x, d + k, perm)
      BY <2>1, <2>4 DEF AfterRound, Round
    <3>2. x.page_table[d + k] = m.page_table[d + k]
      BY <2>1
    <3>3. ~is_mapped(x, d + k)
      BY <2>2, <3>2 DEF is_mapped, frame_at
    <3>4. Accounted(y) /\ OnlyAt(x, y, d + k) /\ y.outcome \in {"ok", "panic"}
      BY <2>1, <2>4, <3>1, <3>3, PageAllocated
    <3>5. ASSUME NEW q \in Page, q < d \/ q >= d + (k + 1) PROVE y.page_table[q] = m.page_table[q]
      <4>1. q # d + k /\ (q < d \/ q >= d + k)
        BY <3>5 DEF Page
      <4> QED BY <2>1, <3>4, <4>1 DEF OnlyAt
    <3> QED BY <3>4, <3>5
  <2> QED BY <2>3, <2>4
<1> HIDE DEF S
<1>3. n \in S
  BY <1>1, <1>2, SetInduction
<1> QED BY <1>3 DEF S

(***************************************************************************)
(* cut_paste_pages(): after j pages, those are at the destination and the  *)
(* others at the source.                                                   *)
(***************************************************************************)
CutTable(m, s, d, j) ==
  [q \in Page |-> IF q - d \in 0 .. j - 1 THEN m.page_table[s + (q - d)]
                  ELSE IF q - s \in 0 .. j - 1 THEN NoEntry
                  ELSE m.page_table[q]]

LEMMA CutLoop ==
  ASSUME NEW m, Accounted(m), m.outcome = "ok", NEW s \in Nat, NEW d \in Nat, NEW n \in Nat,
         \A k \in 0 .. n - 1 : d + k \in Page /\ ~is_mapped(m, d + k),
         \A k \in 0 .. n - 1 : s + k \in Page /\ is_mapped(m, s + k),
         NEW run, IsRun(run, [loop |-> "cut", s |-> s, d |-> d], m, n)
  PROVE  /\ Accounted(run[n])
         /\ \E j \in 0 .. n : /\ run[n].page_table = CutTable(m, s, d, j)
                              /\ run[n].outcome = "panic" \/ (run[n].outcome = "ok" /\ j = n)
<1> DEFINE w == [loop |-> "cut", s |-> s, d |-> d]
           Inv(x, k) == /\ Accounted(x)
                        /\ \E j \in 0 .. k : /\ x.page_table = CutTable(m, s, d, j)
                                             /\ x.outcome = "panic" \/ (x.outcome = "ok" /\ j = k)
           S == {k \in Nat : k <= n => Inv(run[k], k)}
<1>1. 0 \in S
  <2>1. run[0] = m
    BY DEF IsRun
  <2>2. m.page_table = CutTable(m, s, d, 0)
    <3>1. DOMAIN m.page_table = Page /\ m.page_table = [q \in DOMAIN m.page_table |-> m.page_table[q]]
      BY DEF Accounted, Memory
    <3>2. \A q \in Page : q - d \notin 0 .. 0 - 1 /\ q - s \notin 0 .. 0 - 1
      BY DEF Page
    <3> QED BY <3>1, <3>2 DEF CutTable
  <2> HIDE DEF w
  <2> QED BY <2>1, <2>2
<1>2. ASSUME NEW k \in Nat, k \in S PROVE k + 1 \in S
  <2> DEFINE x == run[k]
             y == run[k + 1]
  <2> SUFFICES ASSUME k + 1 <= n PROVE Inv(y, k + 1)
    OBVIOUS
  <2>1. Inv(x, k) /\ y = AfterRound(w, x, k) /\ d + k \in Page /\ s + k \in Page
    BY <1>2 DEF IsRun
  <2>2. ~is_mapped(m, d + k) /\ is_mapped(m, s + k)
    OBVIOUS
  <2> HIDE DEF x, y
  <2>3. CASE x.outcome # "ok"
    <3>1. y = x
      BY <2>1, <2>3 DEF AfterRound
    <3>2. PICK j \in 0 .. k : x.page_table = CutTable(m, s, d, j) /\ x.outcome = "panic"
      BY <2>1, <2>3
    <3>3. j \in 0 .. k + 1
      OBVIOUS
    <3> QED BY <2>1, <3>1, <3>2, <3>3
  <2>4. CASE x.outcome = "ok"
    <3>1. y = cut_page(x, s + k, d + k)
      BY <2>1, <2>4 DEF AfterRound, Round
    <3>2. x.page_table = CutTable(m, s, d, k)
      BY <2>1, <2>4
    <3>3. x.page_table[d + k] = m.page_table[d + k] /\ x.page_table[s + k] = m.page_table[s + k]
      <4>1. (d + k) - d \notin 0 .. k - 1 /\ (s + k) - s \notin 0 .. k - 1
        OBVIOUS
      <4>2. (d + k) - s \notin 0 .. k - 1
        <5> SUFFICES ASSUME (d + k) - s \in 0 .. k - 1 PROVE FALSE
          OBVIOUS
        <5>1. (d + k) - s \in 0 .. n - 1 /\ s + ((d + k) - s) = d + k
          OBVIOUS
        <5>2. is_mapped(m, s + ((d + k) - s))
          BY <5>1
        <5> QED BY <2>2, <5>1, <5>2
      <4>3. (s + k) - d \notin 0 .. k - 1
        <5> SUFFICES ASSUME (s + k) - d \in 0 .. k - 1 PROVE FALSE
          OBVIOUS
        <5>1. (s + k) - d \in 0 .. n - 1 /\ d + ((s + k) - d) = s + k
          OBVIOUS
        <5>2. ~is_mapped(m, d + ((s + k) - d))
          BY <5>1
        <5> QED BY <2>2, <5>1, <5>2
      <4> QED BY <2>1, <3>2, <4>1, <4>2, <4>3 DEF CutTable
    <3>4. ~is_mapped(x, d + k) /\ is_mapped(x, s + k)
      BY <2>2, <3>3 DEF is_mapped, frame_at
    <3>5. /\ Accounted(y)
          /\ \/ y.outcome = "ok" /\ y.page_table = Moved(x, s + k, d + k)
             \/ y.outcome = "panic" /\ y.page_table = x.page_table
      BY <2>1, <2>4, <3>1, <3>4, PageCut
    <3>6. CASE y.outcome = "panic" /\ y.page_table = x.page_table
      BY <3>2, <3>5, <3>6
    <3>7. CASE y.outcome = "ok" /\ y.page_table = Moved(x, s + k, d + k)
      <4>1. s + k # d + k
        BY <2>2
      <4>2. y.page_table = [q \in Page |-> IF q = s + k THEN NoEntry
                                           ELSE IF q = d + k THEN m.page_table[s + k]
                                           ELSE x.page_table[q]]
        <5>1. DOMAIN x.page_table = Page
          BY <3>2 DEF CutTable
        <5> QED BY <2>1, <3>3, <3>7, <4>1, <5>1 DEF Moved
      <4>3. ASSUME NEW q \in Page PROVE y.page_table[q] = CutTable(m, s, d, k + 1)[q]
        <5>1. q \in Int
          BY DEF Page
        <5>2. CASE q = s + k
          <6>1. q - s \in 0 .. k + 1 - 1
            BY <5>2
          <6>2. q - d \notin 0 .. k + 1 - 1
            <7> SUFFICES ASSUME q - d \in 0 .. k + 1 - 1 PROVE FALSE
              OBVIOUS
            <7>1. q - d \in 0 .. n - 1 /\ d + (q - d) = q
              BY <5>1
            <7>2. ~is_mapped(m, d + (q - d))
              BY <7>1
            <7> QED BY <2>2, <5>2, <7>1, <7>2
          <6> QED BY <4>2, <5>2, <6>1, <6>2 DEF CutTable
        <5>3. CASE q = d + k
          <6>1. q - d \in 0 .. k + 1 - 1 /\ s + (q - d) = s + k
            BY <5>3
          <6> QED BY <4>1, <4>2, <5>3, <6>1 DEF CutTable
        <5>4. CASE q # s + k /\ q # d + k
          <6>1. (q - s \in 0 .. k + 1 - 1 <=> q - s \in 0 .. k - 1) /\ (q - d \in 0 .. k + 1 - 1 <=> q - d \in 0 .. k - 1)
            BY <5>1, <5>4
          <6> QED BY <3>2, <4>2, <5>4, <6>1 DEF CutTable
        <5> QED BY <5>2, <5>3, <5>4
      <4>4. y.page_table = CutTable(m, s, d, k + 1)
        BY <4>2, <4>3 DEF CutTable
      <4> QED BY <3>5, <3>7, <4>4
    <3> QED BY <3>5, <3>6, <3>7
  <2> QED BY <2>3, <2>4
<1> HIDE DEF S
<1>3. n \in S
  BY <1>1, <1>2, SetInduction
<1> QED BY <1>3 DEF S

(***************************************************************************)
(* share_chunk(): the first j pages of the destination show the frames of  *)
(* the source.                                                             *)
(***************************************************************************)
ShareTable(m, s, d, perm, j) ==
  [q \in Page |-> IF q - d \in 0 .. j - 1
                  THEN [frame |-> frame_at(m, s + (q - d)), perm |-> perm]
                  ELSE m.page_table[q]]

LEMMA TablesAddUp ==
  ASSUME NEW m, NEW x, NEW y, FramesBecameTables(m, x), FramesBecameTables(x, y)
  PROVE  FramesBecameTables(m, y)
BY DEF FramesBecameTables

LEMMA ShareLoop ==
  ASSUME NEW m, Accounted(m), m.outcome = "ok", NEW s \in Nat, NEW d \in Nat, NEW n \in Nat,
         NEW perm \in Permission,
         \A k \in 0 .. n - 1 : d + k \in Page /\ ~is_mapped(m, d + k),
         \A k \in 0 .. n - 1 : s + k \in Page /\ is_mapped(m, s + k),
         NEW run, IsRun(run, [loop |-> "share", s |-> s, d |-> d, perm |-> perm], m, n)
  PROVE  /\ Accounted(run[n]) /\ FramesBecameTables(m, run[n])
         /\ \E j \in 0 .. n : /\ run[n].page_table = ShareTable(m, s, d, perm, j)
                              /\ run[n].outcome = "panic" \/ (run[n].outcome = "ok" /\ j = n)
<1> DEFINE w == [loop |-> "share", s |-> s, d |-> d, perm |-> perm]
           Inv(x, k) == /\ Accounted(x) /\ FramesBecameTables(m, x)
                        /\ \E j \in 0 .. k : /\ x.page_table = ShareTable(m, s, d, perm, j)
                                             /\ x.outcome = "panic" \/ (x.outcome = "ok" /\ j = k)
           S == {k \in Nat : k <= n => Inv(run[k], k)}
<1>1. 0 \in S
  <2>1. run[0] = m
    BY DEF IsRun
  <2>2. m.page_table = ShareTable(m, s, d, perm, 0)
    <3>1. DOMAIN m.page_table = Page /\ m.page_table = [q \in DOMAIN m.page_table |-> m.page_table[q]]
      BY DEF Accounted, Memory
    <3>2. \A q \in Page : q - d \notin 0 .. 0 - 1
      BY DEF Page
    <3> QED BY <3>1, <3>2 DEF ShareTable
  <2>3. FramesBecameTables(m, m)
    BY DEF FramesBecameTables
  <2> HIDE DEF w
  <2> QED BY <2>1, <2>2, <2>3
<1>2. ASSUME NEW k \in Nat, k \in S PROVE k + 1 \in S
  <2> DEFINE x == run[k]
             y == run[k + 1]
  <2> SUFFICES ASSUME k + 1 <= n PROVE Inv(y, k + 1)
    OBVIOUS
  <2>1. Inv(x, k) /\ y = AfterRound(w, x, k) /\ d + k \in Page /\ s + k \in Page
    BY <1>2 DEF IsRun
  <2>2. ~is_mapped(m, d + k) /\ is_mapped(m, s + k)
    OBVIOUS
  <2> HIDE DEF x, y
  <2>3. CASE x.outcome # "ok"
    <3>1. y = x
      BY <2>1, <2>3 DEF AfterRound
    <3>2. PICK j \in 0 .. k : x.page_table = ShareTable(m, s, d, perm, j) /\ x.outcome = "panic"
      BY <2>1, <2>3
    <3>3. j \in 0 .. k + 1
      OBVIOUS
    <3> QED BY <2>1, <3>1, <3>2, <3>3
  <2>4. CASE x.outcome = "ok"
    <3>1. y = share_page(x, s + k, d + k, perm)
      BY <2>1, <2>4 DEF AfterRound, Round
    <3>2. x.page_table = ShareTable(m, s, d, perm, k)
      BY <2>1, <2>4
    <3>3. x.page_table[d + k] = m.page_table[d + k] /\ x.page_table[s + k] = m.page_table[s + k]
      <4>1. (d + k) - d \notin 0 .. k - 1
        OBVIOUS
      <4>2. (s + k) - d \notin 0 .. k - 1
        <5> SUFFICES ASSUME (s + k) - d \in 0 .. k - 1 PROVE FALSE
          OBVIOUS
        <5>1. (s + k) - d \in 0 .. n - 1 /\ d + ((s + k) - d) = s + k
          OBVIOUS
        <5>2. ~is_mapped(m, d + ((s + k) - d))
          BY <5>1
        <5> QED BY <2>2, <5>1, <5>2
      <4> QED BY <2>1, <3>2, <4>1, <4>2 DEF ShareTable
    <3>4. ~is_mapped(x, d + k) /\ is_mapped(x, s + k) /\ frame_at(x, s + k) = frame_at(m, s + k)
      BY <2>2, <3>3 DEF is_mapped, frame_at
    <3>5. /\ Accounted(y) /\ y.contents = x.contents /\ FramesBecameTables(x, y)
          /\ \/ /\ y.outcome = "ok"
                /\ y.page_table = [x.page_table EXCEPT ![d + k] = [frame |-> frame_at(x, s + k), perm |-> perm]]
             \/ y.outcome = "panic" /\ y.page_table = x.page_table
      BY <2>1, <2>4, <3>1, <3>4, PageShared, SMTT(30)
    <3>6. FramesBecameTables(m, y)
      BY <2>1, <3>5, TablesAddUp
    <3>7. CASE y.outcome = "panic" /\ y.page_table = x.page_table
      BY <3>2, <3>5, <3>6, <3>7
    <3>8. CASE /\ y.outcome = "ok"
               /\ y.page_table = [x.page_table EXCEPT ![d + k] = [frame |-> frame_at(x, s + k), perm |-> perm]]
      <4> DEFINE e == [frame |-> frame_at(m, s + k), perm |-> perm]
      <4>1. y.page_table = [x.page_table EXCEPT ![d + k] = e]
        BY <3>4, <3>8
      <4>2. ASSUME NEW q \in Page PROVE y.page_table[q] = ShareTable(m, s, d, perm, k + 1)[q]
        <5>1. q \in Int /\ DOMAIN x.page_table = Page
          BY <3>2 DEF Page, ShareTable
        <5>2. CASE q = d + k
          <6>1. q - d \in 0 .. k + 1 - 1 /\ s + (q - d) = s + k
            BY <5>2
          <6>2. y.page_table[q] = e
            <7> HIDE DEF e
            <7> QED BY <4>1, <5>1, <5>2
          <6> QED BY <6>1, <6>2 DEF ShareTable
        <5>3. CASE q # d + k
          <6>1. q - d \in 0 .. k + 1 - 1 <=> q - d \in 0 .. k - 1
            BY <5>1, <5>3
          <6>2. y.page_table[q] = x.page_table[q]
            <7> HIDE DEF e
            <7> QED BY <4>1, <5>1, <5>3
          <6> QED BY <3>2, <6>1, <6>2 DEF ShareTable
        <5> QED BY <5>2, <5>3
      <4>3. y.page_table \in [Page -> {y.page_table[q] : q \in Page}]
        <5>1. DOMAIN x.page_table = Page
          BY <3>2 DEF ShareTable
        <5> HIDE DEF e
        <5> QED BY <4>1, <5>1
      <4>4. y.page_table = ShareTable(m, s, d, perm, k + 1)
        BY <4>2, <4>3 DEF ShareTable
      <4> QED BY <3>5, <3>6, <3>8, <4>4
    <3> QED BY <3>5, <3>7, <3>8
  <2> QED BY <2>3, <2>4
<1> HIDE DEF S
<1>3. n \in S
  BY <1>1, <1>2, SetInduction
<1> QED BY <1>3 DEF S

(***************************************************************************)
(* The first loop of copy_paste_chunk().                                   *)
(***************************************************************************)
LEMMA PreparesTwice ==
  ASSUME NEW m, NEW x, NEW y, Prepares(m, x), Prepares(x, y)
  PROVE  Prepares(m, y)
<1>1. ASSUME NEW q \in Page, is_mapped(m, q) PROVE frame_at(y, q) = frame_at(m, q)
  <2>1. frame_at(x, q) = frame_at(m, q)
    BY <1>1 DEF Prepares
  <2>2. is_mapped(x, q)
    BY <1>1, <2>1 DEF is_mapped
  <2> QED BY <2>1, <2>2 DEF Prepares
<1> QED BY <1>1 DEF Prepares

LEMMA PrepareLoop ==
  ASSUME NEW m, Accounted(m), m.outcome = "ok", NEW s \in Nat, NEW d \in Nat, NEW n \in Nat,
         \A k \in 0 .. n - 1 : /\ ROUNDDOWN(s + k * PAGE_SIZE) \in Page
                               /\ ROUNDDOWN(d + k * PAGE_SIZE) \in Page,
         NEW run, IsRun(run, [loop |-> "prepare", s |-> s, d |-> d], m, n)
  PROVE  /\ Accounted(run[n]) /\ run[n].contents = m.contents /\ Prepares(m, run[n])
         /\ run[n].outcome \in {"ok", "panic"}
         /\ run[n].outcome = "ok" => \A k \in 0 .. n - 1 : is_mapped(run[n], ROUNDDOWN(d + k * PAGE_SIZE))
<1> DEFINE w == [loop |-> "prepare", s |-> s, d |-> d]
           Inv(x, k) == /\ Accounted(x) /\ x.contents = m.contents /\ Prepares(m, x)
                        /\ x.outcome \in {"ok", "panic"}
                        /\ x.outcome = "ok" => \A i \in 0 .. k - 1 : is_mapped(x, ROUNDDOWN(d + i * PAGE_SIZE))
           S == {k \in Nat : k <= n => Inv(run[k], k)}
<1>1. 0 \in S
  <2>1. run[0] = m
    BY DEF IsRun
  <2>2. Prepares(m, m)
    BY DEF Prepares
  <2> HIDE DEF w
  <2> QED BY <2>1, <2>2
<1>2. ASSUME NEW k \in Nat, k \in S PROVE k + 1 \in S
  <2> DEFINE x == run[k]
             y == run[k + 1]
             sp == ROUNDDOWN(s + k * PAGE_SIZE)
             dp == ROUNDDOWN(d + k * PAGE_SIZE)
  <2> SUFFICES ASSUME k + 1 <= n PROVE Inv(y, k + 1)
    OBVIOUS
  <2>1. Inv(x, k) /\ y = AfterRound(w, x, k) /\ sp \in Page /\ dp \in Page
    BY <1>2 DEF IsRun
  <2>2. \A i \in 0 .. n - 1 : ROUNDDOWN(d + i * PAGE_SIZE) \in Page
    OBVIOUS
  <2> HIDE DEF x, y
  <2>3. CASE x.outcome # "ok"
    <3>1. y = x
      BY <2>1, <2>3 DEF AfterRound
    <3> QED BY <2>1, <2>3, <3>1
  <2>4. CASE x.outcome = "ok"
    <3>1. y = prepare_page(x, sp, dp)
      BY <2>1, <2>4 DEF AfterRound, Round
    <3>2. \A i \in 0 .. k - 1 : is_mapped(x, ROUNDDOWN(d + i * PAGE_SIZE))
      BY <2>1, <2>4
    <3> HIDE DEF sp, dp
    <3>3. /\ Accounted(y) /\ y.contents = x.contents /\ Prepares(x, y)
          /\ (y.outcome = "ok" /\ is_mapped(y, dp)) \/ y.outcome = "panic"
      BY <2>1, <2>4, <3>1, PagePrepared
    <3>4. Prepares(m, y)
      BY <2>1, <3>3, PreparesTwice
    <3>5. ASSUME y.outcome = "ok", NEW i \in 0 .. k + 1 - 1 PROVE is_mapped(y, ROUNDDOWN(d + i * PAGE_SIZE))
      <4>1. CASE i = k
        BY <3>3, <3>5, <4>1 DEF dp
      <4>2. CASE i # k
        <5>1. i \in 0 .. k - 1 /\ i \in 0 .. n - 1
          BY <4>2
        <5> DEFINE p == ROUNDDOWN(d + i * PAGE_SIZE)
        <5>2. is_mapped(x, p) /\ p \in Page
          BY <2>2, <3>2, <5>1
        <5> HIDE DEF p
        <5>3. is_mapped(y, p)
          BY <3>3, <5>2 DEF Prepares, is_mapped
        <5> QED BY <5>3 DEF p
      <4> QED BY <4>1, <4>2
    <3> QED BY <2>1, <3>3, <3>4, <3>5
  <2> QED BY <2>3, <2>4
<1> HIDE DEF S
<1>3. n \in S
  BY <1>1, <1>2, SetInduction
<1> QED BY <1>3 DEF S

(***************************************************************************)
(* The second loop of copy_paste_chunk().  A unit that is written is the   *)
(* only one that changes, when nobody shares its frame.                    *)
(***************************************************************************)
LEMMA UnitWritten ==
  ASSUME NEW x, Accounted(x), NEW b \in Nat, ROUNDDOWN(b) \in Page, is_mapped(x, ROUNDDOWN(b)), NEW v,
         NEW y, SameFrames(x, y), y.contents = Written(x, b, v)
  PROVE  /\ unit_at(y, b) = v
         /\ \A f \in Frame : f # frame_at(x, ROUNDDOWN(b)) => y.contents[f] = x.contents[f]
         /\ Unshared(x, ROUNDDOWN(b)) =>
              \A a \in Nat : ROUNDDOWN(a) \in Page /\ is_mapped(x, ROUNDDOWN(a)) /\ a # b
                               => unit_at(y, a) = unit_at(x, a)
<1> DEFINE f == frame_at(x, ROUNDDOWN(b))
           u == b % PAGE_SIZE
           old == x.contents
           new == y.contents
<1>1. f \in Frame /\ old \in [Frame -> [Unit -> Nat]]
  BY MappedFrame DEF Accounted, Memory
<1>2. u \in Unit
  BY ChunkAssumption, Remainder DEF Unit
<1>3. \A p : frame_at(y, p) = frame_at(x, p)
  BY DEF SameFrames, frame_at
<1>4. new = [old EXCEPT ![f] = [old[f] EXCEPT ![u] = v]]
  BY DEF Written
<1>5. frame_at(y, ROUNDDOWN(b)) = f
  BY <1>3
<1>6. \A a : unit_at(x, a) = old[frame_at(x, ROUNDDOWN(a))][a % PAGE_SIZE]
             /\ unit_at(y, a) = new[frame_at(x, ROUNDDOWN(a))][a % PAGE_SIZE]
  BY <1>3 DEF unit_at
<1>7. unit_at(y, b) = new[f][u]
  BY <1>5 DEF unit_at
<1> HIDE DEF u, old, new
<1>8. DOMAIN old = Frame /\ old[f] \in [Unit -> Nat]
  BY <1>1
<1>9. new[f] = [old[f] EXCEPT ![u] = v] /\ \A g \in Frame : g # f => new[g] = old[g]
  <2> HIDE DEF f
  <2> QED BY <1>1, <1>4, <1>8
<1>10. new[f][u] = v /\ \A o \in Unit : o # u => new[f][o] = old[f][o]
  <2> HIDE DEF f
  <2> QED BY <1>2, <1>8, <1>9
<1>11. ASSUME Unshared(x, ROUNDDOWN(b)), NEW a \in Nat, ROUNDDOWN(a) \in Page,
              is_mapped(x, ROUNDDOWN(a)), a # b
       PROVE  unit_at(y, a) = unit_at(x, a)
  <2> DEFINE g == frame_at(x, ROUNDDOWN(a))
             o == a % PAGE_SIZE
  <2>1. g \in Frame
    BY <1>11, MappedFrame
  <2>2. o \in Unit
    BY ChunkAssumption, Remainder DEF Unit
  <2>3. CASE ROUNDDOWN(a) = ROUNDDOWN(b)
    <3>1. o # u
      BY <1>11, <2>3, ChunkAssumption, SamePlace DEF ROUNDDOWN, u
    <3>2. g = f
      BY <2>3
    <3> HIDE DEF o, f, g
    <3>3. new[g][o] = old[g][o]
      BY <1>10, <2>2, <3>1, <3>2
    <3> QED BY <1>6, <3>3 DEF g, o
  <2>4. CASE ROUNDDOWN(a) # ROUNDDOWN(b)
    <3>1. g # f
      BY <1>11, <2>4 DEF Unshared
    <3> HIDE DEF o, f, g
    <3>2. new[g] = old[g]
      BY <1>9, <2>1, <3>1
    <3> QED BY <1>6, <3>2 DEF g, o
  <2> QED BY <2>3, <2>4
<1> QED BY <1>7, <1>9, <1>10, <1>11 DEF old, new

(* Copying upwards does not meet a unit that is still to be read. *)
Upwards(s, d, n) ==
  d <= s \/ \A i, j \in 0 .. n - 1 : ROUNDDOWN(s + i) # ROUNDDOWN(d + j)

Private(m, d, n) ==
  \A i \in 0 .. n - 1 : is_mapped(m, ROUNDDOWN(d + i)) => Unshared(m, ROUNDDOWN(d + i))

LEMMA CopyLoop ==
  ASSUME NEW m, Accounted(m), m.outcome = "ok", NEW s \in Nat, NEW d \in Nat, NEW n \in Nat,
         \A k \in 0 .. n - 1 : ROUNDDOWN(d + k) \in Page,
         \A k \in 0 .. n - 1 : ROUNDDOWN(s + k) \in Page /\ is_mapped(m, ROUNDDOWN(s + k)),
         NEW run, IsRun(run, [loop |-> "copy", s |-> s, d |-> d], m, n)
  PROVE  /\ Accounted(run[n]) /\ SameFrames(m, run[n]) /\ run[n].outcome \in {"ok", "fault"}
         /\ \A f \in Frame : (\A i \in 0 .. n - 1 : f # frame_at(m, ROUNDDOWN(d + i)))
                               => run[n].contents[f] = m.contents[f]
         /\ run[n].outcome = "ok" /\ Upwards(s, d, n) /\ Private(m, d, n)
              => \A i \in 0 .. n - 1 : unit_at(run[n], d + i) = unit_at(m, s + i)
<1> DEFINE w == [loop |-> "copy", s |-> s, d |-> d]
           H == Upwards(s, d, n) /\ Private(m, d, n)
           Inv(x, k) == /\ Accounted(x) /\ SameFrames(m, x) /\ x.outcome \in {"ok", "fault"}
                        /\ \A f \in Frame : (\A i \in 0 .. n - 1 : f # frame_at(m, ROUNDDOWN(d + i)))
                                              => x.contents[f] = m.contents[f]
                        /\ x.outcome = "ok" =>
                             \A i \in 0 .. k - 1 : is_mapped(m, ROUNDDOWN(d + i))
                        /\ x.outcome = "ok" /\ H =>
                             /\ \A i \in 0 .. k - 1 : unit_at(x, d + i) = unit_at(m, s + i)
                             /\ \A i \in k .. n - 1 : unit_at(x, s + i) = unit_at(m, s + i)
           S == {k \in Nat : k <= n => Inv(run[k], k)}
<1>1. 0 \in S
  <2>1. run[0] = m
    BY DEF IsRun
  <2>2. SameFrames(m, m)
    BY DEF SameFrames
  <2> HIDE DEF w, H
  <2> QED BY <2>1, <2>2
<1>2. ASSUME NEW k \in Nat, k \in S PROVE k + 1 \in S
  <2> DEFINE x == run[k]
             y == run[k + 1]
             a == s + k
             b == d + k
             v == unit_at(x, a)
  <2> SUFFICES ASSUME k + 1 <= n PROVE Inv(y, k + 1)
    OBVIOUS
  <2>1. k \in 0 .. n - 1 /\ a \in Nat /\ b \in Nat
    OBVIOUS
  <2>2. Inv(x, k) /\ y = AfterRound(w, x, k) /\ ROUNDDOWN(b) \in Page /\ ROUNDDOWN(a) \in Page
    BY <1>2, SMTT(30) DEF IsRun
  <2>3. a % PAGE_SIZE \in Unit
    BY <2>1, ChunkAssumption, Remainder DEF Unit
  <2>4. \A i \in 0 .. n - 1 : /\ s + i \in Nat /\ ROUNDDOWN(s + i) \in Page /\ is_mapped(m, ROUNDDOWN(s + i))
                              /\ d + i \in Nat /\ ROUNDDOWN(d + i) \in Page
    OBVIOUS
  <2> HIDE DEF x, y, H, v
  <2>5. CASE x.outcome # "ok"
    <3>1. y = x
      BY <2>2, <2>5 DEF AfterRound
    <3> QED BY <2>2, <2>5, <3>1
  <2>6. CASE x.outcome = "ok"
    <3>1. y = copy_unit(x, a, b)
      BY <2>2, <2>6 DEF AfterRound, Round
    <3>2. \A p : (is_mapped(x, p) <=> is_mapped(m, p)) /\ frame_at(x, p) = frame_at(m, p)
      BY <2>2 DEF SameFrames, is_mapped, frame_at
    <3> DEFINE Copied == y.outcome = "ok" /\ Writable(x, ROUNDDOWN(b)) /\ y.contents = Written(x, b, v)
               Faulted == y.outcome = "fault" /\ y.contents = x.contents
    <3>3. Accounted(y) /\ SameFrames(x, y) /\ (Copied \/ Faulted)
      BY <2>2, <2>3, <2>6, <3>1, UnitCopied DEF v
    <3>4. SameFrames(m, y)
      BY <2>2, <3>3 DEF SameFrames
    <3>5. CASE Faulted
      BY <2>2, <3>3, <3>4, <3>5
    <3>6. CASE Copied
      <4>1. is_mapped(x, ROUNDDOWN(b)) /\ is_mapped(m, ROUNDDOWN(b)) /\ y.outcome = "ok"
        BY <3>2, <3>6 DEF Writable
      <4>2. /\ unit_at(y, b) = v
            /\ \A f \in Frame : f # frame_at(m, ROUNDDOWN(b)) => y.contents[f] = x.contents[f]
            /\ Unshared(x, ROUNDDOWN(b)) =>
                 \A c \in Nat : ROUNDDOWN(c) \in Page /\ is_mapped(x, ROUNDDOWN(c)) /\ c # b
                                  => unit_at(y, c) = unit_at(x, c)
        <5> HIDE DEF b
        <5> QED BY <2>1, <2>2, <3>2, <3>3, <3>6, <4>1, UnitWritten
      <4>3. ASSUME NEW f \in Frame, \A i \in 0 .. n - 1 : f # frame_at(m, ROUNDDOWN(d + i))
            PROVE  y.contents[f] = m.contents[f]
        <5>1. f # frame_at(m, ROUNDDOWN(b))
          BY <2>1, <4>3
        <5> QED BY <2>2, <4>2, <4>3, <5>1
      <4>4. ASSUME NEW i \in 0 .. k + 1 - 1 PROVE is_mapped(m, ROUNDDOWN(d + i))
        <5>1. CASE i = k
          BY <4>1, <5>1
        <5>2. CASE i # k
          <6>1. i \in 0 .. k - 1
            BY <5>2
          <6> QED BY <2>2, <2>6, <6>1
        <5> QED BY <5>1, <5>2
      <4>5. ASSUME H
            PROVE  /\ \A i \in 0 .. k + 1 - 1 : unit_at(y, d + i) = unit_at(m, s + i)
                   /\ \A i \in k + 1 .. n - 1 : unit_at(y, s + i) = unit_at(m, s + i)
        <5>1. /\ \A i \in 0 .. k - 1 : unit_at(x, d + i) = unit_at(m, s + i)
              /\ \A i \in k .. n - 1 : unit_at(x, s + i) = unit_at(m, s + i)
          BY <2>2, <2>6, <4>5
        <5>2. Unshared(m, ROUNDDOWN(b))
          BY <2>1, <4>1, <4>5 DEF H, Private
        <5>3. Unshared(x, ROUNDDOWN(b))
          BY <3>2, <5>2 DEF Unshared
        <5>4. \A c \in Nat : ROUNDDOWN(c) \in Page /\ is_mapped(m, ROUNDDOWN(c)) /\ c # b
                               => unit_at(y, c) = unit_at(x, c)
          BY <3>2, <4>2, <5>3
        <5>5. ASSUME NEW i \in 0 .. k + 1 - 1 PROVE unit_at(y, d + i) = unit_at(m, s + i)
          <6>1. CASE i = k
            <7>1. k \in k .. n - 1
              BY <2>1
            <7>2. v = unit_at(m, s + k)
              BY <5>1, <7>1 DEF v
            <7> QED BY <4>2, <6>1, <7>2
          <6>2. CASE i # k
            <7>1. i \in 0 .. k - 1 /\ i \in 0 .. n - 1 /\ d + i # b
              BY <6>2
            <7>2. unit_at(y, d + i) = unit_at(x, d + i)
              BY <2>4, <4>4, <5>4, <7>1
            <7> QED BY <5>1, <7>1, <7>2
          <6> QED BY <6>1, <6>2
        <5>6. ASSUME NEW i \in k + 1 .. n - 1 PROVE unit_at(y, s + i) = unit_at(m, s + i)
          <6>1. i \in 0 .. n - 1 /\ i \in k .. n - 1 /\ i > k
            OBVIOUS
          <6>2. s + i # b
            <7>1. CASE d <= s
              BY <6>1, <7>1
            <7>2. CASE \A g, j \in 0 .. n - 1 : ROUNDDOWN(s + g) # ROUNDDOWN(d + j)
              <8>1. ROUNDDOWN(s + i) # ROUNDDOWN(d + k)
                BY <2>1, <6>1, <7>2
              <8> QED BY <8>1
            <7> QED BY <4>5, <7>1, <7>2 DEF H, Upwards
          <6>3. unit_at(y, s + i) = unit_at(x, s + i)
            BY <2>4, <5>4, <6>1, <6>2
          <6> QED BY <5>1, <6>1, <6>3
        <5> QED BY <5>5, <5>6
      <4> QED BY <3>3, <3>4, <4>1, <4>3, <4>4, <4>5
    <3> QED BY <3>3, <3>5, <3>6
  <2> QED BY <2>5, <2>6
<1> HIDE DEF S
<1>3. n \in S
  BY <1>1, <1>2, SetInduction
<1> QED BY <1>3 DEF S
-----------------------------------------------------------------------------
(***************************************************************************)
(* The operations.                                                         *)
(***************************************************************************)
Good(m) == Accounted(m) /\ m.outcome = "ok"

LEMMA Denied ==
  ASSUME NEW m, Good(m)
  PROVE  /\ Accounted(denied(m)) /\ denied(m).outcome = "denied"
         /\ [denied(m) EXCEPT !.outcome = "ok"] = m
<1>1. Accounted(denied(m)) /\ denied(m).outcome = "denied"
  BY StoppedAccounted DEF denied, Good
<1>2. [denied(m) EXCEPT !.outcome = "ok"] = m
  BY DEF denied, Good, Accounted, Memory
<1> QED BY <1>1, <1>2

(***************************************************************************)
(* A range in the address space has its pages in it.                       *)
(***************************************************************************)
LEMMA RangeInSpace ==
  ASSUME NEW va \in Address, NEW size \in Nat \ {0}, InSpace(va, size)
  PROVE  LET n == Cardinality(PagesFrom(va, size))
             d == ROUNDDOWN(va)
         IN /\ n \in Nat \ {0} /\ d \in Nat /\ PagesFrom(va, size) = d .. d + n - 1
            /\ PagesFrom(va, size) \subseteq Page
            /\ \A k \in 0 .. n - 1 : d + k \in Page /\ d + k \in PagesFrom(va, size)
<1> DEFINE n == Cardinality(PagesFrom(va, size))
           d == ROUNDDOWN(va)
           last == ROUNDDOWN(va + size - 1)
<1>1. va \in Nat
  BY PageOfAddress
<1>2. /\ d \in Nat /\ last \in Nat /\ d <= last /\ PagesFrom(va, size) = d .. last /\ n = last - d + 1
  BY <1>1, PagesOfRange
<1>3. last \in Page
  BY PageOfAddress DEF InSpace
<1> HIDE DEF n, d, last
<1>4. n \in Nat \ {0} /\ d + n - 1 = last
  BY <1>2
<1>5. d .. last \subseteq Page
  BY <1>2, <1>3, ChunkAssumption DEF Page
<1> QED BY <1>2, <1>4, <1>5 DEF n, d

LEMMA AllocateAccounted ==
  ASSUME NEW m, Good(m), NEW va \in Address, NEW size \in Nat \ {0}, InSpace(va, size),
         NEW perm \in Permission
  PROVE  Accounted(allocate_chunk(m, va, size, perm))
<1> DEFINE n == Cardinality(PagesFrom(va, size))
           d == ROUNDDOWN(va)
           w == [loop |-> "allocate", d |-> d, perm |-> perm]
           r == allocate_chunk(m, va, size, perm)
<1>1. CASE \E p \in PagesFrom(va, size) : is_mapped(m, p)
  <2>1. r = denied(m)
    BY <1>1 DEF allocate_chunk
  <2> QED BY <2>1, Denied
<1>2. CASE ~\E p \in PagesFrom(va, size) : is_mapped(m, p)
  <2>1. n \in Nat \ {0} /\ d \in Nat /\ \A k \in 0 .. n - 1 : d + k \in Page /\ d + k \in PagesFrom(va, size)
    BY RangeInSpace
  <2>2. r = AllocatePages(m, d, perm, n)
    BY <1>2 DEF allocate_chunk, AllocatePages
  <2>3. PICK run : IsRun(run, w, m, n) /\ r = run[n]
    <3>1. \E run : /\ IsRun(run, w, m, n)
                   /\ AllocatePages(m, d, perm, n) = run[n]
      <4>1. n \in Nat
        BY <2>1
      <4> HIDE DEF n, d
      <4> QED BY <4>1, AllocateRuns
    <3> QED BY <2>2, <3>1
  <2>4. \A k \in 0 .. n - 1 : d + k \in Page /\ ~is_mapped(m, d + k)
    BY <1>2, <2>1
  <2> HIDE DEF n, d
  <2>5. Accounted(run[n])
    BY <2>1, <2>3, <2>4, AllocateLoop DEF Good
  <2> QED BY <2>3, <2>5
<1> QED BY <1>1, <1>2

(***************************************************************************)
(* cut_paste_pages(): refused with nothing done, or the first j pages      *)
(* moved, all of them unless memory ended.                                 *)
(***************************************************************************)
LEMMA CutDone ==
  ASSUME NEW m, Good(m), NEW source \in Address, NEW dest \in Address, NEW n \in Nat \ {0},
         ROUNDDOWN(dest) + n - 1 \in Page,
         \A p \in ROUNDDOWN(source) .. ROUNDDOWN(source) + n - 1 : p \in Page /\ is_mapped(m, p)
  PROVE  LET r == cut_paste_pages(m, source, dest, n)
             s == ROUNDDOWN(source)
             d == ROUNDDOWN(dest)
         IN /\ Accounted(r)
            /\ \/ r = denied(m)
               \/ /\ \A k \in 0 .. n - 1 : d + k \in Page /\ ~is_mapped(m, d + k)
                  /\ \A k \in 0 .. n - 1 : s + k \in Page /\ is_mapped(m, s + k)
                  /\ \E j \in 0 .. n : /\ r.page_table = CutTable(m, s, d, j)
                                       /\ r.outcome = "panic" \/ (r.outcome = "ok" /\ j = n)
<1> DEFINE s == ROUNDDOWN(source)
           d == ROUNDDOWN(dest)
           w == [loop |-> "cut", s |-> s, d |-> d]
           r == cut_paste_pages(m, source, dest, n)
<1>1. CASE \E k \in 0 .. n - 1 : is_mapped(m, d + k)
  <2>1. r = denied(m)
    BY <1>1 DEF cut_paste_pages
  <2> QED BY <2>1, Denied
<1>2. CASE ~\E k \in 0 .. n - 1 : is_mapped(m, d + k)
  <2>1. s \in Nat /\ d \in Nat
    BY PageOfAddress DEF Page
  <2>2. r = CutPages(m, s, d, n)
    BY <1>2 DEF cut_paste_pages, CutPages
  <2>3. PICK run : IsRun(run, w, m, n) /\ r = run[n]
    <3>1. \E run : /\ IsRun(run, w, m, n)
                   /\ CutPages(m, s, d, n) = run[n]
      <4> HIDE DEF s, d
      <4> QED BY CutRuns
    <3> QED BY <2>2, <3>1
  <2>4. \A k \in 0 .. n - 1 : d + k \in Page /\ ~is_mapped(m, d + k)
    <3>1. d + n - 1 \in Page
      OBVIOUS
    <3>2. \A k \in 0 .. n - 1 : ~is_mapped(m, d + k)
      BY <1>2
    <3> HIDE DEF d
    <3>3. \A k \in 0 .. n - 1 : d + k \in Page
      BY <2>1, <3>1, ChunkAssumption DEF Page
    <3> QED BY <3>2, <3>3
  <2>5. \A k \in 0 .. n - 1 : s + k \in Page /\ is_mapped(m, s + k)
    <3>1. \A p \in s .. s + n - 1 : p \in Page /\ is_mapped(m, p)
      OBVIOUS
    <3> HIDE DEF s
    <3> SUFFICES ASSUME NEW k \in 0 .. n - 1 PROVE s + k \in s .. s + n - 1
      BY <3>1
    <3> QED BY <2>1
  <2> HIDE DEF s, d, r
  <2>6. /\ Accounted(run[n])
        /\ \E j \in 0 .. n : /\ run[n].page_table = CutTable(m, s, d, j)
                             /\ run[n].outcome = "panic" \/ (run[n].outcome = "ok" /\ j = n)
    BY <2>1, <2>3, <2>4, <2>5, CutLoop, SMTT(30) DEF Good
  <2>7. /\ Accounted(r)
        /\ \E j \in 0 .. n : /\ r.page_table = CutTable(m, s, d, j)
                             /\ r.outcome = "panic" \/ (r.outcome = "ok" /\ j = n)
    BY <2>3, <2>6
  <2> QED BY <2>4, <2>5, <2>7 DEF s, d, r
<1> QED BY <1>1, <1>2

(***************************************************************************)
(* share_chunk().                                                          *)
(***************************************************************************)
LEMMA ShareDone ==
  ASSUME NEW m, Good(m), NEW source \in Address, NEW dest \in Address, NEW size \in Nat \ {0},
         InSpace(dest, size), NEW perm \in Permission,
         \A p \in ROUNDDOWN(source) .. ROUNDDOWN(source) + Cardinality(PagesFrom(dest, size)) - 1 :
            p \in Page /\ is_mapped(m, p)
  PROVE  LET r == share_chunk(m, source, dest, size, perm)
             s == ROUNDDOWN(source)
             d == ROUNDDOWN(dest)
             n == Cardinality(PagesFrom(dest, size))
         IN /\ Accounted(r)
            /\ \/ r = denied(m)
               \/ /\ \A k \in 0 .. n - 1 : d + k \in Page /\ ~is_mapped(m, d + k)
                  /\ FramesBecameTables(m, r)
                  /\ \E j \in 0 .. n : /\ r.page_table = ShareTable(m, s, d, perm, j)
                                       /\ r.outcome = "panic" \/ (r.outcome = "ok" /\ j = n)
<1> DEFINE s == ROUNDDOWN(source)
           d == ROUNDDOWN(dest)
           n == Cardinality(PagesFrom(dest, size))
           w == [loop |-> "share", s |-> s, d |-> d, perm |-> perm]
           r == share_chunk(m, source, dest, size, perm)
<1>1. CASE \E p \in PagesFrom(dest, size) : is_mapped(m, p)
  <2>1. r = denied(m)
    BY <1>1 DEF share_chunk
  <2> QED BY <2>1, Denied
<1>2. CASE ~\E p \in PagesFrom(dest, size) : is_mapped(m, p)
  <2>1. n \in Nat \ {0} /\ d \in Nat /\ \A k \in 0 .. n - 1 : d + k \in Page /\ d + k \in PagesFrom(dest, size)
    BY RangeInSpace
  <2>2. s \in Nat
    BY PageOfAddress DEF Page
  <2>3. r = SharePages(m, s, d, perm, n)
    BY <1>2 DEF share_chunk, SharePages
  <2>4. PICK run : IsRun(run, w, m, n) /\ r = run[n]
    <3>1. \E run : IsRun(run, w, m, n) /\ SharePages(m, s, d, perm, n) = run[n]
      <4>1. n \in Nat
        BY <2>1
      <4> HIDE DEF n, s, d
      <4> QED BY <4>1, ShareRuns
    <3> QED BY <2>3, <3>1
  <2>5. \A k \in 0 .. n - 1 : d + k \in Page /\ ~is_mapped(m, d + k)
    BY <1>2, <2>1
  <2>6. \A k \in 0 .. n - 1 : s + k \in Page /\ is_mapped(m, s + k)
    <3>1. \A p \in s .. s + n - 1 : p \in Page /\ is_mapped(m, p)
      OBVIOUS
    <3> HIDE DEF s, n
    <3> SUFFICES ASSUME NEW k \in 0 .. n - 1 PROVE s + k \in s .. s + n - 1
      BY <3>1
    <3> QED BY <2>1, <2>2
  <2> HIDE DEF s, d, r, n
  <2>7. /\ Accounted(run[n]) /\ FramesBecameTables(m, run[n])
        /\ \E j \in 0 .. n : /\ run[n].page_table = ShareTable(m, s, d, perm, j)
                             /\ run[n].outcome = "panic" \/ (run[n].outcome = "ok" /\ j = n)
    BY <2>1, <2>2, <2>4, <2>5, <2>6, ShareLoop DEF Good
  <2>8. /\ Accounted(r) /\ FramesBecameTables(m, r)
        /\ \E j \in 0 .. n : /\ r.page_table = ShareTable(m, s, d, perm, j)
                             /\ r.outcome = "panic" \/ (r.outcome = "ok" /\ j = n)
    BY <2>4, <2>7
  <2> QED BY <2>5, <2>8 DEF s, d, r, n
<1> QED BY <1>1, <1>2

(***************************************************************************)
(* copy_paste_chunk().                                                     *)
(***************************************************************************)
LEMMA StoppedLoop ==
  ASSUME NEW m, m.outcome # "ok", NEW w, NEW n \in Nat, NEW run, IsRun(run, w, m, n)
  PROVE  run[n] = m
<1> DEFINE S == {k \in Nat : k <= n => run[k] = m}
<1>1. 0 \in S
  BY DEF IsRun
<1>2. ASSUME NEW k \in Nat, k \in S PROVE k + 1 \in S
  <2> SUFFICES ASSUME k + 1 <= n PROVE run[k + 1] = m
    OBVIOUS
  <2>1. run[k] = m /\ run[k + 1] = AfterRound(w, run[k], k)
    BY <1>2 DEF IsRun
  <2> QED BY <2>1 DEF AfterRound
<1> HIDE DEF S
<1>3. n \in S
  BY <1>1, <1>2, SetInduction
<1> QED BY <1>3 DEF S

(* A frame with one reference is shown by one page. *)
LEMMA OneReference ==
  ASSUME NEW m, Accounted(m), NEW p \in Page, is_mapped(m, p), m.references[frame_at(m, p)] = 1
  PROVE  Unshared(m, p)
<1> DEFINE f == frame_at(m, p)
<1>1. f \in Frame /\ p \in MappedTo(m, f)
  BY MappedFrame
<1>2. Cardinality(MappedTo(m, f)) = 1
  BY <1>1 DEF Accounted
<1> HIDE DEF f
<1>3. IsFiniteSet(MappedTo(m, f)) /\ IsFiniteSet(MappedTo(m, f) \ {p})
  BY MappedFinite, FS_RemoveElement
<1>4. Cardinality(MappedTo(m, f) \ {p}) = 0
  BY <1>1, <1>2, <1>3, OneLess
<1>5. MappedTo(m, f) \ {p} = {}
  BY <1>3, <1>4, FS_EmptySet
<1> QED BY <1>5 DEF Unshared, MappedTo, f

(***************************************************************************)
(* The pages that the first loop prepares lie in both ranges.              *)
(***************************************************************************)
LEMMA StepsInRange ==
  ASSUME NEW va \in Nat, NEW size \in Nat \ {0}
  PROVE  /\ ROUNDUP(size) \in Nat
         /\ \A k \in 0 .. ROUNDUP(size) - 1 : ROUNDDOWN(va + k * PAGE_SIZE) \in PagesFrom(va, size)
<1> DEFINE P == PAGE_SIZE
           last == (size - 1) \div P
<1>1. P \in Nat \ {0} /\ size - 1 \in Nat
  BY ChunkAssumption
<1>2. last \in Nat /\ last * P <= size - 1
  BY <1>1, Division
<1>3. ROUNDUP(size) = last + 1
  BY <1>1, DivisionUp DEF ROUNDUP
<1> HIDE DEF P, last
<1>4. ASSUME NEW k \in 0 .. last PROVE k * P \in 0 .. size - 1
  <2>1. k * P \in Nat /\ k * P <= last * P
    BY <1>1, <1>2
  <2> QED BY <1>1, <1>2, <2>1
<1>5. ASSUME NEW k \in 0 .. last PROVE ROUNDDOWN(va + k * P) \in PagesFrom(va, size)
  BY <1>4, PagesOfRange
<1>6. ROUNDUP(size) \in Nat /\ 0 .. ROUNDUP(size) - 1 = 0 .. last
  BY <1>2, <1>3
<1> QED BY <1>5, <1>6 DEF P

CopyReaches(m, r, source, dest, size) ==
  /\ \A f \in Frame : f \notin FramesOf(r, dest, size) => r.contents[f] = m.contents[f]
  /\ /\ r.outcome = "ok" /\ NoAlias(m, dest, size)
     /\ dest <= source \/ PagesFrom(source, size) \cap PagesFrom(dest, size) = {}
     => \A i \in 0 .. size - 1 : unit_at(r, dest + i) = unit_at(m, source + i)

LEMMA CopyDone ==
  ASSUME NEW m, Good(m), NEW source \in Address, NEW dest \in Address, NEW size \in Nat \ {0},
         InSpace(dest, size),
         \A p \in PagesFrom(source, size) : p \in Page /\ is_mapped(m, p)
  PROVE  LET r == copy_paste_chunk(m, source, dest, size)
         IN /\ Accounted(r)
            /\ \/ r = denied(m)
               \/ r.outcome = "panic" /\ r.contents = m.contents
               \/ r.outcome \in {"ok", "fault"} /\ CopyReaches(m, r, source, dest, size)
<1> DEFINE n == ROUNDUP(size)
           v == [loop |-> "prepare", s |-> source, d |-> dest]
           w == [loop |-> "copy", s |-> source, d |-> dest]
           x == PreparePages(m, source, dest, size)
           r == copy_paste_chunk(m, source, dest, size)
           Done(y) == /\ Accounted(y)
                      /\ \/ y = denied(m)
                         \/ y.outcome = "panic" /\ y.contents = m.contents
                         \/ y.outcome \in {"ok", "fault"} /\ CopyReaches(m, y, source, dest, size)
<1>1. ASSUME \E i \in ToSet(Steps(size)) : is_read_only(m, ROUNDDOWN(dest + i)) PROVE Done(r)
  <2>1. r = denied(m)
    BY <1>1 DEF copy_paste_chunk
  <2> HIDE DEF r
  <2> QED BY <2>1, Denied
<1>2. ASSUME ~\E i \in ToSet(Steps(size)) : is_read_only(m, ROUNDDOWN(dest + i)) PROVE Done(r)
  <2>1. r = CopyUnits(x, source, dest, size)
    BY <1>2 DEF copy_paste_chunk, CopyUnits, PreparePages
  <2>2. source \in Nat /\ dest \in Nat
    BY PageOfAddress
  <2>3. n \in Nat /\ \A k \in 0 .. n - 1 : /\ ROUNDDOWN(source + k * PAGE_SIZE) \in PagesFrom(source, size)
                                          /\ ROUNDDOWN(dest + k * PAGE_SIZE) \in PagesFrom(dest, size)
    BY <2>2, StepsInRange
  <2>4. PagesFrom(dest, size) \subseteq Page
    BY RangeInSpace
  <2>5. PICK prepare : IsRun(prepare, v, m, n) /\ x = prepare[n]
    BY <2>3, PrepareRuns
  <2>6. PICK copy : IsRun(copy, w, x, size) /\ r = copy[size]
    <3> HIDE DEF x, r
    <3> QED BY <2>1, CopyRuns
  <2> HIDE DEF x, r, n
  <2>7. Accounted(x) /\ x.contents = m.contents /\ Prepares(m, x) /\ x.outcome \in {"ok", "panic"}
    <3>1. \A k \in 0 .. n - 1 : /\ ROUNDDOWN(source + k * PAGE_SIZE) \in Page
                                /\ ROUNDDOWN(dest + k * PAGE_SIZE) \in Page
      BY <2>3, <2>4
    <3>2. /\ Accounted(prepare[n]) /\ prepare[n].contents = m.contents /\ Prepares(m, prepare[n])
          /\ prepare[n].outcome \in {"ok", "panic"}
      BY <2>2, <2>3, <2>5, <3>1, PrepareLoop DEF Good
    <3> QED BY <2>5, <3>2
  <2>8. CASE x.outcome = "panic"
    <3>1. r = x
      <4> HIDE DEF w
      <4>1. x.outcome # "ok"
        BY <2>8
      <4> QED BY <2>6, <4>1, StoppedLoop
    <3> QED BY <2>7, <2>8, <3>1
  <2>9. CASE x.outcome = "ok"
    <3>1. \A i \in 0 .. size - 1 : /\ source + i \in Nat /\ ROUNDDOWN(source + i) \in PagesFrom(source, size)
                                   /\ dest + i \in Nat /\ ROUNDDOWN(dest + i) \in PagesFrom(dest, size)
      BY <2>2, PagesOfRange
    <3>2. \A p \in PagesFrom(source, size) : p \in Page /\ is_mapped(x, p) /\ frame_at(x, p) = frame_at(m, p)
      BY <2>7 DEF Prepares, is_mapped
    <3>3. /\ \A k \in 0 .. size - 1 : ROUNDDOWN(dest + k) \in Page
          /\ \A k \in 0 .. size - 1 : ROUNDDOWN(source + k) \in Page /\ is_mapped(x, ROUNDDOWN(source + k))
      BY <2>4, <3>1, <3>2
    <3>4. /\ Accounted(copy[size]) /\ SameFrames(x, copy[size]) /\ copy[size].outcome \in {"ok", "fault"}
          /\ \A f \in Frame : (\A i \in 0 .. size - 1 : f # frame_at(x, ROUNDDOWN(dest + i)))
                                => copy[size].contents[f] = x.contents[f]
          /\ copy[size].outcome = "ok" /\ Upwards(source, dest, size) /\ Private(x, dest, size)
               => \A i \in 0 .. size - 1 : unit_at(copy[size], dest + i) = unit_at(x, source + i)
      <4>1. /\ Accounted(x) /\ x.outcome = "ok" /\ source \in Nat /\ dest \in Nat /\ size \in Nat
            /\ IsRun(copy, [loop |-> "copy", s |-> source, d |-> dest], x, size)
        BY <2>2, <2>6, <2>7, <2>9
      <4> HIDE DEF w, v, Done
      <4> QED BY <3>3, <4>1, CopyLoop, ZenonT(60)
    <3>5. /\ Accounted(r) /\ SameFrames(x, r) /\ r.outcome \in {"ok", "fault"}
          /\ \A f \in Frame : (\A i \in 0 .. size - 1 : f # frame_at(x, ROUNDDOWN(dest + i)))
                                => r.contents[f] = m.contents[f]
          /\ r.outcome = "ok" /\ Upwards(source, dest, size) /\ Private(x, dest, size)
               => \A i \in 0 .. size - 1 : unit_at(r, dest + i) = unit_at(x, source + i)
      BY <2>6, <2>7, <3>4
    <3>6. ASSUME NEW f \in Frame, f \notin FramesOf(r, dest, size) PROVE r.contents[f] = m.contents[f]
      <4>1. \A p \in PagesFrom(dest, size) : f # frame_at(r, p)
        BY <3>6, Numbers DEF FramesOf
      <4>2. \A i \in 0 .. size - 1 : f # frame_at(x, ROUNDDOWN(dest + i))
        BY <3>1, <3>5, <4>1 DEF SameFrames, frame_at
      <4> QED BY <3>5, <4>2
    <3>7. ASSUME r.outcome = "ok", NoAlias(m, dest, size),
                 dest <= source \/ PagesFrom(source, size) \cap PagesFrom(dest, size) = {}
          PROVE  \A i \in 0 .. size - 1 : unit_at(r, dest + i) = unit_at(m, source + i)
      <4>1. Upwards(source, dest, size)
        BY <3>1, <3>7 DEF Upwards
      <4>2. ASSUME NEW p \in PagesFrom(dest, size), is_mapped(m, p) PROVE Unshared(m, p)
        <5>1. frame_at(m, p) \in FramesOf(m, dest, size)
          BY <4>2 DEF FramesOf, is_mapped
        <5>2. m.references[frame_at(m, p)] = 1
          BY <3>7, <5>1 DEF NoAlias
        <5> QED BY <2>4, <4>2, <5>2, OneReference DEF Good
      <4>3. Private(x, dest, size)
        BY <2>4, <2>7, <3>1, <4>2 DEF Private, Prepares
      <4>4. \A i \in 0 .. size - 1 : unit_at(x, source + i) = unit_at(m, source + i)
        BY <2>7, <3>1, <3>2 DEF unit_at
      <4> QED BY <3>5, <3>7, <4>1, <4>3, <4>4
    <3>8. CopyReaches(m, r, source, dest, size)
      BY <3>6, <3>7 DEF CopyReaches
    <3> QED BY <3>5, <3>8
  <2> QED BY <2>7, <2>8, <2>9
<1>3. Done(r)
  <2> HIDE DEF r, Done
  <2> QED BY <1>1, <1>2
<1> QED BY <1>3
-----------------------------------------------------------------------------
(***************************************************************************)
(* A step of the system.                                                   *)
(***************************************************************************)
LEMMA Becoming ==
  ASSUME NEW m, Accounted(m)
  PROVE  Good([m EXCEPT !.outcome = "ok"])
BY StoppedAccounted DEF Good

LEMMA InitGood == Init => Good(mem)
<1> SUFFICES ASSUME Init PROVE Good(mem)
  OBVIOUS
<1> DEFINE directory == [t \in {PDX(p) : p \in Page} |-> NONE]
           table == [p \in Page |-> NoEntry]
           refs == [f \in Frame |-> 0]
           con == [f \in Frame |-> [u \in Unit |-> 0]]
<1>1. /\ directory \in [{PDX(p) : p \in Page} -> Frame \cup {NONE}]
      /\ table \in [Page -> Entry \cup {NoEntry}] /\ refs \in [Frame -> Nat]
      /\ con \in [Frame -> [Unit -> Nat]]
  OBVIOUS
<1>2. /\ mem.page_directory = directory /\ mem.page_table = table /\ mem.references = refs
      /\ mem.free_frame_list = Frame /\ mem.contents = con /\ mem.outcome = "ok" /\ mem \in Memory
  <2> HIDE DEF directory, table, refs, con
  <2>1. mem = [page_directory |-> directory, page_table |-> table, references |-> refs,
               free_frame_list |-> Frame, contents |-> con, outcome |-> "ok"]
    BY DEF Init, directory, table, refs, con
  <2> QED BY <1>1, <2>1 DEF Memory
<1>3. \A p \in Page : ~is_mapped(mem, p)
  BY <1>2 DEF is_mapped, frame_at, NoEntry
<1>4. \A f \in Frame : MappedTo(mem, f) = {}
  BY <1>3, Numbers DEF MappedTo, is_mapped
<1>5. \A f \in Frame : TablesAt(mem, f) = {}
  <2>1. DOMAIN mem.page_directory = {PDX(p) : p \in Page}
    BY <1>2
  <2>2. \A t \in DOMAIN mem.page_directory : mem.page_directory[t] = NONE
    BY <1>2, <2>1
  <2> QED BY <2>2, Numbers DEF TablesAt
<1>6. \A f \in Frame : mem.references[f] = 0 /\ f \in mem.free_frame_list
  BY <1>2
<1>7. \A f \in Frame : mem.references[f] = Cardinality(MappedTo(mem, f)) /\ OneUse(mem, f)
  BY <1>4, <1>5, <1>6, FS_EmptySet DEF OneUse
<1> QED BY <1>2, <1>3, <1>7 DEF Good, Accounted

LEMMA StepGood ==
  ASSUME Good(mem), Next
  PROVE  Good(mem')
<1>1. /\ Size \subseteq Nat \ {0} /\ Count \subseteq Nat \ {0} /\ Perm \subseteq Permission
  BY ChunkAssumption DEF Permission
<1>2. CASE \E va \in Address, size \in Size, perm \in Perm : Allocate(va, size, perm)
  <2>1. PICK va \in Address, size \in Size, perm \in Perm : Allocate(va, size, perm)
    BY <1>2
  <2>2. Accounted(allocate_chunk(mem, va, size, perm))
    BY <1>1, <2>1, AllocateAccounted DEF Allocate
  <2>3. mem' = [allocate_chunk(mem, va, size, perm) EXCEPT !.outcome = "ok"]
    BY <2>1 DEF Allocate, Becomes
  <2> QED BY <2>2, <2>3, Becoming
<1>3. CASE \E s, d \in Page, n \in Count : Cut(s * PAGE_SIZE, d * PAGE_SIZE, n)
  <2>1. PICK s \in Page, d \in Page, n \in Count : Cut(s * PAGE_SIZE, d * PAGE_SIZE, n)
    BY <1>3
  <2> DEFINE a == s * PAGE_SIZE
             b == d * PAGE_SIZE
             r == cut_paste_pages(mem, a, b, n)
  <2>2. a \in Address /\ b \in Address
    BY AddressOfPage
  <2> HIDE DEF a, b
  <2>3. CanCut(a, b, n) /\ Becomes(r)
    BY <2>1 DEF Cut, a, b
  <2>4. Accounted(r)
    BY <1>1, <2>2, <2>3, CutDone DEF CanCut, AllMapped
  <2> HIDE DEF r
  <2> QED BY <2>3, <2>4, Becoming DEF Becomes
<1>4. CASE \E source, dest \in Address, size \in Size : Copy(source, dest, size)
  <2>1. PICK source \in Address, dest \in Address, size \in Size : Copy(source, dest, size)
    BY <1>4
  <2> DEFINE r == copy_paste_chunk(mem, source, dest, size)
  <2>2. CanCopy(source, dest, size) /\ Becomes(r)
    BY <2>1 DEF Copy
  <2>3. Accounted(r)
    BY <1>1, <2>2, CopyDone DEF CanCopy, AllMapped
  <2> HIDE DEF r
  <2> QED BY <2>2, <2>3, Becoming DEF Becomes
<1>5. CASE \E source, dest \in Address, size \in Size, perm \in Perm : Share(source, dest, size, perm)
  <2>1. PICK source \in Address, dest \in Address, size \in Size, perm \in Perm : Share(source, dest, size, perm)
    BY <1>5
  <2> DEFINE r == share_chunk(mem, source, dest, size, perm)
  <2>2. CanShare(source, dest, size) /\ Becomes(r)
    BY <2>1 DEF Share
  <2>3. Accounted(r)
    BY <1>1, <2>2, ShareDone DEF CanShare, AllMapped
  <2> HIDE DEF r
  <2> QED BY <2>2, <2>3, Becoming DEF Becomes
<1>6. CASE \E p \in Page : Unmap(p)
  <2>1. PICK p \in Page : Unmap(p)
    BY <1>6
  <2>2. Accounted(unmap_frame(mem, p))
    BY <2>1, UnmapKeepsAccount DEF Unmap, Good
  <2>3. mem' = [unmap_frame(mem, p) EXCEPT !.outcome = "ok"]
    BY <2>1 DEF Unmap, Becomes
  <2> QED BY <2>2, <2>3, Becoming
<1> QED BY <1>2, <1>3, <1>4, <1>5, <1>6 DEF Next

(***************************************************************************)
(* The inductive invariant.                                                *)
(***************************************************************************)
LEMMA AlwaysGood == Spec => []Good(mem)
<1>1. Good(mem) /\ [Next]_mem => Good(mem')
  <2> SUFFICES ASSUME Good(mem), [Next]_mem PROVE Good(mem')
    OBVIOUS
  <2>1. CASE Next
    BY <2>1, StepGood
  <2>2. CASE UNCHANGED mem
    <3>1. mem' = mem
      BY <2>2
    <3> QED BY <3>1
  <2> QED BY <2>1, <2>2
<1>2. Good(mem)' <=> Good(mem')
  OBVIOUS
<1> QED BY InitGood, <1>1, <1>2, PTL DEF Spec

(***************************************************************************)
(* chunk_operations.c, memory_manager.c: whatever is allocated, moved,     *)
(* copied, shared and unmapped, and wherever memory ends, every frame is   *)
(* free, or one table, or has as many references as pages show it, and a   *)
(* mapped page has a table.                                                *)
(***************************************************************************)
THEOREM EveryFrameAccounted == Spec => []FramesAccounted
<1>1. Good(mem) => FramesAccounted
  <2> SUFFICES ASSUME Good(mem) PROVE FramesAccounted
    OBVIOUS
  <2>1. ASSUME NEW f \in Frame
        PROVE  Cardinality({t \in DOMAIN mem.page_directory : mem.page_directory[t] = f})
                 + (IF f \in mem.free_frame_list THEN 1 ELSE 0)
                 + (IF mem.references[f] > 0 THEN 1 ELSE 0) = 1
    <3> DEFINE T == TablesAt(mem, f)
               c == Cardinality(T)
    <3>1. {t \in DOMAIN mem.page_directory : mem.page_directory[t] = f} = T
      BY DEF TablesAt
    <3>2. OneUse(mem, f)
      BY DEF Good, Accounted
    <3>3. T = {} => c = 0
      BY FS_EmptySet
    <3>4. \A t : T = {t} => c = 1
      BY FS_Singleton
    <3> HIDE DEF c
    <3>5. c + (IF f \in mem.free_frame_list THEN 1 ELSE 0) + (IF mem.references[f] > 0 THEN 1 ELSE 0) = 1
      BY <3>2, <3>3, <3>4 DEF OneUse
    <3> QED BY <3>1, <3>5 DEF c
  <2>2. \A f \in Frame : mem.references[f] = Cardinality(MappedTo(mem, f))
    BY DEF Good, Accounted
  <2>3. \A p \in Page : is_mapped(mem, p) => has_table(mem, p)
    BY DEF Good, Accounted
  <2> QED BY <2>1, <2>2, <2>3 DEF FramesAccounted
<1> QED BY <1>1, AlwaysGood, PTL

(***************************************************************************)
(* cut_paste_pages(): no page is lost, where memory ends half way too.     *)
(***************************************************************************)
LEMMA CutTableMoves ==
  ASSUME NEW m, NEW r, NEW s \in Nat, NEW d \in Nat, NEW n \in Nat, NEW j \in 0 .. n,
         r.page_table = CutTable(m, s, d, j),
         \A k \in 0 .. n - 1 : d + k \in Page /\ ~is_mapped(m, d + k),
         \A k \in 0 .. n - 1 : s + k \in Page /\ is_mapped(m, s + k),
         NEW k \in 0 .. n - 1
  PROVE  /\ k < j => r.page_table[d + k] = m.page_table[s + k] /\ ~is_mapped(r, s + k)
         /\ k >= j => r.page_table[s + k] = m.page_table[s + k] /\ ~is_mapped(r, d + k)
<1>1. (s + k) - d \notin 0 .. n - 1 /\ (d + k) - s \notin 0 .. n - 1
  <2>1. ASSUME (s + k) - d \in 0 .. n - 1 PROVE FALSE
    <3>1. d + ((s + k) - d) = s + k
      OBVIOUS
    <3>2. ~is_mapped(m, d + ((s + k) - d))
      BY <2>1
    <3> QED BY <3>1, <3>2
  <2>2. ASSUME (d + k) - s \in 0 .. n - 1 PROVE FALSE
    <3>1. s + ((d + k) - s) = d + k
      OBVIOUS
    <3>2. is_mapped(m, s + ((d + k) - s))
      BY <2>2
    <3> QED BY <3>1, <3>2
  <2> QED BY <2>1, <2>2
<1>2. (s + k) - d \notin 0 .. j - 1 /\ (d + k) - s \notin 0 .. j - 1
  BY <1>1
<1>3. (s + k) - s = k /\ (d + k) - d = k /\ s + ((d + k) - d) = s + k
  OBVIOUS
<1>4. s + k \in Page /\ d + k \in Page /\ ~is_mapped(m, d + k)
  OBVIOUS
<1>5. r.page_table[s + k] = IF k \in 0 .. j - 1 THEN NoEntry ELSE m.page_table[s + k]
  BY <1>2, <1>3, <1>4 DEF CutTable
<1>6. r.page_table[d + k] = IF k \in 0 .. j - 1 THEN m.page_table[s + k] ELSE m.page_table[d + k]
  BY <1>2, <1>3, <1>4 DEF CutTable
<1>7. ASSUME k < j PROVE r.page_table[d + k] = m.page_table[s + k] /\ ~is_mapped(r, s + k)
  <2>1. k \in 0 .. j - 1
    BY <1>7
  <2> QED BY <1>5, <1>6, <2>1 DEF is_mapped, frame_at, NoEntry
<1>8. ASSUME k >= j PROVE r.page_table[s + k] = m.page_table[s + k] /\ ~is_mapped(r, d + k)
  <2>1. k \notin 0 .. j - 1
    BY <1>8
  <2> QED BY <1>4, <1>5, <1>6, <2>1 DEF is_mapped, frame_at
<1> QED BY <1>7, <1>8

THEOREM CutLosesNoPage == Spec => []CutMovesPages
<1>1. ASSUME Good(mem) PROVE CutMovesPages
  <2> SUFFICES ASSUME NEW source \in Address, NEW dest \in Address, NEW n \in Count, CanCut(source, dest, n)
               PROVE  LET r == cut_paste_pages(mem, source, dest, n)
                          s == ROUNDDOWN(source)
                          d == ROUNDDOWN(dest)
                          moved(k) == /\ r.page_table[d + k] = mem.page_table[s + k]
                                      /\ ~is_mapped(r, s + k)
                          stays(k) == r.page_table[s + k] = mem.page_table[s + k] /\ ~is_mapped(r, d + k)
                      IN /\ r.outcome = "ok" => \A k \in 0 .. n - 1 : moved(k)
                         /\ r.outcome = "panic" => \A k \in 0 .. n - 1 : moved(k) \/ stays(k)
                         /\ r.outcome = "denied" => [r EXCEPT !.outcome = "ok"] = mem
    BY DEF CutMovesPages
  <2> DEFINE r == cut_paste_pages(mem, source, dest, n)
             s == ROUNDDOWN(source)
             d == ROUNDDOWN(dest)
             moved(k) == r.page_table[d + k] = mem.page_table[s + k] /\ ~is_mapped(r, s + k)
             stays(k) == r.page_table[s + k] = mem.page_table[s + k] /\ ~is_mapped(r, d + k)
             Done == /\ r.outcome = "ok" => \A k \in 0 .. n - 1 : moved(k)
                     /\ r.outcome = "panic" => \A k \in 0 .. n - 1 : moved(k) \/ stays(k)
                     /\ r.outcome = "denied" => [r EXCEPT !.outcome = "ok"] = mem
  <2>1. n \in Nat \ {0} /\ s \in Nat /\ d \in Nat
    BY ChunkAssumption, PageOfAddress DEF Page
  <2>2. \/ r = denied(mem)
        \/ /\ \A k \in 0 .. n - 1 : d + k \in Page /\ ~is_mapped(mem, d + k)
           /\ \A k \in 0 .. n - 1 : s + k \in Page /\ is_mapped(mem, s + k)
           /\ \E j \in 0 .. n : /\ r.page_table = CutTable(mem, s, d, j)
                                /\ r.outcome = "panic" \/ (r.outcome = "ok" /\ j = n)
    BY <1>1, <2>1, CutDone DEF CanCut, AllMapped
  <2>3. ASSUME r = denied(mem) PROVE Done
    <3>1. r.outcome = "denied" /\ [r EXCEPT !.outcome = "ok"] = mem
      BY <1>1, <2>3, Denied
    <3> QED BY <3>1
  <2>4. ASSUME \A k \in 0 .. n - 1 : d + k \in Page /\ ~is_mapped(mem, d + k),
               \A k \in 0 .. n - 1 : s + k \in Page /\ is_mapped(mem, s + k),
               NEW j \in 0 .. n, r.page_table = CutTable(mem, s, d, j),
               r.outcome = "panic" \/ (r.outcome = "ok" /\ j = n)
        PROVE  Done
    <3> HIDE DEF r, s, d
    <3>1. \A k \in 0 .. n - 1 : (k < j => moved(k)) /\ (k >= j => stays(k))
      BY <2>1, <2>4, CutTableMoves
    <3>2. \A k \in 0 .. n - 1 : k < j \/ k >= j
      OBVIOUS
    <3>3. j = n => \A k \in 0 .. n - 1 : k < j
      OBVIOUS
    <3> HIDE DEF moved, stays
    <3> QED BY <2>4, <3>1, <3>2, <3>3
  <2>5. Done
    <3> HIDE DEF Done, r, s, d
    <3> QED BY <2>2, <2>3, <2>4
  <2> QED BY <2>5
<1> QED BY <1>1, AlwaysGood, PTL

(***************************************************************************)
(* share_chunk() and copy_paste_chunk(): the destination shows what the    *)
(* source has, and nothing else has changed.                               *)
(***************************************************************************)
LEMMA GoodShareAliases ==
  ASSUME Good(mem)
  PROVE  ShareAliases
<1> SUFFICES ASSUME NEW source \in Address, NEW dest \in Address, NEW size \in Size, NEW perm \in Perm,
                    CanShare(source, dest, size)
             PROVE  LET r == share_chunk(mem, source, dest, size, perm)
                        shift == ROUNDDOWN(dest) - ROUNDDOWN(source)
                    IN /\ r.outcome = "ok" => \A p \in PagesFrom(dest, size) :
                            r.page_table[p] = [frame |-> frame_at(mem, p - shift), perm |-> perm]
                       /\ \A p \in Page : is_mapped(mem, p) => r.page_table[p] = mem.page_table[p]
                       /\ mem.free_frame_list \ r.free_frame_list = Tables(r) \ Tables(mem)
  BY DEF ShareAliases
<1> DEFINE r == share_chunk(mem, source, dest, size, perm)
           s == ROUNDDOWN(source)
           d == ROUNDDOWN(dest)
           n == Cardinality(PagesFrom(dest, size))
           Done == /\ r.outcome = "ok" => \A p \in PagesFrom(dest, size) :
                        r.page_table[p] = [frame |-> frame_at(mem, p - (d - s)), perm |-> perm]
                   /\ \A p \in Page : is_mapped(mem, p) => r.page_table[p] = mem.page_table[p]
                   /\ mem.free_frame_list \ r.free_frame_list = Tables(r) \ Tables(mem)
<1>1. size \in Nat \ {0} /\ perm \in Permission /\ InSpace(dest, size)
  BY ChunkAssumption DEF Permission, CanShare
<1>2. n \in Nat \ {0} /\ s \in Nat /\ d \in Nat /\ PagesFrom(dest, size) = d .. d + n - 1
      /\ PagesFrom(dest, size) \subseteq Page
  BY <1>1, RangeInSpace, PageOfAddress DEF Page
<1>3. \/ r = denied(mem)
      \/ /\ \A k \in 0 .. n - 1 : d + k \in Page /\ ~is_mapped(mem, d + k)
         /\ FramesBecameTables(mem, r)
         /\ \E j \in 0 .. n : /\ r.page_table = ShareTable(mem, s, d, perm, j)
                              /\ r.outcome = "panic" \/ (r.outcome = "ok" /\ j = n)
  BY <1>1, ShareDone DEF CanShare, AllMapped
<1>4. ASSUME r = denied(mem) PROVE Done
  <2>1. /\ r.outcome = "denied" /\ r.page_table = mem.page_table
        /\ r.free_frame_list = mem.free_frame_list /\ r.page_directory = mem.page_directory
    BY <1>4, StoppedAccounted DEF Good, denied, SameMappings
  <2> HIDE DEF r
  <2> QED BY <2>1 DEF Tables
<1>5. ASSUME \A k \in 0 .. n - 1 : d + k \in Page /\ ~is_mapped(mem, d + k),
             FramesBecameTables(mem, r),
             NEW j \in 0 .. n, r.page_table = ShareTable(mem, s, d, perm, j),
             r.outcome = "panic" \/ (r.outcome = "ok" /\ j = n)
      PROVE  Done
  <2> HIDE DEF r, s, d, n
  <2>1. ASSUME r.outcome = "ok", NEW p \in d .. d + n - 1, p \in Page
        PROVE  r.page_table[p] = [frame |-> frame_at(mem, p - (d - s)), perm |-> perm]
    <3>1. p - d \in 0 .. j - 1 /\ s + (p - d) = p - (d - s)
      BY <1>2, <1>5, <2>1
    <3> QED BY <1>5, <2>1, <3>1 DEF ShareTable
  <2>2. ASSUME NEW p \in Page, is_mapped(mem, p) PROVE r.page_table[p] = mem.page_table[p]
    <3>1. p - d \notin 0 .. j - 1
      <4> SUFFICES ASSUME p - d \in 0 .. j - 1 PROVE FALSE
        OBVIOUS
      <4>1. p - d \in 0 .. n - 1 /\ d + (p - d) = p
        BY <1>2 DEF Page
      <4>2. ~is_mapped(mem, d + (p - d))
        BY <1>5, <4>1
      <4> QED BY <2>2, <4>1, <4>2
    <3> QED BY <1>5, <3>1 DEF ShareTable
  <2>3. mem.free_frame_list \cap Tables(mem) = {}
    <3> SUFFICES ASSUME NEW f \in mem.free_frame_list, f \in Tables(mem) PROVE FALSE
      OBVIOUS
    <3>1. f \in Frame
      BY DEF Good, Accounted, Memory
    <3>2. TablesAt(mem, f) = {}
      BY <3>1 DEF Good, Accounted, OneUse
    <3> QED BY <3>2 DEF Tables, TablesAt
  <2>4. mem.free_frame_list \ r.free_frame_list = Tables(r) \ Tables(mem)
    BY <1>5, <2>3 DEF FramesBecameTables
  <2> QED BY <1>2, <2>1, <2>2, <2>4
<1>6. Done
  <2> HIDE DEF Done, r, s, d, n
  <2> QED BY <1>3, <1>4, <1>5
<1> QED BY <1>6

LEMMA LabelledGood ==
  ASSUME Good(mem)
  PROVE  Good(Labelled) /\ SameFrames(mem, Labelled)
<1> DEFINE con == [f \in Frame |-> [u \in Unit |-> f * PAGE_SIZE + u]]
           x == [mem EXCEPT !.contents = con]
<1>1. \A f \in Frame, u \in Unit : f * PAGE_SIZE + u \in Nat
  BY Numbers, ChunkAssumption DEF Unit
<1>2. con \in [Frame -> [Unit -> Nat]]
  BY <1>1
<1> HIDE DEF con
<1>3. x \in Memory /\ x.outcome = "ok" /\ SameFrames(mem, x)
  BY <1>2 DEF Good, Accounted, Memory, SameFrames
<1>4. Labelled = x
  BY DEF Labelled, con
<1> HIDE DEF x
<1> QED BY <1>3, <1>4, SameFramesAccounted DEF Good

LEMMA GoodCopyCopies ==
  ASSUME Good(mem)
  PROVE  CopyCopies
<1> DEFINE before == Labelled
<1>1. Good(before) /\ SameFrames(mem, before)
  BY LabelledGood
<1>2. ASSUME NEW source \in Address, NEW dest \in Address, NEW size \in Size \cup {PAGE_SIZE},
             CanCopy(source, dest, size)
      PROVE  LET r == copy_paste_chunk(before, source, dest, size)
                 changed == {f \in Frame : r.contents[f] # before.contents[f]}
                 disjoint == PagesFrom(source, size) \cap PagesFrom(dest, size) = {}
             IN /\ changed \subseteq FramesOf(r, dest, size)
                /\ r.outcome = "denied" => [r EXCEPT !.outcome = "ok"] = before
                /\ r.outcome = "panic" => changed = {}
                /\ r.outcome = "ok" /\ (dest <= source \/ disjoint) /\ NoAlias(mem, dest, size)
                   => \A i \in 0 .. size - 1 :
                        unit_at(r, dest + i) = unit_at(before, source + i)
  <2> DEFINE r == copy_paste_chunk(before, source, dest, size)
             changed == {f \in Frame : r.contents[f] # before.contents[f]}
             disjoint == PagesFrom(source, size) \cap PagesFrom(dest, size) = {}
             Done == /\ changed \subseteq FramesOf(r, dest, size)
                     /\ r.outcome = "denied" => [r EXCEPT !.outcome = "ok"] = before
                     /\ r.outcome = "panic" => changed = {}
                     /\ r.outcome = "ok" /\ (dest <= source \/ disjoint) /\ NoAlias(mem, dest, size)
                        => \A i \in 0 .. size - 1 :
                             unit_at(r, dest + i) = unit_at(before, source + i)
  <2> HIDE DEF before
  <2>1. size \in Nat \ {0} /\ InSpace(dest, size)
    BY <1>2, ChunkAssumption DEF CanCopy
  <2>2. \A p \in PagesFrom(source, size) : p \in Page /\ is_mapped(before, p)
    BY <1>1, <1>2 DEF CanCopy, AllMapped, SameFrames, is_mapped, frame_at
  <2>3. NoAlias(mem, dest, size) => NoAlias(before, dest, size)
    BY <1>1 DEF NoAlias, FramesOf, SameFrames, frame_at
  <2>4. \/ r = denied(before)
        \/ r.outcome = "panic" /\ r.contents = before.contents
        \/ r.outcome \in {"ok", "fault"} /\ CopyReaches(before, r, source, dest, size)
    BY <1>1, <2>1, <2>2, CopyDone
  <2>5. ASSUME r = denied(before) PROVE Done
    <3>1. r.outcome = "denied" /\ [r EXCEPT !.outcome = "ok"] = before
      BY <1>1, <2>5, Denied
    <3>2. r.contents = before.contents
      BY <1>1, <2>5, StoppedAccounted DEF Good, denied, SameMappings
    <3> HIDE DEF r
    <3> QED BY <3>1, <3>2
  <2>6. ASSUME r.outcome = "panic", r.contents = before.contents PROVE Done
    <3> HIDE DEF r
    <3> QED BY <2>6
  <2>7. ASSUME r.outcome \in {"ok", "fault"}, CopyReaches(before, r, source, dest, size) PROVE Done
    <3> HIDE DEF r
    <3>1. changed \subseteq FramesOf(r, dest, size)
      BY <2>7 DEF CopyReaches
    <3> QED BY <2>3, <2>7, <3>1 DEF CopyReaches
  <2>8. Done
    <3> HIDE DEF Done, r
    <3> QED BY <2>4, <2>5, <2>6, <2>7
  <2> QED BY <2>8
<1> QED BY <1>2 DEF CopyCopies

THEOREM DestinationIsSource == Spec => []DestinationShowsSource
<1>1. Good(mem) => DestinationShowsSource
  BY GoodCopyCopies, GoodShareAliases DEF DestinationShowsSource
<1> QED BY <1>1, AlwaysGood, PTL
-----------------------------------------------------------------------------
(***************************************************************************)
(* The counting functions.  What allocate_page() takes: a frame, and one   *)
(* for the table if it is missing.                                         *)
(***************************************************************************)
LEMMA FreeFinite ==
  ASSUME NEW m, m \in Memory
  PROVE  IsFiniteSet(m.free_frame_list) /\ Cardinality(m.free_frame_list) \in Nat
<1>1. IsFiniteSet(Frame)
  BY ChunkAssumption, FS_Interval DEF Frame
<1>2. m.free_frame_list \subseteq Frame
  BY DEF Memory
<1> QED BY <1>1, <1>2, FS_Subset, FS_CardinalityType

TableCost(m, p) == IF has_table(m, p) THEN 0 ELSE 1

LEMMA TableCounted ==
  ASSUME NEW m, Good(m), NEW p \in Page
  PROVE  LET t == with_table(m, p)
         IN /\ t.outcome = "ok" =>
                 /\ Cardinality(t.free_frame_list) = Cardinality(m.free_frame_list) - TableCost(m, p)
                 /\ \A q \in Page : has_table(t, q) <=> has_table(m, q) \/ PDX(q) = PDX(p)
            /\ t.outcome = "panic" => Cardinality(m.free_frame_list) < TableCost(m, p)
<1> DEFINE t == with_table(m, p)
           Done == /\ t.outcome = "ok" =>
                        /\ Cardinality(t.free_frame_list) = Cardinality(m.free_frame_list) - TableCost(m, p)
                        /\ \A q \in Page : has_table(t, q) <=> has_table(m, q) \/ PDX(q) = PDX(p)
                   /\ t.outcome = "panic" => Cardinality(m.free_frame_list) < TableCost(m, p)
<1>1. m \in Memory /\ m.outcome = "ok"
  BY DEF Good, Accounted
<1>2. IsFiniteSet(m.free_frame_list) /\ Cardinality(m.free_frame_list) \in Nat
  BY <1>1, FreeFinite
<1>3. ASSUME has_table(m, p) PROVE Done
  <2>1. t = m /\ TableCost(m, p) = 0
    BY <1>3 DEF with_table, TableCost
  <2>2. \A q \in Page : PDX(q) = PDX(p) => has_table(m, q)
    BY <1>3 DEF has_table
  <2> HIDE DEF t
  <2> QED BY <1>1, <1>2, <2>1, <2>2
<1>4. ASSUME ~has_table(m, p), m.free_frame_list = {} PROVE Done
  <2>1. take_frame(m) = Stopped(m)
    BY <1>4 DEF take_frame, Stopped
  <2>2. Stopped(m).outcome = "panic"
    BY StoppedAccounted DEF Stopped, Good
  <2>3. t = Stopped(m)
    BY <1>4, <2>1, <2>2 DEF with_table, create_page_table
  <2>4. Cardinality(m.free_frame_list) = 0 /\ TableCost(m, p) = 1
    BY <1>4, FS_EmptySet DEF TableCost
  <2>5. t.outcome = "panic"
    BY <2>2, <2>3
  <2> HIDE DEF t
  <2> QED BY <2>4, <2>5
<1>5. ASSUME ~has_table(m, p), m.free_frame_list # {} PROVE Done
  <2> DEFINE f == new_frame(m)
  <2>1. /\ f \in m.free_frame_list /\ t.outcome = "ok"
        /\ t.page_directory = [m.page_directory EXCEPT ![PDX(p)] = f]
        /\ t.free_frame_list = m.free_frame_list \ {f}
    BY <1>1, <1>5, TableTaken
  <2> HIDE DEF t, f
  <2>2. Cardinality(t.free_frame_list) = Cardinality(m.free_frame_list) - 1
    BY <1>2, <2>1, OneLess
  <2>3. f # NONE /\ \A q \in Page : PDX(q) \in DOMAIN m.page_directory
    BY <1>1, <2>1, Numbers DEF Memory
  <2>4. \A q \in Page : has_table(t, q) <=> has_table(m, q) \/ PDX(q) = PDX(p)
    BY <2>1, <2>3 DEF has_table
  <2>5. TableCost(m, p) = 1
    BY <1>5 DEF TableCost
  <2> QED BY <2>1, <2>2, <2>4, <2>5
<1>6. Done
  <2> HIDE DEF Done
  <2> QED BY <1>3, <1>4, <1>5
<1> QED BY <1>6

LEMMA AllocationCounted ==
  ASSUME NEW m, Good(m), NEW p \in Page, NEW perm \in Permission, ~is_mapped(m, p)
  PROVE  LET t == allocate_page(m, p, perm)
         IN /\ t.outcome = "ok" =>
                 /\ Cardinality(t.free_frame_list) = Cardinality(m.free_frame_list) - TableCost(m, p) - 1
                 /\ \A q \in Page : has_table(t, q) <=> has_table(m, q) \/ PDX(q) = PDX(p)
            /\ t.outcome = "panic" => Cardinality(m.free_frame_list) < TableCost(m, p) + 1
<1> DEFINE x == with_table(m, p)
           u == take_frame(x)
           t == allocate_page(m, p, perm)
           Done == /\ t.outcome = "ok" =>
                        /\ Cardinality(t.free_frame_list) = Cardinality(m.free_frame_list) - TableCost(m, p) - 1
                        /\ \A q \in Page : has_table(t, q) <=> has_table(m, q) \/ PDX(q) = PDX(p)
                   /\ t.outcome = "panic" => Cardinality(m.free_frame_list) < TableCost(m, p) + 1
<1>1. Accounted(x) /\ x.outcome \in {"ok", "panic"} /\ x \in Memory
  <2>1. Accounted(x) /\ (x.outcome = "ok" \/ x.outcome = "panic")
    BY TableMade DEF Good
  <2> HIDE DEF x
  <2> QED BY <2>1 DEF Accounted
<1>2. /\ x.outcome = "ok" =>
           /\ Cardinality(x.free_frame_list) = Cardinality(m.free_frame_list) - TableCost(m, p)
           /\ \A q \in Page : has_table(x, q) <=> has_table(m, q) \/ PDX(q) = PDX(p)
      /\ x.outcome = "panic" => Cardinality(m.free_frame_list) < TableCost(m, p)
  BY TableCounted
<1>3. /\ Cardinality(m.free_frame_list) \in Nat /\ IsFiniteSet(x.free_frame_list)
      /\ Cardinality(x.free_frame_list) \in Nat /\ TableCost(m, p) \in Nat
  <2>1. m \in Memory
    BY DEF Good, Accounted
  <2> HIDE DEF x
  <2> QED BY <1>1, <2>1, FreeFinite DEF TableCost
<1> HIDE DEF x
<1>4. ASSUME x.outcome = "panic" PROVE Done
  <2>1. t = x
    BY <1>4 DEF allocate_page, x
  <2> HIDE DEF t
  <2> QED BY <1>2, <1>3, <1>4, <2>1
<1>5. ASSUME x.outcome = "ok", x.free_frame_list = {} PROVE Done
  <2>1. u = Stopped(x)
    BY <1>5 DEF take_frame, Stopped
  <2>2. u.outcome = "panic"
    BY <1>1, <2>1, StoppedAccounted DEF Stopped
  <2>3. t = u
    BY <1>5, <2>2 DEF allocate_page, x
  <2>4. Cardinality(x.free_frame_list) = 0
    BY <1>5, FS_EmptySet
  <2> HIDE DEF u, t
  <2> QED BY <1>2, <1>3, <1>5, <2>2, <2>3, <2>4
<1>6. ASSUME x.outcome = "ok", x.free_frame_list # {} PROVE Done
  <2> DEFINE f == new_frame(x)
  <2>1. /\ f \in x.free_frame_list /\ f \in Frame /\ u \in Memory /\ u.outcome = "ok"
        /\ u.page_directory = x.page_directory /\ u.free_frame_list = x.free_frame_list \ {f}
    BY <1>1, <1>6, FrameTaken
  <2>2. t = map_frame(u, f, p, perm)
    BY <1>6, <2>1 DEF allocate_page, x
  <2> HIDE DEF u, f
  <2>3. /\ t \in Memory /\ t.outcome = u.outcome /\ t.page_directory = u.page_directory
        /\ t.page_table = [u.page_table EXCEPT ![p] = [frame |-> f, perm |-> perm]]
        /\ t.references = [u.references EXCEPT ![f] = @ + 1]
        /\ t.free_frame_list = u.free_frame_list /\ t.contents = u.contents
    BY <2>1, <2>2, MapFields
  <2> HIDE DEF t
  <2>4. Cardinality(t.free_frame_list) = Cardinality(x.free_frame_list) - 1
    BY <1>3, <2>1, <2>3, OneLess
  <2>5. \A q \in Page : has_table(t, q) <=> has_table(x, q)
    BY <2>1, <2>3 DEF has_table
  <2> QED BY <1>2, <1>3, <1>6, <2>1, <2>3, <2>4, <2>5
<1>7. Done
  <2> HIDE DEF Done
  <2> QED BY <1>1, <1>4, <1>5, <1>6
<1> QED BY <1>7

(***************************************************************************)
(* The pages among the first k from d where a table is missing that no     *)
(* page before them in the range needs too.                                *)
(***************************************************************************)
NewTables(m, d, k) ==
  {p \in d .. d + k - 1 : ~has_table(m, p) /\ (p = d \/ PDX(p) # PDX(p - 1))}

FramesNeeded(m, d, k) == k + Cardinality(NewTables(m, d, k))

LEMMA TableOrder ==
  ASSUME NEW p \in Nat, NEW q \in Nat, p <= q
  PROVE  PDX(p) \in Nat /\ PDX(p) <= PDX(q)
BY ChunkAssumption, Division, DivisionMonotone DEF PDX

LEMMA NewTablesStep ==
  ASSUME NEW m, NEW d \in Nat, NEW k \in Nat
  PROVE  /\ IsFiniteSet(NewTables(m, d, k)) /\ Cardinality(NewTables(m, d, k)) \in Nat
         /\ Cardinality(NewTables(m, d, k + 1))
              = Cardinality(NewTables(m, d, k)) + (IF d + k \in NewTables(m, d, k + 1) THEN 1 ELSE 0)
<1>1. IsFiniteSet(d .. d + k - 1)
  <2>1. d \in Int /\ d + k - 1 \in Int
    OBVIOUS
  <2> QED BY <2>1, FS_Interval
<1>2. NewTables(m, d, k) \subseteq d .. d + k - 1
  BY DEF NewTables
<1>3. IsFiniteSet(NewTables(m, d, k)) /\ Cardinality(NewTables(m, d, k)) \in Nat
  BY <1>1, <1>2, FS_Subset, FS_CardinalityType
<1>4. \A p : p \in d .. d + (k + 1) - 1 <=> p \in d .. d + k - 1 \/ p = d + k
  OBVIOUS
<1>5. d + k \notin NewTables(m, d, k)
  <2>1. d + k \notin d .. d + k - 1
    OBVIOUS
  <2> QED BY <1>2, <2>1
<1>6. CASE d + k \in NewTables(m, d, k + 1)
  <2>1. NewTables(m, d, k + 1) = NewTables(m, d, k) \cup {d + k}
    BY <1>4, <1>6 DEF NewTables
  <2> QED BY <1>3, <1>5, <1>6, <2>1, OneMore
<1>7. CASE d + k \notin NewTables(m, d, k + 1)
  <2>1. NewTables(m, d, k + 1) = NewTables(m, d, k)
    BY <1>4, <1>7 DEF NewTables
  <2> QED BY <1>3, <1>7, <2>1
<1> QED BY <1>3, <1>6, <1>7

(***************************************************************************)
(* A table is missing at the next page when it was missing before the loop *)
(* and the page before it has another one.                                 *)
(***************************************************************************)
LEMMA NewTableAt ==
  ASSUME NEW m, NEW d \in Nat, NEW k \in Nat
  PROVE  d + k \in NewTables(m, d, k + 1)
           <=> ~has_table(m, d + k) /\ ~\E i \in 0 .. k - 1 : PDX(d + k) = PDX(d + i)
<1>1. d + k \in NewTables(m, d, k + 1)
        <=> ~has_table(m, d + k) /\ (d + k = d \/ PDX(d + k) # PDX((d + k) - 1))
  <2>1. d + k \in d .. d + (k + 1) - 1
    OBVIOUS
  <2> QED BY <2>1 DEF NewTables
<1>2. CASE k = 0
  <2>1. d + k = d /\ ~\E i \in 0 .. k - 1 : PDX(d + k) = PDX(d + i)
    BY <1>2
  <2> QED BY <1>1, <2>1
<1>3. CASE k # 0
  <2>1. d + k # d /\ k - 1 \in 0 .. k - 1 /\ (d + k) - 1 = d + (k - 1) /\ d + (k - 1) \in Nat /\ d + k \in Nat
    BY <1>3
  <2>2. ASSUME NEW i \in 0 .. k - 1, PDX(d + k) = PDX(d + i) PROVE PDX(d + k) = PDX(d + (k - 1))
    <3>1. d + i \in Nat /\ d + i <= d + (k - 1) /\ d + (k - 1) <= d + k
      OBVIOUS
    <3>2. PDX(d + i) \in Nat /\ PDX(d + (k - 1)) \in Nat
          /\ PDX(d + i) <= PDX(d + (k - 1)) /\ PDX(d + (k - 1)) <= PDX(d + k)
      BY <2>1, <3>1, TableOrder
    <3> QED BY <2>2, <3>2
  <2> QED BY <1>1, <2>1, <2>2
<1> QED BY <1>2, <1>3

LEMMA AllocateCounted ==
  ASSUME NEW m, Good(m), NEW d \in Nat, NEW n \in Nat, NEW perm \in Permission,
         \A k \in 0 .. n - 1 : d + k \in Page /\ ~is_mapped(m, d + k),
         NEW run, IsRun(run, [loop |-> "allocate", d |-> d, perm |-> perm], m, n)
  PROVE  /\ run[n].outcome = "ok" =>
              Cardinality(m.free_frame_list) - Cardinality(run[n].free_frame_list) = FramesNeeded(m, d, n)
         /\ run[n].outcome = "panic" => FramesNeeded(m, d, n) > Cardinality(m.free_frame_list)
<1> DEFINE w == [loop |-> "allocate", d |-> d, perm |-> perm]
           free(x) == Cardinality(x.free_frame_list)
           Inv(x, k) == /\ Accounted(x) /\ x.outcome \in {"ok", "panic"}
                        /\ \A q \in Page : (q < d \/ q >= d + k) => x.page_table[q] = m.page_table[q]
                        /\ x.outcome = "ok" =>
                             /\ free(x) = free(m) - FramesNeeded(m, d, k)
                             /\ \A q \in Page : has_table(x, q) <=>
                                  has_table(m, q) \/ \E i \in 0 .. k - 1 : PDX(q) = PDX(d + i)
                        /\ x.outcome = "panic" => free(m) < FramesNeeded(m, d, k)
           S == {k \in Nat : k <= n => Inv(run[k], k)}
<1>1. free(m) \in Nat
  BY FreeFinite DEF Good, Accounted
<1>2. \A k \in Nat : /\ FramesNeeded(m, d, k) \in Nat
                     /\ FramesNeeded(m, d, k + 1)
                          = FramesNeeded(m, d, k) + 1 + (IF d + k \in NewTables(m, d, k + 1) THEN 1 ELSE 0)
  BY NewTablesStep DEF FramesNeeded
<1>3. 0 \in S
  <2>1. run[0] = m
    BY DEF IsRun
  <2>2. FramesNeeded(m, d, 0) = 0
    <3>1. NewTables(m, d, 0) = {}
      BY DEF NewTables
    <3> QED BY <3>1, FS_EmptySet DEF FramesNeeded
  <2> HIDE DEF w
  <2>3. Inv(m, 0)
    BY <1>1, <2>2 DEF Good
  <2> QED BY <2>1, <2>3
<1>4. ASSUME NEW k \in Nat, k \in S PROVE k + 1 \in S
  <2> DEFINE x == run[k]
             y == run[k + 1]
             p == d + k
             extra == IF p \in NewTables(m, d, k + 1) THEN 1 ELSE 0
  <2> SUFFICES ASSUME k + 1 <= n PROVE Inv(y, k + 1)
    OBVIOUS
  <2>1. Inv(x, k) /\ y = AfterRound(w, x, k) /\ p \in Page
    BY <1>4 DEF IsRun
  <2>2. ~is_mapped(m, p)
    OBVIOUS
  <2>3. /\ FramesNeeded(m, d, k) \in Nat /\ FramesNeeded(m, d, k + 1) = FramesNeeded(m, d, k) + 1 + extra
        /\ extra \in Nat
    BY <1>2
  <2> HIDE DEF x, y, free, extra
  <2>4. CASE x.outcome # "ok"
    <3>1. y = x
      BY <2>1, <2>4 DEF AfterRound
    <3>2. \A q \in Page : q >= d + (k + 1) => q >= d + k
      BY DEF Page
    <3>3. y.outcome = "panic" /\ free(m) < FramesNeeded(m, d, k + 1)
      BY <1>1, <2>1, <2>3, <2>4, <3>1
    <3> QED BY <2>1, <3>1, <3>2, <3>3
  <2>5. CASE x.outcome = "ok"
    <3>1. y = allocate_page(x, p, perm)
      BY <2>1, <2>5 DEF AfterRound, Round
    <3>2. ~is_mapped(x, p)
      <4>1. x.page_table[p] = m.page_table[p]
        BY <2>1
      <4> QED BY <2>2, <4>1 DEF is_mapped, frame_at
    <3> HIDE DEF p
    <3>3. Accounted(y) /\ OnlyAt(x, y, p) /\ y.outcome \in {"ok", "panic"}
      BY <2>1, <2>5, <3>1, <3>2, PageAllocated
    <3>4. /\ y.outcome = "ok" => /\ free(y) = free(x) - TableCost(x, p) - 1
                                 /\ \A q \in Page : has_table(y, q) <=> has_table(x, q) \/ PDX(q) = PDX(p)
          /\ y.outcome = "panic" => free(x) < TableCost(x, p) + 1
      <4>1. Good(x)
        BY <2>1, <2>5 DEF Good
      <4>2. p \in Page
        BY <2>1
      <4> QED BY <3>1, <3>2, <4>1, <4>2, AllocationCounted, ZenonT(60) DEF free
    <3>5. TableCost(x, p) = extra
      <4>1. has_table(x, p) <=> has_table(m, p) \/ \E i \in 0 .. k - 1 : PDX(p) = PDX(d + i)
        BY <2>1, <2>5
      <4>2. p \in NewTables(m, d, k + 1) <=> ~has_table(m, p) /\ ~\E i \in 0 .. k - 1 : PDX(p) = PDX(d + i)
        BY NewTableAt DEF p
      <4> QED BY <4>1, <4>2 DEF TableCost, extra
    <3>6. free(x) = free(m) - FramesNeeded(m, d, k)
      BY <2>1, <2>5
    <3>7. y.outcome = "ok" => free(y) = free(m) - FramesNeeded(m, d, k + 1)
      BY <1>1, <2>3, <3>4, <3>5, <3>6
    <3>8. y.outcome = "panic" => free(m) < FramesNeeded(m, d, k + 1)
      BY <1>1, <2>3, <3>4, <3>5, <3>6
    <3>9. ASSUME y.outcome = "ok", NEW q \in Page
          PROVE  has_table(y, q) <=> has_table(m, q) \/ \E i \in 0 .. k + 1 - 1 : PDX(q) = PDX(d + i)
      <4>1. has_table(y, q) <=> has_table(m, q) \/ (\E i \in 0 .. k - 1 : PDX(q) = PDX(d + i)) \/ PDX(q) = PDX(d + k)
        BY <2>1, <2>5, <3>4, <3>9 DEF p
      <4>2. \A i : i \in 0 .. k + 1 - 1 <=> i \in 0 .. k - 1 \/ i = k
        OBVIOUS
      <4> QED BY <4>1, <4>2
    <3>10. ASSUME NEW q \in Page, q < d \/ q >= d + (k + 1) PROVE y.page_table[q] = m.page_table[q]
      <4>1. q # p /\ (q < d \/ q >= d + k)
        BY <3>10 DEF Page, p
      <4> QED BY <2>1, <3>3, <4>1 DEF OnlyAt
    <3> QED BY <3>3, <3>7, <3>8, <3>9, <3>10
  <2> QED BY <2>4, <2>5
<1> HIDE DEF S
<1>5. n \in S
  BY <1>3, <1>4, SetInduction
<1>6. Inv(run[n], n)
  BY <1>5 DEF S
<1> QED BY <1>1, <1>2, <1>6

(***************************************************************************)
(* calculate_required_frames(), for a range where nothing is mapped.       *)
(***************************************************************************)
LEMMA RequiredIsNeeded ==
  ASSUME NEW m, NEW va \in Address, NEW size \in Nat \ {0}, InSpace(va, size),
         \A p \in PagesFrom(va, size) : ~is_mapped(m, p)
  PROVE  calculate_required_frames(m, va, size)
           = FramesNeeded(m, ROUNDDOWN(va), Cardinality(PagesFrom(va, size)))
<1> DEFINE pages == PagesFrom(va, size)
           n == Cardinality(pages)
           d == ROUNDDOWN(va)
           Rest == {p \in pages \ {d} : ~has_table(m, p) /\ PDX(p) # PDX(p - 1)}
           New == NewTables(m, d, n)
<1>1. n \in Nat \ {0} /\ d \in Nat /\ pages = d .. d + n - 1
  BY RangeInSpace
<1>2. calculate_required_frames(m, va, size) = n + (IF has_table(m, d) THEN 0 ELSE 1) + Cardinality(Rest)
  <2>1. {p \in pages : ~is_mapped(m, p)} = pages
    OBVIOUS
  <2>2. calculate_required_frames(m, va, size)
          = Cardinality({p \in pages : ~is_mapped(m, p)}) + (IF has_table(m, d) THEN 0 ELSE 1) + Cardinality(Rest)
    BY DEF calculate_required_frames
  <2> HIDE DEF Rest, d
  <2> QED BY <2>1, <2>2
<1>3. New = {p \in pages : ~has_table(m, p) /\ (p = d \/ PDX(p) # PDX(p - 1))}
  BY <1>1 DEF NewTables
<1>4. IsFiniteSet(New) /\ Cardinality(New) \in Nat
  BY <1>1, NewTablesStep
<1> HIDE DEF pages, n, d
<1>5. d \in pages
  BY <1>1
<1>6. IsFiniteSet(Rest) /\ Cardinality(Rest) \in Nat
  <2>1. Rest \subseteq New
    BY <1>3
  <2> HIDE DEF Rest, New
  <2> QED BY <1>4, <2>1, FS_Subset, FS_CardinalityType
<1>7. CASE has_table(m, d)
  <2>1. New = Rest
    BY <1>3, <1>7
  <2> HIDE DEF Rest
  <2> QED BY <1>1, <1>2, <1>6, <1>7, <2>1 DEF FramesNeeded, pages, n, d
<1>8. CASE ~has_table(m, d)
  <2>1. New = Rest \cup {d} /\ d \notin Rest
    BY <1>3, <1>5, <1>8
  <2> HIDE DEF Rest, New
  <2>2. Cardinality(New) = Cardinality(Rest) + 1
    BY <1>6, <2>1, OneMore
  <2>3. calculate_required_frames(m, va, size) = n + Cardinality(New)
    BY <1>1, <1>2, <1>6, <1>8, <2>2
  <2> QED BY <2>3 DEF FramesNeeded, New, pages, n, d
<1> QED BY <1>7, <1>8

LEMMA RequiredExact ==
  ASSUME NEW m, Good(m), NEW va \in Address, NEW size \in Nat \ {0}, InSpace(va, size),
         NEW perm \in Permission
  PROVE  LET r == allocate_chunk(m, va, size, perm)
             required == calculate_required_frames(m, va, size)
             available == Cardinality(m.free_frame_list)
         IN /\ r.outcome = "ok" => available - Cardinality(r.free_frame_list) = required
            /\ r.outcome = "panic" => required > available
<1> DEFINE n == Cardinality(PagesFrom(va, size))
           d == ROUNDDOWN(va)
           w == [loop |-> "allocate", d |-> d, perm |-> perm]
           r == allocate_chunk(m, va, size, perm)
           required == calculate_required_frames(m, va, size)
           available == Cardinality(m.free_frame_list)
           Done == /\ r.outcome = "ok" => available - Cardinality(r.free_frame_list) = required
                   /\ r.outcome = "panic" => required > available
<1>1. ASSUME \E p \in PagesFrom(va, size) : is_mapped(m, p) PROVE Done
  <2>1. r = denied(m)
    BY <1>1 DEF allocate_chunk
  <2>2. r.outcome = "denied"
    BY <2>1, Denied
  <2> HIDE DEF r
  <2> QED BY <2>2
<1>2. ASSUME ~\E p \in PagesFrom(va, size) : is_mapped(m, p) PROVE Done
  <2>1. n \in Nat \ {0} /\ d \in Nat /\ \A k \in 0 .. n - 1 : d + k \in Page /\ d + k \in PagesFrom(va, size)
    BY RangeInSpace
  <2>2. r = AllocatePages(m, d, perm, n)
    BY <1>2 DEF allocate_chunk, AllocatePages
  <2>3. PICK run : IsRun(run, w, m, n) /\ r = run[n]
    <3>1. \E run : IsRun(run, w, m, n) /\ AllocatePages(m, d, perm, n) = run[n]
      <4>1. n \in Nat
        BY <2>1
      <4> HIDE DEF n, d
      <4> QED BY <4>1, AllocateRuns
    <3> QED BY <2>2, <3>1
  <2>4. \A k \in 0 .. n - 1 : d + k \in Page /\ ~is_mapped(m, d + k)
    BY <1>2, <2>1
  <2>5. required = FramesNeeded(m, d, n)
    BY <1>2, RequiredIsNeeded
  <2> HIDE DEF n, d, r, required
  <2>6. /\ run[n].outcome = "ok" =>
             Cardinality(m.free_frame_list) - Cardinality(run[n].free_frame_list) = FramesNeeded(m, d, n)
        /\ run[n].outcome = "panic" => FramesNeeded(m, d, n) > Cardinality(m.free_frame_list)
    BY <2>1, <2>3, <2>4, AllocateCounted
  <2> QED BY <2>3, <2>5, <2>6
<1>3. Done
  <2> HIDE DEF Done
  <2> QED BY <1>1, <1>2
<1> QED BY <1>3

(***************************************************************************)
(* calculate_allocated_space(): the pages where another table begins, and  *)
(* the tables, are as many.                                                *)
(***************************************************************************)
TableAt(m, p) == m.page_directory[PDX(p)]

Beginnings(m, a, k) ==
  {p \in a .. a + k - 1 : TableAt(m, p) # NONE /\ (p = a \/ TableAt(m, p) # TableAt(m, p - 1))}

TablesOf(m, a, k) == {TableAt(m, p) : p \in a .. a + k - 1} \ {NONE}

LEMMA OneTable ==
  ASSUME NEW m, Accounted(m), NEW p \in Page, NEW q \in Page,
         TableAt(m, p) # NONE, TableAt(m, p) = TableAt(m, q)
  PROVE  PDX(p) = PDX(q)
<1> DEFINE f == TableAt(m, p)
<1>1. PDX(p) \in DOMAIN m.page_directory /\ PDX(q) \in DOMAIN m.page_directory /\ f \in Frame
  BY Numbers DEF Accounted, Memory, TableAt
<1>2. PDX(p) \in TablesAt(m, f) /\ PDX(q) \in TablesAt(m, f)
  BY <1>1 DEF TablesAt, TableAt
<1>3. OneUse(m, f)
  BY <1>1 DEF Accounted
<1> HIDE DEF f
<1> QED BY <1>2, <1>3 DEF OneUse

LEMMA TablesCountedOnce ==
  ASSUME NEW m, Accounted(m), NEW a \in Nat, NEW n \in Nat, \A k \in 0 .. n - 1 : a + k \in Page
  PROVE  Cardinality(Beginnings(m, a, n)) = Cardinality(TablesOf(m, a, n))
<1> DEFINE B(k) == Beginnings(m, a, k)
           T(k) == TablesOf(m, a, k)
           Inv(k) == IsFiniteSet(B(k)) /\ IsFiniteSet(T(k)) /\ Cardinality(B(k)) = Cardinality(T(k))
           S == {k \in Nat : k <= n => Inv(k)}
<1>1. 0 \in S
  <2>1. B(0) = {} /\ T(0) = {}
    BY DEF Beginnings, TablesOf
  <2> HIDE DEF B, T
  <2> QED BY <2>1, FS_EmptySet
<1>2. ASSUME NEW k \in Nat, k \in S PROVE k + 1 \in S
  <2> DEFINE p == a + k
  <2> SUFFICES ASSUME k + 1 <= n PROVE Inv(k + 1)
    OBVIOUS
  <2>1. Inv(k) /\ p \in Page
    BY <1>2
  <2>2. \A q : q \in a .. a + (k + 1) - 1 <=> q \in a .. a + k - 1 \/ q = p
    OBVIOUS
  <2>3. p \notin a .. a + k - 1 /\ (k = 0 => p = a) /\ (k # 0 => p # a /\ p - 1 \in a .. a + k - 1)
    OBVIOUS
  <2>4. \A q \in a .. a + k - 1 : q \in Page
    <3> SUFFICES ASSUME NEW q \in a .. a + k - 1 PROVE q \in Page
      OBVIOUS
    <3>1. q - a \in 0 .. n - 1 /\ a + (q - a) = q
      OBVIOUS
    <3>2. a + (q - a) \in Page
      BY <3>1
    <3> QED BY <3>1, <3>2
  <2>5. \A q \in a .. a + k - 1 : q \in Nat /\ p - 1 \in Nat /\ q <= p - 1 /\ p - 1 <= p /\ p \in Nat
    OBVIOUS
  <2> HIDE DEF p
  <2>6. p \notin B(k)
    BY <2>3 DEF Beginnings
  <2>7. CASE TableAt(m, p) = NONE
    <3>1. B(k + 1) = B(k)
      BY <2>2, <2>7 DEF Beginnings
    <3>2. T(k + 1) = T(k)
      BY <2>2, <2>7 DEF TablesOf
    <3> HIDE DEF B, T
    <3> QED BY <2>1, <3>1, <3>2
  <2>8. CASE TableAt(m, p) # NONE /\ k # 0 /\ TableAt(m, p) = TableAt(m, p - 1)
    <3>1. B(k + 1) = B(k)
      BY <2>2, <2>3, <2>8 DEF Beginnings
    <3>2. T(k + 1) = T(k)
      BY <2>2, <2>3, <2>8 DEF TablesOf
    <3> HIDE DEF B, T
    <3> QED BY <2>1, <3>1, <3>2
  <2>9. CASE TableAt(m, p) # NONE /\ (k = 0 \/ TableAt(m, p) # TableAt(m, p - 1))
    <3>1. B(k + 1) = B(k) \cup {p}
      BY <2>2, <2>3, <2>9 DEF Beginnings
    <3>2. T(k + 1) = T(k) \cup {TableAt(m, p)}
      BY <2>2, <2>9 DEF TablesOf
    <3>3. TableAt(m, p) \notin T(k)
      <4> SUFFICES ASSUME TableAt(m, p) \in T(k) PROVE FALSE
        OBVIOUS
      <4>1. PICK q \in a .. a + k - 1 : TableAt(m, p) = TableAt(m, q)
        BY DEF TablesOf
      <4>2. PDX(p) = PDX(q)
        BY <2>1, <2>4, <2>9, <4>1, OneTable
      <4>3. q \in Nat /\ p - 1 \in Nat /\ p \in Nat /\ q <= p - 1 /\ p - 1 <= p
        BY <2>5
      <4>4. /\ PDX(q) \in Nat /\ PDX(p - 1) \in Nat /\ PDX(q) <= PDX(p - 1) /\ PDX(p - 1) <= PDX(p)
        BY <4>3, TableOrder
      <4>5. PDX(p - 1) = PDX(p)
        BY <4>2, <4>4
      <4>6. k # 0
        BY <4>1
      <4> QED BY <2>9, <4>5, <4>6 DEF TableAt
    <3> HIDE DEF B, T
    <3>4. Cardinality(B(k + 1)) = Cardinality(B(k)) + 1 /\ Cardinality(T(k + 1)) = Cardinality(T(k)) + 1
      BY <2>1, <2>6, <3>1, <3>2, <3>3, OneMore
    <3>5. IsFiniteSet(B(k + 1)) /\ IsFiniteSet(T(k + 1))
      BY <2>1, <3>1, <3>2, FS_AddElement
    <3> QED BY <2>1, <3>4, <3>5
  <2> QED BY <2>7, <2>8, <2>9
<1> HIDE DEF S
<1>3. n \in S
  BY <1>1, <1>2, SetInduction
<1> QED BY <1>3 DEF S

LEMMA SpaceExact ==
  ASSUME NEW m, Accounted(m), NEW sva \in Address, NEW eva \in Address, sva < eva
  PROVE  LET pages == ROUNDDOWN(sva) .. ROUNDUP(eva) - 1
         IN num_tables(m, sva, eva) + num_pages(m, sva, eva)
              = Cardinality({m.page_directory[PDX(p)] : p \in pages} \ {NONE})
                  + Cardinality({p \in pages : is_mapped(m, p)})
<1> DEFINE a == ROUNDDOWN(sva)
           n == Cardinality(PagesFrom(sva, eva - sva))
           pages == ROUNDDOWN(sva) .. ROUNDUP(eva) - 1
           table(p) == IF p \in pages THEN m.page_directory[PDX(p)] ELSE NONE
<1>1. sva \in Nat /\ eva \in Nat /\ eva - sva \in Nat \ {0} /\ sva + (eva - sva) = eva
  BY PageOfAddress
<1>2. InSpace(sva, eva - sva)
  <2>1. sva + (eva - sva) - 1 = eva - 1 /\ eva - 1 \in Nat /\ eva - 1 <= eva
    BY <1>1
  <2> DEFINE top == (MaxPage + 1) * PAGE_SIZE - 1
  <2>2. top \in Int /\ eva \in 0 .. top
    BY ChunkAssumption DEF Address
  <2> HIDE DEF top
  <2>3. eva - 1 \in 0 .. top
    BY <2>1, <2>2
  <2> QED BY <2>1, <2>3 DEF InSpace, Address, top
<1>3. pages = PagesFrom(sva, eva - sva)
  BY <1>1 DEF PagesFrom
<1>4. /\ n \in Nat /\ a \in Nat /\ pages = a .. a + n - 1
      /\ \A k \in 0 .. n - 1 : a + k \in Page
  BY <1>1, <1>2, <1>3, RangeInSpace
<1>5. num_tables(m, sva, eva) = Cardinality({p \in pages : table(p) # NONE /\ table(p) # table(p - 1)})
  BY DEF num_tables
<1>6. num_pages(m, sva, eva) = Cardinality({p \in pages : is_mapped(m, p)})
  BY DEF num_pages
<1> HIDE DEF a, n, pages
<1>7. {p \in pages : table(p) # NONE /\ table(p) # table(p - 1)} = Beginnings(m, a, n)
  <2>1. ASSUME NEW p \in pages
        PROVE  table(p) # NONE /\ table(p) # table(p - 1)
                 <=> TableAt(m, p) # NONE /\ (p = a \/ TableAt(m, p) # TableAt(m, p - 1))
    <3>1. table(p) = TableAt(m, p)
      BY DEF TableAt
    <3>2. CASE p = a
      <4>1. p - 1 \notin pages
        BY <1>4, <3>2
      <4>2. table(p - 1) = NONE
        BY <4>1
      <4> QED BY <3>1, <3>2, <4>2
    <3>3. CASE p # a
      <4>1. p - 1 \in pages
        BY <1>4, <3>3
      <4>2. table(p - 1) = TableAt(m, p - 1)
        BY <4>1 DEF TableAt
      <4> QED BY <3>1, <3>3, <4>2
    <3> QED BY <3>2, <3>3
  <2> HIDE DEF table
  <2> QED BY <1>4, <2>1 DEF Beginnings
<1>8. {m.page_directory[PDX(p)] : p \in pages} \ {NONE} = TablesOf(m, a, n)
  BY <1>4 DEF TablesOf, TableAt
<1>9. Cardinality(Beginnings(m, a, n)) = Cardinality(TablesOf(m, a, n))
  BY <1>4, TablesCountedOnce
<1>10. num_tables(m, sva, eva) = Cardinality({m.page_directory[PDX(p)] : p \in pages} \ {NONE})
  BY <1>5, <1>7, <1>8, <1>9
<1> QED BY <1>6, <1>10 DEF pages

(***************************************************************************)
(* calculate_required_frames() is what allocate_chunk() takes, and         *)
(* calculate_allocated_space() counts every page and table of a range      *)
(* once.                                                                   *)
(***************************************************************************)
THEOREM CountingFunctionsExact == Spec => []CountsExact
<1>1. ASSUME Good(mem) PROVE CountsExact
  <2>1. Accounted(mem) /\ {"WRITEABLE"} \in Permission /\ Size \subseteq Nat \ {0}
    BY <1>1, ChunkAssumption DEF Good, Permission
  <2>2. ASSUME NEW va \in Address, NEW size \in Size, InSpace(va, size)
        PROVE  LET r == allocate_chunk(mem, va, size, {"WRITEABLE"})
                   required == calculate_required_frames(mem, va, size)
                   available == Cardinality(mem.free_frame_list)
               IN /\ r.outcome = "ok" => available - Cardinality(r.free_frame_list) = required
                  /\ r.outcome = "panic" => required > available
    BY <1>1, <2>1, <2>2, RequiredExact
  <2>3. ASSUME NEW sva \in Address, NEW eva \in Address, sva < eva
        PROVE  LET pages == ROUNDDOWN(sva) .. ROUNDUP(eva) - 1
               IN num_tables(mem, sva, eva) + num_pages(mem, sva, eva)
                    = Cardinality({mem.page_directory[PDX(p)] : p \in pages} \ {NONE})
                        + Cardinality({p \in pages : is_mapped(mem, p)})
    BY <2>1, <2>3, SpaceExact
  <2> QED BY <2>2, <2>3 DEF CountsExact
<1> QED BY <1>1, AlwaysGood, PTL
=============================================================================
