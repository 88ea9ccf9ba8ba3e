----------------------- MODULE DynamicAllocator_proofs -----------------------
(***************************************************************************)
(* What the operations of lib/dynamic_allocator.c do to a list of blocks   *)
(* of one page or more: which pages its blocks cover and how they are      *)
(* ordered.  The proofs of the heaps rest on these facts.                  *)
(***************************************************************************)
EXTENDS DynamicAllocator, SequenceTheorems, WellFoundedInduction, NaturalsInduction, TLAPS

Block == [sva : Nat, size : Nat \ {0}]

(* A free list: two of its blocks never touch. *)
Apart(list) ==
  \A i, j \in DOMAIN list : i < j => End(list[i]) < list[j].sva

(* An allocated list: sorted, and no two blocks overlap. *)
Ascending(list) ==
  \A i, j \in DOMAIN list : i < j => End(list[i]) <= list[j].sva
-----------------------------------------------------------------------------
LEMMA SmallestIs ==
  ASSUME NEW S \in SUBSET Nat, S # {}
  PROVE  Min(S) \in S /\ \A k \in S : Min(S) <= k
<1> DEFINE R == OpToRel(<, Nat)
<1>1. \A t, s \in Nat : t < s => <<t, s>> \in R
  BY Zenon DEF OpToRel
<1>2. IsWellFoundedOn(R, Nat)
  BY NatLessThanWellFounded, Zenon
<1> HIDE DEF R
<1>3. PICK s \in S : \A t \in S : <<t, s>> \notin R
  BY <1>2, WFMin
<1>4. ASSUME NEW t \in S PROVE s <= t
  <2>1. t \in Nat /\ s \in Nat /\ <<t, s>> \notin R
    BY <1>3
  <2>2. ~(t < s)
    BY <1>1, <2>1, Zenon
  <2> QED BY <2>1, <2>2
<1>5. \E x \in S : \A y \in S : x =< y
  BY <1>4
<1> QED BY <1>5 DEF Min

(***************************************************************************)
(* A list without one of its elements, and with one more.                  *)
(***************************************************************************)
LEMMA RemoveAtIs ==
  ASSUME NEW S, NEW s \in Seq(S), NEW i \in 1 .. Len(s)
  PROVE  /\ RemoveAt(s, i) \in Seq(S) /\ Len(RemoveAt(s, i)) = Len(s) - 1
         /\ \A j \in 1 .. Len(s) - 1 :
              RemoveAt(s, i)[j] = IF j < i THEN s[j] ELSE s[j + 1]
<1> DEFINE a == SubSeq(s, 1, i - 1)
           b == SubSeq(s, i + 1, Len(s))
<1>1. /\ a \in Seq(S) /\ Len(a) = i - 1 /\ \A j \in 1 .. i - 1 : a[j] = s[j]
  OBVIOUS
<1>2. /\ b \in Seq(S) /\ Len(b) = Len(s) - i
      /\ \A j \in 1 .. Len(s) - i : b[j] = s[j + i]
  OBVIOUS
<1>3. RemoveAt(s, i) = a \o b
  BY DEF RemoveAt
<1> HIDE DEF a, b
<1>4. /\ a \o b \in Seq(S) /\ Len(a \o b) = Len(s) - 1
  <2>1. a \o b \in Seq(S) /\ Len(a \o b) = Len(a) + Len(b)
    BY <1>1, <1>2, ConcatProperties
  <2>2. Len(s) \in Nat
    OBVIOUS
  <2> QED BY <1>1, <1>2, <2>1, <2>2
<1>5. ASSUME NEW j \in 1 .. Len(s) - 1
      PROVE  (a \o b)[j] = IF j < i THEN s[j] ELSE s[j + 1]
  <2>1. CASE j < i
    BY <1>1, <1>2, <2>1
  <2>2. CASE ~(j < i)
    <3>1. j - (i - 1) \in 1 .. Len(s) - i
      BY <2>2
    <3>2. (a \o b)[j] = b[j - (i - 1)]
      BY <1>1, <1>2, <2>2
    <3>3. b[j - (i - 1)] = s[(j - (i - 1)) + i]
      BY <1>2, <3>1
    <3>4. (j - (i - 1)) + i = j + 1
      OBVIOUS
    <3> QED BY <2>2, <3>2, <3>3, <3>4
  <2> QED BY <2>1, <2>2
<1> QED BY <1>3, <1>4, <1>5

LEMMA InsertAtIs ==
  ASSUME NEW S, NEW s \in Seq(S), NEW i \in 1 .. Len(s) + 1, NEW e \in S
  PROVE  /\ InsertAt(s, i, e) \in Seq(S) /\ Len(InsertAt(s, i, e)) = Len(s) + 1
         /\ \A j \in 1 .. Len(s) + 1 :
              InsertAt(s, i, e)[j] = IF j < i THEN s[j] ELSE IF j = i THEN e ELSE s[j - 1]
<1> DEFINE a == SubSeq(s, 1, i - 1)
           b == SubSeq(s, i, Len(s))
           c == a \o <<e>>
<1>1. a \in Seq(S) /\ Len(a) = i - 1 /\ \A j \in 1 .. i - 1 : a[j] = s[j]
  OBVIOUS
<1>2. /\ b \in Seq(S) /\ Len(b) = Len(s) - i + 1
      /\ \A j \in 1 .. Len(s) - i + 1 : b[j] = s[j + i - 1]
  OBVIOUS
<1>3. InsertAt(s, i, e) = c \o b
  BY DEF InsertAt
<1> HIDE DEF a, b
<1>4. /\ c \in Seq(S) /\ Len(c) = i
      /\ \A j \in 1 .. i : c[j] = IF j < i THEN s[j] ELSE e
  BY <1>1
<1> HIDE DEF c
<1>5. c \o b \in Seq(S) /\ Len(c \o b) = Len(s) + 1
  <2>1. c \o b \in Seq(S) /\ Len(c \o b) = Len(c) + Len(b)
    BY <1>2, <1>4, ConcatProperties
  <2>2. Len(s) \in Nat
    OBVIOUS
  <2> QED BY <1>2, <1>4, <2>1, <2>2
<1>6. ASSUME NEW j \in 1 .. Len(s) + 1
      PROVE  (c \o b)[j] = IF j < i THEN s[j] ELSE IF j = i THEN e ELSE s[j - 1]
  <2>1. CASE j <= i
    BY <1>2, <1>4, <2>1
  <2>2. CASE ~(j <= i)
    <3>1. j - i \in 1 .. Len(s) - i + 1
      BY <2>2
    <3>2. (c \o b)[j] = b[j - i]
      BY <1>2, <1>4, <2>2
    <3>3. b[j - i] = s[(j - i) + i - 1]
      BY <1>2, <3>1
    <3>4. (j - i) + i - 1 = j - 1
      OBVIOUS
    <3> QED BY <2>2, <3>2, <3>3, <3>4
  <2> QED BY <2>1, <2>2
<1> QED BY <1>3, <1>5, <1>6

(***************************************************************************)
(* The pages of a block and of a list.                                     *)
(***************************************************************************)
LEMMA PagesIs ==
  ASSUME NEW b \in Block
  PROVE  /\ b.sva \in Nat /\ b.size \in Nat \ {0} /\ End(b) = b.sva + b.size
         /\ \A p : p \in Pages(b) <=> p \in Int /\ b.sva <= p /\ p < End(b)
         /\ b.sva \in Pages(b) /\ End(b) - 1 \in Pages(b)
  BY DEF Block, Pages, End

LEMMA PagesOfIs ==
  ASSUME NEW list, NEW p
  PROVE  p \in PagesOf(list) <=> \E j \in DOMAIN list : p \in Pages(list[j])
  BY DEF PagesOf

LEMMA DisjointBlocks ==
  ASSUME NEW b \in Block, NEW c \in Block, Pages(b) \cap Pages(c) = {}
  PROVE  End(b) <= c.sva \/ End(c) <= b.sva
<1>1. b.sva \notin Pages(c) /\ c.sva \notin Pages(b)
  BY PagesIs
<1> QED BY <1>1, PagesIs

(* A block that shares no page with a list lies between its blocks. *)
LEMMA ClearOf ==
  ASSUME NEW list \in Seq(Block), NEW b \in Block, PagesOf(list) \cap Pages(b) = {}
  PROVE  \A i \in DOMAIN list : /\ End(list[i]) <= b.sva \/ End(b) <= list[i].sva
                                /\ list[i].sva # b.sva
<1> TAKE i \in DOMAIN list
<1>1. list[i] \in Block
  OBVIOUS
<1>2. Pages(list[i]) \cap Pages(b) = {}
  BY PagesOfIs
<1>3. End(list[i]) <= b.sva \/ End(b) <= list[i].sva
  BY <1>1, <1>2, DisjointBlocks
<1>4. list[i].sva # b.sva
  <2>1. /\ list[i].sva \in Nat /\ list[i].size \in Nat \ {0}
        /\ End(list[i]) = list[i].sva + list[i].size
    BY <1>1, PagesIs
  <2>2. b.sva \in Nat /\ b.size \in Nat \ {0} /\ End(b) = b.sva + b.size
    BY PagesIs
  <2> QED BY <1>3, <2>1, <2>2
<1> QED BY <1>3, <1>4

LEMMA ApartAscends ==
  ASSUME NEW list \in Seq(Block), Apart(list)
  PROVE  Ascending(list)
<1> SUFFICES ASSUME NEW i \in DOMAIN list, NEW j \in DOMAIN list, i < j
             PROVE  End(list[i]) <= list[j].sva
  BY DEF Ascending
<1>1. End(list[i]) < list[j].sva
  BY DEF Apart
<1>2. list[i] \in Block /\ list[j] \in Block
  OBVIOUS
<1>3. list[j].sva \in Nat /\ End(list[i]) \in Nat
  <2>1. /\ list[i].sva \in Nat /\ list[i].size \in Nat /\ list[j].sva \in Nat
        /\ End(list[i]) = list[i].sva + list[i].size
    BY <1>2, PagesIs
  <2> QED BY <2>1
<1> QED BY <1>1, <1>3

(* No page is in two blocks of a list. *)
LEMMA PageInOneBlock ==
  ASSUME NEW list \in Seq(Block), Ascending(list),
         NEW i \in DOMAIN list, NEW j \in DOMAIN list, i # j
  PROVE  Pages(list[i]) \cap Pages(list[j]) = {}
<1>1. list[i] \in Block /\ list[j] \in Block /\ i \in Int /\ j \in Int
  OBVIOUS
<1>2. End(list[i]) <= list[j].sva \/ End(list[j]) <= list[i].sva
  BY <1>1 DEF Ascending
<1> SUFFICES ASSUME NEW p, p \in Pages(list[i]), p \in Pages(list[j]) PROVE FALSE
  OBVIOUS
<1>3. p \in Int /\ list[i].sva <= p /\ p < End(list[i])
  BY <1>1, PagesIs
<1>4. list[j].sva <= p /\ p < End(list[j])
  BY <1>1, PagesIs
<1>5. /\ list[i].sva \in Nat /\ list[j].sva \in Nat
      /\ End(list[i]) = list[i].sva + list[i].size /\ End(list[j]) = list[j].sva + list[j].size
      /\ list[i].size \in Nat /\ list[j].size \in Nat
  BY <1>1, PagesIs
<1> QED BY <1>2, <1>3, <1>4, <1>5

LEMMA RemoveBlock ==
  ASSUME NEW list \in Seq(Block), Ascending(list), NEW i \in DOMAIN list
  PROVE  LET n == RemoveAt(list, i)
         IN /\ n \in Seq(Block) /\ Len(n) = Len(list) - 1
            /\ Ascending(n) /\ (Apart(list) => Apart(n))
            /\ PagesOf(n) = PagesOf(list) \ Pages(list[i])
            /\ ToSet(n) = ToSet(list) \ {list[i]}
<1> DEFINE n == RemoveAt(list, i)
           at(j) == IF j < i THEN j ELSE j + 1
<1>1. /\ n \in Seq(Block) /\ Len(n) = Len(list) - 1
      /\ \A j \in 1 .. Len(list) - 1 : n[j] = IF j < i THEN list[j] ELSE list[j + 1]
  BY RemoveAtIs, SMTT(30)
<1>2. DOMAIN n = 1 .. Len(list) - 1 /\ DOMAIN list = 1 .. Len(list) /\ Len(list) \in Nat
  BY <1>1
<1> HIDE DEF n
<1>3. \A j \in DOMAIN n : at(j) \in DOMAIN list /\ at(j) # i /\ n[j] = list[at(j)]
  BY <1>1, <1>2
<1>4. \A j, k \in DOMAIN n : j < k => at(j) < at(k)
  BY <1>2
<1>5. \A k \in DOMAIN list : k # i => \E j \in DOMAIN n : at(j) = k
  <2> SUFFICES ASSUME NEW k \in DOMAIN list, k # i PROVE \E j \in DOMAIN n : at(j) = k
    OBVIOUS
  <2>1. CASE k < i
    BY <1>2, <2>1
  <2>2. CASE k > i
    <3>1. k - 1 \in DOMAIN n /\ at(k - 1) = k
      BY <1>2, <2>2
    <3> QED BY <3>1
  <2> QED BY <1>2, <2>1, <2>2
<1> HIDE DEF at
<1>6. Ascending(n)
  BY <1>3, <1>4, Zenon DEF Ascending
<1>7. Apart(list) => Apart(n)
  BY <1>3, <1>4, Zenon DEF Apart
<1>8. PagesOf(n) = PagesOf(list) \ Pages(list[i])
  <2>1. ASSUME NEW p \in PagesOf(n) PROVE p \in PagesOf(list) /\ p \notin Pages(list[i])
    <3>1. PICK j \in DOMAIN n : p \in Pages(n[j])
      BY PagesOfIs
    <3>2. at(j) \in DOMAIN list /\ at(j) # i /\ p \in Pages(list[at(j)])
      BY <1>3, <3>1
    <3> QED BY <3>2, PagesOfIs, PageInOneBlock
  <2>2. ASSUME NEW p \in PagesOf(list), p \notin Pages(list[i]) PROVE p \in PagesOf(n)
    <3>1. PICK k \in DOMAIN list : p \in Pages(list[k])
      BY PagesOfIs
    <3>2. PICK j \in DOMAIN n : at(j) = k
      BY <1>5, <2>2, <3>1
    <3>3. p \in Pages(n[j])
      BY <1>3, <3>1, <3>2
    <3> QED BY <3>3, PagesOfIs
  <2> QED BY <2>1, <2>2
<1>9. ToSet(n) = ToSet(list) \ {list[i]}
  <2>1. ASSUME NEW k \in DOMAIN list, k # i PROVE list[k] # list[i]
    <3>1. Pages(list[k]) \cap Pages(list[i]) = {}
      BY <2>1, PageInOneBlock
    <3>2. list[i].sva \in Pages(list[i])
      BY PagesIs
    <3> QED BY <3>1, <3>2
  <2>2. ASSUME NEW b \in ToSet(n) PROVE b \in ToSet(list) /\ b # list[i]
    <3>1. PICK j \in DOMAIN n : b = n[j]
      BY DEF ToSet
    <3>2. at(j) \in DOMAIN list /\ at(j) # i /\ b = list[at(j)]
      BY <1>3, <3>1
    <3> QED BY <2>1, <3>2 DEF ToSet
  <2>3. ASSUME NEW b \in ToSet(list), b # list[i] PROVE b \in ToSet(n)
    <3>1. PICK k \in DOMAIN list : b = list[k]
      BY DEF ToSet
    <3>2. PICK j \in DOMAIN n : at(j) = k
      BY <1>5, <2>3, <3>1
    <3> QED BY <1>3, <3>1, <3>2 DEF ToSet
  <2> QED BY <2>2, <2>3
<1> QED BY <1>1, <1>6, <1>7, <1>8, <1>9 DEF n

LEMMA InsertBlock ==
  ASSUME NEW list \in Seq(Block), NEW k \in 1 .. Len(list) + 1, NEW x \in Block,
         \A j \in DOMAIN list : j < k => End(list[j]) <= x.sva,
         \A j \in DOMAIN list : j >= k => End(x) <= list[j].sva
  PROVE  LET n == InsertAt(list, k, x)
         IN /\ n \in Seq(Block) /\ Len(n) = Len(list) + 1
            /\ Ascending(list) => Ascending(n)
            /\ /\ Apart(list)
               /\ \A j \in DOMAIN list : j < k => End(list[j]) < x.sva
               /\ \A j \in DOMAIN list : j >= k => End(x) < list[j].sva
               => Apart(n)
            /\ PagesOf(n) = PagesOf(list) \cup Pages(x)
            /\ ToSet(n) = ToSet(list) \cup {x}
<1> DEFINE n == InsertAt(list, k, x)
           at(j) == IF j < k THEN j ELSE j + 1
<1>1. /\ n \in Seq(Block) /\ Len(n) = Len(list) + 1
      /\ \A j \in 1 .. Len(list) + 1 :
           n[j] = IF j < k THEN list[j] ELSE IF j = k THEN x ELSE list[j - 1]
  <2>2. list \in Seq(Block) /\ k \in 1 .. Len(list) + 1 /\ x \in Block
    OBVIOUS
  <2>3. /\ InsertAt(list, k, x) \in Seq(Block) /\ Len(InsertAt(list, k, x)) = Len(list) + 1
        /\ \A j \in 1 .. Len(list) + 1 : InsertAt(list, k, x)[j] =
             IF j < k THEN list[j] ELSE IF j = k THEN x ELSE list[j - 1]
    BY <2>2, InsertAtIs, SMTT(30)
  <2> QED BY <2>3, Zenon
<1>2. DOMAIN n = 1 .. Len(list) + 1 /\ DOMAIN list = 1 .. Len(list) /\ Len(list) \in Nat
  BY <1>1
<1> HIDE DEF n
<1>3. \A j \in DOMAIN list : /\ at(j) \in DOMAIN n /\ at(j) # k /\ n[at(j)] = list[j]
                             /\ at(j) < k <=> j < k
  <2> TAKE j \in DOMAIN list
  <2>1. CASE j < k
    BY <1>1, <1>2, <2>1
  <2>2. CASE ~(j < k)
    <3>1. at(j) = j + 1 /\ j + 1 \in DOMAIN n /\ j + 1 > k /\ (j + 1) - 1 = j
      BY <1>2, <2>2
    <3>2. n[j + 1] = list[(j + 1) - 1]
      BY <1>1, <1>2, <3>1
    <3> QED BY <1>2, <2>2, <3>1, <3>2
  <2> QED BY <2>1, <2>2
<1>4. k \in DOMAIN n /\ n[k] = x
  BY <1>1, <1>2
<1>5. \A m \in DOMAIN n : m # k => \E j \in DOMAIN list : at(j) = m
  <2> SUFFICES ASSUME NEW m \in DOMAIN n, m # k PROVE \E j \in DOMAIN list : at(j) = m
    OBVIOUS
  <2>1. CASE m < k
    BY <1>2, <2>1
  <2>2. CASE m > k
    <3>1. m - 1 \in DOMAIN list /\ at(m - 1) = m
      BY <1>2, <2>2
    <3> QED BY <3>1
  <2> QED BY <1>2, <2>1, <2>2
<1>6. \A i, j \in DOMAIN list : at(i) < at(j) => i < j
  BY <1>2
<1>7. \A i, j \in DOMAIN n : i \in Int /\ j \in Int
  BY <1>2
<1>8. \A j \in DOMAIN list : j \in Int
  BY <1>2
<1> HIDE DEF at
<1>9. ASSUME Ascending(list), NEW i \in DOMAIN n, NEW j \in DOMAIN n, i < j
      PROVE  End(n[i]) <= n[j].sva
  <2>1. CASE i = k
    <3>1. PICK b \in DOMAIN list : at(b) = j
      BY <1>5, <1>7, <1>9, <2>1
    <3>2. b >= k
      BY <1>3, <1>7, <1>8, <1>9, <2>1, <3>1
    <3> QED BY <1>3, <1>4, <2>1, <3>1, <3>2
  <2>2. CASE j = k
    <3>1. PICK a \in DOMAIN list : at(a) = i
      BY <1>5, <1>7, <1>9, <2>2
    <3>2. a < k
      BY <1>3, <1>9, <2>2, <3>1
    <3> QED BY <1>3, <1>4, <2>2, <3>1, <3>2
  <2>3. CASE i # k /\ j # k
    <3>1. PICK a \in DOMAIN list : at(a) = i
      BY <1>5, <2>3
    <3>2. PICK b \in DOMAIN list : at(b) = j
      BY <1>5, <2>3
    <3>3. a < b
      BY <1>6, <1>9, <3>1, <3>2
    <3> QED BY <1>3, <1>9, <3>1, <3>2, <3>3 DEF Ascending
  <2> QED BY <2>1, <2>2, <2>3
<1>10. ASSUME Apart(list), NEW i \in DOMAIN n, NEW j \in DOMAIN n, i < j,
              \A h \in DOMAIN list : h < k => End(list[h]) < x.sva,
              \A h \in DOMAIN list : h >= k => End(x) < list[h].sva
       PROVE  End(n[i]) < n[j].sva
  <2>1. CASE i = k
    <3>1. PICK b \in DOMAIN list : at(b) = j
      BY <1>5, <1>7, <1>10, <2>1
    <3>2. b >= k
      BY <1>3, <1>7, <1>8, <1>10, <2>1, <3>1
    <3> QED BY <1>3, <1>4, <1>10, <2>1, <3>1, <3>2
  <2>2. CASE j = k
    <3>1. PICK a \in DOMAIN list : at(a) = i
      BY <1>5, <1>7, <1>10, <2>2
    <3>2. a < k
      BY <1>3, <1>10, <2>2, <3>1
    <3> QED BY <1>3, <1>4, <1>10, <2>2, <3>1, <3>2
  <2>3. CASE i # k /\ j # k
    <3>1. PICK a \in DOMAIN list : at(a) = i
      BY <1>5, <2>3
    <3>2. PICK b \in DOMAIN list : at(b) = j
      BY <1>5, <2>3
    <3>3. a < b
      BY <1>6, <1>10, <3>1, <3>2
    <3> QED BY <1>3, <1>10, <3>1, <3>2, <3>3 DEF Apart
  <2> QED BY <2>1, <2>2, <2>3
<1>11. ASSUME NEW p PROVE p \in PagesOf(n) <=> p \in PagesOf(list) \/ p \in Pages(x)
  <2>1. p \in PagesOf(n) <=> \E m \in DOMAIN n : p \in Pages(n[m])
    BY PagesOfIs
  <2>2. p \in PagesOf(list) <=> \E j \in DOMAIN list : p \in Pages(list[j])
    BY PagesOfIs
  <2> QED BY <1>3, <1>4, <1>5, <2>1, <2>2, Zenon
<1>12. ASSUME NEW b PROVE b \in ToSet(n) <=> b \in ToSet(list) \/ b = x
  <2>1. b \in ToSet(n) <=> \E m \in DOMAIN n : b = n[m]
    BY DEF ToSet
  <2>2. b \in ToSet(list) <=> \E j \in DOMAIN list : b = list[j]
    BY DEF ToSet
  <2> QED BY <1>3, <1>4, <1>5, <2>1, <2>2, Zenon
<1>13. Ascending(list) => Ascending(n)
  BY <1>9 DEF Ascending
<1>14. /\ Apart(list)
       /\ \A j \in DOMAIN list : j < k => End(list[j]) < x.sva
       /\ \A j \in DOMAIN list : j >= k => End(x) < list[j].sva
       => Apart(n)
  BY <1>10 DEF Apart
<1>15. PagesOf(n) = PagesOf(list) \cup Pages(x) /\ ToSet(n) = ToSet(list) \cup {x}
  BY <1>11, <1>12
<1> QED BY <1>1, <1>13, <1>14, <1>15 DEF n

LEMMA ReplaceBlock ==
  ASSUME NEW list \in Seq(Block), Apart(list), NEW i \in DOMAIN list, NEW x \in Block,
         \A j \in DOMAIN list : j < i => End(list[j]) < x.sva,
         \A j \in DOMAIN list : i < j => End(x) < list[j].sva
  PROVE  LET n == [list EXCEPT ![i] = x]
         IN /\ n \in Seq(Block) /\ Len(n) = Len(list) /\ Apart(n)
            /\ PagesOf(n) = (PagesOf(list) \ Pages(list[i])) \cup Pages(x)
<1> DEFINE n == [list EXCEPT ![i] = x]
<1>1. /\ n \in Seq(Block) /\ Len(n) = Len(list) /\ DOMAIN n = DOMAIN list
      /\ n[i] = x /\ \A j \in DOMAIN list : j # i => n[j] = list[j]
  OBVIOUS
<1> HIDE DEF n
<1>2. Apart(n)
  <2> SUFFICES ASSUME NEW a \in DOMAIN list, NEW b \in DOMAIN list, a < b
               PROVE  End(n[a]) < n[b].sva
    BY <1>1 DEF Apart
  <2>1. a \in Int /\ b \in Int /\ a # b
    OBVIOUS
  <2>2. CASE a = i
    BY <1>1, <2>1, <2>2
  <2>3. CASE b = i
    BY <1>1, <2>1, <2>3
  <2>4. CASE a # i /\ b # i
    BY <1>1, <2>4 DEF Apart
  <2> QED BY <2>2, <2>3, <2>4
<1>3. Ascending(list)
  BY ApartAscends
<1>4. ASSUME NEW p
      PROVE  p \in PagesOf(n) <=> (p \in PagesOf(list) /\ p \notin Pages(list[i])) \/ p \in Pages(x)
  <2>1. p \in PagesOf(n) <=> \E m \in DOMAIN list : p \in Pages(n[m])
    BY <1>1, PagesOfIs
  <2>2. p \in PagesOf(list) <=> \E j \in DOMAIN list : p \in Pages(list[j])
    BY PagesOfIs
  <2>3. \A j \in DOMAIN list : j # i /\ p \in Pages(list[j]) => p \notin Pages(list[i])
    BY <1>3, PageInOneBlock
  <2> QED BY <1>1, <2>1, <2>2, <2>3, Zenon
<1>5. PagesOf(n) = (PagesOf(list) \ Pages(list[i])) \cup Pages(x)
  BY <1>4
<1> QED BY <1>1, <1>2, <1>5 DEF n
-----------------------------------------------------------------------------
(***************************************************************************)
(* The operations.                                                         *)
(***************************************************************************)
Replaced(list, i, x) == [list EXCEPT ![i] = x]

LEMMA ReplacedBlock ==
  ASSUME NEW list \in Seq(Block), Apart(list), NEW i \in DOMAIN list, NEW x \in Block,
         \A j \in DOMAIN list : j < i => End(list[j]) < x.sva,
         \A j \in DOMAIN list : i < j => End(x) < list[j].sva
  PROVE  /\ Replaced(list, i, x) \in Seq(Block) /\ Len(Replaced(list, i, x)) = Len(list)
         /\ Apart(Replaced(list, i, x))
         /\ PagesOf(Replaced(list, i, x)) = (PagesOf(list) \ Pages(list[i])) \cup Pages(x)
  BY ReplaceBlock, Zenon DEF Replaced

LEMMA EndsInsert ==
  ASSUME NEW list \in Seq(Block), NEW b \in Block
  PROVE  /\ Append(list, b) = InsertAt(list, Len(list) + 1, b)
         /\ <<b>> \o list = InsertAt(list, 1, b)
         /\ list = <<>> => <<b>> = InsertAt(list, 1, b)
<1> DEFINE m == InsertAt(list, Len(list) + 1, b)
           h == InsertAt(list, 1, b)
<1>0. Len(list) + 1 \in 1 .. Len(list) + 1 /\ 1 \in 1 .. Len(list) + 1
  OBVIOUS
<1>1. /\ m \in Seq(Block) /\ Len(m) = Len(list) + 1
      /\ \A j \in 1 .. Len(list) + 1 : m[j] = IF j < Len(list) + 1 THEN list[j] ELSE b
  <2>1. /\ m \in Seq(Block) /\ Len(m) = Len(list) + 1
        /\ \A j \in 1 .. Len(list) + 1 :
             m[j] = IF j < Len(list) + 1 THEN list[j]
                    ELSE IF j = Len(list) + 1 THEN b ELSE list[j - 1]
    <3>1. ASSUME NEW k \in 1 .. Len(list) + 1
          PROVE  LET n == InsertAt(list, k, b)
                 IN /\ n \in Seq(Block) /\ Len(n) = Len(list) + 1
                    /\ \A j \in 1 .. Len(list) + 1 :
                         n[j] = IF j < k THEN list[j] ELSE IF j = k THEN b ELSE list[j - 1]
      BY InsertAtIs
    <3> QED BY <1>0, <3>1
  <2> HIDE DEF m
  <2> QED BY <2>1
<1>2. /\ h \in Seq(Block) /\ Len(h) = Len(list) + 1
      /\ \A j \in 1 .. Len(list) + 1 : h[j] = IF j = 1 THEN b ELSE list[j - 1]
  BY <1>0, InsertAtIs
<1> HIDE DEF m, h
<1>3. Append(list, b) = m
  BY <1>1
<1>4. <<b>> \o list = h
  <2>1. /\ <<b>> \o list \in Seq(Block) /\ Len(<<b>> \o list) = Len(list) + 1
        /\ \A j \in 1 .. Len(list) + 1 : (<<b>> \o list)[j] = IF j = 1 THEN b ELSE list[j - 1]
    OBVIOUS
  <2> DEFINE c == <<b>> \o list
  <2>2. /\ c \in Seq(Block) /\ Len(c) = Len(list) + 1
        /\ \A j \in 1 .. Len(list) + 1 : c[j] = IF j = 1 THEN b ELSE list[j - 1]
    BY <2>1
  <2> HIDE DEF c
  <2>3. c = h
    BY <1>2, <2>2, SeqEqual
  <2> QED BY <2>3 DEF c
<1>5. list = <<>> => <<b>> = h
  BY <1>2
<1> QED BY <1>3, <1>4, <1>5 DEF m, h

LEMMA Extended ==
  ASSUME NEW list \in Seq(Block), NEW m \in DOMAIN list, NEW n \in Nat
  PROVE  /\ [list EXCEPT ![m].size = @ + n]
              = [list EXCEPT ![m] = [sva |-> list[m].sva, size |-> list[m].size + n]]
         /\ [sva |-> list[m].sva, size |-> list[m].size + n] \in Block
<1>1. list[m] \in Block
  OBVIOUS
<1>2. [list[m] EXCEPT !.size = list[m].size + n]
        = [sva |-> list[m].sva, size |-> list[m].size + n]
  BY <1>1 DEF Block
<1>3. [sva |-> list[m].sva, size |-> list[m].size + n] \in Block
  BY <1>1 DEF Block
<1>4. [list EXCEPT ![m].size = @ + n]
        = [list EXCEPT ![m] = [list[m] EXCEPT !.size = list[m].size + n]]
  OBVIOUS
<1> QED BY <1>2, <1>3, <1>4

(* A list after one of its blocks was replaced by part or all of it. *)
TakeResult(list, n, b) ==
  /\ n \in Seq(Block) /\ Apart(n) /\ b \in Block
  /\ PagesOf(n) \cup Pages(b) = PagesOf(list)
  /\ PagesOf(n) \cap Pages(b) = {}

LEMMA TakeKeeps ==
  ASSUME NEW list \in Seq(Block), Apart(list), NEW i \in DOMAIN list,
         NEW size \in Nat \ {0}, size <= list[i].size
  PROVE  /\ TakeResult(list, take_block(list, i, size), taken(list, i, size))
         /\ Len(take_block(list, i, size)) = Len(list) + descriptors_used(list, i, size) - 1
<1> DEFINE n == take_block(list, i, size)
           b == taken(list, i, size)
           v == list[i]
<1>1. v \in Block /\ v.sva \in Nat /\ v.size \in Nat \ {0}
  BY PagesIs
<1>2. b \in Block /\ b.sva = v.sva /\ b.size = size /\ End(b) = v.sva + size
  BY <1>1 DEF taken, Block, End
<1>3. Ascending(list)
  BY ApartAscends
<1>4. \A p \in Pages(v) : p \in PagesOf(list)
  BY PagesOfIs
<1>5. CASE v.size = size
  <2>1. n = RemoveAt(list, i)
    BY <1>5 DEF take_block
  <2>2. Pages(b) = Pages(v)
    BY <1>2, <1>5 DEF Pages, End
  <2>3. /\ n \in Seq(Block) /\ Len(n) = Len(list) - 1 /\ Apart(n)
        /\ PagesOf(n) = PagesOf(list) \ Pages(v)
    BY <1>3, <2>1, RemoveBlock
  <2>4. descriptors_used(list, i, size) = 0
    BY <1>5 DEF descriptors_used
  <2> HIDE DEF n, b, v
  <2>5. TakeResult(list, n, b)
    BY <1>2, <1>4, <2>2, <2>3 DEF TakeResult
  <2>6. Len(n) = Len(list) + 0 - 1
    BY <2>3
  <2> QED BY <2>4, <2>5, <2>6 DEF n, b
<1>6. CASE v.size # size
  <2> DEFINE x == [sva |-> v.sva + size, size |-> v.size - size]
  <2>1. n = [list EXCEPT ![i] = x]
    BY <1>6 DEF take_block
  <2>2. x \in Block /\ x.sva = v.sva + size /\ End(x) = End(v)
    BY <1>1, <1>6, SMTT(30) DEF Block, End
  <2>3. \A j \in DOMAIN list : j < i => End(list[j]) < x.sva
    <3> SUFFICES ASSUME NEW j \in DOMAIN list, j < i PROVE End(list[j]) < x.sva
      OBVIOUS
    <3>1. End(list[j]) < v.sva
      BY DEF Apart
    <3>2. End(list[j]) \in Nat
      <4>1. list[j] \in Block
        OBVIOUS
      <4> QED BY <4>1 DEF Block, End
    <3> HIDE DEF v, x
    <3> QED BY <1>1, <2>2, <3>1, <3>2
  <2>4. \A j \in DOMAIN list : i < j => End(x) < list[j].sva
    <3> SUFFICES ASSUME NEW j \in DOMAIN list, i < j PROVE End(x) < list[j].sva
      OBVIOUS
    <3>1. End(v) < list[j].sva
      BY DEF Apart
    <3> QED BY <2>2, <3>1
  <2>5. /\ n \in Seq(Block) /\ Len(n) = Len(list) /\ Apart(n)
        /\ PagesOf(n) = (PagesOf(list) \ Pages(v)) \cup Pages(x)
    <3> HIDE DEF x
    <3>1. x \in Block
      BY <2>2
    <3>2. LET m == [list EXCEPT ![i] = x]
          IN /\ m \in Seq(Block) /\ Len(m) = Len(list) /\ Apart(m)
             /\ PagesOf(m) = (PagesOf(list) \ Pages(list[i])) \cup Pages(x)
      BY <2>3, <2>4, <3>1, ReplaceBlock
    <3> QED BY <2>1, <3>2
  <2>6. \A p : /\ p \in Pages(v) <=> p \in Pages(b) \/ p \in Pages(x)
               /\ ~(p \in Pages(b) /\ p \in Pages(x))
    <3>1. /\ \A p : p \in Pages(v) <=> p \in Int /\ v.sva <= p /\ p < End(v)
          /\ \A p : p \in Pages(b) <=> p \in Int /\ b.sva <= p /\ p < End(b)
          /\ \A p : p \in Pages(x) <=> p \in Int /\ x.sva <= p /\ p < End(x)
      BY <1>1, <1>2, <2>2, PagesIs
    <3>2. End(v) = v.sva + v.size
      BY DEF End
    <3> HIDE DEF v, x, b
    <3>3. PICK lo \in Nat, mid \in Nat, hi \in Nat :
            /\ lo = v.sva /\ lo = b.sva /\ mid = End(b) /\ mid = x.sva
            /\ hi = End(v) /\ hi = End(x) /\ lo <= mid /\ mid <= hi
      <4>1. v.sva + size \in Nat /\ v.sva + v.size \in Nat
        BY <1>1
      <4>2. v.sva <= v.sva + size /\ v.sva + size <= v.sva + v.size
        BY <1>1 DEF v
      <4> QED BY <1>1, <1>2, <2>2, <3>2, <4>1, <4>2
    <3> QED BY <3>1, <3>3
  <2>7. descriptors_used(list, i, size) = 1
    BY <1>6 DEF descriptors_used
  <2> HIDE DEF n, b, v, x
  <2>8. TakeResult(list, n, b)
    BY <1>2, <1>4, <2>5, <2>6 DEF TakeResult
  <2>9. Len(n) = Len(list) + 1 - 1
    BY <2>5
  <2> QED BY <2>7, <2>8, <2>9 DEF n, b
<1> QED BY <1>5, <1>6

(* Where a block belongs in a list that it shares no page with. *)
LEMMA Position ==
  ASSUME NEW list \in Seq(Block), NEW b \in Block, PagesOf(list) \cap Pages(b) = {},
         NEW i \in DOMAIN list
  PROVE  /\ list[i].sva < b.sva => End(list[i]) <= b.sva
         /\ list[i].sva >= b.sva => End(b) <= list[i].sva /\ b.sva < list[i].sva
<1>1. /\ End(list[i]) <= b.sva \/ End(b) <= list[i].sva
      /\ list[i].sva # b.sva
  BY ClearOf
<1>2. /\ list[i].sva \in Nat /\ list[i].size \in Nat \ {0}
      /\ End(list[i]) = list[i].sva + list[i].size
  <2>1. list[i] \in Block
    OBVIOUS
  <2> QED BY <2>1, PagesIs
<1>3. b.sva \in Nat /\ b.size \in Nat \ {0} /\ End(b) = b.sva + b.size
  BY PagesIs
<1> QED BY <1>1, <1>2, <1>3

(* The addresses of a list ascend. *)
LEMMA AddressesAscend ==
  ASSUME NEW list \in Seq(Block), Ascending(list),
         NEW i \in DOMAIN list, NEW j \in DOMAIN list, i < j
  PROVE  list[i].sva < list[j].sva /\ list[i].sva \in Nat /\ list[j].sva \in Nat
<1>1. End(list[i]) <= list[j].sva
  BY DEF Ascending
<1>2. list[i] \in Block /\ list[j] \in Block
  OBVIOUS
<1>3. /\ list[i].sva \in Nat /\ list[i].size \in Nat \ {0} /\ list[j].sva \in Nat
      /\ End(list[i]) = list[i].sva + list[i].size
  BY <1>2, PagesIs
<1> QED BY <1>1, <1>3

AllocResult(list, n, b) ==
  /\ n \in Seq(Block) /\ Ascending(n) /\ Len(n) = Len(list) + 1
  /\ PagesOf(n) = PagesOf(list) \cup Pages(b)
  /\ ToSet(n) = ToSet(list) \cup {b}

(* InsertBlock with the position described by addresses. *)
LEMMA InsertByAddress ==
  ASSUME NEW list \in Seq(Block), Ascending(list), NEW b \in Block,
         PagesOf(list) \cap Pages(b) = {}, NEW k \in 1 .. Len(list) + 1,
         \A j \in DOMAIN list : j < k => list[j].sva < b.sva,
         \A j \in DOMAIN list : j >= k => list[j].sva >= b.sva
  PROVE  AllocResult(list, InsertAt(list, k, b), b)
<1>1. \A j \in DOMAIN list : j < k => End(list[j]) <= b.sva
  BY Position
<1>2. \A j \in DOMAIN list : j >= k => End(b) <= list[j].sva
  BY Position
<1>3. LET n == InsertAt(list, k, b)
      IN /\ n \in Seq(Block) /\ Len(n) = Len(list) + 1
         /\ Ascending(list) => Ascending(n)
         /\ PagesOf(n) = PagesOf(list) \cup Pages(b)
         /\ ToSet(n) = ToSet(list) \cup {b}
  BY <1>1, <1>2, InsertBlock
<1> QED BY <1>3 DEF AllocResult

LEMMA InsertAllocKeeps ==
  ASSUME NEW list \in Seq(Block), Ascending(list), NEW b \in Block,
         PagesOf(list) \cap Pages(b) = {}
  PROVE  AllocResult(list, insert_sorted_allocList(list, b), b)
<1> DEFINE n == insert_sorted_allocList(list, b)
           E == {i \in 1 .. Len(list) - 1 : list[i].sva < b.sva /\ b.sva < list[i + 1].sva}
<1>0. /\ DOMAIN list = 1 .. Len(list) /\ Len(list) \in Nat /\ b.sva \in Nat
      /\ \A j \in DOMAIN list : list[j].sva \in Nat /\ list[j].sva # b.sva
  <2>1. \A j \in DOMAIN list : list[j] \in Block
    OBVIOUS
  <2>2. \A j \in DOMAIN list : list[j].sva \in Nat
    BY <2>1 DEF Block
  <2>3. \A j \in DOMAIN list : list[j].sva # b.sva
    BY ClearOf
  <2>4. b.sva \in Nat
    BY DEF Block
  <2> QED BY <2>2, <2>3, <2>4
<1>1. CASE list = <<>> \/ b.sva < Head(list).sva
  <2>1. n = InsertAt(list, 1, b)
    <3>1. n = <<b>> \o list
      BY <1>1 DEF insert_sorted_allocList
    <3> QED BY <3>1, EndsInsert
  <2>2. \A j \in DOMAIN list : j >= 1 => list[j].sva >= b.sva
    <3> SUFFICES ASSUME NEW j \in DOMAIN list PROVE list[j].sva >= b.sva
      OBVIOUS
    <3>1. list # <<>> /\ 1 \in DOMAIN list /\ Head(list) = list[1]
      BY <1>0
    <3>2. b.sva < list[1].sva
      BY <1>1, <3>1
    <3>3. j = 1 \/ 1 < j
      BY <1>0
    <3>4. CASE 1 < j
      BY <1>0, <3>1, <3>2, <3>4, AddressesAscend
    <3> QED BY <1>0, <3>1, <3>2, <3>3, <3>4
  <2>3. 1 \in 1 .. Len(list) + 1 /\ \A j \in DOMAIN list : ~(j < 1)
    BY <1>0
  <2>4. AllocResult(list, InsertAt(list, 1, b), b)
    BY <2>2, <2>3, InsertByAddress
  <2> QED BY <2>1, <2>4
<1>2. CASE ~(list = <<>> \/ b.sva < Head(list).sva)
  <2>0. list # <<>> /\ 1 \in DOMAIN list /\ Len(list) \in DOMAIN list /\ list[1].sva < b.sva
    <3>1. list # <<>> /\ 1 \in DOMAIN list /\ Len(list) \in DOMAIN list /\ Head(list) = list[1]
      BY <1>0, <1>2
    <3>2. list[1].sva \in Nat /\ list[1].sva # b.sva
      BY <1>0, <3>1
    <3> QED BY <1>0, <1>2, <3>1, <3>2
  <2>1. Last(list) = list[Len(list)]
    BY DEF Last
  <2>2. CASE b.sva > Last(list).sva
    <3>1. n = InsertAt(list, Len(list) + 1, b)
      <4>1. n = Append(list, b)
        BY <1>2, <2>2 DEF insert_sorted_allocList
      <4> QED BY <4>1, EndsInsert
    <3>2. \A j \in DOMAIN list : j < Len(list) + 1 => list[j].sva < b.sva
      <4> SUFFICES ASSUME NEW j \in DOMAIN list PROVE list[j].sva < b.sva
        OBVIOUS
      <4>1. list[Len(list)].sva < b.sva
        BY <1>0, <2>0, <2>1, <2>2
      <4>2. j = Len(list) \/ j < Len(list)
        BY <1>0
      <4>3. CASE j < Len(list)
        BY <1>0, <2>0, <4>1, <4>3, AddressesAscend
      <4> QED BY <4>1, <4>2, <4>3
    <3>3. /\ Len(list) + 1 \in 1 .. Len(list) + 1
          /\ \A j \in DOMAIN list : ~(j >= Len(list) + 1)
      BY <1>0
    <3>4. PICK k : k = Len(list) + 1
      OBVIOUS
    <3>5. AllocResult(list, InsertAt(list, k, b), b)
      BY <3>2, <3>3, <3>4, InsertByAddress
    <3> QED BY <3>1, <3>4, <3>5
  <2>3. CASE ~(b.sva > Last(list).sva)
    <3> DEFINE L == {i \in DOMAIN list : list[i].sva > b.sva}
               m == Min(L)
    <3>1. L \in SUBSET Nat /\ Len(list) \in L
      BY <1>0, <2>0, <2>1, <2>3
    <3>2. m \in L /\ \A i \in L : m <= i
      BY <3>1, SmallestIs
    <3>3. m \in DOMAIN list /\ list[m].sva > b.sva /\ m # 1
      BY <1>0, <2>0, <3>2
    <3>4. m - 1 \in DOMAIN list /\ m - 1 \in 1 .. Len(list) - 1 /\ m - 1 \notin L
      <4>1. m \in 1 .. Len(list) /\ m # 1
        BY <1>0, <3>3
      <4> HIDE DEF L, m
      <4>2. ~(m <= m - 1)
        BY <1>0, <4>1
      <4>3. m - 1 \notin L
        BY <3>2, <4>2
      <4> QED BY <1>0, <4>1, <4>3
    <3>5. list[m - 1].sva < b.sva
      <4>1. list[m - 1].sva \in Nat /\ list[m - 1].sva # b.sva /\ ~(list[m - 1].sva > b.sva)
        BY <1>0, <3>4
      <4> QED BY <1>0, <4>1
    <3>6. m - 1 \in E
      <4>1. (m - 1) + 1 = m
        BY <1>0, <3>3
      <4>2. b.sva < list[m].sva
        BY <1>0, <3>3
      <4> QED BY <3>4, <3>5, <4>1, <4>2
    <3>7. n = InsertAt(list, Min(E) + 1, b)
      BY <1>2, <2>3, <3>6 DEF insert_sorted_allocList
    <3>8. E \in SUBSET Nat
      BY <1>0
    <3>9. PICK i \in E : Min(E) = i
      BY <3>6, <3>8, SmallestIs
    <3>10. /\ i \in 1 .. Len(list) - 1 /\ i \in DOMAIN list /\ i + 1 \in DOMAIN list
           /\ list[i].sva < b.sva /\ b.sva < list[i + 1].sva
      BY <1>0, <3>9
    <3> HIDE DEF L, m, E
    <3>11. PICK k \in 1 .. Len(list) + 1 : k = i + 1
      BY <1>0, <3>10
    <3>12. \A j \in DOMAIN list : j < k => list[j].sva < b.sva
      <4> SUFFICES ASSUME NEW j \in DOMAIN list, j < k PROVE list[j].sva < b.sva
        OBVIOUS
      <4>1. j = i \/ j < i
        BY <1>0, <3>10, <3>11
      <4>2. CASE j < i
        <5>1. list[j].sva < list[i].sva
          BY <3>10, <4>2, AddressesAscend
        <5>2. list[j].sva \in Nat /\ list[i].sva \in Nat /\ list[i].sva < b.sva
          BY <1>0, <3>10
        <5> QED BY <1>0, <5>1, <5>2
      <4> QED BY <3>10, <4>1, <4>2
    <3>13. \A j \in DOMAIN list : j >= k => list[j].sva >= b.sva
      <4> SUFFICES ASSUME NEW j \in DOMAIN list, j >= k PROVE list[j].sva >= b.sva
        OBVIOUS
      <4>1. j = i + 1 \/ i + 1 < j
        BY <1>0, <3>10, <3>11
      <4>2. list[i + 1].sva >= b.sva
        BY <1>0, <3>10
      <4>3. CASE i + 1 < j
        BY <1>0, <3>10, <4>2, <4>3, AddressesAscend, SMTT(30)
      <4> QED BY <4>1, <4>2, <4>3
    <3>14. AllocResult(list, InsertAt(list, k, b), b)
      BY <3>12, <3>13, InsertByAddress
    <3> QED BY <3>7, <3>9, <3>11, <3>14
  <2> QED BY <2>2, <2>3
<1> QED BY <1>1, <1>2
-----------------------------------------------------------------------------
(***************************************************************************)
(* insert_sorted_with_merge_freeList().                                    *)
(***************************************************************************)
MergeResult(list, n, b) ==
  /\ n \in Seq(Block) /\ Apart(n)
  /\ PagesOf(n) = PagesOf(list) \cup Pages(b)

(* The block belongs in front of position k. *)
Spot(list, b, k) ==
  /\ k \in 1 .. Len(list) + 1
  /\ \A j \in DOMAIN list : j < k => End(list[j]) <= b.sva
  /\ \A j \in DOMAIN list : j >= k => End(b) <= list[j].sva

Numbers(list) ==
  /\ DOMAIN list = 1 .. Len(list) /\ Len(list) \in Nat
  /\ \A j \in DOMAIN list : /\ list[j].sva \in Nat /\ list[j].size \in Nat \ {0}
                            /\ End(list[j]) = list[j].sva + list[j].size

LEMMA NumbersIs ==
  ASSUME NEW list \in Seq(Block)
  PROVE  Numbers(list) /\ \A j \in DOMAIN list : list[j] \in Block
<1>1. \A j \in DOMAIN list : list[j] \in Block
  OBVIOUS
<1>2. DOMAIN list = 1 .. Len(list) /\ Len(list) \in Nat
  OBVIOUS
<1>3. \A j \in DOMAIN list : /\ list[j].sva \in Nat /\ list[j].size \in Nat \ {0}
                             /\ End(list[j]) = list[j].sva + list[j].size
  BY <1>1, PagesIs
<1> QED BY <1>1, <1>2, <1>3 DEF Numbers

(* The blocks that do not touch the new one. *)
LEMMA StrictSpot ==
  ASSUME NEW list \in Seq(Block), Apart(list), NEW b \in Block, NEW k, Spot(list, b, k)
  PROVE  /\ \A j \in DOMAIN list : j < k - 1 => End(list[j]) < b.sva
         /\ \A j \in DOMAIN list : j > k => End(b) < list[j].sva
         /\ k > 1 /\ End(list[k - 1]) # b.sva
              => \A j \in DOMAIN list : j < k => End(list[j]) < b.sva
         /\ k <= Len(list) /\ End(b) # list[k].sva
              => \A j \in DOMAIN list : j >= k => End(b) < list[j].sva
<1>1. /\ Numbers(list) /\ k \in 1 .. Len(list) + 1
      /\ b.sva \in Nat /\ b.size \in Nat \ {0} /\ End(b) = b.sva + b.size
  BY NumbersIs, PagesIs DEF Spot
<1>2. ASSUME NEW j \in DOMAIN list, j < k - 1 PROVE End(list[j]) < b.sva
  <2>1. PICK i \in DOMAIN list : i = k - 1
    BY <1>1, <1>2 DEF Numbers
  <2>2. i < k /\ j < i
    BY <1>1, <1>2, <2>1
  <2>3. End(list[i]) <= b.sva /\ End(list[j]) < list[i].sva
    BY <2>2 DEF Spot, Apart
  <2>a. /\ list[i].sva \in Nat /\ list[i].size \in Nat
        /\ End(list[i]) = list[i].sva + list[i].size
        /\ list[j].sva \in Nat /\ list[j].size \in Nat
        /\ End(list[j]) = list[j].sva + list[j].size
    BY <1>1, SMTT(30) DEF Numbers
  <2>b. End(list[i]) \in Nat /\ End(list[j]) \in Nat
    BY <2>a, SMTT(30)
  <2>4. PICK lo \in Nat, n \in Nat, hi \in Nat, sva \in Nat :
          lo = list[i].sva /\ hi = End(list[i]) /\ hi = lo + n /\ sva = b.sva
    BY <1>1, <2>a, <2>b, Zenon
  <2>5. PICK e \in Nat : e = End(list[j])
    BY <2>b, Zenon
  <2>6. hi <= sva /\ e < lo
    BY <2>3, <2>4, <2>5
  <2>7. e < sva
    BY <2>4, <2>6
  <2> QED BY <2>4, <2>5, <2>7
<1>3. ASSUME NEW j \in DOMAIN list, j > k PROVE End(b) < list[j].sva
  <2>1. k \in DOMAIN list /\ k >= k /\ k < j
    BY <1>1, <1>3 DEF Numbers
  <2>2. End(b) <= list[k].sva /\ End(list[k]) < list[j].sva
    BY <2>1 DEF Spot, Apart
  <2>3. /\ list[k].sva \in Nat /\ list[k].size \in Nat /\ list[j].sva \in Nat
        /\ End(list[k]) = list[k].sva + list[k].size
    BY <1>1, <2>1 DEF Numbers
  <2> QED BY <1>1, <2>2, <2>3, SMTT(30)
<1>4. ASSUME k > 1, End(list[k - 1]) # b.sva, NEW j \in DOMAIN list, j < k
      PROVE  End(list[j]) < b.sva
  <2>1. j = k - 1 \/ j < k - 1
    BY <1>1, <1>4 DEF Numbers
  <2>2. End(list[j]) <= b.sva /\ End(list[j]) \in Nat
    <3>1. End(list[j]) <= b.sva
      BY <1>4 DEF Spot
    <3>2. list[j].sva \in Nat /\ list[j].size \in Nat /\ End(list[j]) = list[j].sva + list[j].size
      BY <1>1 DEF Numbers
    <3> QED BY <3>1, <3>2
  <2>3. CASE j = k - 1
    BY <1>1, <1>4, <2>2, <2>3
  <2> QED BY <1>2, <2>1, <2>3
<1>5. ASSUME k <= Len(list), End(b) # list[k].sva, NEW j \in DOMAIN list, j >= k
      PROVE  End(b) < list[j].sva
  <2>1. j = k \/ j > k
    BY <1>1, <1>5 DEF Numbers
  <2>2. End(b) <= list[j].sva /\ list[j].sva \in Nat /\ End(b) \in Nat
    BY <1>1, <1>5 DEF Spot, Numbers
  <2>3. CASE j = k
    BY <1>5, <2>2, <2>3
  <2> QED BY <1>3, <2>1, <2>3
<1> QED BY <1>2, <1>3, <1>4, <1>5

(* Blocks that touch cover what one block covers. *)
LEMMA Joined ==
  ASSUME NEW a \in Block, NEW b \in Block, NEW x \in Block,
         End(a) = b.sva, x.sva = a.sva, x.size = a.size + b.size
  PROVE  Pages(x) = Pages(a) \cup Pages(b) /\ End(x) = End(b)
<1>1. /\ a.sva \in Nat /\ a.size \in Nat /\ b.size \in Nat /\ b.sva \in Nat
      /\ End(a) = a.sva + a.size /\ End(b) = b.sva + b.size /\ End(x) = x.sva + x.size
  BY PagesIs
<1>2. End(x) = End(b)
  <2>1. PICK n \in Nat, m \in Nat, l \in Nat : n = a.size /\ m = b.size /\ l = a.sva
    BY <1>1
  <2>2. End(x) = l + (n + m) /\ End(b) = (l + n) + m
    BY <1>1, <2>1
  <2>3. l + (n + m) = (l + n) + m
    OBVIOUS
  <2> QED BY <2>2, <2>3
<1>3. PICK lo \in Nat, mid \in Nat, hi \in Nat :
        /\ lo = a.sva /\ lo = x.sva /\ mid = End(a) /\ mid = b.sva
        /\ hi = End(b) /\ hi = End(x) /\ lo <= mid /\ mid <= hi
  <2>1. a.sva + a.size \in Nat /\ b.sva + b.size \in Nat
    BY <1>1
  <2>2. a.sva <= a.sva + a.size /\ b.sva <= b.sva + b.size
    BY <1>1
  <2> QED BY <1>1, <1>2, <2>1, <2>2
<1>4. ASSUME NEW p PROVE p \in Pages(x) <=> p \in Pages(a) \/ p \in Pages(b)
  <2>1. p \in Pages(x) <=> p \in Int /\ lo <= p /\ p < hi
    BY <1>3, PagesIs
  <2>2. p \in Pages(a) <=> p \in Int /\ lo <= p /\ p < mid
    BY <1>3, PagesIs
  <2>3. p \in Pages(b) <=> p \in Int /\ mid <= p /\ p < hi
    BY <1>3, PagesIs
  <2> QED BY <1>3, <2>1, <2>2, <2>3
<1> QED BY <1>2, <1>4

LEMMA MergePrev ==
  ASSUME NEW list \in Seq(Block), Apart(list), NEW b \in Block, NEW k, Spot(list, b, k),
         k > 1, End(list[k - 1]) = b.sva, k <= Len(list) => End(b) # list[k].sva
  PROVE  MergeResult(list, [list EXCEPT ![k - 1].size = @ + b.size], b)
<1>1. Numbers(list) /\ k \in 1 .. Len(list) + 1 /\ b.size \in Nat
  BY NumbersIs, PagesIs DEF Spot
<1>2. PICK i \in DOMAIN list : i = k - 1
  BY <1>1 DEF Numbers
<1> DEFINE x == [sva |-> list[i].sva, size |-> list[i].size + b.size]
<1>3. /\ [list EXCEPT ![i].size = @ + b.size] = [list EXCEPT ![i] = x]
      /\ x \in Block
  BY <1>1, Extended
<1>3a. x \in Block
  BY <1>3
<1>4. x.sva = list[i].sva /\ x.size = list[i].size + b.size /\ list[i] \in Block
  BY NumbersIs
<1>5. End(list[i]) = b.sva
  BY <1>2
<1> HIDE DEF x
<1>6. Pages(x) = Pages(list[i]) \cup Pages(b) /\ End(x) = End(b)
  BY <1>3, <1>4, <1>5, Joined
<1>7. \A j \in DOMAIN list : j < i => End(list[j]) < x.sva
  BY <1>4 DEF Apart
<1>8. \A j \in DOMAIN list : i < j => End(x) < list[j].sva
  <2> SUFFICES ASSUME NEW j \in DOMAIN list, i < j PROVE End(b) < list[j].sva
    BY <1>6
  <2>1. j >= k /\ k <= Len(list)
    BY <1>1, <1>2 DEF Numbers
  <2> QED BY <2>1, StrictSpot
<1>9. LET n == [list EXCEPT ![i] = x]
      IN /\ n \in Seq(Block) /\ Apart(n)
         /\ PagesOf(n) = (PagesOf(list) \ Pages(list[i])) \cup Pages(x)
  BY <1>3a, <1>7, <1>8, ReplaceBlock, ZenonT(30)
<1>10. \A p \in Pages(list[i]) : p \in PagesOf(list)
  BY PagesOfIs
<1>11. (PagesOf(list) \ Pages(list[i])) \cup Pages(x) = PagesOf(list) \cup Pages(b)
  BY <1>6, <1>10
<1>12. MergeResult(list, [list EXCEPT ![i] = x], b)
  BY <1>9, <1>11 DEF MergeResult
<1> QED BY <1>2, <1>3, <1>12

LEMMA MergeNext ==
  ASSUME NEW list \in Seq(Block), Apart(list), NEW b \in Block, NEW k, Spot(list, b, k),
         k <= Len(list), End(b) = list[k].sva, k > 1 => End(list[k - 1]) # b.sva
  PROVE  MergeResult(list, [list EXCEPT ![k] = [sva |-> b.sva, size |-> @.size + b.size]], b)
<1>1. Numbers(list) /\ k \in DOMAIN list /\ b.size \in Nat /\ b.sva \in Nat /\ k \in Int
  BY NumbersIs, PagesIs, SMTT(30) DEF Spot, Numbers
<1> DEFINE x == [sva |-> b.sva, size |-> list[k].size + b.size]
<1>2. [list EXCEPT ![k] = [sva |-> b.sva, size |-> @.size + b.size]] = [list EXCEPT ![k] = x]
  OBVIOUS
<1>3. x \in Block /\ list[k] \in Block
  BY <1>1, NumbersIs, SMTT(30) DEF Block, Numbers
<1>4. x.sva = b.sva /\ x.size = b.size + list[k].size
  BY <1>1 DEF Numbers
<1> HIDE DEF x
<1>5. Pages(x) = Pages(b) \cup Pages(list[k]) /\ End(x) = End(list[k])
  BY <1>3, <1>4, Joined
<1>6. \A j \in DOMAIN list : j < k => End(list[j]) < x.sva
  <2> SUFFICES ASSUME NEW j \in DOMAIN list, j < k PROVE End(list[j]) < b.sva
    BY <1>4
  <2>1. k > 1
    BY <1>1 DEF Numbers
  <2> QED BY <2>1, StrictSpot
<1>7. \A j \in DOMAIN list : k < j => End(x) < list[j].sva
  BY <1>1, <1>5 DEF Apart
<1>8. LET n == [list EXCEPT ![k] = x]
      IN /\ n \in Seq(Block) /\ Apart(n)
         /\ PagesOf(n) = (PagesOf(list) \ Pages(list[k])) \cup Pages(x)
  BY <1>1, <1>3, <1>6, <1>7, ReplaceBlock
<1>9. \A p \in Pages(list[k]) : p \in PagesOf(list)
  BY <1>1, PagesOfIs
<1>10. (PagesOf(list) \ Pages(list[k])) \cup Pages(x) = PagesOf(list) \cup Pages(b)
  BY <1>5, <1>9
<1>11. MergeResult(list, [list EXCEPT ![k] = x], b)
  BY <1>8, <1>10 DEF MergeResult
<1> QED BY <1>2, <1>11

LEMMA MergeNone ==
  ASSUME NEW list \in Seq(Block), Apart(list), NEW b \in Block, NEW k, Spot(list, b, k),
         k > 1 => End(list[k - 1]) # b.sva, k <= Len(list) => End(b) # list[k].sva
  PROVE  MergeResult(list, InsertAt(list, k, b), b)
<1>1. Numbers(list) /\ k \in 1 .. Len(list) + 1
  BY NumbersIs DEF Spot
<1>2. \A j \in DOMAIN list : j < k => End(list[j]) < b.sva
  <2> SUFFICES ASSUME NEW j \in DOMAIN list, j < k PROVE End(list[j]) < b.sva
    OBVIOUS
  <2>1. k > 1
    BY <1>1 DEF Numbers
  <2> QED BY <2>1, StrictSpot
<1>3. \A j \in DOMAIN list : j >= k => End(b) < list[j].sva
  <2> SUFFICES ASSUME NEW j \in DOMAIN list, j >= k PROVE End(b) < list[j].sva
    OBVIOUS
  <2>1. k <= Len(list)
    BY <1>1 DEF Numbers
  <2> QED BY <2>1, StrictSpot
<1>4. /\ \A j \in DOMAIN list : j < k => End(list[j]) <= b.sva
      /\ \A j \in DOMAIN list : j >= k => End(b) <= list[j].sva
  BY DEF Spot
<1>5. LET n == InsertAt(list, k, b)
      IN /\ n \in Seq(Block)
         /\ /\ Apart(list)
            /\ \A j \in DOMAIN list : j < k => End(list[j]) < b.sva
            /\ \A j \in DOMAIN list : j >= k => End(b) < list[j].sva
            => Apart(n)
         /\ PagesOf(n) = PagesOf(list) \cup Pages(b)
  BY <1>1, <1>4, InsertBlock
<1> QED BY <1>2, <1>3, <1>5 DEF MergeResult

(* Removing a block and replacing an earlier one may be done in either order. *)
LEMMA RemoveReplace ==
  ASSUME NEW list \in Seq(Block), NEW k \in DOMAIN list, NEW i \in DOMAIN list, i < k,
         NEW x \in Block
  PROVE  /\ RemoveAt([list EXCEPT ![i] = x], k) = [RemoveAt(list, k) EXCEPT ![i] = x]
         /\ i \in DOMAIN RemoveAt(list, k)
<1> DEFINE c == [list EXCEPT ![i] = x]
           m == RemoveAt(list, k)
           l == RemoveAt(c, k)
           r == [m EXCEPT ![i] = x]
<1>1. /\ c \in Seq(Block) /\ Len(c) = Len(list) /\ k \in 1 .. Len(c) /\ k \in 1 .. Len(list)
      /\ \A j \in DOMAIN list : c[j] = IF j = i THEN x ELSE list[j]
  OBVIOUS
<1>2. Len(list) \in Nat /\ DOMAIN list = 1 .. Len(list)
  OBVIOUS
<1> HIDE DEF c
<1>3. /\ m \in Seq(Block) /\ Len(m) = Len(list) - 1
      /\ \A j \in 1 .. Len(list) - 1 : m[j] = IF j < k THEN list[j] ELSE list[j + 1]
  BY <1>1, RemoveAtIs
<1>4. /\ l \in Seq(Block) /\ Len(l) = Len(c) - 1
      /\ \A j \in 1 .. Len(c) - 1 : l[j] = IF j < k THEN c[j] ELSE c[j + 1]
  BY <1>1, RemoveAtIs
<1> HIDE DEF m, l
<1>5. i \in 1 .. Len(list) - 1 /\ DOMAIN m = 1 .. Len(list) - 1
  BY <1>1, <1>2, <1>3
<1>6. /\ r \in Seq(Block) /\ Len(r) = Len(list) - 1
      /\ \A j \in 1 .. Len(list) - 1 : r[j] = IF j = i THEN x ELSE m[j]
  BY <1>3, <1>5
<1> HIDE DEF r
<1>7. ASSUME NEW j \in 1 .. Len(list) - 1 PROVE l[j] = r[j]
  <2>1. j \in DOMAIN list /\ j + 1 \in DOMAIN list /\ i < k
    BY <1>2
  <2>2. CASE j < k
    BY <1>1, <1>3, <1>4, <1>6, <2>1, <2>2
  <2>3. CASE ~(j < k)
    <3>1. j + 1 # i /\ j # i
      BY <1>2, <2>1, <2>3
    <3> QED BY <1>1, <1>3, <1>4, <1>6, <2>1, <2>3, <3>1
  <2> QED BY <2>2, <2>3
<1>8. l = r
  BY <1>1, <1>4, <1>6, <1>7, SeqEqual
<1> QED BY <1>5, <1>8 DEF c, m, l, r

LEMMA MergeBoth ==
  ASSUME NEW list \in Seq(Block), Apart(list), NEW b \in Block, NEW k, Spot(list, b, k),
         k > 1, k <= Len(list), End(list[k - 1]) = b.sva, End(b) = list[k].sva
  PROVE  MergeResult(list,
           RemoveAt([list EXCEPT ![k - 1].size = @ + (b.size + list[k].size)], k), b)
<1>1. Numbers(list) /\ k \in DOMAIN list /\ k \in Int /\ b.size \in Nat
  BY NumbersIs, PagesIs DEF Spot, Numbers
<1>2. PICK i \in DOMAIN list : i = k - 1
  BY <1>1 DEF Numbers
<1>3. i < k /\ list[k].size \in Nat /\ list[i] \in Block /\ list[k] \in Block
  BY <1>1, <1>2, NumbersIs DEF Numbers
<1>4. PICK n \in Nat : n = b.size + list[k].size
  BY <1>1, <1>3
<1> DEFINE x == [sva |-> list[i].sva, size |-> list[i].size + n]
           y == [sva |-> b.sva, size |-> n]
           m == RemoveAt(list, k)
<1>5. [list EXCEPT ![i].size = @ + n] = [list EXCEPT ![i] = x] /\ x \in Block
  BY Extended
<1>6. x \in Block
  BY <1>5
<1>7. y \in Block /\ y.sva = b.sva /\ y.size = b.size + list[k].size
  <2>1. b.sva \in Nat /\ b.size \in Nat \ {0}
    BY PagesIs
  <2>2. n # 0
    BY <1>3, <1>4, <2>1
  <2>3. y \in Block
    BY <2>1, <2>2 DEF Block
  <2> QED BY <1>4, <2>3
<1>8. x.sva = list[i].sva /\ x.size = list[i].size + y.size
  OBVIOUS
<1> HIDE DEF x, y
<1>9. Pages(y) = Pages(b) \cup Pages(list[k]) /\ End(y) = End(list[k])
  BY <1>3, <1>7, Joined
<1>10. End(list[i]) = y.sva
  BY <1>2, <1>7
<1>11. Pages(x) = Pages(list[i]) \cup Pages(y) /\ End(x) = End(y)
  BY <1>3, <1>6, <1>7, <1>8, <1>10, Joined
<1>12. LET q == RemoveAt(list, k)
       IN /\ q \in Seq(Block) /\ Len(q) = Len(list) - 1
          /\ Ascending(q) /\ (Apart(list) => Apart(q))
          /\ PagesOf(q) = PagesOf(list) \ Pages(list[k])
          /\ ToSet(q) = ToSet(list) \ {list[k]}
  BY <1>1, RemoveBlock, ApartAscends
<1>13. m \in Seq(Block) /\ Apart(m) /\ PagesOf(m) = PagesOf(list) \ Pages(list[k])
  BY <1>12
<1>14. /\ RemoveAt([list EXCEPT ![i] = x], k) = [m EXCEPT ![i] = x]
       /\ i \in DOMAIN m
  BY <1>1, <1>3, <1>6, RemoveReplace
<1>15. /\ DOMAIN m = 1 .. Len(list) - 1
       /\ \A j \in 1 .. Len(list) - 1 : m[j] = IF j < k THEN list[j] ELSE list[j + 1]
  <2>1. k \in 1 .. Len(list)
    BY <1>1 DEF Numbers
  <2>2. /\ Len(m) = Len(list) - 1
        /\ \A j \in 1 .. Len(list) - 1 : m[j] = IF j < k THEN list[j] ELSE list[j + 1]
    BY <2>1, RemoveAtIs, SMTT(30)
  <2>3. DOMAIN m = 1 .. Len(m)
    BY <1>13
  <2> QED BY <2>2, <2>3, Zenon
<1> HIDE DEF m
<1>16. \A j \in DOMAIN m : j < i => End(m[j]) < x.sva
  <2> SUFFICES ASSUME NEW j \in DOMAIN m, j < i PROVE End(m[j]) < list[i].sva
    BY <1>8
  <2>1. j \in DOMAIN list /\ j < k
    BY <1>1, <1>2, <1>15 DEF Numbers
  <2>2. m[j] = list[j]
    BY <1>15, <2>1
  <2> QED BY <2>1, <2>2 DEF Apart
<1>17. \A j \in DOMAIN m : i < j => End(x) < m[j].sva
  <2> SUFFICES ASSUME NEW j \in DOMAIN m, i < j PROVE End(list[k]) < m[j].sva
    BY <1>9, <1>11
  <2>1. j + 1 \in DOMAIN list /\ k < j + 1 /\ ~(j < k)
    BY <1>1, <1>2, <1>15 DEF Numbers
  <2>2. m[j] = list[j + 1]
    BY <1>15, <2>1
  <2> QED BY <1>1, <2>1, <2>2 DEF Apart
<1>18. LET q == [m EXCEPT ![i] = x]
       IN /\ q \in Seq(Block) /\ Len(q) = Len(m) /\ Apart(q)
          /\ PagesOf(q) = (PagesOf(m) \ Pages(m[i])) \cup Pages(x)
  <2>2. m \in Seq(Block) /\ Apart(m) /\ i \in DOMAIN m /\ x \in Block
    BY <1>6, <1>13, <1>14, Zenon
  <2>3. /\ Replaced(m, i, x) \in Seq(Block) /\ Len(Replaced(m, i, x)) = Len(m)
        /\ Apart(Replaced(m, i, x))
        /\ PagesOf(Replaced(m, i, x)) = (PagesOf(m) \ Pages(m[i])) \cup Pages(x)
    BY <1>16, <1>17, <2>2, ReplacedBlock, SMTT(20)
  <2> QED BY <2>3, Zenon DEF Replaced
<1>19. m[i] = list[i]
  BY <1>3, <1>14, <1>15
<1>20. \A j \in DOMAIN list : \A p \in Pages(list[j]) : p \in PagesOf(list)
  BY PagesOfIs
<1>21. Pages(list[i]) \subseteq PagesOf(list) /\ Pages(list[k]) \subseteq PagesOf(list)
  BY <1>1, <1>20
<1>22. (PagesOf(m) \ Pages(m[i])) \cup Pages(x) = PagesOf(list) \cup Pages(b)
  BY <1>9, <1>11, <1>13, <1>19, <1>21
<1>23. MergeResult(list, [m EXCEPT ![i] = x], b)
  BY <1>18, <1>22 DEF MergeResult
<1> QED BY <1>2, <1>4, <1>5, <1>14, <1>23

(* The position described by addresses. *)
LEMMA SpotIs ==
  ASSUME NEW list \in Seq(Block), NEW b \in Block, PagesOf(list) \cap Pages(b) = {},
         NEW k \in 1 .. Len(list) + 1,
         \A j \in DOMAIN list : j < k => list[j].sva < b.sva,
         \A j \in DOMAIN list : j >= k => list[j].sva > b.sva
  PROVE  Spot(list, b, k)
<1>1. /\ Numbers(list) /\ b.sva \in Nat /\ b.size \in Nat \ {0} /\ End(b) = b.sva + b.size
  BY NumbersIs, PagesIs
<1>2. ASSUME NEW j \in DOMAIN list
      PROVE  /\ End(list[j]) <= b.sva \/ End(b) <= list[j].sva
             /\ list[j].sva < b.sva => ~(End(b) <= list[j].sva)
             /\ list[j].sva > b.sva => ~(End(list[j]) <= b.sva)
  <2>1. End(list[j]) <= b.sva \/ End(b) <= list[j].sva
    BY ClearOf
  <2>2. PICK sva \in Nat, n \in Nat \ {0}, lo \in Nat, m \in Nat \ {0} :
          /\ sva = b.sva /\ End(b) = sva + n
          /\ lo = list[j].sva /\ End(list[j]) = lo + m
    BY <1>1 DEF Numbers
  <2>3. lo < sva => ~(sva + n <= lo)
    OBVIOUS
  <2>4. lo > sva => ~(lo + m <= sva)
    OBVIOUS
  <2> QED BY <2>1, <2>2, <2>3, <2>4
<1>3. \A j \in DOMAIN list : j < k => End(list[j]) <= b.sva
  BY <1>2
<1>4. \A j \in DOMAIN list : j >= k => End(b) <= list[j].sva
  BY <1>2
<1> QED BY <1>3, <1>4 DEF Spot

LEMMA InsertBeforeKeeps ==
  ASSUME NEW list \in Seq(Block), Apart(list), NEW b \in Block, NEW k, Spot(list, b, k),
         k <= Len(list)
  PROVE  MergeResult(list, insert_before(list, k, b), b)
<1> DEFINE fills == k > 1 /\ End(list[k - 1]) + b.size = list[k].sva
           after == k > 1 /\ End(list[k - 1]) = b.sva
           before == End(b) = list[k].sva
<1>1. /\ k \in DOMAIN list /\ k \in Int /\ Numbers(list)
      /\ b.sva \in Nat /\ b.size \in Nat \ {0} /\ End(b) = b.sva + b.size
  BY NumbersIs, PagesIs DEF Spot, Numbers
<1>2. fills <=> after /\ before
  <2>1. CASE k > 1
    <3>1. k - 1 \in DOMAIN list /\ k - 1 < k /\ k >= k
      BY <1>1, <2>1 DEF Numbers
    <3>2. End(list[k - 1]) <= b.sva /\ End(b) <= list[k].sva
      BY <1>1, <3>1 DEF Spot
    <3>3. PICK e \in Nat, lo \in Nat, sva \in Nat, n \in Nat :
            e = End(list[k - 1]) /\ lo = list[k].sva /\ sva = b.sva /\ n = b.size
      BY <1>1, <3>1, SMTT(30) DEF Numbers
    <3>4. e <= sva /\ sva + n <= lo
      BY <1>1, <3>2, <3>3
    <3>5. e + n = lo <=> e = sva /\ sva + n = lo
      BY <3>4
    <3> QED BY <1>1, <2>1, <3>3, <3>5
  <2> QED BY <2>1
<1>3. insert_before(list, k, b) =
        CASE fills -> RemoveAt([list EXCEPT ![k - 1].size = @ + (b.size + list[k].size)], k)
          [] k > 1 /\ End(list[k - 1]) + b.size # list[k].sva /\ End(list[k - 1]) = b.sva
               -> [list EXCEPT ![k - 1].size = @ + b.size]
          [] End(b) = list[k].sva /\ (k = 1 \/ End(list[k - 1]) # b.sva)
               -> [list EXCEPT ![k] = [sva |-> b.sva, size |-> @.size + b.size]]
          [] OTHER -> InsertAt(list, k, b)
  BY DEF insert_before
<1>4. k = 1 \/ k > 1
  BY <1>1 DEF Numbers
<1>5. CASE fills
  <2>1. insert_before(list, k, b)
          = RemoveAt([list EXCEPT ![k - 1].size = @ + (b.size + list[k].size)], k)
    BY <1>1, <1>2, <1>3, <1>5
  <2> QED BY <1>2, <1>5, <2>1, MergeBoth
<1>6. CASE ~fills /\ after
  <2>1. insert_before(list, k, b) = [list EXCEPT ![k - 1].size = @ + b.size]
    BY <1>1, <1>2, <1>3, <1>6
  <2>2. k > 1 /\ End(list[k - 1]) = b.sva /\ End(b) # list[k].sva
    BY <1>2, <1>6
  <2>3. MergeResult(list, [list EXCEPT ![k - 1].size = @ + b.size], b)
    BY <1>2, <2>2, MergePrev, ZenonT(30)
  <2> QED BY <2>1, <2>3, Zenon
<1>7. CASE ~after /\ before
  <2>1. insert_before(list, k, b)
          = [list EXCEPT ![k] = [sva |-> b.sva, size |-> @.size + b.size]]
    BY <1>1, <1>2, <1>3, <1>4, <1>7
  <2> QED BY <1>7, <2>1, MergeNext
<1>8. CASE ~after /\ ~before
  <2>1. insert_before(list, k, b) = InsertAt(list, k, b)
    BY <1>1, <1>2, <1>3, <1>4, <1>8
  <2> QED BY <1>8, <2>1, MergeNone
<1> QED BY <1>2, <1>5, <1>6, <1>7, <1>8

(***************************************************************************)
(* Freeing a block that overlaps no free one: the list covers its pages    *)
(* too, and its blocks still do not touch.                                 *)
(***************************************************************************)
LEMMA MergeKeeps ==
  ASSUME NEW list \in Seq(Block), Apart(list), NEW b \in Block,
         PagesOf(list) \cap Pages(b) = {}
  PROVE  MergeResult(list, insert_sorted_with_merge_freeList(list, b), b)
<1> DEFINE later == {i \in DOMAIN list : list[i].sva > b.sva}
           n == insert_sorted_with_merge_freeList(list, b)
<1>1. /\ Numbers(list) /\ b.sva \in Nat /\ b \in Block /\ Len(list) \in Nat
      /\ \A i \in DOMAIN list : list[i].sva # b.sva
      /\ Ascending(list)
  BY NumbersIs, PagesIs, ClearOf, ApartAscends DEF Numbers
<1>2. ASSUME NEW i \in DOMAIN list, NEW j \in DOMAIN list, i <= j
      PROVE  list[i].sva <= list[j].sva /\ list[i].sva \in Nat /\ list[j].sva \in Nat
  <2>1. i = j \/ i < j
    BY <1>1, <1>2 DEF Numbers
  <2>2. list[i].sva \in Nat /\ list[j].sva \in Nat
    BY <1>1 DEF Numbers
  <2>3. CASE i < j
    BY <1>1, <2>2, <2>3, AddressesAscend
  <2> QED BY <2>1, <2>2, <2>3
<1>3. CASE list = <<>>
  <2>1. n = InsertAt(list, 1, b)
    BY <1>3, EndsInsert DEF insert_sorted_with_merge_freeList
  <2>2. Spot(list, b, 1)
    BY <1>3 DEF Spot
  <2>3. Len(list) = 0 /\ ~(1 > 1) /\ ~(1 <= Len(list))
    BY <1>3
  <2>4. MergeResult(list, InsertAt(list, 1, b), b)
    BY <2>2, <2>3, MergeNone, ZenonT(30)
  <2> QED BY <2>1, <2>4, Zenon
<1>4. CASE list # <<>> /\ list[Len(list)].sva < b.sva
  <2>1. PICK k \in 1 .. Len(list) + 1 : k = Len(list) + 1
    BY <1>1
  <2>2. k > 1 /\ k - 1 = Len(list) /\ ~(k <= Len(list)) /\ Len(list) \in DOMAIN list
    BY <1>1, <1>4, <2>1 DEF Numbers
  <2>3. \A j \in DOMAIN list : j < k /\ list[j].sva < b.sva
    <3> SUFFICES ASSUME NEW j \in DOMAIN list PROVE j < k /\ list[j].sva < b.sva
      OBVIOUS
    <3>1. j <= Len(list) /\ j < k
      BY <1>1, <2>1 DEF Numbers
    <3>2. list[j].sva <= list[Len(list)].sva /\ list[j].sva \in Nat /\ list[Len(list)].sva \in Nat
      BY <1>2, <2>2, <3>1
    <3> QED BY <1>1, <1>4, <3>1, <3>2
  <2>4. \A j \in DOMAIN list : ~(j >= k)
    BY <1>1, <2>1 DEF Numbers
  <2>5. Spot(list, b, k)
    BY <2>3, <2>4, SpotIs
  <2>6. n = IF End(list[Len(list)]) = b.sva
            THEN [list EXCEPT ![Len(list)].size = @ + b.size] ELSE Append(list, b)
    BY <1>4 DEF insert_sorted_with_merge_freeList, Last
  <2>7. CASE End(list[Len(list)]) = b.sva
    <3>1. MergeResult(list, [list EXCEPT ![k - 1].size = @ + b.size], b)
      BY <2>2, <2>5, <2>7, MergePrev
    <3> QED BY <2>2, <2>6, <2>7, <3>1
  <2>8. CASE End(list[Len(list)]) # b.sva
    <3>1. MergeResult(list, InsertAt(list, k, b), b)
      BY <2>2, <2>5, <2>8, MergeNone
    <3>2. Append(list, b) = InsertAt(list, k, b)
      BY <2>1, EndsInsert
    <3> QED BY <2>6, <2>8, <3>1, <3>2
  <2> QED BY <2>7, <2>8
<1>5. CASE list # <<>> /\ ~(list[Len(list)].sva < b.sva)
  <2>1. Len(list) \in later
    BY <1>1, <1>5 DEF Numbers
  <2>2. n = insert_before(list, Min(later), b)
    BY <1>5, <2>1 DEF insert_sorted_with_merge_freeList, Last
  <2>3. later \in SUBSET Nat /\ later # {}
    BY <1>1, <2>1 DEF Numbers
  <2>4. PICK k \in later : k = Min(later) /\ \A j \in later : k <= j
    BY <2>3, SmallestIs
  <2>5. k \in DOMAIN list /\ k \in 1 .. Len(list) + 1 /\ k <= Len(list)
    BY <1>1, <2>4 DEF Numbers
  <2>6. ASSUME NEW j \in DOMAIN list, j < k PROVE list[j].sva < b.sva
    <3>0. ~(k <= j)
      BY <1>1, <2>5, <2>6 DEF Numbers
    <3>1. j \notin later
      BY <2>4, <3>0, Zenon
    <3>2. ~(list[j].sva > b.sva) /\ list[j].sva # b.sva /\ list[j].sva \in Nat
      BY <1>1, <3>1 DEF Numbers
    <3> QED BY <1>1, <3>2
  <2>7. ASSUME NEW j \in DOMAIN list, j >= k PROVE list[j].sva > b.sva
    <3>1. k <= j /\ list[k].sva > b.sva
      BY <1>1, <2>4, <2>5, <2>7 DEF Numbers
    <3>2. list[k].sva <= list[j].sva /\ list[k].sva \in Nat /\ list[j].sva \in Nat
      BY <1>2, <2>5, <3>1
    <3> QED BY <1>1, <3>1, <3>2
  <2>8. Spot(list, b, k)
    BY <2>5, <2>6, <2>7, SpotIs
  <2> QED BY <2>2, <2>4, <2>5, <2>8, InsertBeforeKeeps
<1> QED BY <1>3, <1>4, <1>5
-----------------------------------------------------------------------------
(***************************************************************************)
(* The block that alloc_block_FF() and alloc_block_BF() choose.            *)
(***************************************************************************)
LEMMA FFFits ==
  ASSUME NEW list \in Seq(Block), NEW size \in Nat \ {0}, Fits(list, size) # {}
  PROVE  /\ FF(list, size) \in DOMAIN list /\ size <= list[FF(list, size)].size
         /\ \A j \in DOMAIN list : size <= list[j].size => FF(list, size) <= j
<1>1. \A i : i \in Fits(list, size) <=> i \in DOMAIN list /\ size <= list[i].size
  <2> SUFFICES ASSUME NEW i \in DOMAIN list
               PROVE  i \in Fits(list, size) <=> size <= list[i].size
    BY DEF Fits, Exact, Larger
  <2>1. list[i].size \in Nat
    BY NumbersIs DEF Numbers
  <2> QED BY <2>1 DEF Fits, Exact, Larger
<1>2. Fits(list, size) \in SUBSET Nat
  BY <1>1
<1> QED BY <1>1, <1>2, SmallestIs DEF FF

LEMMA BFFits ==
  ASSUME NEW list \in Seq(Block), NEW size \in Nat \ {0}, Fits(list, size) # {}
  PROVE  BF(list, size) \in DOMAIN list /\ size <= list[BF(list, size)].size
<1>1. \A i \in DOMAIN list : list[i].size \in Nat /\ i \in Nat
  BY NumbersIs DEF Numbers
<1>2. CASE Exact(list, size) # {}
  <2>1. Exact(list, size) \in SUBSET Nat
    BY <1>1 DEF Exact
  <2>2. BF(list, size) \in Exact(list, size)
    BY <1>2, <2>1, SmallestIs DEF BF
  <2> QED BY <2>2 DEF Exact
<1>3. CASE Exact(list, size) = {}
  <2> DEFINE sizes == {list[i].size : i \in Larger(list, size)}
             smallest == Min(sizes)
             at == {i \in Larger(list, size) : list[i].size = smallest}
  <2>1. Larger(list, size) # {} /\ Larger(list, size) \subseteq DOMAIN list
    BY <1>3 DEF Fits, Larger
  <2>2. sizes \in SUBSET Nat /\ sizes # {}
    BY <1>1, <2>1
  <2>3. smallest \in sizes
    BY <2>2, SmallestIs
  <2>4. at \in SUBSET Nat /\ at # {}
    BY <1>1, <2>1, <2>3
  <2>5. BF(list, size) = Min(at)
    BY <1>3 DEF BF
  <2>6. BF(list, size) \in Larger(list, size)
    BY <2>4, <2>5, SmallestIs
  <2>7. BF(list, size) \in DOMAIN list /\ list[BF(list, size)].size > size
    BY <2>6 DEF Larger
  <2> QED BY <1>1, <2>7
<1> QED BY <1>2, <1>3
=============================================================================
