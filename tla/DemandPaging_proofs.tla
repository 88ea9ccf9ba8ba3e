------------------------ MODULE DemandPaging_proofs ------------------------
(***************************************************************************)
(* Proofs about demand paging, for any number of environments, pages,      *)
(* frames and entries of the working set.                                  *)
(***************************************************************************)
EXTENDS DemandPaging, FiniteSetTheorems, FunctionTheorems, WellFoundedInduction, NaturalsInduction, TLAPS

(***************************************************************************)
(* What every environment keeps: an entry of the working set is a page in  *)
(* memory and has no second entry, a mapped page has a table, and a page   *)
(* of the working set that is not modified is in the page file as it is in *)
(* memory, so that it can be dropped.                                      *)
(***************************************************************************)
EntriesMapped(env) == \A i \in Slot : env.ws[i] # NONE => env.page_table[env.ws[i]] # NONE
EntriesDistinct(env) ==
  \A i, j \in Slot : env.ws[i] # NONE /\ env.ws[i] = env.ws[j] => i = j
TablesExist(env) == \A p \in Page : env.page_table[p] # NONE => PDX(p) \in env.tables
Clean(env, p) ==
  ~env.page_table[p].modified => env.page_file[p] = env.page_table[p].data
EntriesClean(env) == \A i \in Slot : env.ws[i] # NONE => Clean(env, env.ws[i])

InOrder(env) ==
  /\ env \in EnvPaging
  /\ EntriesMapped(env) /\ EntriesDistinct(env) /\ TablesExist(env) /\ EntriesClean(env)

PagingInv ==
  /\ envs \in [Env -> EnvPaging]
  /\ free_frames \in Int /\ disk_free_frames \in Int
  /\ access \in [Env -> Page \cup {NONE}]
  /\ \A e \in Env : InOrder(envs[e])
-----------------------------------------------------------------------------
(***************************************************************************)
(* The smallest and the largest number of a set.                           *)
(***************************************************************************)
LEMMA SmallestIs ==
  ASSUME NEW S \in SUBSET Nat, S # {}
  PROVE  Min(S) \in S /\ \A k \in S : Min(S) <= k
<1> DEFINE R == OpToRel(<, Nat)
<1>1. \A t, s \in Nat : t < s => <<t, s>> \in R
  BY Zenon DEF OpToRel
<1>2. IsWellFoundedOn(R, Nat)
  BY NatLessThanWellFounded, Zenon
<1> HIDE DEF R
<1>3. PICK s \in S : \A t \in S : <<t, s>> \notin R
  BY <1>2, WFMin
<1>4. ASSUME NEW t \in S PROVE s <= t
  <2>1. t \in Nat /\ s \in Nat /\ <<t, s>> \notin R
    BY <1>3
  <2>2. ~(t < s)
    BY <1>1, <2>1, Zenon
  <2> QED BY <2>1, <2>2
<1>5. \E x \in S : \A y \in S : x =< y
  BY <1>4
<1> QED BY <1>5 DEF Min

LEMMA LargestIs ==
  ASSUME NEW n \in Nat, NEW S \in SUBSET (0 .. n), S # {}
  PROVE  Max(S) \in S /\ \A k \in S : k <= Max(S)
<1> DEFINE T == {n - k : k \in S}
<1>1. T \in SUBSET Nat /\ T # {}
  <2>1. \A k \in S : n - k \in Nat /\ n - k \in T
    OBVIOUS
  <2> QED BY <2>1
<1>2. PICK x \in S : Min(T) = n - x
  BY <1>1, SmallestIs
<1>3. \A k \in S : k <= x
  <2> TAKE k \in S
  <2>1. n - k \in T
    OBVIOUS
  <2>2. n - x <= n - k
    BY <1>1, <1>2, <2>1, SmallestIs
  <2> QED BY <2>2
<1>4. \E y \in S : \A k \in S : y >= k
  BY <1>3
<1>5. Max(S) \in S /\ \A k \in S : Max(S) >= k
  BY <1>4, Zenon DEF Max
<1> QED BY <1>5

LEMMA Constants ==
  /\ page_WS_max_size \in Nat \ {0} /\ MaxPage \in Nat /\ NONE \notin Page
  /\ NONE \notin Value /\ NONE \notin Entry /\ ZERO \in Value /\ IsFiniteSet(Env)
  /\ Slot = 0 .. page_WS_max_size - 1 /\ Slot \subseteq Nat
BY PagingAssumption DEF Slot

(***************************************************************************)
(* The hand reaches every entry.                                           *)
(***************************************************************************)
LEMMA Around ==
  ASSUME NEW n \in Nat \ {0}, NEW h \in 0 .. n - 1
  PROVE  /\ \A k \in 0 .. n - 1 : (h + k) % n \in 0 .. n - 1
         /\ \A i \in 0 .. n - 1 : \E k \in 0 .. n - 1 : (h + k) % n = i
<1>1. \A k \in 0 .. n - 1 : (h + k) % n \in 0 .. n - 1
  OBVIOUS
<1>2. ASSUME NEW i \in 0 .. n - 1 PROVE \E k \in 0 .. n - 1 : (h + k) % n = i
  <2>1. CASE i >= h
    <3>1. i - h \in 0 .. n - 1 /\ h + (i - h) = i
      BY <2>1
    <3>2. i % n = i
      OBVIOUS
    <3> QED BY <3>1, <3>2
  <2>2. CASE i < h
    <3>1. i - h + n \in 0 .. n - 1 /\ h + (i - h + n) = i + n
      BY <2>2
    <3>2. (i + n) % n = i
      OBVIOUS
    <3> QED BY <3>1, <3>2
  <2> QED BY <2>1, <2>2
<1> QED BY <1>1, <1>2
-----------------------------------------------------------------------------
(***************************************************************************)
(* The entry at which a sweep of the hand ends, in a full working set.     *)
(***************************************************************************)
Full(env) == \A i \in Slot : env.ws[i] # NONE

LEMMA FullIs ==
  ASSUME NEW env \in EnvPaging
  PROVE  /\ Cardinality(Used(env)) = page_WS_max_size => Full(env)
         /\ Cardinality(Used(env)) \in 0 .. page_WS_max_size
<1>1. IsFiniteSet(Slot) /\ Cardinality(Slot) = page_WS_max_size
  <2>1. 0 \in Int /\ page_WS_max_size - 1 \in Int
    BY Constants
  <2> QED BY <2>1, Constants, FS_Interval
<1>2. Used(env) \in SUBSET Slot
  BY DEF Used
<1>3. /\ Cardinality(Used(env)) \in Nat /\ Cardinality(Used(env)) <= Cardinality(Slot)
      /\ Cardinality(Slot) = Cardinality(Used(env)) => Slot = Used(env)
  BY <1>1, <1>2, FS_Subset, FS_CardinalityType
<1> QED BY <1>1, <1>3, Constants DEF Full, Used

LEMMA SweepEnds ==
  ASSUME NEW env \in EnvPaging
  PROVE  /\ victim(env) \in Slot
         /\ is_used(env, victim(env)) => \A i \in Slot : is_used(env, i)
<1> DEFINE n == page_WS_max_size
           h == env.page_last_WS_index
           U == Unused(env)
           k == IF U = {} THEN 0 ELSE Min(U)
<1>1. n \in Nat \ {0} /\ Slot = 0 .. n - 1 /\ h \in 0 .. n - 1
  BY Constants DEF EnvPaging
<1>2. U \in SUBSET Nat /\ U \subseteq Slot
  BY <1>1 DEF Unused
<1>3. k \in Slot /\ (U # {} => k \in U)
  BY <1>1, <1>2, SmallestIs
<1>4. victim(env) = SlotAfter(env, k)
  BY DEF victim
<1>5. \A j \in Slot : SlotAfter(env, j) = (h + j) % n
  BY DEF SlotAfter
<1> HIDE DEF k, U, n, h
<1>6. victim(env) \in Slot
  BY <1>1, <1>3, <1>4, <1>5, Around
<1>7. ASSUME is_used(env, victim(env)), NEW i \in Slot PROVE is_used(env, i)
  <2>1. U = {}
    BY <1>3, <1>4, <1>7 DEF U, Unused
  <2>2. PICK j \in Slot : SlotAfter(env, j) = i
    <3>1. i \in 0 .. n - 1
      BY <1>1
    <3>2. \E j \in 0 .. n - 1 : (h + j) % n = i
      BY <1>1, <3>1, Around
    <3> QED BY <1>1, <1>5, <3>2
  <2> QED BY <2>1, <2>2 DEF U, Unused
<1> QED BY <1>6, <1>7

(***************************************************************************)
(* The fields after each operation on the paging state of an environment.  *)
(***************************************************************************)
LEMMA Fields ==
  ASSUME NEW env \in EnvPaging
  PROVE  /\ env.ws \in [Slot -> Page \cup {NONE}] /\ env.page_last_WS_index \in Slot
         /\ env.tables \in SUBSET {PDX(p) : p \in Page}
         /\ env.page_table \in [Page -> Entry \cup {NONE}]
         /\ env.page_file \in [Page -> Value \cup {NONE}]
BY DEF EnvPaging

LEMMA UnusedEntry ==
  ASSUME NEW env \in EnvPaging, InOrder(env), Full(env), NEW p \in Page
  PROVE  /\ unused_entry(env, p) \in Entry \cup {NONE}
         /\ unused_entry(env, p) = NONE <=> env.page_table[p] = NONE
         /\ env.page_table[p] # NONE =>
              /\ unused_entry(env, p).data = env.page_table[p].data
              /\ unused_entry(env, p).modified = env.page_table[p].modified
<1>1. CASE p \notin Passed(env)
  BY <1>1, Fields DEF unused_entry
<1>2. CASE p \in Passed(env)
  <2>1. PICK k \in Nat : p = env.ws[SlotAfter(env, k)] /\ k \in Slot
    <3>1. Unused(env) \in SUBSET Nat /\ Unused(env) \subseteq Slot
      BY Constants DEF Unused
    <3>2. Unused(env) # {} => 0 .. Min(Unused(env)) - 1 \subseteq Slot
      BY <3>1, Constants, SmallestIs
    <3> QED BY <1>2, <3>2, Constants DEF Passed
  <2>2. SlotAfter(env, k) \in Slot
    BY <2>1, Around, Fields, Constants DEF SlotAfter
  <2>3. env.page_table[p] \in Entry
    BY <2>1, <2>2, Fields DEF InOrder, EntriesMapped, Full
  <2>4. unused_entry(env, p) = [env.page_table[p] EXCEPT !.used = FALSE]
    BY <1>2 DEF unused_entry
  <2> QED BY <2>3, <2>4, Constants DEF Entry
<1> QED BY <1>1, <1>2
-----------------------------------------------------------------------------
(***************************************************************************)
(* Replacement: the victim leaves memory, nothing else does, and no page   *)
(* of the environment reads differently.                                   *)
(***************************************************************************)
LEMMA EvictFields ==
  ASSUME NEW env \in EnvPaging, NEW i \in Slot, i = victim(env),
         NEW p \in Page, p = env.ws[i]
  PROVE  LET n == evict(env)
         IN /\ n.ws = [env.ws EXCEPT ![i] = NONE]
            /\ n.page_last_WS_index = i
            /\ n.tables = env.tables
            /\ n.page_table = [q \in Page |-> IF q = p THEN NONE ELSE unused_entry(env, q)]
            /\ n.page_file = [env.page_file EXCEPT ![p] = pf_update_env_page(env, p)]
            /\ n = [ws |-> n.ws, page_last_WS_index |-> n.page_last_WS_index,
                    tables |-> n.tables, page_table |-> n.page_table,
                    page_file |-> n.page_file]
<1> DEFINE table == [q \in Page |-> IF q = p THEN NONE ELSE unused_entry(env, q)]
           saved == pf_update_env_page(env, p)
           n == [env EXCEPT !.ws[i] = NONE, !.page_last_WS_index = i,
                            !.page_table = table, !.page_file[p] = saved]
<1>1. evict(env) = n
  BY Zenon DEF evict
<1>2. evict(env) = [ws |-> [env.ws EXCEPT ![i] = NONE], page_last_WS_index |-> i,
                    tables |-> env.tables, page_table |-> table,
                    page_file |-> [env.page_file EXCEPT ![p] = saved]]
  <2> HIDE DEF table, saved
  <2> QED BY <1>1 DEF EnvPaging
<1> HIDE DEF table, saved
<1> QED BY <1>2 DEF table, saved

LEMMA EvictKeeps ==
  ASSUME NEW env \in EnvPaging, InOrder(env), Full(env)
  PROVE  LET n == evict(env)
             v == env.ws[victim(env)]
         IN /\ InOrder(n) /\ n.ws[n.page_last_WS_index] = NONE
            /\ v \in Mapped(env) /\ Mapped(n) = Mapped(env) \ {v}
            /\ Saved(n) = IF NeedsDiskFrame(env, v) THEN Saved(env) \cup {v} ELSE Saved(env)
            /\ n.tables = env.tables
            /\ \A p \in Page : Contents(n, p) = Contents(env, p)
<1> DEFINE i == victim(env)
           v == env.ws[i]
           n == evict(env)
<1>1. i \in Slot
  BY SweepEnds
<1>2. v \in Page /\ v # NONE /\ env.page_table[v] \in Entry
  BY <1>1, Fields, Constants DEF Full, InOrder, EntriesMapped
<1>3. /\ n.ws = [env.ws EXCEPT ![i] = NONE]
      /\ n.page_last_WS_index = i
      /\ n.tables = env.tables
      /\ n.page_table = [q \in Page |-> IF q = v THEN NONE ELSE unused_entry(env, q)]
      /\ n.page_file = [env.page_file EXCEPT ![v] = pf_update_env_page(env, v)]
      /\ n = [ws |-> n.ws, page_last_WS_index |-> n.page_last_WS_index,
              tables |-> n.tables, page_table |-> n.page_table,
              page_file |-> n.page_file]
  BY <1>1, <1>2, EvictFields
<1>4. v = env.ws[i] /\ i = victim(env)
  OBVIOUS
<1> HIDE DEF n, i, v
<1>5. pf_update_env_page(env, v) = env.page_table[v].data
  BY <1>1, <1>2, <1>4 DEF pf_update_env_page, InOrder, EntriesClean, Clean
<1>6. env.page_table[v].data \in Value /\ env.page_table[v].modified \in BOOLEAN
  BY <1>2 DEF Entry
<1>7. n \in EnvPaging
  <2>1. n.ws \in [Slot -> Page \cup {NONE}] /\ n.page_last_WS_index \in Slot
    BY <1>1, <1>3, Fields
  <2>2. n.tables \in SUBSET {PDX(p) : p \in Page}
    BY <1>3, Fields
  <2>3. n.page_table \in [Page -> Entry \cup {NONE}]
    BY <1>3, UnusedEntry
  <2>4. n.page_file \in [Page -> Value \cup {NONE}]
    BY <1>2, <1>3, <1>5, <1>6, Fields
  <2> QED BY <1>3, <2>1, <2>2, <2>3, <2>4 DEF EnvPaging
<1>8. \A q \in Page : /\ q = v => n.page_table[q] = NONE
                      /\ q # v => n.page_table[q] = unused_entry(env, q)
  BY <1>3
<1>9. \A q \in Page : n.page_file[q] = IF q = v THEN env.page_table[v].data ELSE env.page_file[q]
  BY <1>2, <1>3, <1>5, Fields
<1>10. \A j \in Slot : n.ws[j] = IF j = i THEN NONE ELSE env.ws[j]
  BY <1>1, <1>3, Fields
<1>11. \A j \in Slot \ {i} : env.ws[j] # v /\ env.ws[j] \in Page
  BY <1>1, <1>2, <1>4, Fields, Constants DEF InOrder, EntriesDistinct, Full
<1>12. EntriesMapped(n) /\ EntriesClean(n)
  <2> SUFFICES ASSUME NEW j \in Slot, n.ws[j] # NONE
               PROVE  n.page_table[n.ws[j]] # NONE /\ Clean(n, n.ws[j])
    BY DEF EntriesMapped, EntriesClean
  <2>1. j # i /\ n.ws[j] = env.ws[j] /\ env.ws[j] # v /\ env.ws[j] \in Page /\ env.ws[j] # NONE
    BY <1>10, <1>11
  <2>2. env.page_table[env.ws[j]] # NONE /\ Clean(env, env.ws[j])
    BY <2>1 DEF InOrder, EntriesMapped, EntriesClean
  <2>3. /\ n.page_table[env.ws[j]] = unused_entry(env, env.ws[j])
        /\ n.page_file[env.ws[j]] = env.page_file[env.ws[j]]
    BY <1>8, <1>9, <2>1
  <2> QED BY <2>1, <2>2, <2>3, UnusedEntry DEF Clean
<1>13. EntriesDistinct(n)
  BY <1>10 DEF EntriesDistinct, InOrder
<1>14. Mapped(n) = Mapped(env) \ {v}
  BY <1>8, UnusedEntry DEF Mapped
<1>15. TablesExist(n)
  BY <1>3, <1>14 DEF TablesExist, InOrder, Mapped
<1>16. Saved(n) = IF NeedsDiskFrame(env, v) THEN Saved(env) \cup {v} ELSE Saved(env)
  <2>1. env.page_table[v].data # NONE
    BY <1>6, Constants
  <2>2. ~env.page_table[v].modified => env.page_file[v] # NONE
    BY <1>1, <1>2, <1>4, <2>1 DEF InOrder, EntriesClean, Clean
  <2>3. Saved(n) = Saved(env) \cup {v}
    BY <1>2, <1>9, <2>1 DEF Saved
  <2> QED BY <1>2, <2>2, <2>3 DEF NeedsDiskFrame, Saved
<1>17. ASSUME NEW p \in Page PROVE Contents(n, p) = Contents(env, p)
  <2>1. CASE p = v
    BY <1>2, <1>8, <1>9, <2>1, Constants DEF Contents
  <2>2. CASE p # v
    BY <1>8, <1>9, <2>2, UnusedEntry DEF Contents
  <2> QED BY <2>1, <2>2
<1>18. v \in Mapped(env)
  BY <1>2, Constants DEF Mapped
<1>19. n.ws[n.page_last_WS_index] = NONE
  BY <1>1, <1>3, <1>10
<1> QED
  BY <1>3, <1>4, <1>7, <1>12, <1>13, <1>14, <1>15, <1>16, <1>17, <1>18, <1>19
  DEF InOrder, n, i, v

(***************************************************************************)
(* The sweep alone, when the page file is full and the handler panics.     *)
(***************************************************************************)
LEMMA ClearUsedKeeps ==
  ASSUME NEW env \in EnvPaging, InOrder(env), Full(env)
  PROVE  LET n == clear_used(env)
         IN /\ InOrder(n) /\ Mapped(n) = Mapped(env) /\ Saved(n) = Saved(env)
            /\ n.tables = env.tables
            /\ \A p \in Page : Contents(n, p) = Contents(env, p)
<1> DEFINE table == [p \in Page |-> unused_entry(env, p)]
           n == clear_used(env)
<1>1. n = [ws |-> env.ws, page_last_WS_index |-> env.page_last_WS_index,
           tables |-> env.tables, page_table |-> table, page_file |-> env.page_file]
  <2>1. n = [env EXCEPT !.page_table = table]
    BY DEF clear_used
  <2> HIDE DEF table, n
  <2> QED BY <2>1 DEF EnvPaging
<1>2. table \in [Page -> Entry \cup {NONE}]
  BY UnusedEntry
<1>3. \A p \in Page : table[p] = unused_entry(env, p)
  OBVIOUS
<1> HIDE DEF table, n
<1>4. n \in EnvPaging
  BY <1>1, <1>2, Fields DEF EnvPaging
<1>5. /\ n.ws = env.ws /\ n.tables = env.tables /\ n.page_file = env.page_file
      /\ \A p \in Page : n.page_table[p] = unused_entry(env, p)
  BY <1>1, <1>3
<1>6. Mapped(n) = Mapped(env) /\ Saved(n) = Saved(env)
  BY <1>5, UnusedEntry DEF Mapped, Saved
<1>7. EntriesMapped(n) /\ EntriesClean(n)
  <2> SUFFICES ASSUME NEW j \in Slot, n.ws[j] # NONE
               PROVE  n.page_table[n.ws[j]] # NONE /\ Clean(n, n.ws[j])
    BY DEF EntriesMapped, EntriesClean
  <2>1. n.ws[j] = env.ws[j] /\ env.ws[j] \in Page /\ env.ws[j] # NONE
    BY <1>5, Fields
  <2>2. env.page_table[env.ws[j]] # NONE /\ Clean(env, env.ws[j])
    BY <2>1 DEF InOrder, EntriesMapped, EntriesClean
  <2> QED BY <1>5, <2>1, <2>2, UnusedEntry DEF Clean
<1>8. EntriesDistinct(n)
  BY <1>5 DEF EntriesDistinct, InOrder
<1>9. TablesExist(n)
  BY <1>5, <1>6 DEF TablesExist, InOrder, Mapped
<1>10. \A p \in Page : Contents(n, p) = Contents(env, p)
  BY <1>5, UnusedEntry DEF Contents
<1> QED BY <1>4, <1>5, <1>6, <1>7, <1>8, <1>9, <1>10 DEF InOrder, n

(***************************************************************************)
(* Placement of a page that is not in memory.                              *)
(***************************************************************************)
LEMMA SetEntryKeeps ==
  ASSUME NEW env \in EnvPaging, InOrder(env), NEW p \in Page, p \notin Mapped(env),
         PDX(p) \in env.tables, NEW entry \in Entry,
         ~entry.modified => entry.data = env.page_file[p]
  PROVE  LET n == set_entry(env, p, entry)
         IN /\ InOrder(n) /\ Mapped(n) = Mapped(env) \cup {p} /\ Saved(n) = Saved(env)
            /\ n.tables = env.tables
            /\ \A q \in Page \ {p} : Contents(n, q) = Contents(env, q)
            /\ Contents(n, p) = entry.data
<1> DEFINE h == env.page_last_WS_index
           next == IF h + 1 = page_WS_max_size THEN 0 ELSE h + 1
           n == set_entry(env, p, entry)
<1>1. n = [ws |-> [env.ws EXCEPT ![h] = p], page_last_WS_index |-> next,
           tables |-> env.tables, page_table |-> [env.page_table EXCEPT ![p] = entry],
           page_file |-> env.page_file]
  <2>1. n = [env EXCEPT !.ws[h] = p, !.page_last_WS_index = next, !.page_table[p] = entry]
    BY Zenon DEF set_entry
  <2> HIDE DEF next, n, h
  <2> QED BY <2>1 DEF EnvPaging
<1>2. h \in Slot /\ next \in Slot
  BY Fields, Constants
<1> HIDE DEF next, n, h
<1>3. n \in EnvPaging
  <2>1. [env.ws EXCEPT ![h] = p] \in [Slot -> Page \cup {NONE}]
    BY <1>2, Fields
  <2>2. [env.page_table EXCEPT ![p] = entry] \in [Page -> Entry \cup {NONE}]
    BY Fields
  <2> QED BY <1>1, <1>2, <2>1, <2>2, Fields DEF EnvPaging
<1>4. /\ \A j \in Slot : n.ws[j] = IF j = h THEN p ELSE env.ws[j]
      /\ n.tables = env.tables /\ n.page_file = env.page_file
      /\ \A q \in Page : n.page_table[q] = IF q = p THEN entry ELSE env.page_table[q]
  BY <1>1, <1>2, Fields
<1>5. entry # NONE /\ p # NONE
  BY Constants
<1>6. Mapped(n) = Mapped(env) \cup {p} /\ Saved(n) = Saved(env)
  BY <1>4, <1>5 DEF Mapped, Saved
<1>7. \A j \in Slot : env.ws[j] # p
  BY <1>5 DEF InOrder, EntriesMapped, Mapped
<1>8. EntriesMapped(n) /\ EntriesClean(n)
  <2> SUFFICES ASSUME NEW j \in Slot, n.ws[j] # NONE
               PROVE  n.page_table[n.ws[j]] # NONE /\ Clean(n, n.ws[j])
    BY DEF EntriesMapped, EntriesClean
  <2>1. CASE j = h
    BY <1>4, <1>5, <2>1 DEF Clean
  <2>2. CASE j # h
    <3>1. n.ws[j] = env.ws[j] /\ env.ws[j] # p /\ env.ws[j] \in Page /\ env.ws[j] # NONE
      BY <1>4, <1>7, <2>2, Fields
    <3>2. env.page_table[env.ws[j]] # NONE /\ Clean(env, env.ws[j])
      BY <3>1 DEF InOrder, EntriesMapped, EntriesClean
    <3> QED BY <1>4, <3>1, <3>2 DEF Clean
  <2> QED BY <2>1, <2>2
<1>9. EntriesDistinct(n)
  BY <1>4, <1>5, <1>7 DEF EntriesDistinct, InOrder
<1>10. TablesExist(n)
  BY <1>4, <1>6 DEF TablesExist, InOrder, Mapped
<1>11. \A q \in Page \ {p} : Contents(n, q) = Contents(env, q)
  BY <1>4 DEF Contents
<1>12. Contents(n, p) = entry.data
  BY <1>4, <1>5 DEF Contents
<1> QED BY <1>3, <1>4, <1>6, <1>8, <1>9, <1>10, <1>11, <1>12 DEF InOrder, n

(***************************************************************************)
(* The processor changes the entry of a page in memory; a page that it     *)
(* writes becomes modified.                                                *)
(***************************************************************************)
LEMMA AccessKeeps ==
  ASSUME NEW env \in EnvPaging, InOrder(env), NEW p \in Mapped(env), NEW entry \in Entry,
         NEW n, n = [env EXCEPT !.page_table[p] = entry],
         ~entry.modified => /\ ~env.page_table[p].modified
                            /\ entry.data = env.page_table[p].data
  PROVE  /\ InOrder(n) /\ Mapped(n) = Mapped(env) /\ Saved(n) = Saved(env)
         /\ n.tables = env.tables
         /\ \A q \in Page \ {p} : Contents(n, q) = Contents(env, q)
         /\ Contents(n, p) = entry.data
<1>1. n = [ws |-> env.ws, page_last_WS_index |-> env.page_last_WS_index,
           tables |-> env.tables, page_table |-> [env.page_table EXCEPT ![p] = entry],
           page_file |-> env.page_file]
  BY DEF EnvPaging
<1>2. p \in Page /\ env.page_table[p] # NONE /\ entry # NONE
  BY Constants DEF Mapped
<1>3. n \in EnvPaging
  <2>1. [env.page_table EXCEPT ![p] = entry] \in [Page -> Entry \cup {NONE}]
    BY <1>2, Fields
  <2> QED BY <1>1, <2>1, Fields DEF EnvPaging
<1>4. /\ n.ws = env.ws /\ n.tables = env.tables /\ n.page_file = env.page_file
      /\ \A q \in Page : n.page_table[q] = IF q = p THEN entry ELSE env.page_table[q]
  BY <1>1, <1>2, Fields
<1>5. Mapped(n) = Mapped(env) /\ Saved(n) = Saved(env)
  BY <1>2, <1>4 DEF Mapped, Saved
<1>6. EntriesMapped(n) /\ EntriesClean(n)
  <2> SUFFICES ASSUME NEW j \in Slot, n.ws[j] # NONE
               PROVE  n.page_table[n.ws[j]] # NONE /\ Clean(n, n.ws[j])
    BY DEF EntriesMapped, EntriesClean
  <2>1. n.ws[j] = env.ws[j] /\ env.ws[j] \in Page /\ env.ws[j] # NONE
    BY <1>4, Fields
  <2>2. env.page_table[env.ws[j]] # NONE /\ Clean(env, env.ws[j])
    BY <2>1 DEF InOrder, EntriesMapped, EntriesClean
  <2> QED BY <1>2, <1>4, <2>1, <2>2 DEF Clean
<1>7. EntriesDistinct(n)
  BY <1>4 DEF EntriesDistinct, InOrder
<1>8. TablesExist(n)
  BY <1>4, <1>5 DEF TablesExist, InOrder, Mapped
<1>9. \A q \in Page \ {p} : Contents(n, q) = Contents(env, q)
  BY <1>4 DEF Contents
<1>10. Contents(n, p) = entry.data
  BY <1>2, <1>4 DEF Contents
<1> QED BY <1>3, <1>4, <1>5, <1>6, <1>7, <1>8, <1>9, <1>10 DEF InOrder

(***************************************************************************)
(* free_user_mem() as a function of the paging state: the entries of the   *)
(* block in the working set, the tables that it empties, and the result.   *)
(***************************************************************************)
EntriesIn(env, block) == {i \in Used(env) : env.ws[i] \in block}
Leaving(env, block) == {env.ws[i] : i \in EntriesIn(env, block)}
Emptied(env, block) ==
  (env.tables \cap {PDX(p) : p \in block})
    \ {PDX(p) : p \in Mapped(env) \ Leaving(env, block)}
Freed(env, block) ==
  [ws |-> clear_entries(env, EntriesIn(env, block)),
   page_last_WS_index |-> hand_after_free(env, EntriesIn(env, block)),
   tables |-> env.tables \ Emptied(env, block),
   page_table |-> [p \in Page |-> IF p \in Leaving(env, block) THEN NONE
                                  ELSE env.page_table[p]],
   page_file |-> [p \in Page |-> IF p \in block THEN NONE ELSE env.page_file[p]]]

LEMMA FreedKeeps ==
  ASSUME NEW env \in EnvPaging, InOrder(env), NEW block \in SUBSET Page
  PROVE  LET n == Freed(env, block)
             leaving == Leaving(env, block)
         IN /\ InOrder(n)
            /\ leaving \subseteq Mapped(env) \cap block
            /\ Mapped(n) = Mapped(env) \ leaving
            /\ Saved(n) = Saved(env) \ block
            /\ n.tables = env.tables \ Emptied(env, block)
            /\ Emptied(env, block) \subseteq env.tables
            /\ \A p \in Page : \/ Contents(n, p) = Contents(env, p)
                               \/ p \in block /\ Contents(n, p) = NONE
<1> DEFINE slots == EntriesIn(env, block)
           leaving == Leaving(env, block)
           n == Freed(env, block)
<1>1. slots \subseteq Slot /\ leaving \subseteq block
  BY DEF EntriesIn, Leaving, Used
<1>2. \A i \in Slot : /\ i \in slots <=> env.ws[i] # NONE /\ env.ws[i] \in block
                      /\ i \in slots => env.ws[i] \in leaving
  BY DEF EntriesIn, Leaving, Used
<1>3. leaving \subseteq Mapped(env)
  BY Fields, Constants DEF EntriesIn, Leaving, Used, InOrder, EntriesMapped, Mapped
<1>4. hand_after_free(env, slots) \in Slot
  <2>1. CASE slots = {}
    BY <2>1, Fields DEF hand_after_free
  <2>2. CASE slots # {}
    <3>1. page_WS_max_size - 1 \in Nat /\ slots \in SUBSET (0 .. page_WS_max_size - 1)
      BY <1>1, Constants
    <3>2. Max(slots) \in slots
      BY <2>2, <3>1, LargestIs
    <3> QED BY <1>1, <2>2, <3>2 DEF hand_after_free
  <2> QED BY <2>1, <2>2
<1>5. /\ n.ws = [i \in Slot |-> IF i \in slots THEN NONE ELSE env.ws[i]]
      /\ n.page_last_WS_index = hand_after_free(env, slots)
      /\ n.tables = env.tables \ Emptied(env, block)
      /\ n.page_table = [p \in Page |-> IF p \in leaving THEN NONE ELSE env.page_table[p]]
      /\ n.page_file = [p \in Page |-> IF p \in block THEN NONE ELSE env.page_file[p]]
      /\ n = [ws |-> n.ws, page_last_WS_index |-> n.page_last_WS_index,
              tables |-> n.tables, page_table |-> n.page_table,
              page_file |-> n.page_file]
  BY DEF Freed, clear_entries
<1>6. Emptied(env, block) \subseteq env.tables
  BY DEF Emptied
<1>7. \A p \in Mapped(env) \ leaving : PDX(p) \notin Emptied(env, block)
  BY DEF Emptied
<1> HIDE DEF n, slots, leaving
<1>8. n \in EnvPaging
  <2>1. n.ws \in [Slot -> Page \cup {NONE}]
    BY <1>5, Fields
  <2>2. n.tables \in SUBSET {PDX(p) : p \in Page}
    BY <1>5, Fields
  <2>3. n.page_table \in [Page -> Entry \cup {NONE}]
    BY <1>5, Fields
  <2>4. n.page_file \in [Page -> Value \cup {NONE}]
    BY <1>5, Fields
  <2>5. n.page_last_WS_index \in Slot
    BY <1>4, <1>5
  <2> QED BY <1>5, <2>1, <2>2, <2>3, <2>4, <2>5 DEF EnvPaging
<1>9. /\ \A j \in Slot : n.ws[j] = IF j \in slots THEN NONE ELSE env.ws[j]
      /\ \A q \in Page : n.page_table[q] = IF q \in leaving THEN NONE ELSE env.page_table[q]
      /\ \A q \in Page : n.page_file[q] = IF q \in block THEN NONE ELSE env.page_file[q]
  BY <1>5
<1>10. Mapped(n) = Mapped(env) \ leaving /\ Saved(n) = Saved(env) \ block
  BY <1>9 DEF Mapped, Saved
<1>11. EntriesMapped(n) /\ EntriesClean(n)
  <2> SUFFICES ASSUME NEW j \in Slot, n.ws[j] # NONE
               PROVE  n.page_table[n.ws[j]] # NONE /\ Clean(n, n.ws[j])
    BY DEF EntriesMapped, EntriesClean
  <2>1. /\ n.ws[j] = env.ws[j] /\ env.ws[j] \in Page /\ env.ws[j] # NONE
        /\ env.ws[j] \notin block
    BY <1>2, <1>9, Fields
  <2>2. env.page_table[env.ws[j]] # NONE /\ Clean(env, env.ws[j])
    BY <2>1 DEF InOrder, EntriesMapped, EntriesClean
  <2> QED BY <1>1, <1>9, <2>1, <2>2 DEF Clean
<1>12. EntriesDistinct(n)
  BY <1>9 DEF EntriesDistinct, InOrder
<1>13. TablesExist(n)
  BY <1>5, <1>7, <1>10 DEF TablesExist, InOrder, Mapped
<1>14. ASSUME NEW p \in Page
       PROVE  \/ Contents(n, p) = Contents(env, p)
              \/ p \in block /\ Contents(n, p) = NONE
  <2>1. CASE p \in leaving
    BY <1>1, <1>9, <2>1 DEF Contents
  <2>2. CASE p \notin leaving
    <3>1. n.page_table[p] = env.page_table[p]
      BY <1>9, <2>2
    <3>2. n.page_file[p] = IF p \in block THEN NONE ELSE env.page_file[p]
      BY <1>9
    <3>3. CASE p \in block
      BY <3>1, <3>2, <3>3 DEF Contents
    <3>4. CASE p \notin block
      BY <3>1, <3>2, <3>4 DEF Contents
    <3> QED BY <3>3, <3>4
  <2> QED BY <2>1, <2>2
<1> QED
  BY <1>1, <1>3, <1>5, <1>6, <1>8, <1>10, <1>11, <1>12, <1>13, <1>14
  DEF InOrder, n, leaving

(***************************************************************************)
(* An environment as it is loaded.                                         *)
(***************************************************************************)
LEMMA LoadedInOrder == InOrder(Loaded)
<1> DEFINE resident == LoadedProgramPages \cup {TopOfStack}
           at(i) == {p \in resident : SlotOf(p) = i}
           n == Loaded
<1>1. TopOfStack \in StackPages /\ StackPages \subseteq Page /\ ProgramPages \subseteq Page
  BY PagingAssumption, LargestIs DEF TopOfStack, Page
<1>2. resident \subseteq Page /\ resident \subseteq ProgramPages \cup {TopOfStack}
  BY <1>1 DEF LoadedProgramPages
<1>3. IsFiniteSet(resident)
  <2>1. IsFiniteSet(Page)
    BY Constants, FS_Interval DEF Page
  <2> QED BY <1>2, <2>1, FS_Subset
<1>4. Cardinality(resident) % page_WS_max_size \in Slot
  <2>1. Cardinality(resident) \in Nat
    BY <1>3, FS_CardinalityType
  <2> QED BY <2>1, Constants
<1> DEFINE ws == [i \in Slot |-> IF at(i) = {} THEN NONE ELSE CHOOSE p \in at(i) : TRUE]
           table == [p \in Page |->
                       IF p \in resident
                       THEN [data |-> ZERO, used |-> TRUE, modified |-> p = TopOfStack]
                       ELSE NONE]
           file == [p \in Page |-> IF p \in ProgramPages \cup {TopOfStack} THEN ZERO ELSE NONE]
           tables == {PDX(p) : p \in resident}
<1>5. n = [ws |-> ws, page_last_WS_index |-> Cardinality(resident) % page_WS_max_size,
           tables |-> tables, page_table |-> table, page_file |-> file]
  BY DEF Loaded
<1>6. \A i \in Slot : ws[i] # NONE => ws[i] \in resident /\ SlotOf(ws[i]) = i
  OBVIOUS
<1>7. ws \in [Slot -> Page \cup {NONE}]
  BY <1>2
<1>8. table \in [Page -> Entry \cup {NONE}]
  BY Constants DEF Entry
<1>9. file \in [Page -> Value \cup {NONE}]
  BY Constants
<1>10. tables \in SUBSET {PDX(p) : p \in Page}
  BY <1>2
<1>11. \A p \in Page : /\ p \in resident => /\ table[p] \in Entry /\ table[p].data = ZERO
                                            /\ file[p] = ZERO /\ PDX(p) \in tables
                       /\ p \notin resident => table[p] = NONE
  BY <1>2, Constants DEF Entry
<1> HIDE DEF resident, ws, table, file, tables, n
<1>12. n \in EnvPaging
  BY <1>4, <1>5, <1>7, <1>8, <1>9, <1>10 DEF EnvPaging
<1>13. n.ws = ws /\ n.page_table = table /\ n.page_file = file /\ n.tables = tables
  BY <1>5
<1>14. EntriesMapped(n) /\ EntriesClean(n)
  BY <1>2, <1>6, <1>11, <1>13, Constants DEF EntriesMapped, EntriesClean, Clean
<1>15. EntriesDistinct(n)
  BY <1>6, <1>13 DEF EntriesDistinct
<1>16. TablesExist(n)
  BY <1>11, <1>13 DEF TablesExist
<1> QED BY <1>12, <1>14, <1>15, <1>16 DEF InOrder, n
-----------------------------------------------------------------------------
(***************************************************************************)
(* The frames and disk frames that an environment holds.                   *)
(***************************************************************************)
MemoryOf(env) == Cardinality(Mapped(env)) + Cardinality(env.tables)
FileOf(env) == Cardinality(Saved(env))

LEMMA FiniteParts ==
  ASSUME NEW env \in EnvPaging
  PROVE  /\ IsFiniteSet(Page) /\ IsFiniteSet({PDX(p) : p \in Page})
         /\ IsFiniteSet(Mapped(env)) /\ IsFiniteSet(env.tables) /\ IsFiniteSet(Saved(env))
         /\ Cardinality(Mapped(env)) \in Nat /\ Cardinality(env.tables) \in Nat
         /\ MemoryOf(env) \in Nat /\ FileOf(env) \in Nat
<1>1. IsFiniteSet(Page)
  BY Constants, FS_Interval DEF Page
<1>2. IsFiniteSet({PDX(p) : p \in Page})
  <2> DEFINE f == [p \in Page |-> PDX(p)]
  <2>1. f \in Surjection(Page, {PDX(p) : p \in Page})
    BY DEF Surjection
  <2> QED BY <1>1, <2>1, FS_Surjection
<1>3. Mapped(env) \in SUBSET Page /\ Saved(env) \in SUBSET Page
  BY DEF Mapped, Saved
<1>4. IsFiniteSet(Mapped(env)) /\ IsFiniteSet(env.tables) /\ IsFiniteSet(Saved(env))
  BY <1>1, <1>2, <1>3, Fields, FS_Subset
<1>5. /\ Cardinality(Mapped(env)) \in Nat /\ Cardinality(env.tables) \in Nat
      /\ Cardinality(Saved(env)) \in Nat
  BY <1>4, FS_CardinalityType
<1> QED BY <1>1, <1>2, <1>4, <1>5 DEF MemoryOf, FileOf

(***************************************************************************)
(* What a step does to the environment that takes it: it stays in order,   *)
(* the free lists change by what it takes and gives back, and a used page  *)
(* leaves memory for the page file only if all pages are used.             *)
(***************************************************************************)
Balanced(env, n) ==
  /\ free_frames' \in Int /\ free_frames' + MemoryOf(n) = free_frames + MemoryOf(env)
  /\ disk_free_frames' \in Int
  /\ disk_free_frames' + FileOf(n) = disk_free_frames + FileOf(env)

SecondChance(env, n) ==
  \A p \in Mapped(env) \ Mapped(n) :
    env.page_table[p].used /\ n.page_file[p] # NONE => \A i \in Slot : is_used(env, i)

Kept(env, n) == InOrder(n) /\ Balanced(env, n) /\ SecondChance(env, n)

SameExcept(env, n, p) ==
  /\ \A q \in Page \ {p} : Contents(n, q) = Contents(env, q)
  /\ Contents(n, p) = Contents(env, p) \/ Contents(env, p) = NONE

Placed(e, p, env, n, frames) ==
  /\ envs' = [envs EXCEPT ![e] = n] /\ InOrder(n)
  /\ Saved(n) = Saved(env) /\ n.tables = env.tables
  /\ free_frames' \in Int
  /\ \/ Mapped(n) = Mapped(env) /\ free_frames' = frames
     \/ Mapped(n) = Mapped(env) \cup {p} /\ free_frames' = frames - 1
  /\ SameExcept(env, n, p)

LEMMA PlacementKeeps ==
  ASSUME NEW e \in Env, NEW env \in EnvPaging, InOrder(env), NEW p \in Page,
         p \notin Mapped(env), PDX(p) \in env.tables, NEW frames \in Int,
         placement(e, p, env, frames)
  PROVE  \E n : Placed(e, p, env, n, frames)
<1>1. CASE envs' = [envs EXCEPT ![e] = env] /\ free_frames' = frames
  BY <1>1 DEF SameExcept, Placed
<1>2. ASSUME NEW entry \in Entry, ~entry.modified => entry.data = env.page_file[p],
             Contents(env, p) \in {entry.data, NONE},
             envs' = [envs EXCEPT ![e] = set_entry(env, p, entry)],
             free_frames' = frames - 1
      PROVE  \E n : Placed(e, p, env, n, frames)
  <2> DEFINE n == set_entry(env, p, entry)
  <2>1. /\ InOrder(n) /\ Mapped(n) = Mapped(env) \cup {p} /\ Saved(n) = Saved(env)
        /\ n.tables = env.tables
        /\ \A q \in Page \ {p} : Contents(n, q) = Contents(env, q)
        /\ Contents(n, p) = entry.data
    BY <1>2, SetEntryKeeps
  <2>2. envs' = [envs EXCEPT ![e] = n] /\ free_frames' \in Int
    BY <1>2
  <2> HIDE DEF n
  <2>3. SameExcept(env, n, p)
    BY <1>2, <2>1 DEF SameExcept
  <2> QED BY <1>2, <2>1, <2>2, <2>3 DEF Placed
<1>3. Contents(env, p) = env.page_file[p]
  BY DEF Contents, Mapped
<1>4. CASE /\ env.page_file[p] # NONE
           /\ envs' = [envs EXCEPT ![e] = set_entry(env, p,
                [data |-> env.page_file[p], used |-> TRUE, modified |-> FALSE])]
           /\ free_frames' = frames - 1
  <2> DEFINE entry == [data |-> env.page_file[p], used |-> TRUE, modified |-> FALSE]
  <2>1. entry \in Entry /\ entry.data = env.page_file[p]
    BY <1>4, Fields DEF Entry
  <2>2. envs' = [envs EXCEPT ![e] = set_entry(env, p, entry)]
    BY <1>4
  <2> HIDE DEF entry
  <2> QED BY <1>2, <1>3, <1>4, <2>1, <2>2
<1>5. CASE /\ env.page_file[p] = NONE
           /\ \E garbage \in Value :
                envs' = [envs EXCEPT ![e] = set_entry(env, p, new_page(garbage))]
           /\ free_frames' = frames - 1
  <2>1. PICK garbage \in Value :
               envs' = [envs EXCEPT ![e] = set_entry(env, p, new_page(garbage))]
    BY <1>5
  <2>2. new_page(garbage) \in Entry /\ new_page(garbage).modified
    BY DEF new_page, Entry
  <2> QED BY <1>2, <1>3, <1>5, <2>1, <2>2
<1> QED BY <1>1, <1>4, <1>5 DEF placement

LEMMA PageFaultKeeps ==
  ASSUME PagingInv, NEW e \in Env, NEW p \in Page,
         p \notin Mapped(envs[e]), PDX(p) \in envs[e].tables,
         page_fault_handler(e, p)
  PROVE  \E n : /\ envs' = [envs EXCEPT ![e] = n]
               /\ Kept(envs[e], n) /\ SameExcept(envs[e], n, p)
<1> DEFINE env == envs[e]
           v == env.ws[victim(env)]
           needs == NeedsDiskFrame(env, v)
<1>1. env \in EnvPaging /\ InOrder(env) /\ free_frames \in Int /\ disk_free_frames \in Int
  BY DEF PagingInv
<1>2. Cardinality(Used(env)) = page_WS_max_size => Full(env)
  BY <1>1, FullIs
<1>3. /\ p \notin Mapped(env) /\ PDX(p) \in env.tables
      /\ \/ /\ placement(e, p, env, free_frames)
            /\ UNCHANGED disk_free_frames
         \/ /\ Full(env)
            /\ envs' = [envs EXCEPT ![e] = clear_used(env)]
            /\ UNCHANGED <<free_frames, disk_free_frames>>
         \/ /\ Full(env)
            /\ placement(e, p, evict(env), free_frames + 1)
            /\ disk_free_frames' = IF needs THEN disk_free_frames - 1 ELSE disk_free_frames
  BY <1>2 DEF page_fault_handler
<1> SUFFICES \E n : /\ envs' = [envs EXCEPT ![e] = n]
                   /\ Kept(env, n) /\ SameExcept(env, n, p)
  OBVIOUS
<1> HIDE DEF env
<1>4. /\ IsFiniteSet(Mapped(env)) /\ IsFiniteSet(Saved(env))
      /\ Cardinality(Mapped(env)) \in Nat /\ Cardinality(env.tables) \in Nat
      /\ Cardinality(Saved(env)) \in Nat
  BY <1>1, FiniteParts DEF FileOf
<1>5. Cardinality(Mapped(env) \cup {p}) = Cardinality(Mapped(env)) + 1
  BY <1>3, <1>4, FS_AddElement
<1>6. CASE placement(e, p, env, free_frames) /\ UNCHANGED disk_free_frames
  <2>1. PICK n : Placed(e, p, env, n, free_frames)
    BY <1>1, <1>3, <1>6, PlacementKeeps
  <2>2. Balanced(env, n)
    <3>1. /\ Cardinality(Saved(n)) = Cardinality(Saved(env))
          /\ Cardinality(n.tables) = Cardinality(env.tables)
          /\ free_frames' \in Int
          /\ \/ Cardinality(Mapped(n)) = Cardinality(Mapped(env)) /\ free_frames' = free_frames
             \/ /\ Cardinality(Mapped(n)) = Cardinality(Mapped(env)) + 1
                /\ free_frames' = free_frames - 1
      BY <1>5, <2>1, Zenon DEF Placed
    <3> QED BY <1>1, <1>4, <1>6, <3>1 DEF Balanced, MemoryOf, FileOf
  <2>3. SecondChance(env, n)
    BY <2>1 DEF Placed, SecondChance
  <2> QED BY <2>1, <2>2, <2>3 DEF Placed, Kept
<1>7. CASE /\ Full(env) /\ envs' = [envs EXCEPT ![e] = clear_used(env)]
           /\ UNCHANGED <<free_frames, disk_free_frames>>
  <2> DEFINE n == clear_used(env)
  <2>1. /\ InOrder(n) /\ Mapped(n) = Mapped(env) /\ Saved(n) = Saved(env)
        /\ n.tables = env.tables
        /\ \A q \in Page : Contents(n, q) = Contents(env, q)
    BY <1>1, <1>7, ClearUsedKeeps
  <2>2. envs' = [envs EXCEPT ![e] = n]
    BY <1>7
  <2> HIDE DEF n
  <2>3. Balanced(env, n) /\ SecondChance(env, n) /\ SameExcept(env, n, p)
    BY <1>1, <1>4, <1>7, <2>1 DEF Balanced, MemoryOf, FileOf, SecondChance, SameExcept
  <2> QED BY <2>1, <2>2, <2>3 DEF Kept
<1>8. CASE /\ Full(env) /\ placement(e, p, evict(env), free_frames + 1)
           /\ disk_free_frames' = IF needs THEN disk_free_frames - 1 ELSE disk_free_frames
  <2> DEFINE m == evict(env)
  <2>1. /\ InOrder(m) /\ v \in Mapped(env) /\ Mapped(m) = Mapped(env) \ {v}
        /\ Saved(m) = IF needs THEN Saved(env) \cup {v} ELSE Saved(env)
        /\ m.tables = env.tables
        /\ \A q \in Page : Contents(m, q) = Contents(env, q)
    BY <1>1, <1>8, EvictKeeps
  <2>2. needs => v \notin Saved(env)
    BY DEF NeedsDiskFrame, Saved
  <2>3. is_used(env, victim(env)) => \A i \in Slot : is_used(env, i)
    BY <1>1, SweepEnds
  <2>4. is_used(env, victim(env)) = env.page_table[v].used
    BY DEF is_used
  <2>5. PICK frames \in Int : frames = free_frames + 1 /\ placement(e, p, m, frames)
    BY <1>1, <1>8
  <2> HIDE DEF m, v, needs
  <2>6. m \in EnvPaging /\ p \notin Mapped(m) /\ PDX(p) \in m.tables
    BY <1>3, <2>1 DEF InOrder
  <2>7. PICK n : Placed(e, p, m, n, frames)
    BY <2>1, <2>5, <2>6, PlacementKeeps
  <2>8. Cardinality(Mapped(m)) = Cardinality(Mapped(env)) - 1
    BY <1>4, <2>1, FS_RemoveElement
  <2>9. Cardinality(Mapped(m) \cup {p}) = Cardinality(Mapped(m)) + 1
    BY <2>6, FiniteParts, FS_AddElement
  <2>10. Cardinality(Saved(m)) = Cardinality(Saved(env)) + (IF needs THEN 1 ELSE 0)
    <3>1. CASE needs
      BY <1>4, <2>1, <2>2, <3>1, FS_AddElement
    <3>2. CASE ~needs
      BY <1>4, <2>1, <3>2
    <3> QED BY <3>1, <3>2
  <2>11. free_frames' \in Int /\ free_frames' + MemoryOf(n) = free_frames + MemoryOf(env)
    <3>1. /\ Cardinality(n.tables) = Cardinality(env.tables) /\ free_frames' \in Int
          /\ \/ /\ Cardinality(Mapped(n)) = Cardinality(Mapped(m))
                /\ free_frames' = frames
             \/ /\ Cardinality(Mapped(n)) = Cardinality(Mapped(m)) + 1
                /\ free_frames' = frames - 1
      BY <2>1, <2>7, <2>9, Zenon DEF Placed
    <3> QED BY <1>1, <1>4, <2>5, <2>8, <3>1 DEF MemoryOf
  <2>12. /\ disk_free_frames' \in Int
         /\ disk_free_frames' + FileOf(n) = disk_free_frames + FileOf(env)
    BY <1>1, <1>4, <1>8, <2>7, <2>10 DEF Placed, FileOf, needs
  <2>13. SecondChance(env, n)
    BY <2>1, <2>3, <2>4, <2>7 DEF Placed, SecondChance
  <2>14. SameExcept(env, n, p)
    BY <2>1, <2>7 DEF Placed, SameExcept
  <2> QED BY <2>7, <2>11, <2>12, <2>13, <2>14 DEF Placed, Kept, Balanced
<1> QED BY <1>3, <1>6, <1>7, <1>8

(***************************************************************************)
(* One lemma per action: what it does to the environment that takes it.    *)
(***************************************************************************)
LEMMA SameKept ==
  ASSUME PagingInv, NEW e \in Env, UNCHANGED <<envs, free_frames, disk_free_frames>>
  PROVE  envs' = [envs EXCEPT ![e] = envs[e]] /\ Kept(envs[e], envs[e])
<1>1. envs \in [Env -> EnvPaging] /\ InOrder(envs[e])
  BY DEF PagingInv
<1>2. MemoryOf(envs[e]) \in Nat /\ FileOf(envs[e]) \in Nat
  BY <1>1, FiniteParts
<1>3. Balanced(envs[e], envs[e])
  BY <1>2 DEF Balanced, PagingInv
<1>4. SecondChance(envs[e], envs[e])
  BY DEF SecondChance
<1> QED BY <1>1, <1>3, <1>4 DEF Kept

LEMMA TableFaultKeeps ==
  ASSUME PagingInv, NEW e \in Env, NEW p \in Page, PDX(p) \notin envs[e].tables,
         table_fault_handler(e, p)
  PROVE  \E n : /\ envs' = [envs EXCEPT ![e] = n]
               /\ Kept(envs[e], n) /\ SameExcept(envs[e], n, p)
<1>1. CASE UNCHANGED <<envs, free_frames, disk_free_frames>>
  BY <1>1, SameKept DEF SameExcept
<1>2. CASE /\ envs' = [envs EXCEPT ![e].tables = @ \cup {PDX(p)}]
           /\ free_frames' = free_frames - 1 /\ UNCHANGED disk_free_frames
  <2> DEFINE env == envs[e]
             n == [env EXCEPT !.tables = env.tables \cup {PDX(p)}]
  <2>1. envs \in [Env -> EnvPaging] /\ env \in EnvPaging /\ InOrder(env)
    BY DEF PagingInv
  <2>2. envs' = [envs EXCEPT ![e] = n]
    BY <1>2, <2>1
  <2>3. PDX(p) \notin env.tables
    OBVIOUS
  <2> SUFFICES Kept(env, n) /\ SameExcept(env, n, p)
    BY <2>2
  <2> HIDE DEF env
  <2>4. n = [ws |-> env.ws, page_last_WS_index |-> env.page_last_WS_index,
             tables |-> env.tables \cup {PDX(p)}, page_table |-> env.page_table,
             page_file |-> env.page_file]
    <3> DEFINE tables == env.tables \cup {PDX(p)}
    <3>1. n = [env EXCEPT !.tables = tables]
      OBVIOUS
    <3> HIDE DEF tables, n
    <3>2. n = [ws |-> env.ws, page_last_WS_index |-> env.page_last_WS_index,
               tables |-> tables, page_table |-> env.page_table,
               page_file |-> env.page_file]
      BY <2>1, <3>1 DEF EnvPaging
    <3> QED BY <3>2 DEF tables
  <2> HIDE DEF n
  <2>5. /\ n.ws = env.ws /\ n.tables = env.tables \cup {PDX(p)}
        /\ n.page_table = env.page_table /\ n.page_file = env.page_file
    BY <2>4
  <2>6. n \in EnvPaging
    <3>1. env.tables \cup {PDX(p)} \in SUBSET {PDX(q) : q \in Page}
      BY <2>1, Fields
    <3> QED BY <2>1, <2>4, <3>1, Fields DEF EnvPaging
  <2>7. Mapped(n) = Mapped(env) /\ Saved(n) = Saved(env)
    BY <2>5 DEF Mapped, Saved
  <2>8. InOrder(n)
    BY <2>1, <2>5, <2>6
    DEF InOrder, EntriesMapped, EntriesDistinct, TablesExist, EntriesClean, Clean
  <2>9. Cardinality(n.tables) = Cardinality(env.tables) + 1
    BY <2>1, <2>3, <2>5, FiniteParts, FS_AddElement
  <2>10. Balanced(env, n)
    <3>1. /\ Cardinality(Mapped(env)) \in Nat /\ Cardinality(env.tables) \in Nat
          /\ FileOf(env) \in Nat /\ free_frames \in Int /\ disk_free_frames \in Int
      BY <2>1, FiniteParts DEF PagingInv
    <3>2. MemoryOf(n) = MemoryOf(env) + 1 /\ FileOf(n) = FileOf(env) /\ MemoryOf(env) \in Nat
      BY <2>7, <2>9, <3>1 DEF MemoryOf, FileOf
    <3> QED BY <1>2, <3>1, <3>2 DEF Balanced
  <2>11. SecondChance(env, n) /\ SameExcept(env, n, p)
    BY <2>5, <2>7 DEF SecondChance, SameExcept, Contents
  <2> QED BY <2>8, <2>10, <2>11 DEF Kept
<1> QED BY <1>1, <1>2 DEF table_fault_handler

LEMMA FaultKeeps ==
  ASSUME PagingInv, NEW e \in Env, NEW p \in Page, fault_handler(e, p)
  PROVE  /\ access[e] \in {NONE, p} /\ access' = [access EXCEPT ![e] = p]
         /\ \E n : /\ envs' = [envs EXCEPT ![e] = n]
                  /\ Kept(envs[e], n) /\ SameExcept(envs[e], n, p)
<1>1. p \notin Mapped(envs[e])
  BY DEF fault_handler
<1>2. CASE UNCHANGED <<envs, free_frames, disk_free_frames>>
  BY <1>2, SameKept DEF SameExcept, fault_handler, Touches
<1>3. CASE PDX(p) \notin envs[e].tables /\ table_fault_handler(e, p)
  BY <1>3, TableFaultKeeps DEF fault_handler, Touches
<1>4. CASE PDX(p) \in envs[e].tables /\ page_fault_handler(e, p)
  BY <1>1, <1>4, PageFaultKeeps DEF fault_handler, Touches
<1> QED BY <1>2, <1>3, <1>4 DEF fault_handler

LEMMA ReadKeeps ==
  ASSUME PagingInv, NEW e \in Env, NEW p \in Page, read(e, p)
  PROVE  /\ access[e] \in {NONE, p} /\ access' = [access EXCEPT ![e] = NONE]
         /\ Contents(envs[e], p) # NONE
         /\ \E n : /\ envs' = [envs EXCEPT ![e] = n] /\ Kept(envs[e], n)
                  /\ \A q \in Page : Contents(n, q) = Contents(envs[e], q)
<1> DEFINE env == envs[e]
           entry == [env.page_table[p] EXCEPT !.used = TRUE]
           n == [env EXCEPT !.page_table[p] = entry]
<1>1. envs \in [Env -> EnvPaging] /\ env \in EnvPaging /\ InOrder(env)
  BY DEF PagingInv
<1>2. access[e] \in {NONE, p} /\ access' = [access EXCEPT ![e] = NONE] /\ p \in Mapped(env)
  BY DEF read, Touches
<1>3. env.page_table[p] \in Entry
  BY <1>1, <1>2, Fields DEF Mapped
<1>4. envs' = [envs EXCEPT ![e] = n]
  BY <1>1 DEF read
<1>5. UNCHANGED <<free_frames, disk_free_frames>> /\ free_frames \in Int /\ disk_free_frames \in Int
  BY DEF read, PagingInv
<1> SUFFICES /\ Contents(env, p) # NONE /\ Kept(env, n)
             /\ \A q \in Page : Contents(n, q) = Contents(env, q)
  BY <1>2, <1>4
<1> HIDE DEF env
<1>6. /\ entry \in Entry /\ entry.data = env.page_table[p].data
      /\ entry.modified = env.page_table[p].modified
  BY <1>3 DEF Entry
<1>7. Contents(env, p) = env.page_table[p].data /\ env.page_table[p].data # NONE
  BY <1>2, <1>3, Constants DEF Contents, Mapped, Entry
<1>8. n = [env EXCEPT !.page_table[p] = entry]
  OBVIOUS
<1> HIDE DEF entry, n
<1>9. /\ InOrder(n) /\ Mapped(n) = Mapped(env) /\ Saved(n) = Saved(env)
      /\ n.tables = env.tables
      /\ \A q \in Page \ {p} : Contents(n, q) = Contents(env, q)
      /\ Contents(n, p) = entry.data
  BY <1>1, <1>2, <1>6, <1>8, AccessKeeps
<1>10. Balanced(env, n)
  BY <1>1, <1>5, <1>9, FiniteParts DEF Balanced, MemoryOf, FileOf
<1>11. SecondChance(env, n)
  BY <1>9 DEF SecondChance
<1>12. \A q \in Page : Contents(n, q) = Contents(env, q)
  BY <1>6, <1>7, <1>9
<1> QED BY <1>7, <1>9, <1>10, <1>11, <1>12 DEF Kept

Stored(env, n, p, w) ==
  (\A q \in Page \ {p} : Contents(n, q) = Contents(env, q)) /\ Contents(n, p) = w

LEMMA WriteKeeps ==
  ASSUME PagingInv, NEW e \in Env, NEW p \in Page, NEW w \in Value, write(e, p, w)
  PROVE  /\ access[e] \in {NONE, p} /\ access' = [access EXCEPT ![e] = NONE]
         /\ Contents(envs[e], p) # NONE
         /\ \E n : /\ envs' = [envs EXCEPT ![e] = n] /\ Kept(envs[e], n)
                  /\ Stored(envs[e], n, p, w)
<1> DEFINE env == envs[e]
           entry == [data |-> w, used |-> TRUE, modified |-> TRUE]
           n == [env EXCEPT !.page_table[p] = entry]
<1>1. envs \in [Env -> EnvPaging] /\ env \in EnvPaging /\ InOrder(env)
  BY DEF PagingInv
<1>2. access[e] \in {NONE, p} /\ access' = [access EXCEPT ![e] = NONE] /\ p \in Mapped(env)
  BY DEF write, Touches
<1>3. env.page_table[p] \in Entry
  BY <1>1, <1>2, Fields DEF Mapped
<1>4. envs' = [envs EXCEPT ![e] = n]
  BY <1>1 DEF write
<1>5. UNCHANGED <<free_frames, disk_free_frames>> /\ free_frames \in Int /\ disk_free_frames \in Int
  BY DEF write, PagingInv
<1> SUFFICES /\ Contents(env, p) # NONE /\ Kept(env, n) /\ Stored(env, n, p, w)
  BY <1>2, <1>4
<1> HIDE DEF env
<1>6. entry \in Entry /\ entry.data = w /\ entry.modified
  BY DEF Entry
<1>7. Contents(env, p) = env.page_table[p].data /\ env.page_table[p].data # NONE
  BY <1>2, <1>3, Constants DEF Contents, Mapped, Entry
<1>8. n = [env EXCEPT !.page_table[p] = entry]
  OBVIOUS
<1> HIDE DEF entry, n
<1>9. /\ InOrder(n) /\ Mapped(n) = Mapped(env) /\ Saved(n) = Saved(env)
      /\ n.tables = env.tables
      /\ \A q \in Page \ {p} : Contents(n, q) = Contents(env, q)
      /\ Contents(n, p) = entry.data
  BY <1>1, <1>2, <1>6, <1>8, AccessKeeps
<1>10. Balanced(env, n)
  BY <1>1, <1>5, <1>9, FiniteParts DEF Balanced, MemoryOf, FileOf
<1>11. SecondChance(env, n)
  BY <1>9 DEF SecondChance
<1> QED BY <1>6, <1>7, <1>9, <1>10, <1>11 DEF Kept, Stored

LEMMA FreeKeeps ==
  ASSUME PagingInv, NEW e \in Env, NEW block \in Block, free_user_mem(e, block)
  PROVE  /\ access[e] = NONE /\ access' = access
         /\ \E n : /\ envs' = [envs EXCEPT ![e] = n] /\ Kept(envs[e], n)
                  /\ \A p \in Page : \/ Contents(n, p) = Contents(envs[e], p)
                                     \/ p \in HeapPages /\ Contents(n, p) = NONE
<1> DEFINE env == envs[e]
           n == Freed(env, block)
           slots == EntriesIn(env, block)
           leaving == Leaving(env, block)
           emptied == Emptied(env, block)
<1>1. envs \in [Env -> EnvPaging] /\ env \in EnvPaging /\ InOrder(env)
  BY DEF PagingInv
<1>2. /\ access[e] = NONE /\ access' = access /\ envs' = [envs EXCEPT ![e] = n]
      /\ free_frames' = free_frames + Cardinality(slots) + Cardinality(emptied)
      /\ disk_free_frames' = disk_free_frames + Cardinality(block \cap Saved(env))
  BY DEF free_user_mem, Freed, Emptied, Leaving, EntriesIn, free_disk_frames
<1>3. block \subseteq HeapPages /\ block \in SUBSET Page
  <2>1. PICK sva \in HeapPages, eva \in HeapPages : block = sva .. eva
    BY DEF Block
  <2> QED BY <2>1, PagingAssumption
<1> SUFFICES Kept(env, n) /\ \A p \in Page : \/ Contents(n, p) = Contents(env, p)
                                             \/ p \in HeapPages /\ Contents(n, p) = NONE
  BY <1>2
<1> HIDE DEF env
<1>4. /\ InOrder(n)
      /\ leaving \subseteq Mapped(env) \cap block
      /\ Mapped(n) = Mapped(env) \ leaving
      /\ Saved(n) = Saved(env) \ block
      /\ n.tables = env.tables \ emptied
      /\ emptied \subseteq env.tables
      /\ \A p \in Page : \/ Contents(n, p) = Contents(env, p)
                         \/ p \in block /\ Contents(n, p) = NONE
  BY <1>1, <1>3, FreedKeeps
<1>5. Cardinality(slots) = Cardinality(leaving)
  <2> DEFINE f == [i \in slots |-> env.ws[i]]
  <2>1. slots \subseteq Slot /\ \A i \in slots : env.ws[i] # NONE
    BY DEF EntriesIn, Used
  <2>2. IsFiniteSet(slots)
    <3>1. IsFiniteSet(0 .. page_WS_max_size - 1)
      BY Constants, FS_Interval
    <3> QED BY <2>1, <3>1, Constants, FS_Subset
  <2>3. \A i, j \in slots : env.ws[i] = env.ws[j] => i = j
    BY <1>1, <2>1 DEF InOrder, EntriesDistinct
  <2>4. f \in Bijection(slots, leaving)
    <3>1. leaving = {env.ws[i] : i \in slots}
      BY DEF Leaving
    <3> HIDE DEF slots, leaving
    <3>2. f \in [slots -> leaving] /\ \A i \in slots : f[i] = env.ws[i]
      BY <3>1
    <3>3. \A x \in leaving : \E i \in slots : f[i] = x
      BY <3>1, <3>2
    <3> HIDE DEF f
    <3>4. \A i, j \in slots : f[i] = f[j] => i = j
      BY <2>3, <3>2
    <3>5. f \in Injection(slots, leaving)
      BY <3>2, <3>4, Fun_IsInj
    <3>6. f \in Surjection(slots, leaving)
      BY <3>2, <3>3, Zenon DEF Surjection
    <3> QED BY <3>5, <3>6 DEF Bijection
  <2> QED BY <2>2, <2>4, FS_Bijection DEF ExistsBijection
<1>6. /\ IsFiniteSet(Mapped(env)) /\ IsFiniteSet(env.tables) /\ IsFiniteSet(Saved(env))
      /\ Cardinality(Mapped(env)) \in Nat /\ Cardinality(env.tables) \in Nat
      /\ Cardinality(Saved(env)) \in Nat
  BY <1>1, FiniteParts DEF FileOf
<1> HIDE DEF n, slots, leaving, emptied
<1>7. /\ Mapped(env) \cap leaving = leaving /\ env.tables \cap emptied = emptied
      /\ block \cap Saved(env) = Saved(env) \cap block
      /\ leaving \in SUBSET Mapped(env) /\ emptied \in SUBSET env.tables
      /\ Saved(env) \cap block \in SUBSET Saved(env)
  BY <1>4
<1>8. /\ Cardinality(leaving) \in Nat /\ Cardinality(emptied) \in Nat
      /\ Cardinality(Saved(env) \cap block) \in Nat
  BY <1>6, <1>7, FS_Subset, FS_CardinalityType
<1>9. /\ Cardinality(Mapped(n)) = Cardinality(Mapped(env)) - Cardinality(leaving)
      /\ Cardinality(n.tables) = Cardinality(env.tables) - Cardinality(emptied)
      /\ Cardinality(Saved(n)) = Cardinality(Saved(env)) - Cardinality(Saved(env) \cap block)
  <2>1. Cardinality(Mapped(env) \ leaving)
          = Cardinality(Mapped(env)) - Cardinality(Mapped(env) \cap leaving)
    BY <1>6, FS_Difference
  <2>2. Cardinality(env.tables \ emptied)
          = Cardinality(env.tables) - Cardinality(env.tables \cap emptied)
    BY <1>6, FS_Difference
  <2>3. Cardinality(Saved(env) \ block)
          = Cardinality(Saved(env)) - Cardinality(Saved(env) \cap block)
    BY <1>6, FS_Difference
  <2> QED BY <1>4, <1>7, <2>1, <2>2, <2>3
<1>10. Balanced(env, n)
  <2>1. free_frames \in Int /\ disk_free_frames \in Int
    BY DEF PagingInv
  <2>2. free_frames' = free_frames + Cardinality(leaving) + Cardinality(emptied)
    BY <1>2, <1>5 DEF env, slots, emptied
  <2>3. disk_free_frames' = disk_free_frames + Cardinality(Saved(env) \cap block)
    BY <1>2, <1>7 DEF env
  <2> QED BY <1>6, <1>8, <1>9, <2>1, <2>2, <2>3 DEF Balanced, MemoryOf, FileOf
<1>11. SecondChance(env, n)
  <2>1. \A p \in leaving : n.page_file[p] = NONE
    BY <1>3, <1>4 DEF Saved, Mapped
  <2> QED BY <1>4, <2>1 DEF SecondChance
<1> QED BY <1>3, <1>4, <1>10, <1>11 DEF Kept
-----------------------------------------------------------------------------
(***************************************************************************)
(* What all environments hold together, and how it changes when one of     *)
(* them changes.                                                           *)
(***************************************************************************)
Pairs(F) == UNION {{d} \X F[d] : d \in Env}
Others(F, e) == UNION {{d} \X F[d] : d \in Env \ {e}}

LEMMA PairsSplit ==
  ASSUME NEW T, IsFiniteSet(T), NEW F \in [Env -> SUBSET T], NEW e \in Env
  PROVE  /\ Cardinality(Others(F, e)) \in Nat /\ Cardinality(F[e]) \in Nat
         /\ Cardinality(Pairs(F)) = Cardinality(Others(F, e)) + Cardinality(F[e])
<1> DEFINE own == {e} \X F[e]
           others == Others(F, e)
<1>1. IsFiniteSet(F[e]) /\ Cardinality(F[e]) \in Nat
  BY FS_Subset, FS_CardinalityType
<1>2. IsFiniteSet(own) /\ Cardinality(own) = Cardinality(F[e])
  <2>1. IsFiniteSet({e}) /\ Cardinality({e}) = 1
    BY FS_Singleton
  <2>2. IsFiniteSet(own) /\ Cardinality(own) = 1 * Cardinality(F[e])
    BY <1>1, <2>1, FS_Product
  <2> QED BY <1>1, <2>2
<1>3. IsFiniteSet(others) /\ Cardinality(others) \in Nat
  <2>1. IsFiniteSet(Env \X T)
    BY Constants, FS_Product
  <2>2. others \in SUBSET (Env \X T)
    BY DEF Others
  <2> QED BY <2>1, <2>2, FS_Subset, FS_CardinalityType
<1>4. Pairs(F) = others \cup own
  <2>1. ASSUME NEW x PROVE x \in Pairs(F) <=> \E d \in Env : x \in {d} \X F[d]
    BY DEF Pairs
  <2>2. ASSUME NEW x PROVE x \in others <=> \E d \in Env \ {e} : x \in {d} \X F[d]
    BY DEF Others
  <2> HIDE DEF others
  <2> QED BY <2>1, <2>2
<1>5. others \cap own = {}
  BY DEF Others
<1> HIDE DEF own, others
<1>6. Cardinality(others \cup own)
        = Cardinality(others) + Cardinality(own) - Cardinality(others \cap own)
  BY <1>2, <1>3, FS_Union
<1> QED BY <1>1, <1>2, <1>3, <1>4, <1>5, <1>6, FS_EmptySet DEF others

LEMMA PairsChange ==
  ASSUME NEW T, IsFiniteSet(T), NEW F \in [Env -> SUBSET T], NEW G \in [Env -> SUBSET T],
         NEW e \in Env, \A d \in Env \ {e} : G[d] = F[d]
  PROVE  /\ Cardinality(Pairs(F)) \in Nat /\ Cardinality(Pairs(G)) \in Nat
         /\ Cardinality(F[e]) \in Nat /\ Cardinality(G[e]) \in Nat
         /\ Cardinality(Pairs(G)) - Cardinality(G[e]) = Cardinality(Pairs(F)) - Cardinality(F[e])
<1>1. Others(G, e) = Others(F, e)
  BY DEF Others
<1>2. /\ Cardinality(Others(F, e)) \in Nat /\ Cardinality(F[e]) \in Nat
      /\ Cardinality(Pairs(F)) = Cardinality(Others(F, e)) + Cardinality(F[e])
  BY PairsSplit
<1>3. /\ Cardinality(G[e]) \in Nat
      /\ Cardinality(Pairs(G)) = Cardinality(Others(G, e)) + Cardinality(G[e])
  BY PairsSplit
<1> QED BY <1>1, <1>2, <1>3

MappedBy(E) == [d \in Env |-> Mapped(E[d])]
TablesOf(E) == [d \in Env |-> E[d].tables]
SavedBy(E) == [d \in Env |-> Saved(E[d])]

LEMMA HeldTypes ==
  ASSUME NEW E \in [Env -> EnvPaging]
  PROVE  /\ MappedBy(E) \in [Env -> SUBSET Page] /\ SavedBy(E) \in [Env -> SUBSET Page]
         /\ TablesOf(E) \in [Env -> SUBSET {PDX(p) : p \in Page}]
         /\ IsFiniteSet(Page) /\ IsFiniteSet({PDX(p) : p \in Page})
<1>1. \A d \in Env : /\ Mapped(E[d]) \in SUBSET Page /\ Saved(E[d]) \in SUBSET Page
                     /\ E[d].tables \in SUBSET {PDX(p) : p \in Page}
  BY Fields DEF Mapped, Saved
<1>2. IsFiniteSet(Page)
  BY Constants, FS_Interval DEF Page
<1>3. IsFiniteSet({PDX(p) : p \in Page})
  BY LoadedInOrder, FiniteParts DEF InOrder
<1> QED BY <1>1, <1>2, <1>3 DEF MappedBy, SavedBy, TablesOf

Held(E) == Cardinality(Pairs(MappedBy(E))) + Cardinality(Pairs(TablesOf(E)))
HeldInFile(E) == Cardinality(Pairs(SavedBy(E)))

LEMMA HeldFinite ==
  ASSUME NEW E \in [Env -> EnvPaging]
  PROVE  /\ Cardinality(Pairs(MappedBy(E))) \in Nat
         /\ Cardinality(Pairs(TablesOf(E))) \in Nat
<1>1. IsFiniteSet(Env \X Page) /\ IsFiniteSet(Env \X {PDX(p) : p \in Page})
  BY HeldTypes, Constants, FS_Product
<1>2. /\ Pairs(MappedBy(E)) \in SUBSET (Env \X Page)
      /\ Pairs(TablesOf(E)) \in SUBSET (Env \X {PDX(p) : p \in Page})
  <2>1. ASSUME NEW T, NEW F \in [Env -> SUBSET T] PROVE Pairs(F) \in SUBSET (Env \X T)
    BY DEF Pairs
  <2> QED BY <2>1, HeldTypes
<1> QED BY <1>1, <1>2, FS_Subset, FS_CardinalityType

LEMMA HeldChange ==
  ASSUME NEW E \in [Env -> EnvPaging], NEW G \in [Env -> EnvPaging], NEW e \in Env,
         \A d \in Env \ {e} : G[d] = E[d]
  PROVE  /\ Held(E) \in Nat /\ Held(G) \in Nat
         /\ HeldInFile(E) \in Nat /\ HeldInFile(G) \in Nat
         /\ Held(G) - MemoryOf(G[e]) = Held(E) - MemoryOf(E[e])
         /\ HeldInFile(G) - FileOf(G[e]) = HeldInFile(E) - FileOf(E[e])
<1>1. /\ Cardinality(Pairs(MappedBy(E))) \in Nat /\ Cardinality(Pairs(MappedBy(G))) \in Nat
      /\ Cardinality(MappedBy(E)[e]) \in Nat /\ Cardinality(MappedBy(G)[e]) \in Nat
      /\ Cardinality(Pairs(MappedBy(G))) - Cardinality(MappedBy(G)[e])
           = Cardinality(Pairs(MappedBy(E))) - Cardinality(MappedBy(E)[e])
  <2>1. /\ MappedBy(E) \in [Env -> SUBSET Page] /\ MappedBy(G) \in [Env -> SUBSET Page]
        /\ IsFiniteSet(Page)
    BY HeldTypes
  <2>2. \A d \in Env \ {e} : MappedBy(G)[d] = MappedBy(E)[d]
    BY DEF MappedBy
  <2> QED BY <2>1, <2>2, PairsChange
<1>2. /\ Cardinality(Pairs(TablesOf(E))) \in Nat /\ Cardinality(Pairs(TablesOf(G))) \in Nat
      /\ Cardinality(TablesOf(E)[e]) \in Nat /\ Cardinality(TablesOf(G)[e]) \in Nat
      /\ Cardinality(Pairs(TablesOf(G))) - Cardinality(TablesOf(G)[e])
           = Cardinality(Pairs(TablesOf(E))) - Cardinality(TablesOf(E)[e])
  <2>1. /\ TablesOf(E) \in [Env -> SUBSET {PDX(p) : p \in Page}] /\ TablesOf(G) \in [Env -> SUBSET {PDX(p) : p \in Page}]
        /\ IsFiniteSet({PDX(p) : p \in Page})
    BY HeldTypes
  <2>2. \A d \in Env \ {e} : TablesOf(G)[d] = TablesOf(E)[d]
    BY DEF TablesOf
  <2> QED BY <2>1, <2>2, PairsChange
<1>3. /\ Cardinality(Pairs(SavedBy(E))) \in Nat /\ Cardinality(Pairs(SavedBy(G))) \in Nat
      /\ Cardinality(SavedBy(E)[e]) \in Nat /\ Cardinality(SavedBy(G)[e]) \in Nat
      /\ Cardinality(Pairs(SavedBy(G))) - Cardinality(SavedBy(G)[e])
           = Cardinality(Pairs(SavedBy(E))) - Cardinality(SavedBy(E)[e])
  <2>1. /\ SavedBy(E) \in [Env -> SUBSET Page] /\ SavedBy(G) \in [Env -> SUBSET Page]
        /\ IsFiniteSet(Page)
    BY HeldTypes
  <2>2. \A d \in Env \ {e} : SavedBy(G)[d] = SavedBy(E)[d]
    BY DEF SavedBy
  <2> QED BY <2>1, <2>2, PairsChange
<1>4. /\ MappedBy(E)[e] = Mapped(E[e]) /\ MappedBy(G)[e] = Mapped(G[e])
      /\ TablesOf(E)[e] = E[e].tables /\ TablesOf(G)[e] = G[e].tables
      /\ SavedBy(E)[e] = Saved(E[e]) /\ SavedBy(G)[e] = Saved(G[e])
  BY DEF MappedBy, TablesOf, SavedBy
<1> QED BY <1>1, <1>2, <1>3, <1>4 DEF Held, HeldInFile, MemoryOf, FileOf

LEMMA LeaksAs ==
  ASSUME envs \in [Env -> EnvPaging]
  PROVE  NothingLeaks <=>
           /\ free_frames + Cardinality(Pairs(MappedBy(envs)))
                + Cardinality(Pairs(TablesOf(envs))) = Frames
           /\ disk_free_frames + HeldInFile(envs) = DiskFrames
<1>1. {x \in Env \X Page : x[2] \in Mapped(envs[x[1]])} = Pairs(MappedBy(envs))
  BY DEF Pairs, MappedBy, Mapped
<1>2. {x \in Env \X Page : x[2] \in Saved(envs[x[1]])} = Pairs(SavedBy(envs))
  BY DEF Pairs, SavedBy, Saved
<1>3. UNION {{e} \X envs[e].tables : e \in Env} = Pairs(TablesOf(envs))
  BY DEF Pairs, TablesOf
<1> QED BY <1>1, <1>2, <1>3 DEF NothingLeaks, HeldInFile
-----------------------------------------------------------------------------
(***************************************************************************)
(* Init establishes the invariant, and every step keeps it.                *)
(***************************************************************************)
StayUsed ==
  \A e \in Env : \A p \in Mapped(envs[e]) \ Mapped(envs'[e]) :
    envs[e].page_table[p].used /\ envs'[e].page_file[p] # NONE
      => \A i \in Slot : is_used(envs[e], i)

LEMMA PagingInitInv ==
  ASSUME Init
  PROVE  PagingInv /\ NothingLeaks
<1> DEFINE k == Cardinality(Env)
           a == Cardinality(Mapped(Loaded))
           b == Cardinality(Loaded.tables)
           c == Cardinality(Saved(Loaded))
<1>1. Loaded \in EnvPaging /\ InOrder(Loaded)
  BY LoadedInOrder DEF InOrder
<1>2. /\ IsFiniteSet(Mapped(Loaded)) /\ IsFiniteSet(Loaded.tables) /\ IsFiniteSet(Saved(Loaded))
      /\ a \in Nat /\ b \in Nat /\ c \in Nat
  BY <1>1, FiniteParts DEF FileOf
<1>3. k \in Nat
  BY Constants, FS_CardinalityType
<1>4. /\ envs = [e \in Env |-> Loaded]
      /\ free_frames = Frames - k * (a + b) /\ disk_free_frames = DiskFrames - k * c
      /\ access = [e \in Env |-> NONE]
  BY DEF Init
<1>5. /\ Pairs(MappedBy(envs)) = Env \X Mapped(Loaded)
      /\ Pairs(TablesOf(envs)) = Env \X Loaded.tables
      /\ Pairs(SavedBy(envs)) = Env \X Saved(Loaded)
  <2> DEFINE all(S) == [d \in Env |-> S]
  <2>1. ASSUME NEW S PROVE Pairs(all(S)) = Env \X S
    BY DEF Pairs
  <2>2. /\ MappedBy(envs) = all(Mapped(Loaded)) /\ TablesOf(envs) = all(Loaded.tables)
        /\ SavedBy(envs) = all(Saved(Loaded))
    BY <1>4 DEF MappedBy, TablesOf, SavedBy
  <2> HIDE DEF all
  <2> QED BY <2>1, <2>2
<1>6. /\ Cardinality(Env \X Mapped(Loaded)) = k * a
      /\ Cardinality(Env \X Loaded.tables) = k * b
      /\ Cardinality(Env \X Saved(Loaded)) = k * c
  BY <1>2, Constants, FS_Product
<1> HIDE DEF k, a, b, c
<1>7. k * (a + b) = k * a + k * b /\ k * a \in Nat /\ k * b \in Nat /\ k * c \in Nat
  BY <1>2, <1>3
<1>8. Frames \in Nat /\ DiskFrames \in Nat
  BY PagingAssumption
<1>9. PagingInv
  <2>1. free_frames \in Int /\ disk_free_frames \in Int
    BY <1>4, <1>7, <1>8
  <2> QED BY <1>1, <1>4, <2>1 DEF PagingInv
<1>10. NothingLeaks
  <2>1. envs \in [Env -> EnvPaging]
    BY <1>1, <1>4
  <2>2. /\ free_frames + k * a + k * b = Frames
        /\ disk_free_frames + k * c = DiskFrames
    BY <1>4, <1>7, <1>8
  <2> QED BY <1>5, <1>6, <2>1, <2>2, LeaksAs DEF HeldInFile
<1> QED BY <1>9, <1>10

StepTo(e, n) ==
  /\ envs' = [envs EXCEPT ![e] = n] /\ Kept(envs[e], n)
  /\ access' \in [Env -> Page \cup {NONE}]

LEMMA OneStep ==
  ASSUME PagingInv, NEW e \in Env, NEW n, StepTo(e, n)
  PROVE  PagingInv' /\ (NothingLeaks => NothingLeaks') /\ StayUsed
<1>1. envs \in [Env -> EnvPaging] /\ \A d \in Env : InOrder(envs[d])
  BY DEF PagingInv
<1>2. n \in EnvPaging /\ InOrder(n)
  BY DEF StepTo, Kept, InOrder
<1>3. /\ envs' \in [Env -> EnvPaging] /\ envs'[e] = n
      /\ \A d \in Env \ {e} : envs'[d] = envs[d]
  BY <1>1, <1>2 DEF StepTo
<1>4. PagingInv'
  <2>1. \A d \in Env : InOrder(envs'[d])
    BY <1>1, <1>2, <1>3
  <2> QED BY <1>3, <2>1 DEF StepTo, PagingInv, Kept, Balanced
<1>5. ASSUME NothingLeaks PROVE NothingLeaks'
  <2>1. /\ Held(envs) \in Nat /\ Held(envs') \in Nat
        /\ HeldInFile(envs) \in Nat /\ HeldInFile(envs') \in Nat
        /\ Held(envs') - MemoryOf(n) = Held(envs) - MemoryOf(envs[e])
        /\ HeldInFile(envs') - FileOf(n) = HeldInFile(envs) - FileOf(envs[e])
    BY <1>1, <1>3, HeldChange
  <2>2. /\ MemoryOf(n) \in Nat /\ MemoryOf(envs[e]) \in Nat
        /\ FileOf(n) \in Nat /\ FileOf(envs[e]) \in Nat
    BY <1>1, <1>2, FiniteParts
  <2>3. /\ free_frames \in Int /\ disk_free_frames \in Int
        /\ free_frames' \in Int /\ disk_free_frames' \in Int
        /\ free_frames' + MemoryOf(n) = free_frames + MemoryOf(envs[e])
        /\ disk_free_frames' + FileOf(n) = disk_free_frames + FileOf(envs[e])
    BY DEF StepTo, PagingInv, Kept, Balanced
  <2>4. free_frames' + Held(envs') = free_frames + Held(envs)
    BY <2>1, <2>2, <2>3
  <2>5. disk_free_frames' + HeldInFile(envs') = disk_free_frames + HeldInFile(envs)
    <3>1. PICK h \in Nat, h2 \in Nat, f \in Nat, f2 \in Nat :
                 /\ h = HeldInFile(envs) /\ h2 = HeldInFile(envs')
                 /\ f = FileOf(envs[e]) /\ f2 = FileOf(n)
      BY <2>1, <2>2
    <3>2. PICK d \in Int, d2 \in Int : d = disk_free_frames /\ d2 = disk_free_frames'
      BY <2>3
    <3>3. h2 - f2 = h - f
      BY <2>1, <3>1
    <3>4. d2 + f2 = d + f
      BY <2>3, <3>1, <3>2
    <3>5. d2 + h2 = d + h
      BY <3>3, <3>4
    <3> QED BY <3>1, <3>2, <3>5
  <2>6. /\ Cardinality(Pairs(MappedBy(envs))) \in Nat /\ Cardinality(Pairs(TablesOf(envs))) \in Nat
        /\ Cardinality(Pairs(MappedBy(envs'))) \in Nat /\ Cardinality(Pairs(TablesOf(envs'))) \in Nat
    BY <1>1, <1>3, HeldFinite
  <2>7. free_frames + Held(envs) = Frames /\ disk_free_frames + HeldInFile(envs) = DiskFrames
    BY <1>1, <1>5, <2>3, <2>6, LeaksAs DEF Held
  <2>8. /\ free_frames' + Cardinality(Pairs(MappedBy(envs')))
             + Cardinality(Pairs(TablesOf(envs'))) = Frames
        /\ disk_free_frames' + HeldInFile(envs') = DiskFrames
    BY <2>3, <2>4, <2>5, <2>6, <2>7 DEF Held
  <2>9. {x \in Env \X Page : x[2] \in Mapped(envs'[x[1]])} = Pairs(MappedBy(envs'))
    BY <1>3 DEF Pairs, MappedBy, Mapped
  <2>10. {x \in Env \X Page : x[2] \in Saved(envs'[x[1]])} = Pairs(SavedBy(envs'))
    BY <1>3 DEF Pairs, SavedBy, Saved
  <2>11. UNION {{d} \X envs'[d].tables : d \in Env} = Pairs(TablesOf(envs'))
    BY <1>3 DEF Pairs, TablesOf
  <2> QED BY <2>8, <2>9, <2>10, <2>11 DEF NothingLeaks, HeldInFile
<1>6. StayUsed
  <2> SUFFICES ASSUME NEW d \in Env, NEW p \in Mapped(envs[d]) \ Mapped(envs'[d]),
                      envs[d].page_table[p].used, envs'[d].page_file[p] # NONE
               PROVE  \A i \in Slot : is_used(envs[d], i)
    BY DEF StayUsed
  <2>1. d = e
    BY <1>3
  <2> QED BY <1>3, <2>1 DEF StepTo, Kept, SecondChance
<1> QED BY <1>4, <1>5, <1>6

LEMMA PagingNextKeeps ==
  ASSUME PagingInv, [Next]_vars
  PROVE  PagingInv' /\ (NothingLeaks => NothingLeaks') /\ (vars' # vars => StayUsed)
<1>1. access \in [Env -> Page \cup {NONE}]
  BY DEF PagingInv
<1>2. CASE Next
  <2> SUFFICES PagingInv' /\ (NothingLeaks => NothingLeaks') /\ StayUsed
    OBVIOUS
  <2>1. PICK e \in Env : \/ \E p \in Page : fault_handler(e, p) \/ read(e, p)
                         \/ \E p \in Page, v \in Value : write(e, p, v)
                         \/ \E block \in Block : free_user_mem(e, block)
                         \/ env_exit(e)
    BY <1>2 DEF Next
  <2>2. ASSUME NEW p \in Page, fault_handler(e, p)
        PROVE  PagingInv' /\ (NothingLeaks => NothingLeaks') /\ StayUsed
    <3>1. access' \in [Env -> Page \cup {NONE}]
      BY <1>1, <2>2, FaultKeeps
    <3> QED BY <2>2, <3>1, FaultKeeps, OneStep DEF StepTo
  <2>3. ASSUME NEW p \in Page, read(e, p)
        PROVE  PagingInv' /\ (NothingLeaks => NothingLeaks') /\ StayUsed
    <3>1. access' \in [Env -> Page \cup {NONE}]
      BY <1>1, <2>3, ReadKeeps
    <3> QED BY <2>3, <3>1, ReadKeeps, OneStep DEF StepTo
  <2>4. ASSUME NEW p \in Page, NEW v \in Value, write(e, p, v)
        PROVE  PagingInv' /\ (NothingLeaks => NothingLeaks') /\ StayUsed
    <3>1. access' \in [Env -> Page \cup {NONE}]
      BY <1>1, <2>4, WriteKeeps
    <3> QED BY <2>4, <3>1, WriteKeeps, OneStep DEF StepTo
  <2>5. ASSUME NEW block \in Block, free_user_mem(e, block)
        PROVE  PagingInv' /\ (NothingLeaks => NothingLeaks') /\ StayUsed
    <3>1. access' \in [Env -> Page \cup {NONE}]
      BY <1>1, <2>5, FreeKeeps
    <3> QED BY <2>5, <3>1, FreeKeeps, OneStep DEF StepTo
  <2>6. CASE env_exit(e)
    <3>1. UNCHANGED <<envs, free_frames, disk_free_frames>> /\ access' = access
      BY <2>6 DEF env_exit
    <3> QED BY <1>1, <3>1, SameKept, OneStep DEF StepTo
  <2> QED BY <2>1, <2>2, <2>3, <2>4, <2>5, <2>6
<1>3. CASE UNCHANGED vars
  <2>1. UNCHANGED <<envs, access, free_frames, disk_free_frames>>
    BY <1>3 DEF vars
  <2>2. PagingInv'
    BY <2>1 DEF PagingInv
  <2>3. NothingLeaks => NothingLeaks'
    BY <2>1 DEF NothingLeaks
  <2> QED BY <1>3, <2>2, <2>3
<1> QED BY <1>2, <1>3

(***************************************************************************)
(* WorkingSetIsMapped: placement, replacement, a sweep that ends in a      *)
(* panic and free_user_mem() leave no entry of the working set without a   *)
(* page, no page with two entries and no page without its table.           *)
(***************************************************************************)
THEOREM WorkingSetKept == Spec => []WorkingSetIsMapped
<1>1. ASSUME PagingInv PROVE WorkingSetIsMapped
  <2> SUFFICES ASSUME NEW e \in Env
               PROVE  LET env == envs[e]
                      IN /\ \A i \in Used(env) : env.ws[i] \in Mapped(env)
                         /\ \A i, j \in Used(env) : env.ws[i] = env.ws[j] => i = j
                         /\ \A p \in Mapped(env) : PDX(p) \in env.tables
    BY DEF WorkingSetIsMapped
  <2>1. envs[e] \in EnvPaging /\ InOrder(envs[e])
    BY <1>1 DEF PagingInv
  <2> QED BY <2>1, Fields, Constants
    DEF InOrder, EntriesMapped, EntriesDistinct, TablesExist, Used, Mapped
<1>2. Init => PagingInv
  BY PagingInitInv
<1>3. PagingInv /\ [Next]_vars => PagingInv'
  BY PagingNextKeeps
<1> QED BY <1>1, <1>2, <1>3, PTL DEF Spec

(***************************************************************************)
(* NothingLeaks: the free lists and what the environments hold add up to   *)
(* the frames and the disk frames after any faults, replacements, panics   *)
(* half way through one, frees and exits.                                  *)
(***************************************************************************)
THEOREM NoFrameLost == Spec => []NothingLeaks
<1>1. Init => PagingInv /\ NothingLeaks
  BY PagingInitInv
<1>2. (PagingInv /\ NothingLeaks) /\ [Next]_vars => (PagingInv /\ NothingLeaks)'
  BY PagingNextKeeps
<1> QED BY <1>1, <1>2, PTL DEF Spec

(***************************************************************************)
(* UsedPagesStay: the hand passes a used page, whatever entry it starts    *)
(* from and however it wraps around.                                       *)
(***************************************************************************)
THEOREM SecondChanceKept == Spec => UsedPagesStay
<1>1. Init => PagingInv
  BY PagingInitInv
<1>2. PagingInv /\ [Next]_vars => PagingInv'
  BY PagingNextKeeps
<1>3. PagingInv /\ [Next]_vars => [StayUsed]_vars
  BY PagingNextKeeps
<1>4. Spec => [][StayUsed]_vars
  BY <1>1, <1>2, <1>3, PTL DEF Spec
<1> QED BY <1>4 DEF UsedPagesStay, StayUsed
-----------------------------------------------------------------------------
(***************************************************************************)
(* Demand paging implements an address space, step by step.                *)
(***************************************************************************)
mem == [e \in Env |-> [p \in Page |-> Contents(envs[e], p)]]

LEMMA ContentsType ==
  ASSUME NEW env \in EnvPaging, NEW p \in Page
  PROVE  Contents(env, p) \in Value \cup {NONE}
<1>1. CASE env.page_table[p] # NONE
  <2>1. env.page_table[p] \in Entry
    BY <1>1, Fields
  <2> QED BY <1>1, <2>1 DEF Contents, Entry
<1>2. CASE env.page_table[p] = NONE
  BY <1>2, Fields DEF Contents
<1> QED BY <1>1, <1>2

LEMMA MemoryInit ==
  ASSUME Init
  PROVE  Memory!Init
<1>1. PagingInv
  BY PagingInitInv
<1>2. \A e \in Env, p \in Page : Contents(envs[e], p) \in Value \cup {NONE}
  BY <1>1, ContentsType DEF PagingInv
<1> QED BY <1>2 DEF Memory!Init, Init

(***************************************************************************)
(* The contents that the environments see after a step of one of them.     *)
(***************************************************************************)
LEMMA ContentsAfter ==
  ASSUME PagingInv, NEW e \in Env, NEW n, envs' = [envs EXCEPT ![e] = n]
  PROVE  \A p \in Page :
           /\ mem[e][p] = Contents(envs[e], p) /\ mem'[e][p] = Contents(n, p)
           /\ \A d \in Env \ {e} : mem'[d][p] = mem[d][p]
<1>1. envs \in [Env -> EnvPaging]
  BY DEF PagingInv
<1>2. envs'[e] = n /\ \A d \in Env \ {e} : envs'[d] = envs[d]
  BY <1>1
<1> QED BY <1>2 DEF mem

LEMMA StepIsMemoryStep ==
  ASSUME PagingInv, [Next]_vars
  PROVE  [Memory!Next]_<<mem, access>>
<1>1. access \in [Env -> Page \cup {NONE}] /\ NONE \notin Value
  BY Constants DEF PagingInv
<1>2. ASSUME NEW e \in Env, NEW p \in Page, fault_handler(e, p)
      PROVE  Memory!Next
  <2>1. PICK n : envs' = [envs EXCEPT ![e] = n] /\ SameExcept(envs[e], n, p)
    BY <1>2, FaultKeeps
  <2>2. /\ access[e] \in {NONE, p} /\ access'[e] = p
        /\ \A d \in Env \ {e} : access'[d] = access[d]
    BY <1>1, <1>2, FaultKeeps
  <2>3. \A q \in Page :
          /\ mem[e][q] = Contents(envs[e], q) /\ mem'[e][q] = Contents(n, q)
          /\ \A d \in Env \ {e} : mem'[d][q] = mem[d][q]
    BY <2>1, ContentsAfter
  <2>4. /\ \A q \in Page \ {p} : mem'[e][q] = mem[e][q]
        /\ mem'[e][p] = mem[e][p] \/ mem[e][p] = NONE
        /\ \A d \in Env \ {e} : \A q \in Page : mem'[d][q] = mem[d][q]
    BY <2>1, <2>3 DEF SameExcept
  <2>5. Memory!Trap(e, p)
    BY <2>2, <2>4 DEF Memory!Trap, Memory!Keeps, mem
  <2> QED BY <2>2, <2>4, <2>5 DEF Memory!Next, Memory!Keeps, mem
<1>3. ASSUME NEW e \in Env, NEW p \in Page, read(e, p)
      PROVE  Memory!Next
  <2>1. PICK n : /\ envs' = [envs EXCEPT ![e] = n]
                 /\ \A q \in Page : Contents(n, q) = Contents(envs[e], q)
    BY <1>3, ReadKeeps
  <2>2. /\ access[e] \in {NONE, p} /\ access'[e] = NONE
        /\ \A d \in Env \ {e} : access'[d] = access[d]
        /\ Contents(envs[e], p) # NONE
    BY <1>1, <1>3, ReadKeeps
  <2>3. \A q \in Page :
          /\ mem[e][q] = Contents(envs[e], q) /\ mem'[e][q] = Contents(n, q)
          /\ \A d \in Env \ {e} : mem'[d][q] = mem[d][q]
    BY <2>1, ContentsAfter
  <2>4. /\ mem[e][p] # NONE
        /\ \A d \in Env : \A q \in Page : mem'[d][q] = mem[d][q]
    BY <2>1, <2>2, <2>3
  <2>5. Memory!Load(e, p)
    BY <2>2, <2>4 DEF Memory!Load, Memory!Keeps, mem
  <2> QED BY <2>2, <2>4, <2>5 DEF Memory!Next, Memory!Keeps, mem
<1>4. ASSUME NEW e \in Env, NEW p \in Page, NEW w \in Value, write(e, p, w)
      PROVE  Memory!Next
  <2>1. PICK n : envs' = [envs EXCEPT ![e] = n] /\ Stored(envs[e], n, p, w)
    BY <1>4, WriteKeeps
  <2>2. /\ access[e] \in {NONE, p} /\ access'[e] = NONE
        /\ \A d \in Env \ {e} : access'[d] = access[d]
        /\ Contents(envs[e], p) # NONE
    BY <1>1, <1>4, WriteKeeps
  <2>3. \A q \in Page :
          /\ mem[e][q] = Contents(envs[e], q) /\ mem'[e][q] = Contents(n, q)
          /\ \A d \in Env \ {e} : mem'[d][q] = mem[d][q]
    BY <2>1, ContentsAfter
  <2>4. /\ mem[e][p] # NONE /\ mem'[e][p] # NONE
        /\ \A q \in Page \ {p} : mem'[e][q] = mem[e][q]
        /\ \A d \in Env \ {e} : \A q \in Page : mem'[d][q] = mem[d][q]
    BY <1>1, <2>1, <2>2, <2>3 DEF Stored
  <2>5. Memory!Store(e, p)
    BY <2>2, <2>4 DEF Memory!Store, Memory!Keeps, mem
  <2> QED BY <2>2, <2>4, <2>5 DEF Memory!Next, Memory!Keeps, mem
<1>5. ASSUME NEW e \in Env, NEW block \in Block, free_user_mem(e, block)
      PROVE  Memory!Next
  <2>1. PICK n : /\ envs' = [envs EXCEPT ![e] = n]
                 /\ \A p \in Page : \/ Contents(n, p) = Contents(envs[e], p)
                                    \/ p \in HeapPages /\ Contents(n, p) = NONE
    BY <1>5, FreeKeeps
  <2>2. access[e] = NONE /\ access' = access
    BY <1>5, FreeKeeps
  <2>3. \A q \in Page :
          /\ mem[e][q] = Contents(envs[e], q) /\ mem'[e][q] = Contents(n, q)
          /\ \A d \in Env \ {e} : mem'[d][q] = mem[d][q]
    BY <2>1, ContentsAfter
  <2>4. /\ \A p \in Page : \/ mem'[e][p] = mem[e][p]
                           \/ p \in HeapPages /\ mem'[e][p] = NONE
        /\ \A d \in Env \ {e} : \A q \in Page : mem'[d][q] = mem[d][q]
    BY <2>1, <2>3
  <2>5. Memory!Release(e)
    BY <2>2, <2>4 DEF Memory!Release, mem
  <2> QED BY <2>2, <2>4, <2>5 DEF Memory!Next, Memory!Keeps, mem
<1>6. ASSUME NEW e \in Env, env_exit(e) PROVE UNCHANGED <<mem, access>>
  BY <1>6 DEF env_exit, mem
<1>7. CASE UNCHANGED vars
  BY <1>7 DEF vars, mem
<1> QED BY <1>2, <1>3, <1>4, <1>5, <1>6, <1>7 DEF Next

(***************************************************************************)
(* ImplementsAddressSpace: whatever the hand replaces and wherever a fault *)
(* ends, a program finds in a page what it wrote there, until it frees the *)
(* page.                                                                   *)
(***************************************************************************)
THEOREM AddressSpaceKept == Spec => ImplementsAddressSpace
<1>1. Init => PagingInv
  BY PagingInitInv
<1>2. PagingInv /\ [Next]_vars => PagingInv'
  BY PagingNextKeeps
<1>3. Init => Memory!Init
  BY MemoryInit
<1>4. PagingInv /\ [Next]_vars => [Memory!Next]_<<mem, access>>
  BY StepIsMemoryStep
<1> QED BY <1>1, <1>2, <1>3, <1>4, PTL DEF Spec, ImplementsAddressSpace, Memory!Spec, mem
=============================================================================
