--------------------------- MODULE Machine_proofs ---------------------------
(***************************************************************************)
(* Proofs about five of the parts that Machine puts side by side, each for *)
(* the specification of the part alone.  Clock: no environment loses a     *)
(* tick of its quantum to the kernel, for any frequency of the timer, any  *)
(* quantum that the prompt accepts and any number of traps.  UserPages:    *)
(* the frames and their references are right after every sequence of calls *)
(* that allocate, map and unmap pages, for any set of environments and     *)
(* pages and any number of frames.  Console: a reader gets what was typed, *)
(* and the line that is edited is the one on the screen, for any size of   *)
(* the ring, the line and the screen and any number of strokes.            *)
(* BootMemory: boot hands out no memory twice, and the kernel stays where  *)
(* it is while paging is turned on, for any sizes of the memory and of the *)
(* kernel.  PageFile: every disk frame is free or one entry's, and no page *)
(* saved on disk is lost, for any environments, pages and size of the      *)
(* disk.  The command prompt is proved about in Semaphores_proofs.         *)
(***************************************************************************)
EXTENDS Clock, UserPages, Console, BootMemory, PageFile,
        SequenceTheorems, FiniteSetTheorems, WellFoundedInduction, TLAPS

(***************************************************************************)
(* The clock.                                                              *)
(***************************************************************************)
ClockSpec == ClockInit /\ [][ClockNext]_clock
-----------------------------------------------------------------------------
(***************************************************************************)
(* The arithmetic of kclock.c.                                             *)
(***************************************************************************)
LEMMA SixteenBits ==
  ASSUME NEW n \in Nat
  PROVE  sixteen_bits(n) \in 1 .. 2^16
  BY DEF sixteen_bits

(* A quantum that fits the byte of quantums[0] and is not 0 is a count. *)
LEMMA CountOfQuantum ==
  ASSUME NEW q \in 1 .. 255
  PROVE  count_of(q) \in Nat
<1> DEFINE x == 1000 \div q
<1>1. x \in Nat \ {0} /\ x \div 2 \in Nat
  OBVIOUS
<1> HIDE DEF x
<1>2. TIMER_DIV(x) \in Nat
  <2> DEFINE y == TIMER_FREQ + x \div 2
  <2>1. y \in Nat
    BY <1>1, ClockAssumption
  <2> HIDE DEF y
  <2>2. y \div x \in Nat
    BY <1>1, <2>1
  <2> QED BY <2>2 DEF y, TIMER_DIV
<1> QED BY <1>2 DEF count_of, even, x

(* kclock_resume() gives back what was left, and at most 20 ticks more,    *)
(* also where the even count is 2^16 and is written as 0.                  *)
LEMMA Resumed ==
  ASSUME NEW c \in 0 .. 2^16
  PROVE  /\ sixteen_bits(stretched(c)) \in 1 .. 2^16
         /\ c <= sixteen_bits(stretched(c))
         /\ sixteen_bits(stretched(c)) <= c + 20
  BY DEF sixteen_bits, stretched, even
-----------------------------------------------------------------------------
(***************************************************************************)
(* The inductive invariant.  The bound of QuantumAccounted is tight: a     *)
(* trap counts when the kernel is entered, but its 20 ticks are given only *)
(* when it is left.  A quantum of 0 is there only after the panic.         *)
(***************************************************************************)
Whole == sixteen_bits(count_of(quantum))

Accounted ==
  cpu \in {"kernel", "user"} /\ quantum # NoQuantum /\ ~irq0 =>
    /\ Whole <= used + timer.cnt
    /\ used + timer.cnt <= Whole + 20 * (IF cpu = "user" THEN traps + 1 ELSE traps)

ClockInv ==
  /\ ClockTypeOK
  /\ cpu # "panic" => quantum # 0
  /\ cpu = "user" => quantum # NoQuantum
  /\ cpu = "kernel" => 0 \in irq_mask_8259A /\ ~timer.counting
  /\ Accounted

(* What the types say of the counter and of the quantum. *)
LEMMA ClockTypes ==
  ASSUME ClockInv
  PROVE  /\ timer.load \in 0 .. 2^16 /\ timer.cnt \in 0 .. 2^16 /\ timer.cnt \in Nat
         /\ used \in Nat /\ traps \in Nat
         /\ cpu \in {"kernel", "user"} /\ quantum # NoQuantum => quantum \in 1 .. 255
         /\ cpu \in {"kernel", "user"} /\ quantum # NoQuantum => Whole \in Nat
<1>1. timer.load \in 0 .. 2^16 /\ timer.cnt \in 0 .. 2^16
  BY DEF ClockInv, ClockTypeOK
<1>2. timer.cnt \in Nat
  BY <1>1
<1>3. used \in Nat /\ traps \in Nat
  <2>1. used \in Nat /\ traps \in 0 .. MaxTraps
    BY DEF ClockInv, ClockTypeOK
  <2> QED BY <2>1, ClockAssumption
<1>4. cpu \in {"kernel", "user"} /\ quantum # NoQuantum => quantum \in 1 .. 255
  <2>1. quantum \in {NoQuantum} \cup 0 .. 255 /\ (cpu # "panic" => quantum # 0)
    BY DEF ClockInv, ClockTypeOK
  <2> QED BY <2>1
<1>5. cpu \in {"kernel", "user"} /\ quantum # NoQuantum => Whole \in 1 .. 2^16
  BY <1>4, CountOfQuantum, SixteenBits DEF Whole
<1> QED BY <1>1, <1>2, <1>3, <1>4, <1>5

LEMMA ClockInitInv == ClockInit => ClockInv
<1> SUFFICES ASSUME ClockInit PROVE ClockInv
  OBVIOUS
<1>1. timer \in [counting : BOOLEAN, load : 0 .. 2^16, cnt : 0 .. 2^16]
  <2>1. 0 \in 0 .. 2^16
    OBVIOUS
  <2> QED BY <2>1 DEF ClockInit
<1>2. ClockTypeOK
  <2>1. 0 \in 0 .. MaxTraps /\ 0 \in Nat
    BY ClockAssumption
  <2>2. irq_mask_8259A \subseteq IRQ
    BY DEF ClockInit
  <2> QED BY <1>1, <2>1, <2>2 DEF ClockInit, ClockTypeOK
<1> QED BY <1>2 DEF ClockInit, ClockInv, Accounted, NoQuantum, IRQ, IRQ_SLAVE

LEMMA ClockInvImplies == ClockInv => QuantumAccounted
<1> SUFFICES ASSUME ClockInv PROVE QuantumAccounted
  OBVIOUS
<1> DEFINE w == Whole
<1>1. traps \in Nat /\ used \in Nat /\ timer.cnt \in Nat
  BY ClockTypes
<1>2. cpu \in {"kernel", "user"} /\ quantum # NoQuantum => w \in Nat
  BY ClockTypes
<1>3. Accounted
  BY DEF ClockInv
<1>4. /\ cpu = "kernel" => 0 \in irq_mask_8259A /\ ~timer.counting
  BY DEF ClockInv
<1> HIDE DEF w
<1>5. cpu \in {"kernel", "user"} /\ quantum # NoQuantum /\ ~irq0 =>
        w <= used + timer.cnt /\ used + timer.cnt <= w + 20 * (traps + 1)
  BY <1>1, <1>2, <1>3 DEF Accounted, w
<1> QED BY <1>4, <1>5 DEF QuantumAccounted, Whole, w

(* kclock_set_quantum() starts a whole quantum, masked and still. *)
LEMMA SetQuantumKeeps ==
  ASSUME ClockInv, NEW q \in 1 .. 255, set_quantum(q), quantum' = q, cpu' = "kernel",
         interrupts' \in BOOLEAN, irq0' \in BOOLEAN, UNCHANGED didinit
  PROVE  ClockInv'
<1>1. sixteen_bits(count_of(q)) \in 1 .. 2^16
  BY CountOfQuantum, SixteenBits
<1> DEFINE w == sixteen_bits(count_of(q))
<1>2. /\ timer' = [counting |-> FALSE, load |-> w, cnt |-> w]
      /\ irq_mask_8259A' = IRQ /\ used' = 0 /\ traps' = 0
  BY DEF set_quantum, write_cnt0, irq_setmask_8259A
<1>3. Whole' = w
  BY DEF Whole
<1> HIDE DEF w
<1>4. w \in 1 .. 2^16 /\ w \in Nat
  BY <1>1 DEF w
<1>4a. 0 \in 0 .. 2^16 /\ w \in 0 .. 2^16
  BY <1>4
<1>5. timer' \in [counting : BOOLEAN, load : 0 .. 2^16, cnt : 0 .. 2^16] /\ timer'.cnt = w
      /\ ~timer'.counting
  BY <1>2, <1>4a
<1>6. ClockTypeOK'
  <2>1. 0 \in 0 .. MaxTraps /\ 0 \in Nat /\ q \in 0 .. 255
    BY ClockAssumption
  <2> QED BY <1>2, <1>5, <2>1 DEF ClockInv, ClockTypeOK
<1>7. Accounted'
  <2>1. used' + timer'.cnt = w /\ Whole' = w /\ 20 * traps' = 0 /\ w + 0 = w /\ w <= w
    <3>1. used' = 0 /\ traps' = 0 /\ timer'.cnt = w /\ Whole' = w
      BY <1>2, <1>3, <1>5, Zenon
    <3>2. 0 + w = w /\ 20 * 0 = 0 /\ w + 0 = w /\ w <= w
      BY <1>4
    <3> QED BY <3>1, <3>2
  <2>2. (IF cpu' = "user" THEN traps' + 1 ELSE traps') = traps'
    OBVIOUS
  <2> QED BY <2>1, <2>2 DEF Accounted
<1>8. 0 \in IRQ /\ q # 0
  BY DEF IRQ
<1> QED BY <1>2, <1>5, <1>6, <1>7, <1>8 DEF ClockInv

LEMMA ClockNextKeeps == ClockInv /\ [ClockNext]_clock => ClockInv'
<1> SUFFICES ASSUME ClockInv, [ClockNext]_clock PROVE ClockInv'
  OBVIOUS
<1>0. /\ ClockTypeOK /\ Accounted /\ used \in Nat /\ traps \in Nat
      /\ timer.cnt \in 0 .. 2^16 /\ timer.cnt \in Nat
  BY ClockTypes DEF ClockInv
<1>1. CASE pic_init
  BY <1>1, <1>0 DEF pic_init, irq_setmask_8259A, ClockInv, ClockTypeOK, Accounted, Whole
<1>2. CASE env_run
  <2> DEFINE c == timer.cnt
             d == sixteen_bits(stretched(c))
             w == Whole
  <2>1. d \in 1 .. 2^16 /\ c <= d /\ d <= c + 20
    BY <1>0, Resumed
  <2>2. /\ timer' = [counting |-> TRUE, load |-> d, cnt |-> d]
        /\ irq_mask_8259A' = irq_mask_8259A \ {0} /\ cpu = "kernel" /\ cpu' = "user"
        /\ quantum # NoQuantum
        /\ UNCHANGED <<didinit, quantum, interrupts, irq0, used, traps>>
    BY <1>2 DEF env_run, write_cnt0, irq_setmask_8259A, open_timer
  <2>3. w \in Nat /\ Whole' = w
    BY <2>2, ClockTypes DEF Whole
  <2> HIDE DEF d, w
  <2>3a. timer' \in [counting : BOOLEAN, load : 0 .. 2^16, cnt : 0 .. 2^16] /\ timer'.cnt = d
    <3>1. d \in 0 .. 2^16
      BY <2>1
    <3> QED BY <2>2, <3>1
  <2>4. ClockTypeOK'
    BY <1>0, <2>2, <2>3a DEF ClockTypeOK
  <2>5. ~irq0 => w <= used + c /\ used + c <= w + 20 * traps
    BY <1>0, <2>2 DEF Accounted, w
  <2>6. Accounted'
    <3>1. timer'.cnt = d /\ used' = used /\ traps' = traps /\ Whole' = w /\ c \in Nat /\ d \in Nat
      <4>1. timer'.cnt = d /\ used' = used /\ traps' = traps /\ Whole' = w /\ c \in Nat
        BY <1>0, <2>2, <2>3, <2>3a, Zenon
      <4>2. d \in Nat
        BY <2>1
      <4> QED BY <4>1, <4>2
    <3>2. ~irq0 => w <= used + d /\ used + d <= w + 20 * (traps + 1)
      <4> HIDE DEF c
      <4> QED BY <1>0, <2>1, <2>3, <2>5, <3>1
    <3> QED BY <2>2, <3>1, <3>2 DEF Accounted
  <2> QED BY <2>2, <2>4, <2>6 DEF ClockInv
<1>3. CASE trap
  <2> DEFINE w == Whole
  <2>1. /\ timer' = [timer EXCEPT !.counting = FALSE]
        /\ irq_mask_8259A' = IRQ /\ cpu = "user" /\ cpu' = "kernel" /\ traps' = traps + 1
        /\ traps < MaxTraps
        /\ UNCHANGED <<didinit, quantum, interrupts, irq0, used>>
    BY <1>3 DEF trap, kclock_stop, irq_setmask_8259A
  <2>2. timer'.cnt = timer.cnt /\ ~timer'.counting
    BY <1>0, <2>1 DEF ClockTypeOK
  <2>3. Whole' = w
    BY <2>1 DEF Whole
  <2>3a. traps' \in 0 .. MaxTraps
    BY <1>0, <2>1, ClockAssumption
  <2>3b. timer' \in [counting : BOOLEAN, load : 0 .. 2^16, cnt : 0 .. 2^16]
    BY <1>0, <2>1 DEF ClockTypeOK
  <2>4. ClockTypeOK'
    BY <1>0, <2>1, <2>3a, <2>3b DEF ClockTypeOK
  <2> HIDE DEF w
  <2>5. Accounted'
    BY <1>0, <2>1, <2>2, <2>3 DEF Accounted, w
  <2> QED BY <2>1, <2>2, <2>4, <2>5 DEF ClockInv, IRQ
<1>4. CASE reschedule
  <2>1. quantum \in 1 .. 255
    BY <1>4, ClockTypes DEF reschedule
  <2>2. /\ set_quantum(quantum) /\ quantum' = quantum /\ cpu' = "kernel"
        /\ interrupts' \in BOOLEAN /\ irq0' \in BOOLEAN /\ UNCHANGED didinit
    BY <1>0, <1>4 DEF reschedule, ClockTypeOK
  <2>3. PICK q \in 1 .. 255 : q = quantum
    BY <2>1
  <2> QED BY <2>2, <2>3, SetQuantumKeeps
<1>5. CASE clock_interrupt
  <2>1. quantum \in 1 .. 255
    BY <1>5, ClockTypes DEF clock_interrupt, ClockInv
  <2>2. /\ set_quantum(quantum) /\ quantum' = quantum /\ cpu' = "kernel"
        /\ interrupts' \in BOOLEAN /\ irq0' \in BOOLEAN /\ UNCHANGED didinit
    BY <1>0, <1>5 DEF clock_interrupt, ClockTypeOK
  <2>3. PICK q \in 1 .. 255 : q = quantum
    BY <2>1
  <2> QED BY <2>2, <2>3, SetQuantumKeeps
<1>6. ASSUME NEW n \in Quantums, sched_init_RR(n) PROVE ClockInv'
  <2> DEFINE q == n % 256
  <2>1. q \in 0 .. 255
    BY ClockAssumption
  <2> HIDE DEF q
  <2>2. CASE q # 0 /\ IS_VALID_QUANTUM(q)
    <3>1. /\ set_quantum(q) /\ quantum' = q /\ cpu' = "kernel"
          /\ interrupts' \in BOOLEAN /\ irq0' \in BOOLEAN /\ UNCHANGED didinit
      BY <1>0, <1>6, <2>2 DEF sched_init_RR, ClockTypeOK, q
    <3>2. q \in 1 .. 255
      BY <2>1, <2>2
    <3> QED BY <3>1, <3>2, SetQuantumKeeps
  <2>3. CASE ~(q # 0 /\ IS_VALID_QUANTUM(q))
    <3>1. /\ cpu' = "panic" /\ quantum' = q
          /\ UNCHANGED <<irq_mask_8259A, timer, irq0, used, traps, didinit, interrupts>>
      BY <1>6, <2>3 DEF sched_init_RR, q
    <3> QED BY <1>0, <2>1, <3>1 DEF ClockInv, ClockTypeOK, Accounted
  <2> QED BY <2>2, <2>3
<1>7. ASSUME NEW left \in Remaining, run(left) PROVE ClockInv'
  <2> DEFINE w == Whole
  <2>1. /\ cpu = "user" /\ ~irq0 /\ left < timer.cnt /\ left \in Nat
        /\ timer' = [timer EXCEPT !.cnt = IF left = 0 THEN timer.load ELSE left]
        /\ used' = used + timer.cnt - left
        /\ irq0' = (left = 0)
        /\ UNCHANGED <<irq_mask_8259A, didinit, quantum, cpu, interrupts, traps>>
    BY <1>7, ClockAssumption DEF run
  <2>2. left \in 0 .. 2^16 /\ used' \in Nat
    BY <1>0, <2>1
  <2>3. ClockTypeOK'
    BY <1>0, <2>1, <2>2 DEF ClockTypeOK
  <2>4. left # 0 => timer'.cnt = left
    BY <1>0, <2>1 DEF ClockTypeOK
  <2>5. Whole' = w /\ w \in Nat
    BY <2>1, ClockTypes DEF Whole, ClockInv
  <2> HIDE DEF w
  <2>6. irq0' \/ used' + timer'.cnt = used + timer.cnt
    <3>1. CASE left = 0
      BY <2>1, <3>1
    <3>2. CASE left # 0
      <4> DEFINE c == timer.cnt
      <4>1. c \in Nat /\ used' = used + c - left /\ timer'.cnt = left
        BY <1>0, <2>1, <2>4, <3>2
      <4> HIDE DEF c
      <4>2. used' + timer'.cnt = used + c
        BY <1>0, <2>1, <4>1
      <4> QED BY <4>2 DEF c
    <3> QED BY <3>1, <3>2
  <2>7. Accounted'
    BY <1>0, <2>1, <2>5, <2>6 DEF Accounted, w
  <2> QED BY <2>1, <2>3, <2>7 DEF ClockInv
<1>8. ASSUME NEW on \in BOOLEAN, set_interrupts(on) PROVE ClockInv'
  BY <1>0, <1>8 DEF set_interrupts, ClockInv, ClockTypeOK, Accounted, Whole
<1>9. CASE UNCHANGED clock
  BY <1>9 DEF clock, ClockInv, ClockTypeOK, Accounted, Whole
<1> QED BY <1>1, <1>2, <1>3, <1>4, <1>5, <1>6, <1>7, <1>8, <1>9 DEF ClockNext
-----------------------------------------------------------------------------
(***************************************************************************)
(* The kernel is not interrupted and costs its caller nothing: for every   *)
(* quantum that kclock_set_quantum() accepts, over any number of system    *)
(* calls and faults, what an environment has run and what kclock_resume()  *)
(* has left of its count make up the whole quantum, with at most 20 ticks  *)
(* more for each time that it was resumed.                                 *)
(***************************************************************************)
THEOREM QuantumKept == ClockSpec => []QuantumAccounted
<1>1. ClockSpec => []ClockInv
  BY ClockInitInv, ClockNextKeeps, PTL DEF ClockSpec
<1> QED BY <1>1, ClockInvImplies, PTL
-----------------------------------------------------------------------------
(***************************************************************************)
(* Pages allocated by request.                                             *)
(***************************************************************************)
UserPagesSpec == UserPagesInit /\ [][UserPagesNext]_userPages
-----------------------------------------------------------------------------
(***************************************************************************)
(* The list of free frames.                                                *)
(***************************************************************************)
LEMMA FirstOfList ==
  ASSUME NEW S, NEW q \in Seq(S), q # <<>>
  PROVE  /\ Head(q) \in S /\ Head(q) \in ToSet(q) /\ Tail(q) \in Seq(S)
         /\ IsInjective(q) => /\ IsInjective(Tail(q))
                              /\ ToSet(Tail(q)) = ToSet(q) \ {Head(q)}
<1> DEFINE n == Len(q)
           r == Tail(q)
<1>1. n \in Nat \ {0} /\ DOMAIN q = 1 .. n /\ Head(q) = q[1]
  BY EmptySeq, LenProperties
<1>2. /\ r \in Seq(S) /\ Len(r) = n - 1 /\ DOMAIN r = 1 .. n - 1
      /\ \A i \in 1 .. n - 1 : r[i] = q[i + 1] /\ i + 1 \in 1 .. n
  BY <1>1, HeadTailProperties, LenProperties
<1>3. Head(q) \in S /\ Head(q) \in ToSet(q)
  BY <1>1 DEF ToSet
<1> HIDE DEF r, n
<1>4. ASSUME IsInjective(q)
      PROVE  IsInjective(r) /\ ToSet(r) = ToSet(q) \ {Head(q)}
  <2>1. ASSUME NEW a \in 1 .. n - 1, NEW b \in 1 .. n - 1, r[a] = r[b] PROVE a = b
    <3>1. q[a + 1] = q[b + 1] /\ a + 1 \in DOMAIN q /\ b + 1 \in DOMAIN q
      BY <1>1, <1>2, <2>1
    <3>2. a + 1 = b + 1
      BY <1>4, <3>1 DEF IsInjective
    <3> QED BY <1>1, <3>2
  <2>2. \A i \in 1 .. n - 1 : r[i] # q[1]
    BY <1>1, <1>2, <1>4 DEF IsInjective
  <2>3. ToSet(r) \subseteq ToSet(q) \ {Head(q)}
    BY <1>1, <1>2, <2>2 DEF ToSet
  <2>4. ASSUME NEW i \in 1 .. n, q[i] # q[1] PROVE q[i] \in ToSet(r)
    <3>1. i - 1 \in 1 .. n - 1 /\ (i - 1) + 1 = i
      BY <1>1, <2>4
    <3> QED BY <1>2, <3>1 DEF ToSet
  <2>5. ToSet(q) \ {Head(q)} \subseteq ToSet(r)
    BY <1>1, <2>4 DEF ToSet
  <2> QED BY <1>2, <2>1, <2>3, <2>5 DEF IsInjective
<1> QED BY <1>2, <1>3, <1>4 DEF r

LEMMA PutOnList ==
  ASSUME NEW S, NEW q \in Seq(S), NEW e \in S, e \notin ToSet(q), IsInjective(q)
  PROVE  /\ Cons(e, q) \in Seq(S) /\ IsInjective(Cons(e, q))
         /\ ToSet(Cons(e, q)) = ToSet(q) \cup {e}
<1> DEFINE r == Cons(e, q)
           n == Len(q)
<1>1. /\ n \in Nat /\ DOMAIN q = 1 .. n /\ r \in Seq(S)
      /\ DOMAIN r = 1 .. n + 1
      /\ \A i \in 1 .. n + 1 : r[i] = IF i = 1 THEN e ELSE q[i - 1]
  BY DEF Cons
<1> HIDE DEF r, n
<1>2. ToSet(r) \subseteq ToSet(q) \cup {e}
  BY <1>1 DEF ToSet
<1>3. \A i \in 1 .. n : i + 1 \in DOMAIN r /\ r[i + 1] = q[i]
  BY <1>1
<1>4. 1 \in DOMAIN r /\ r[1] = e
  BY <1>1
<1>5. ToSet(q) \cup {e} \subseteq ToSet(r)
  <2>1. \A i \in 1 .. n : q[i] \in ToSet(r)
    BY <1>3 DEF ToSet
  <2>2. e \in ToSet(r)
    BY <1>4 DEF ToSet
  <2> QED BY <1>1, <2>1, <2>2 DEF ToSet
<1>6. \A i \in 1 .. n : q[i] # e
  BY <1>1 DEF ToSet
<1>7. IsInjective(r)
  <2> SUFFICES ASSUME NEW a \in 1 .. n + 1, NEW b \in 1 .. n + 1, r[a] = r[b] PROVE a = b
    BY <1>1 DEF IsInjective
  <2>1. CASE a = 1 \/ b = 1
    BY <1>1, <1>6, <2>1
  <2>2. CASE a # 1 /\ b # 1
    <3>1. a - 1 \in DOMAIN q /\ b - 1 \in DOMAIN q /\ q[a - 1] = q[b - 1]
      BY <1>1, <2>2
    <3>2. a - 1 = b - 1
      BY <3>1 DEF IsInjective
    <3> QED BY <1>1, <3>2
  <2> QED BY <2>1, <2>2
<1> QED BY <1>1, <1>2, <1>5, <1>7 DEF r
-----------------------------------------------------------------------------
(***************************************************************************)
(* A memory in order: the references of a frame count the entries and the  *)
(* tables that hold it, and a frame without any is in the free list or one *)
(* of those (taken) that a call holds or that a failed call left behind.   *)
(***************************************************************************)
PageFrame == 1 .. PageFrames
Entry == [frame : 0 .. PageFrames, writable : BOOLEAN]
PageTable == [dir : Directories, number : Int, frame : PageFrame]
PageMemory == [free : Seq(PageFrame), references : [PageFrame -> Nat],
           tables : SUBSET PageTable,
           entries : [Directories -> [AllPages -> Entry]]]

Maps(m, f) == {p \in Directories \X AllPages : m.entries[p[1]][p[2]].frame = f}
Tables(m, f) == {t \in m.tables : t.frame = f}

Exact(m) ==
  \A f \in PageFrame : m.references[f] = Cardinality(Maps(m, f)) + Cardinality(Tables(m, f))

InOrder(m, taken) ==
  /\ m \in PageMemory
  /\ IsFiniteSet(m.tables)
  /\ \A d \in Directories, va \in AllPages :
       m.entries[d][va].frame = 0 => m.entries[d][va] = Unmapped
  /\ IsInjective(m.free)
  /\ Exact(m)
  /\ taken \subseteq PageFrame
  /\ ToSet(m.free) \cap taken = {}
  /\ \A f \in PageFrame : m.references[f] = 0 <=> f \in ToSet(m.free) \cup taken

LEMMA FiniteMaps ==
  ASSUME NEW m, NEW f
  PROVE  IsFiniteSet(Maps(m, f))
<1>1. IsFiniteSet(Directories) /\ IsFiniteSet(AllPages)
  BY UserPagesAssumption, FS_AddElement DEF Directories, AllPages
<1>2. IsFiniteSet(Directories \X AllPages)
  BY <1>1, FS_Product
<1> QED BY <1>2, FS_Subset DEF Maps

LEMMA MapsAt ==
  ASSUME NEW m, NEW f, NEW d \in Directories, NEW va \in AllPages
  PROVE  <<d, va>> \in Maps(m, f) <=> m.entries[d][va].frame = f
  BY DEF Maps

LEMMA FiniteTables ==
  ASSUME NEW m, NEW f, IsFiniteSet(m.tables)
  PROVE  IsFiniteSet(Tables(m, f))
  BY FS_Subset DEF Tables

(* A frame without references is shown by no entry and is no page table. *)
LEMMA Unreferenced ==
  ASSUME NEW m, NEW taken, InOrder(m, taken), NEW f \in PageFrame, m.references[f] = 0
  PROVE  Maps(m, f) = {} /\ Tables(m, f) = {}
<1>1. IsFiniteSet(Maps(m, f)) /\ IsFiniteSet(Tables(m, f))
  BY FiniteMaps, FiniteTables DEF InOrder
<1>2. Cardinality(Maps(m, f)) \in Nat /\ Cardinality(Tables(m, f)) \in Nat
  BY <1>1, FS_CardinalityType
<1>3. Cardinality(Maps(m, f)) + Cardinality(Tables(m, f)) = 0
  BY DEF InOrder, Exact
<1>4. Cardinality(Maps(m, f)) = 0 /\ Cardinality(Tables(m, f)) = 0
  BY <1>2, <1>3
<1> QED BY <1>1, <1>4, FS_EmptySet

(* One entry changes its frame, from g to h. *)
EntryMoves(m, n, d, va, g, h) ==
  /\ g # h /\ m.entries[d][va].frame = g
  /\ \A c \in Directories, v \in AllPages :
       n.entries[c][v].frame = IF c = d /\ v = va THEN h ELSE m.entries[c][v].frame

EntryMoved(m, n, d, va, g, h) ==
  /\ Maps(n, h) = Maps(m, h) \cup {<<d, va>>} /\ <<d, va>> \notin Maps(m, h)
  /\ Maps(n, g) = Maps(m, g) \ {<<d, va>>} /\ <<d, va>> \in Maps(m, g)
  /\ \A x \in PageFrame : x # g /\ x # h => Maps(n, x) = Maps(m, x)

LEMMA EntryChanges ==
  ASSUME NEW m, NEW n, NEW d \in Directories, NEW va \in AllPages, NEW g, NEW h,
         EntryMoves(m, n, d, va, g, h)
  PROVE  EntryMoved(m, n, d, va, g, h)
<1>1. ASSUME NEW f
      PROVE  \A p \in Directories \X AllPages :
               p \in Maps(n, f) <=> IF p = <<d, va>> THEN h = f ELSE p \in Maps(m, f)
  BY DEF Maps, EntryMoves
<1>2. /\ <<d, va>> \in Directories \X AllPages
      /\ \A f : /\ Maps(m, f) \subseteq Directories \X AllPages
                /\ Maps(n, f) \subseteq Directories \X AllPages
                /\ <<d, va>> \in Maps(m, f) <=> g = f
  BY DEF Maps, EntryMoves
<1>3. Maps(n, h) = Maps(m, h) \cup {<<d, va>>} /\ <<d, va>> \notin Maps(m, h)
  BY <1>1, <1>2 DEF EntryMoves
<1>4. Maps(n, g) = Maps(m, g) \ {<<d, va>>} /\ <<d, va>> \in Maps(m, g)
  BY <1>1, <1>2 DEF EntryMoves
<1>5. ASSUME NEW f \in PageFrame, f # h, f # g PROVE Maps(n, f) = Maps(m, f)
  <2>1. \A p \in Directories \X AllPages : p \in Maps(n, f) <=> p \in Maps(m, f)
    BY <1>1, <1>2, <1>5
  <2> QED BY <1>2, <2>1
<1> QED BY <1>3, <1>4, <1>5 DEF EntryMoved

(* allocate_frame() holds the frame that it takes. *)
LEMMA AllocateKeeps ==
  ASSUME NEW m, NEW taken, InOrder(m, taken), m.free # <<>>
  PROVE  LET n == allocate_frame(m)
             f == allocated_frame(m)
         IN /\ InOrder(n, taken \cup {f})
            /\ f \in PageFrame /\ f \notin taken /\ f \in ToSet(m.free)
            /\ n.entries = m.entries /\ n.tables = m.tables
            /\ n.references = m.references
<1> DEFINE n == allocate_frame(m)
           f == allocated_frame(m)
<1>1. /\ m \in PageMemory /\ m.free \in Seq(PageFrame) /\ m.references \in [PageFrame -> Nat]
      /\ IsInjective(m.free)
  BY DEF InOrder, PageMemory
<1>2. /\ f \in PageFrame /\ f \in ToSet(m.free) /\ Tail(m.free) \in Seq(PageFrame)
      /\ IsInjective(Tail(m.free)) /\ ToSet(Tail(m.free)) = ToSet(m.free) \ {f}
  BY <1>1, FirstOfList DEF allocated_frame
<1>3. m.references[f] = 0 /\ f \notin taken
  BY <1>2 DEF InOrder
<1>4. /\ n \in PageMemory
      /\ n.free = Tail(m.free) /\ n.tables = m.tables /\ n.entries = m.entries
      /\ n.references = [m.references EXCEPT ![f] = 0]
  BY <1>1, <1>2 DEF allocate_frame, allocated_frame, PageMemory
<1>5. n.references = m.references
  BY <1>1, <1>3, <1>4
<1> HIDE DEF n, f
<1>6. Exact(n)
  BY <1>4, <1>5 DEF InOrder, Exact, Maps, Tables
<1>7. InOrder(n, taken \cup {f})
  BY <1>2, <1>3, <1>4, <1>5, <1>6 DEF InOrder
<1> QED BY <1>2, <1>3, <1>4, <1>5, <1>7 DEF n, f

(* create_page_table() turns the frame that it takes into a table. *)
LEMMA CreateTableKeeps ==
  ASSUME NEW m, NEW taken, InOrder(m, taken), NEW d \in Directories, NEW va \in AllPages,
         can_map(m, d, va)
  PROVE  LET n == create_page_table(m, d, va)
         IN /\ InOrder(n, taken)
            /\ n.entries = m.entries
<1> DEFINE n == create_page_table(m, d, va)
<1>1. CASE has_table(m, d, va)
  BY <1>1 DEF create_page_table
<1>2. CASE ~has_table(m, d, va)
  <2> DEFINE a == allocate_frame(m)
             f == allocated_frame(m)
             t == [dir |-> d, number |-> TableOf(va), frame |-> f]
  <2>1. /\ InOrder(a, taken \cup {f})
        /\ f \in PageFrame /\ f \notin taken /\ f \in ToSet(m.free)
        /\ a.entries = m.entries /\ a.tables = m.tables
        /\ a.references = m.references
    BY <1>2, AllocateKeeps DEF can_map
  <2>2. a \in PageMemory /\ IsFiniteSet(a.tables) /\ a.references[f] = 0
    BY <2>1 DEF InOrder
  <2>3. t \in PageTable
    <3>1. TableOf(va) \in Int
      BY UserPagesAssumption DEF AllPages, TableOf
    <3> QED BY <2>1, <3>1 DEF PageTable
  <2>4. n = [a EXCEPT !.tables = @ \cup {t}, !.references[f] = 1]
    BY <1>2 DEF create_page_table
  <2> HIDE DEF a, f, t, n
  <2>5. /\ n \in PageMemory /\ n.free = a.free /\ n.entries = a.entries
        /\ n.tables = a.tables \cup {t}
        /\ n.references = [a.references EXCEPT ![f] = 1]
    BY <2>1, <2>2, <2>3, <2>4 DEF PageMemory
  <2>6. t.frame = f /\ Maps(a, f) = {} /\ Tables(a, f) = {}
    BY <2>1, <2>2, Unreferenced DEF t
  <2>7. Tables(n, f) = {t} /\ \A x \in PageFrame : x # f => Tables(n, x) = Tables(a, x)
    BY <2>5, <2>6 DEF Tables
  <2>8. \A x \in PageFrame : Maps(n, x) = Maps(a, x)
    BY <2>5 DEF Maps
  <2>9. a.references \in [PageFrame -> Nat]
    BY <2>2 DEF PageMemory
  <2>10. ASSUME NEW x \in PageFrame
         PROVE  n.references[x] = Cardinality(Maps(n, x)) + Cardinality(Tables(n, x))
    <3>1. CASE x = f
      <4>1. n.references[x] = 1 /\ Maps(n, x) = {} /\ Tables(n, x) = {t}
        BY <2>1, <2>5, <2>6, <2>7, <2>8, <2>9, <3>1
      <4>2. Cardinality(Maps(n, x)) = 0 /\ Cardinality(Tables(n, x)) = 1
        BY <4>1, FS_EmptySet, FS_Singleton
      <4> QED BY <4>1, <4>2
    <3>2. CASE x # f
      BY <2>1, <2>5, <2>7, <2>8, <2>9, <3>2 DEF InOrder, Exact
    <3> QED BY <3>1, <3>2
  <2>11. IsFiniteSet(n.tables)
    BY <2>2, <2>5, FS_AddElement
  <2>12. \A x \in PageFrame : n.references[x] = 0 <=> x \in ToSet(n.free) \cup taken
    <3>1. f \notin ToSet(a.free)
      BY <2>1 DEF InOrder
    <3>2. \A x \in PageFrame : a.references[x] = 0 <=> x \in ToSet(a.free) \cup taken \cup {f}
      BY <2>1 DEF InOrder
    <3>3. \A x \in PageFrame : n.references[x] = IF x = f THEN 1 ELSE a.references[x]
      BY <2>5, <2>9
    <3> QED BY <2>1, <2>5, <3>1, <3>2, <3>3
  <2>13. InOrder(n, taken)
    BY <2>1, <2>5, <2>10, <2>11, <2>12 DEF InOrder, Exact
  <2> QED BY <2>1, <2>5, <2>13 DEF n
<1> QED BY <1>1, <1>2

(* unmap_frame() takes one reference away, and frees the frame with the    *)
(* last one.                                                               *)
LEMMA UnmapKeeps ==
  ASSUME NEW m, NEW taken, InOrder(m, taken), NEW d \in Directories, NEW va \in AllPages
  PROVE  LET n == unmap_frame(m, d, va)
         IN /\ InOrder(n, taken)
            /\ n.entries = [m.entries EXCEPT ![d][va] = Unmapped]
<1> DEFINE n == unmap_frame(m, d, va)
           e == m.entries[d][va]
           f == e.frame
<1>1. /\ m \in PageMemory /\ m.entries \in [Directories -> [AllPages -> Entry]] /\ e \in Entry
      /\ m.references \in [PageFrame -> Nat] /\ m.free \in Seq(PageFrame) /\ IsFiniteSet(m.tables)
  BY DEF InOrder, PageMemory
<1>2. CASE e = Unmapped
  <2>1. n = m
    BY <1>2 DEF unmap_frame
  <2>2. m.entries = [m.entries EXCEPT ![d][va] = Unmapped]
    BY <1>1, <1>2
  <2> QED BY <2>1, <2>2
<1>3. CASE e # Unmapped
  <2>1. f \in PageFrame
    <3>1. f \in 0 .. PageFrames /\ f # 0
      BY <1>1, <1>3 DEF Entry, InOrder
    <3> QED BY <3>1, UserPagesAssumption DEF PageFrame
  <2>2. /\ n.free = (IF m.references[f] = 1 THEN Cons(f, m.free) ELSE m.free)
        /\ n.references = [m.references EXCEPT ![f] = @ - 1]
        /\ n.tables = m.tables /\ n.entries = [m.entries EXCEPT ![d][va] = Unmapped]
        /\ n = [free |-> n.free, references |-> n.references, tables |-> n.tables, entries |-> n.entries]
    BY <1>1, <1>3 DEF unmap_frame, decrement_references, PageMemory
  <2> HIDE DEF n
  <2>3. Unmapped \in Entry /\ Unmapped.frame = 0 /\ f # 0
    BY <2>1, UserPagesAssumption DEF Unmapped, Entry, PageFrame
  <2>4. /\ Maps(n, f) = Maps(m, f) \ {<<d, va>>} /\ <<d, va>> \in Maps(m, f)
        /\ \A x \in PageFrame : x # f => Maps(n, x) = Maps(m, x)
    <3>1. \A x \in PageFrame : x # 0
      BY DEF PageFrame
    <3>2. \A c \in Directories, v \in AllPages :
            n.entries[c][v].frame = IF c = d /\ v = va THEN 0 ELSE m.entries[c][v].frame
      BY <1>1, <2>2, <2>3
    <3>3. EntryMoves(m, n, d, va, f, 0)
      BY <2>3, <3>2 DEF EntryMoves
    <3>4. EntryMoved(m, n, d, va, f, 0)
      BY <3>3, EntryChanges
    <3> QED BY <3>1, <3>4 DEF EntryMoved
  <2>5. \A x \in PageFrame : Tables(n, x) = Tables(m, x)
    BY <2>2 DEF Tables
  <2>6. /\ Cardinality(Maps(m, f)) \in Nat /\ Cardinality(Tables(m, f)) \in Nat
        /\ Cardinality(Maps(n, f)) \in Nat
        /\ Cardinality(Maps(n, f)) = Cardinality(Maps(m, f)) - 1
    <3>1. /\ IsFiniteSet(Maps(m, f)) /\ IsFiniteSet(Tables(m, f)) /\ IsFiniteSet(Maps(n, f))
      BY <1>1, FiniteMaps, FiniteTables
    <3>2. /\ Cardinality(Maps(m, f)) \in Nat /\ Cardinality(Tables(m, f)) \in Nat
          /\ Cardinality(Maps(n, f)) \in Nat
      BY <3>1, FS_CardinalityType
    <3>3. Cardinality(Maps(m, f) \ {<<d, va>>}) = Cardinality(Maps(m, f)) - 1
      BY <2>4, <3>1, FS_RemoveElement
    <3> QED BY <2>4, <3>2, <3>3
  <2>7. m.references[f] \in Nat \ {0}
    <3>1. m.references[f] = Cardinality(Maps(m, f)) + Cardinality(Tables(m, f))
      BY <2>1 DEF InOrder, Exact
    <3> QED BY <2>6, <3>1
  <2>8. /\ n.references \in [PageFrame -> Nat]
        /\ \A x \in PageFrame : n.references[x] = IF x = f THEN m.references[f] - 1 ELSE m.references[x]
    <3>1. m.references \in [PageFrame -> Nat]
      BY <1>1
    <3>2. n.references = [m.references EXCEPT ![f] = m.references[f] - 1]
      BY <2>2
    <3>3. m.references[f] - 1 \in Nat
      BY <2>7
    <3> QED BY <2>1, <3>1, <3>2, <3>3
  <2>9. f \notin ToSet(m.free) /\ f \notin taken
    BY <2>1, <2>7 DEF InOrder
  <2>10. /\ n.free \in Seq(PageFrame) /\ IsInjective(n.free)
         /\ ToSet(n.free) = IF m.references[f] = 1 THEN ToSet(m.free) \cup {f} ELSE ToSet(m.free)
    <3>1. IsInjective(m.free)
      BY DEF InOrder
    <3>2. CASE m.references[f] = 1
      BY <1>1, <2>1, <2>2, <2>9, <3>1, <3>2, PutOnList
    <3>3. CASE m.references[f] # 1
      BY <1>1, <2>2, <3>1, <3>3
    <3> QED BY <3>2, <3>3
  <2>11. n.entries \in [Directories -> [AllPages -> Entry]] /\ n.tables \in SUBSET PageTable
    BY <1>1, <2>2, <2>3 DEF PageMemory
  <2>12. n \in PageMemory
    BY <2>2, <2>8, <2>10, <2>11 DEF PageMemory
  <2>13. Exact(n)
    <3> SUFFICES ASSUME NEW x \in PageFrame
                 PROVE  n.references[x] = Cardinality(Maps(n, x)) + Cardinality(Tables(n, x))
      BY DEF Exact
    <3>1. m.references[x] = Cardinality(Maps(m, x)) + Cardinality(Tables(m, x))
      BY DEF InOrder, Exact
    <3>2. CASE x = f
      <4>1. n.references[f] = m.references[f] - 1 /\ Tables(n, f) = Tables(m, f)
        BY <2>1, <2>5, <2>8
      <4> HIDE DEF f
      <4> QED BY <2>6, <3>1, <3>2, <4>1
    <3>3. CASE x # f
      BY <2>4, <2>5, <2>8, <3>1, <3>3
    <3> QED BY <3>2, <3>3
  <2>14. \A x \in PageFrame : n.references[x] = 0 <=> x \in ToSet(n.free) \cup taken
    <3> SUFFICES ASSUME NEW x \in PageFrame
                 PROVE  n.references[x] = 0 <=> x \in ToSet(n.free) \cup taken
      OBVIOUS
    <3>1. m.references[x] = 0 <=> x \in ToSet(m.free) \cup taken
      BY DEF InOrder
    <3>2. CASE x = f
      <4>1. n.references[x] = m.references[f] - 1
        BY <2>8, <3>2
      <4>2. n.references[x] = 0 <=> m.references[f] = 1
        BY <2>7, <4>1
      <4> QED BY <2>9, <2>10, <3>2, <4>2
    <3>3. CASE x # f
      BY <2>8, <2>10, <3>1, <3>3
    <3> QED BY <3>2, <3>3
  <2>15. ASSUME NEW c \in Directories, NEW v \in AllPages, n.entries[c][v].frame = 0
         PROVE  n.entries[c][v] = Unmapped
    BY <1>1, <2>2, <2>15 DEF InOrder
  <2>16. ToSet(n.free) \cap taken = {}
    BY <2>9, <2>10 DEF InOrder
  <2>17. InOrder(n, taken)
    BY <1>1, <2>2, <2>10, <2>12, <2>13, <2>14, <2>15, <2>16 DEF InOrder
  <2> QED BY <2>2, <2>17 DEF n
<1> QED BY <1>2, <1>3

Shown(m, n, d, va, f, w) ==
  /\ Maps(n, f) = {<<d, va>>}
  /\ n.entries = [m.entries EXCEPT ![d][va] = [frame |-> f, writable |-> w]]

(* map_frame() of a frame that is held: it is then shown at the address    *)
(* and nowhere else, and what was there before has one reference less.     *)
LEMMA MapKeeps ==
  ASSUME NEW m, NEW taken, InOrder(m, taken), NEW d \in Directories, NEW va \in AllPages,
         NEW f \in taken, NEW w \in BOOLEAN, can_map(m, d, va)
  PROVE  /\ InOrder(map_frame(m, d, f, va, w), taken \ {f})
         /\ Shown(m, map_frame(m, d, f, va, w), d, va, f, w)
<1> DEFINE t == create_page_table(m, d, va)
           u == unmap_frame(t, d, va)
           ent == [frame |-> f, writable |-> w]
           n == map_frame(m, d, f, va, w)
<1>1. InOrder(t, taken) /\ t.entries = m.entries
  BY CreateTableKeeps
<1> HIDE DEF t
<1>2. InOrder(u, taken) /\ u.entries = [t.entries EXCEPT ![d][va] = Unmapped]
  BY <1>1, UnmapKeeps
<1>3. f \in PageFrame /\ t.references[f] = 0 /\ u.references[f] = 0 /\ f # 0
  <2>1. f \in PageFrame
    BY DEF InOrder
  <2>2. f # 0
    BY <2>1 DEF PageFrame
  <2> QED BY <1>1, <1>2, <2>1, <2>2 DEF InOrder
<1>4. Maps(t, f) = {} /\ Maps(u, f) = {} /\ Tables(u, f) = {}
  BY <1>1, <1>2, <1>3, Unreferenced
<1>5. t.entries[d][va].frame # f
  BY <1>4, MapsAt
<1>6. n = [u EXCEPT !.references[f] = @ + 1, !.entries[d][va] = ent]
  BY <1>5 DEF map_frame, t
<1>7. /\ u \in PageMemory /\ u.references \in [PageFrame -> Nat] /\ IsFiniteSet(u.tables)
      /\ u.entries \in [Directories -> [AllPages -> Entry]]
      /\ t.entries \in [Directories -> [AllPages -> Entry]]
  BY <1>1, <1>2 DEF InOrder, PageMemory
<1>8. ent \in Entry /\ ent.frame = f
  <2>1. f \in 0 .. PageFrames
    BY <1>3, UserPagesAssumption DEF PageFrame
  <2> QED BY <2>1 DEF Entry
<1>9. Unmapped.frame = 0
  BY DEF Unmapped
<1> HIDE DEF u, ent, n
<1>10. /\ n \in PageMemory /\ n.free = u.free /\ n.tables = u.tables
       /\ n.references = [u.references EXCEPT ![f] = u.references[f] + 1]
       /\ n.entries = [u.entries EXCEPT ![d][va] = ent]
  <2>1. /\ n.free = u.free /\ n.tables = u.tables
        /\ n.references = [u.references EXCEPT ![f] = u.references[f] + 1]
        /\ n.entries = [u.entries EXCEPT ![d][va] = ent]
        /\ n = [free |-> n.free, references |-> n.references, tables |-> n.tables, entries |-> n.entries]
    BY <1>6, <1>7 DEF PageMemory
  <2>2. n.references \in [PageFrame -> Nat] /\ n.entries \in [Directories -> [AllPages -> Entry]]
    BY <1>3, <1>7, <1>8, <2>1
  <2> QED BY <1>7, <2>1, <2>2 DEF PageMemory
<1>11. u.entries[d][va] = Unmapped
  BY <1>2, <1>7
<1>12. /\ Maps(n, f) = {<<d, va>>}
       /\ \A x \in PageFrame : x # f => Maps(n, x) = Maps(u, x)
  <2>1. \A x \in PageFrame : x # 0
    BY DEF PageFrame
  <2>2. /\ u.entries[d][va].frame = 0
        /\ \A c \in Directories, v \in AllPages :
             n.entries[c][v].frame = IF c = d /\ v = va THEN f ELSE u.entries[c][v].frame
    BY <1>7, <1>8, <1>9, <1>10, <1>11
  <2>3. EntryMoves(u, n, d, va, 0, f)
    BY <1>3, <2>2 DEF EntryMoves
  <2>4. EntryMoved(u, n, d, va, 0, f)
    BY <2>3, EntryChanges
  <2> QED BY <1>4, <2>1, <2>4 DEF EntryMoved
<1>13. \A x \in PageFrame : Tables(n, x) = Tables(u, x)
  BY <1>10 DEF Tables
<1>14. \A x \in PageFrame : n.references[x] = IF x = f THEN 1 ELSE u.references[x]
  BY <1>3, <1>7, <1>10
<1>15. Exact(n)
  <2> SUFFICES ASSUME NEW x \in PageFrame
               PROVE  n.references[x] = Cardinality(Maps(n, x)) + Cardinality(Tables(n, x))
    BY DEF Exact
  <2>1. CASE x = f
    <3>1. Cardinality(Maps(n, x)) = 1 /\ Cardinality(Tables(n, x)) = 0
      BY <1>4, <1>12, <1>13, <2>1, FS_EmptySet, FS_Singleton
    <3> QED BY <1>14, <2>1, <3>1
  <2>2. CASE x # f
    BY <1>2, <1>12, <1>13, <1>14, <2>2 DEF InOrder, Exact
  <2> QED BY <2>1, <2>2
<1>16. ASSUME NEW c \in Directories, NEW v \in AllPages, n.entries[c][v].frame = 0
       PROVE  n.entries[c][v] = Unmapped
  BY <1>2, <1>3, <1>7, <1>8, <1>10, <1>16 DEF InOrder
<1>17. \A x \in PageFrame : n.references[x] = 0 <=> x \in ToSet(n.free) \cup (taken \ {f})
  <2>1. f \notin ToSet(u.free)
    BY <1>2 DEF InOrder
  <2>2. \A x \in PageFrame : u.references[x] = 0 <=> x \in ToSet(u.free) \cup taken
    BY <1>2 DEF InOrder
  <2> QED BY <1>10, <1>14, <2>1, <2>2
<1>18. InOrder(n, taken \ {f})
  BY <1>2, <1>7, <1>10, <1>15, <1>16, <1>17 DEF InOrder
<1>19. n.entries = [m.entries EXCEPT ![d][va] = ent]
  <2> DEFINE was == m.entries
             off == u.entries
  <2>1. was \in [Directories -> [AllPages -> Entry]] /\ t.entries = was
    BY <1>1, <1>7
  <2>2. off = [was EXCEPT ![d][va] = Unmapped] /\ n.entries = [off EXCEPT ![d][va] = ent]
    BY <1>2, <1>10, <2>1
  <2> HIDE DEF was, off
  <2>3. n.entries = [was EXCEPT ![d][va] = ent]
    BY <2>1, <2>2
  <2> QED BY <2>3 DEF was
<1> QED BY <1>12, <1>18, <1>19 DEF n, ent, Shown

(* The detour through the window leaves the frame as it was: held, without *)
(* a reference, and nothing in the window.                                 *)
LEMMA WindowKeeps ==
  ASSUME NEW m, NEW taken, InOrder(m, taken), NEW d \in Directories,
         NEW f \in taken, can_map(m, d, WINDOW)
  PROVE  LET n == window(m, d, f)
         IN /\ InOrder(n, taken)
            /\ n.entries = [m.entries EXCEPT ![d][WINDOW] = Unmapped]
<1> DEFINE t == create_page_table(m, d, WINDOW)
           u == unmap_frame(t, d, WINDOW)
           ent == [frame |-> f, writable |-> TRUE]
           mapped == map_frame(m, d, f, WINDOW, TRUE)
           more == [mapped EXCEPT !.references[f] = @ + 1]
           kept == unmap_frame(more, d, WINDOW)
           n == window(m, d, f)
<1>0. WINDOW \in AllPages
  BY DEF AllPages
<1>1. InOrder(t, taken) /\ t.entries = m.entries
  BY <1>0, CreateTableKeeps
<1>2. InOrder(u, taken) /\ u.entries = [t.entries EXCEPT ![d][WINDOW] = Unmapped]
  BY <1>0, <1>1, UnmapKeeps
<1>3. f \in PageFrame /\ t.references[f] = 0 /\ u.references[f] = 0 /\ f # 0
  <2>1. f \in PageFrame
    BY DEF InOrder
  <2>2. f # 0
    BY <2>1 DEF PageFrame
  <2> QED BY <1>1, <1>2, <2>1, <2>2 DEF InOrder
<1>4. Maps(t, f) = {}
  BY <1>1, <1>3, Unreferenced
<1>5. t.entries[d][WINDOW].frame # f
  BY <1>0, <1>4, MapsAt
<1>6. mapped = [u EXCEPT !.references[f] = @ + 1, !.entries[d][WINDOW] = ent]
  BY <1>5 DEF map_frame
<1>7. /\ u \in PageMemory /\ u.references \in [PageFrame -> Nat]
      /\ u.entries \in [Directories -> [AllPages -> Entry]]
      /\ t.entries \in [Directories -> [AllPages -> Entry]]
  BY <1>1, <1>2 DEF InOrder, PageMemory
<1>8. ent \in Entry /\ ent.frame = f /\ Unmapped.frame = 0
  <2>1. f \in 0 .. PageFrames
    BY <1>3, UserPagesAssumption DEF PageFrame
  <2> QED BY <2>1 DEF Entry, Unmapped
<1>9. n = [kept EXCEPT !.references[f] = @ - 1]
  BY DEF window
<1>10. u.entries[d][WINDOW] = Unmapped
  BY <1>0, <1>2, <1>7
<1> HIDE DEF t, u, ent, n
<1>11. /\ mapped \in PageMemory /\ mapped.free = u.free /\ mapped.tables = u.tables
       /\ mapped.references = [u.references EXCEPT ![f] = 1]
       /\ mapped.entries = [u.entries EXCEPT ![d][WINDOW] = ent]
  <2> HIDE DEF mapped
  <2>1. /\ mapped.free = u.free /\ mapped.tables = u.tables
        /\ mapped.references = [u.references EXCEPT ![f] = u.references[f] + 1]
        /\ mapped.entries = [u.entries EXCEPT ![d][WINDOW] = ent]
        /\ mapped = [free |-> mapped.free, references |-> mapped.references,
                     tables |-> mapped.tables, entries |-> mapped.entries]
    BY <1>6, <1>7 DEF PageMemory
  <2>2. /\ mapped.references \in [PageFrame -> Nat]
        /\ mapped.entries \in [Directories -> [AllPages -> Entry]]
    BY <1>0, <1>3, <1>7, <1>8, <2>1
  <2>3. u.references[f] + 1 = 1
    BY <1>3
  <2>4. mapped \in PageMemory
    BY <1>7, <2>1, <2>2 DEF PageMemory
  <2> QED BY <2>1, <2>3, <2>4
<1> HIDE DEF mapped
<1>12. /\ more \in PageMemory /\ more.free = u.free /\ more.tables = u.tables
       /\ more.references = [u.references EXCEPT ![f] = 2]
       /\ more.entries = [u.entries EXCEPT ![d][WINDOW] = ent]
  BY <1>3, <1>7, <1>11 DEF PageMemory
<1> HIDE DEF more
<1>13. more.entries[d][WINDOW] = ent /\ more.references[f] = 2 /\ ent # Unmapped
  BY <1>0, <1>3, <1>7, <1>8, <1>12
<1>14. /\ kept \in PageMemory /\ kept.free = u.free /\ kept.tables = u.tables
       /\ kept.references = [u.references EXCEPT ![f] = 1]
       /\ kept.entries = [u.entries EXCEPT ![d][WINDOW] = Unmapped]
  <2>1. kept = [decrement_references(more, f) EXCEPT !.entries[d][WINDOW] = Unmapped]
    BY <1>8, <1>13 DEF unmap_frame
  <2> DEFINE k == decrement_references(more, f)
  <2>2. /\ k \in PageMemory /\ k.free = u.free /\ k.tables = u.tables
        /\ k.references = [u.references EXCEPT ![f] = 1] /\ k.entries = more.entries
    BY <1>3, <1>7, <1>12, <1>13 DEF decrement_references, PageMemory
  <2> HIDE DEF k, kept
  <2>3. kept = [k EXCEPT !.entries[d][WINDOW] = Unmapped]
    BY <2>1 DEF k
  <2>4. Unmapped \in Entry
    BY UserPagesAssumption DEF Unmapped, Entry
  <2>5. /\ kept \in PageMemory /\ kept.free = u.free /\ kept.tables = u.tables
        /\ kept.references = [u.references EXCEPT ![f] = 1]
        /\ kept.entries = [more.entries EXCEPT ![d][WINDOW] = Unmapped]
    BY <2>2, <2>3, <2>4 DEF PageMemory
  <2> QED BY <1>7, <1>12, <2>5, ZenonT(30)
<1> HIDE DEF kept
<1>15. /\ n \in PageMemory /\ n.free = u.free /\ n.tables = u.tables
       /\ n.references = [u.references EXCEPT ![f] = 0]
       /\ n.entries = [u.entries EXCEPT ![d][WINDOW] = Unmapped]
  BY <1>3, <1>7, <1>9, <1>14 DEF PageMemory
<1>16. n.references = u.references /\ n.entries = u.entries
  BY <1>0, <1>3, <1>7, <1>10, <1>15, SMTT(30)
<1>17. InOrder(n, taken)
  <2>1. \A x \in PageFrame : Maps(n, x) = Maps(u, x) /\ Tables(n, x) = Tables(u, x)
    BY <1>15, <1>16 DEF Maps, Tables
  <2>2. Exact(n)
    BY <1>2, <1>16, <2>1 DEF InOrder, Exact
  <2>3. /\ IsFiniteSet(n.tables) /\ IsInjective(n.free)
        /\ ToSet(n.free) \cap taken = {} /\ taken \subseteq PageFrame
        /\ \A x \in PageFrame : n.references[x] = 0 <=> x \in ToSet(n.free) \cup taken
    BY <1>2, <1>15, <1>16 DEF InOrder
  <2>4. \A c \in Directories, v \in AllPages :
          n.entries[c][v].frame = 0 => n.entries[c][v] = Unmapped
    BY <1>2, <1>16 DEF InOrder
  <2> QED BY <1>15, <2>2, <2>3, <2>4 DEF InOrder
<1> QED BY <1>1, <1>2, <1>16, <1>17 DEF n
-----------------------------------------------------------------------------
(***************************************************************************)
(* The inductive invariant.  A page that sys_allocate_page() made is below *)
(* USER_TOP, so that the window of a later call cannot be its address.     *)
(***************************************************************************)
Private(m, c, d, va) ==
  /\ d \in Directories /\ va \in AllPages /\ va < USER_TOP_PAGE
  /\ m.entries[d][va].frame \in PageFrame
  /\ c[m.entries[d][va].frame] = "zero"
  /\ Maps(m, m.entries[d][va].frame) = {<<d, va>>}

UserPagesInv ==
  /\ InOrder(memory, lost)
  /\ contents \in [PageFrame -> {"zero", "dirty"}]
  /\ last # NoEntry => Private(memory, contents, last.dir, last.va)

(* A call that changes no entry, or only clears the window, takes no page  *)
(* away from the environment that has just got one.                        *)
LEMMA PrivateKept ==
  ASSUME NEW m, NEW n, NEW c, NEW d, NEW va, Private(m, c, d, va),
         n.entries = m.entries
  PROVE  Private(n, c, d, va)
<1>1. \A f : Maps(n, f) = Maps(m, f)
  BY DEF Maps
<1> QED BY <1>1 DEF Private

LEMMA PrivateKeptByWindow ==
  ASSUME NEW m, NEW n, NEW c, NEW d, NEW va, Private(m, c, d, va),
         NEW e \in Directories,
         m.entries \in [Directories -> [AllPages -> Entry]],
         n.entries = [m.entries EXCEPT ![e][WINDOW] = Unmapped]
  PROVE  Private(n, c, d, va)
<1> DEFINE f == m.entries[d][va].frame
<1>0. va \in Nat
  BY UserPagesAssumption DEF Private, AllPages
<1>1. /\ d \in Directories /\ va \in AllPages /\ va # WINDOW
      /\ f # 0 /\ f \in PageFrame /\ WINDOW \in AllPages
  BY <1>0, UserPagesAssumption DEF Private, PageFrame, AllPages
<1>2. n.entries[d][va] = m.entries[d][va]
  BY <1>1
<1>3. ASSUME NEW b \in Directories, NEW v \in AllPages
      PROVE  n.entries[b][v].frame = f <=> b = d /\ v = va
  <2>1. m.entries[b][v].frame = f <=> b = d /\ v = va
    <3>1. <<b, v>> \in Maps(m, f) <=> m.entries[b][v].frame = f
      BY DEF Maps
    <3>2. Maps(m, f) = {<<d, va>>}
      BY DEF Private
    <3> QED BY <3>1, <3>2
  <2>2. CASE b = e /\ v = WINDOW
    <3>1. n.entries[b][v].frame = 0
      BY <1>1, <2>2 DEF Unmapped
    <3> QED BY <1>1, <2>2, <3>1
  <2>3. CASE ~(b = e /\ v = WINDOW)
    <3>1. n.entries[b][v] = m.entries[b][v]
      BY <2>3
    <3> QED BY <2>1, <3>1
  <2> QED BY <2>2, <2>3
<1> HIDE DEF f
<1>4. Maps(n, f) = {<<d, va>>}
  BY <1>1, <1>3 DEF Maps
<1> QED BY <1>1, <1>2, <1>4 DEF Private, f

(* A panic that leaves the memory in order, with what it took lost. *)
LEMMA PanickedKeeps ==
  ASSUME UserPagesInv, NEW e, NEW m, NEW taken, panicked(e, m, taken),
         InOrder(m, lost \cup taken),
         \A c, d, va : Private(memory, c, d, va) => Private(m, c, d, va)
  PROVE  UserPagesInv'
<1>1. /\ memory' = m /\ lost' = lost \cup taken
      /\ contents' = contents /\ last' = last
  BY DEF panicked
<1>2. InOrder(memory', lost')
  BY <1>1
<1>3. last # NoEntry => Private(m, contents, last.dir, last.va)
  BY DEF UserPagesInv
<1> QED BY <1>1, <1>2, <1>3 DEF UserPagesInv

LEMMA MapShows ==
  ASSUME NEW m, NEW taken, NEW f \in taken, InOrder(m, taken), NEW d \in Directories,
         NEW va \in AllPages, NEW w \in BOOLEAN, can_map(m, d, va),
         NEW n, n = map_frame(m, d, f, va, w)
  PROVE  InOrder(n, taken \ {f}) /\ Shown(m, n, d, va, f, w)
<1>1. InOrder(map_frame(m, d, f, va, w), taken \ {f})
  BY MapKeeps, Zenon
<1>2. Shown(m, map_frame(m, d, f, va, w), d, va, f, w)
  BY MapKeeps, Zenon
<1> QED BY <1>1, <1>2

(* The new page of sys_allocate_page(), ap or aup, when map_frame() works. *)
LEMMA AllocatedKeeps ==
  ASSUME UserPagesInv, NEW m, NEW f \in PageFrame, f \notin lost, InOrder(m, lost \cup {f}),
         NEW d \in Directories, NEW va \in AllPages, NEW w \in BOOLEAN, can_map(m, d, va),
         memory' = map_frame(m, d, f, va, w), lost' = lost,
         \/ last' = NoEntry /\ contents' = contents
         \/ /\ last' = [dir |-> d, va |-> va] /\ va < USER_TOP_PAGE
            /\ contents' = [contents EXCEPT ![f] = "zero"]
  PROVE  UserPagesInv'
<1> DEFINE n == map_frame(m, d, f, va, w)
<1>1. /\ InOrder(n, (lost \cup {f}) \ {f}) /\ Maps(n, f) = {<<d, va>>}
      /\ n.entries = [m.entries EXCEPT ![d][va] = [frame |-> f, writable |-> w]]
  <2> PICK taken : taken = lost \cup {f}
    OBVIOUS
  <2>1. f \in taken /\ InOrder(m, taken)
    OBVIOUS
  <2>2. n = map_frame(m, d, f, va, w)
    OBVIOUS
  <2> HIDE DEF n
  <2>3. InOrder(n, taken \ {f}) /\ Shown(m, n, d, va, f, w)
    BY <2>1, <2>2, MapShows
  <2> QED BY <2>3 DEF Shown
<1>2. (lost \cup {f}) \ {f} = lost
  OBVIOUS
<1>3. m.entries \in [Directories -> [AllPages -> Entry]]
  BY DEF InOrder, PageMemory
<1> HIDE DEF n
<1>4. n.entries[d][va].frame = f
  BY <1>1, <1>3
<1>5. InOrder(memory', lost')
  BY <1>1, <1>2 DEF n
<1>6. contents' \in [PageFrame -> {"zero", "dirty"}]
  BY DEF UserPagesInv
<1>7. last' # NoEntry => Private(memory', contents', last'.dir, last'.va)
  <2> SUFFICES ASSUME last' # NoEntry PROVE Private(memory', contents', last'.dir, last'.va)
    OBVIOUS
  <2>1. /\ last'.dir = d /\ last'.va = va /\ va < USER_TOP_PAGE
        /\ contents' = [contents EXCEPT ![f] = "zero"]
    OBVIOUS
  <2>2. contents'[f] = "zero"
    BY <2>1 DEF UserPagesInv
  <2> QED BY <1>1, <1>4, <2>1, <2>2 DEF Private, n
<1> QED BY <1>5, <1>6, <1>7 DEF UserPagesInv

LEMMA AllocatePageKeeps ==
  ASSUME UserPagesInv, NEW e \in PageEnvs, sys_allocate_page(e)
  PROVE  UserPagesInv'
<1>1. PICK va \in UserPageNos, w \in BOOLEAN, aligned \in BOOLEAN, user \in BOOLEAN :
        __sys_allocate_page(e, va, w, aligned, user)
  BY DEF sys_allocate_page
<1>2. /\ e \in Directories /\ va \in AllPages /\ WINDOW \in AllPages /\ va \in Nat
      /\ InOrder(memory, lost) /\ memory.entries \in [Directories -> [AllPages -> Entry]]
      /\ contents \in [PageFrame -> {"zero", "dirty"}]
  BY UserPagesAssumption DEF Directories, AllPages, UserPagesInv, InOrder, PageMemory
<1>3. CASE memory.free = <<>>
  <2>1. panicked(e, memory, {})
    BY <1>1, <1>3 DEF __sys_allocate_page
  <2>2. InOrder(memory, lost \cup {})
    BY <1>2
  <2> QED BY <2>1, <2>2, PanickedKeeps
<1>4. CASE memory.free # <<>>
  <2> DEFINE f == allocated_frame(memory)
             taken == allocate_frame(memory)
             cleared == window(taken, e, f)
  <2>1. /\ InOrder(taken, lost \cup {f}) /\ f \in PageFrame /\ f \notin lost
        /\ taken.entries = memory.entries
    BY <1>2, <1>4, AllocateKeeps
  <2>2. \A c, d, v : Private(memory, c, d, v) => Private(taken, c, d, v)
    BY <2>1, PrivateKept
  <2>3. CASE va >= USER_TOP_PAGE \/ ~aligned \/ ~user
    <3>1. memory' = taken /\ lost' = lost \cup {f} /\ UNCHANGED <<contents, ended, last>>
      BY <1>1, <1>4, <2>3 DEF __sys_allocate_page
    <3> HIDE DEF taken, f
    <3>2. last # NoEntry => Private(taken, contents, last.dir, last.va)
      BY <2>2 DEF UserPagesInv
    <3> QED BY <1>2, <2>1, <3>1, <3>2 DEF UserPagesInv
  <2>4. CASE ~(va >= USER_TOP_PAGE \/ ~aligned \/ ~user)
    <3>0. IF ~can_map(taken, e, WINDOW) THEN panicked(e, taken, {f})
          ELSE IF ~can_map(cleared, e, va) THEN panicked(e, cleared, {f})
          ELSE /\ memory' = map_frame(cleared, e, f, va, w)
               /\ contents' = [contents EXCEPT ![f] = "zero"]
               /\ last' = [dir |-> e, va |-> va]
               /\ UNCHANGED <<ended, lost>>
      BY <1>1, <1>4, <2>4 DEF __sys_allocate_page
    <3>1. CASE ~can_map(taken, e, WINDOW)
      <4>1. panicked(e, taken, {f})
        BY <3>0, <3>1
      <4> HIDE DEF taken, f
      <4> QED BY <2>1, <2>2, <4>1, PanickedKeeps
    <3>2. CASE can_map(taken, e, WINDOW)
      <4> HIDE DEF taken, f
      <4>1. /\ InOrder(cleared, lost \cup {f})
            /\ cleared.entries = [taken.entries EXCEPT ![e][WINDOW] = Unmapped]
        BY <1>2, <2>1, <3>2, WindowKeeps
      <4> HIDE DEF cleared
      <4>2. \A c, d, v : Private(memory, c, d, v) => Private(cleared, c, d, v)
        BY <1>2, <2>1, <4>1, PrivateKeptByWindow
      <4>3. CASE ~can_map(cleared, e, va)
        BY <2>1, <3>0, <3>2, <4>1, <4>2, <4>3, PanickedKeeps
      <4>4. CASE can_map(cleared, e, va)
        <5>1. /\ memory' = map_frame(cleared, e, f, va, w)
              /\ contents' = [contents EXCEPT ![f] = "zero"]
              /\ last' = [dir |-> e, va |-> va] /\ lost' = lost
          BY <3>0, <3>2, <4>4
        <5>2. va < USER_TOP_PAGE
          BY <1>2, <2>4, UserPagesAssumption
        <5> QED BY <1>2, <2>1, <4>1, <4>4, <5>1, <5>2, AllocatedKeeps
      <4> QED BY <4>3, <4>4
    <3> QED BY <3>1, <3>2
  <2> QED BY <2>3, <2>4
<1> QED BY <1>3, <1>4

(* The commands ap and aup. *)
LEMMA MapsNewKeeps ==
  ASSUME UserPagesInv, NEW d \in Directories, NEW va \in UserPageNos, NEW w \in BOOLEAN,
         maps_new_frame(d, va, w)
  PROVE  UserPagesInv'
<1>1. va \in AllPages /\ InOrder(memory, lost)
  BY DEF AllPages, UserPagesInv
<1>2. CASE memory.free = <<>>
  <2>1. panicked(KernelDir, memory, {})
    BY <1>2 DEF maps_new_frame
  <2>2. InOrder(memory, lost \cup {})
    BY <1>1
  <2> QED BY <2>1, <2>2, PanickedKeeps
<1>3. CASE memory.free # <<>>
  <2> DEFINE f == allocated_frame(memory)
             taken == allocate_frame(memory)
  <2>1. /\ InOrder(taken, lost \cup {f}) /\ f \in PageFrame /\ f \notin lost
        /\ taken.entries = memory.entries
    BY <1>1, <1>3, AllocateKeeps
  <2>2. \A c, b, v : Private(memory, c, b, v) => Private(taken, c, b, v)
    BY <2>1, PrivateKept
  <2>3. IF ~can_map(taken, d, va) THEN panicked(KernelDir, taken, {f})
        ELSE /\ memory' = map_frame(taken, d, f, va, w)
             /\ last' = NoEntry
             /\ UNCHANGED <<contents, ended, lost>>
    BY <1>3 DEF maps_new_frame
  <2> HIDE DEF taken, f
  <2>4. CASE ~can_map(taken, d, va)
    BY <2>1, <2>2, <2>3, <2>4, PanickedKeeps
  <2>5. CASE can_map(taken, d, va)
    <3>1. /\ memory' = map_frame(taken, d, f, va, w)
          /\ last' = NoEntry /\ contents' = contents /\ lost' = lost
      BY <2>3, <2>5
    <3> QED BY <1>1, <2>1, <2>5, <3>1, AllocatedKeeps
  <2> QED BY <2>4, <2>5
<1> QED BY <1>2, <1>3

(* fp unmaps a page of the kernel's directory. *)
LEMMA FreePageKeeps ==
  ASSUME UserPagesInv, command_fp
  PROVE  UserPagesInv'
<1>1. PICK va \in UserPageNos : memory' = unmap_frame(memory, KernelDir, va)
  BY DEF command_fp
<1>2. /\ va \in AllPages /\ KernelDir \in Directories /\ InOrder(memory, lost)
      /\ last' = NoEntry /\ contents' = contents /\ lost' = lost
  BY DEF AllPages, Directories, UserPagesInv, command_fp
<1>3. InOrder(memory', lost')
  BY <1>1, <1>2, UnmapKeeps
<1> QED BY <1>2, <1>3 DEF UserPagesInv

(* sys_clearFFL() loses what is in the list. *)
LEMMA ClearKeeps ==
  ASSUME UserPagesInv, sys_clearFFL
  PROVE  UserPagesInv'
<1> DEFINE n == [memory EXCEPT !.free = <<>>]
           taken == lost \cup ToSet(memory.free)
<1>1. /\ memory' = n /\ lost' = taken /\ last' = NoEntry /\ contents' = contents
      /\ InOrder(memory, lost) /\ memory \in PageMemory
  BY DEF sys_clearFFL, UserPagesInv, InOrder
<1>2. /\ n \in PageMemory /\ n.free = <<>> /\ n.tables = memory.tables
      /\ n.references = memory.references /\ n.entries = memory.entries
  <2>1. <<>> \in Seq(PageFrame)
    OBVIOUS
  <2> QED BY <1>1, <2>1 DEF PageMemory
<1>3. ToSet(<<>>) = {} /\ IsInjective(<<>>)
  BY DEF ToSet, IsInjective
<1>4. ToSet(memory.free) \subseteq PageFrame
  BY <1>1 DEF PageMemory, ToSet
<1> HIDE DEF n, taken
<1>5. \A x \in PageFrame : Maps(n, x) = Maps(memory, x) /\ Tables(n, x) = Tables(memory, x)
  BY <1>2 DEF Maps, Tables
<1>6. Exact(n)
  BY <1>1, <1>2, <1>5 DEF InOrder, Exact
<1>7. /\ IsFiniteSet(n.tables) /\ IsInjective(n.free) /\ taken \subseteq PageFrame
      /\ ToSet(n.free) \cap taken = {}
      /\ \A x \in PageFrame : n.references[x] = 0 <=> x \in ToSet(n.free) \cup taken
  BY <1>1, <1>2, <1>3, <1>4 DEF InOrder, taken
<1>8. \A d \in Directories, va \in AllPages :
        n.entries[d][va].frame = 0 => n.entries[d][va] = Unmapped
  BY <1>1, <1>2 DEF InOrder
<1>9. InOrder(n, taken)
  BY <1>2, <1>6, <1>7, <1>8 DEF InOrder
<1> QED BY <1>1, <1>9 DEF UserPagesInv

LEMMA WriteKeeps ==
  ASSUME UserPagesInv, NEW e \in PageEnvs, program_writes(e)
  PROVE  UserPagesInv'
<1>1. /\ memory' = memory /\ lost' = lost /\ last' = NoEntry
      /\ contents' \in [PageFrame -> {"zero", "dirty"}]
  BY DEF program_writes, UserPagesInv
<1> QED BY <1>1 DEF UserPagesInv

LEMMA UserPagesInitInv == UserPagesInit => UserPagesInv
<1> SUFFICES ASSUME UserPagesInit PROVE UserPagesInv
  OBVIOUS
<1>1. /\ memory.free = [i \in PageFrame |-> i] /\ memory.references = [f \in PageFrame |-> 0]
      /\ memory.tables = {}
      /\ memory.entries = [d \in Directories |-> [va \in AllPages |-> Unmapped]]
      /\ memory = [free |-> memory.free, references |-> memory.references,
                   tables |-> memory.tables, entries |-> memory.entries]
      /\ contents = [f \in PageFrame |-> "dirty"] /\ lost = {} /\ last = NoEntry
  BY DEF UserPagesInit, PageFrame
<1>2. memory.free \in Seq(PageFrame) /\ ToSet(memory.free) = PageFrame /\ IsInjective(memory.free)
  <2>1. memory.free \in Seq(PageFrame)
    BY <1>1, UserPagesAssumption DEF PageFrame
  <2>2. DOMAIN memory.free = PageFrame /\ \A i \in PageFrame : memory.free[i] = i
    BY <1>1
  <2> QED BY <2>1, <2>2 DEF ToSet, IsInjective
<1>3. Unmapped \in Entry /\ Unmapped.frame = 0
  BY UserPagesAssumption DEF Entry, Unmapped
<1>4. memory.references \in [PageFrame -> Nat] /\ memory.tables \in SUBSET PageTable
  BY <1>1
<1>5. memory.entries \in [Directories -> [AllPages -> Entry]]
  BY <1>1, <1>3
<1>6. memory \in PageMemory
  BY <1>1, <1>2, <1>4, <1>5 DEF PageMemory
<1>7. ASSUME NEW f \in PageFrame PROVE Maps(memory, f) = {} /\ Tables(memory, f) = {}
  <2>1. f # 0
    BY DEF PageFrame
  <2>2. \A d \in Directories, va \in AllPages : memory.entries[d][va].frame = 0
    BY <1>1, <1>3
  <2> QED BY <1>1, <2>1, <2>2 DEF Maps, Tables
<1>8. Exact(memory)
  <2>1. ASSUME NEW f \in PageFrame
        PROVE  memory.references[f] = Cardinality(Maps(memory, f)) + Cardinality(Tables(memory, f))
    <3>1. Cardinality(Maps(memory, f)) = 0 /\ Cardinality(Tables(memory, f)) = 0
      BY <1>7, FS_EmptySet
    <3> QED BY <1>1, <3>1
  <2> QED BY <2>1 DEF Exact
<1>9. IsFiniteSet(memory.tables)
  BY <1>1, FS_EmptySet
<1>10. \A d \in Directories, va \in AllPages : memory.entries[d][va] = Unmapped
  BY <1>1
<1>11. \A f \in PageFrame : memory.references[f] = 0
  BY <1>1
<1>12. InOrder(memory, lost)
  BY <1>1, <1>2, <1>6, <1>8, <1>9, <1>10, <1>11 DEF InOrder
<1> QED BY <1>1, <1>12 DEF UserPagesInv

LEMMA UserPagesNextKeeps == UserPagesInv /\ [UserPagesNext]_userPages => UserPagesInv'
<1> SUFFICES ASSUME UserPagesInv, [UserPagesNext]_userPages PROVE UserPagesInv'
  OBVIOUS
<1>1. ASSUME NEW e \in PageEnvs, sys_allocate_page(e) PROVE UserPagesInv'
  BY <1>1, AllocatePageKeeps
<1>2. ASSUME NEW e \in PageEnvs, program_writes(e) PROVE UserPagesInv'
  BY <1>2, WriteKeeps
<1>3. CASE command_ap
  <2>1. PICK va \in UserPageNos : maps_new_frame(KernelDir, va, TRUE)
    BY <1>3 DEF command_ap
  <2> QED BY <2>1, MapsNewKeeps DEF Directories
<1>4. CASE command_allocuserpage
  <2>1. PICK e \in PageEnvs, va \in UserPageNos, rw \in BOOLEAN : maps_new_frame(e, va, rw)
    BY <1>4 DEF command_allocuserpage
  <2> QED BY <2>1, MapsNewKeeps DEF Directories
<1>5. CASE command_fp
  BY <1>5, FreePageKeeps
<1>6. CASE sys_clearFFL
  BY <1>6, ClearKeeps
<1>7. CASE UNCHANGED userPages
  BY <1>7 DEF userPages, UserPagesInv
<1> QED BY <1>1, <1>2, <1>3, <1>4, <1>5, <1>6, <1>7 DEF UserPagesNext

LEMMA UserPagesInvImplies == UserPagesInv => PageFramesAccounted
<1> SUFFICES ASSUME UserPagesInv PROVE PageFramesAccounted
  OBVIOUS
<1>1. InOrder(memory, lost) /\ memory.references \in [PageFrame -> Nat]
  BY DEF UserPagesInv, InOrder, PageMemory
<1>2. \A f : MappedAt(f) = Maps(memory, f)
  BY DEF MappedAt, Maps
<1>3. ReferencesExact
  BY <1>1, <1>2 DEF ReferencesExact, InOrder, Exact, Tables, PageFrame
<1>4. FramesTakenOnce
  <2>1. ASSUME NEW f \in PageFrame
        PROVE  /\ f \in ToSet(memory.free) => memory.references[f] = 0 /\ f \notin lost
               /\ f \notin ToSet(memory.free) /\ f \notin lost => memory.references[f] > 0
    <3>1. memory.references[f] \in Nat
      BY <1>1
    <3>2. /\ memory.references[f] = 0 <=> f \in ToSet(memory.free) \cup lost
          /\ ToSet(memory.free) \cap lost = {}
      BY <1>1 DEF InOrder
    <3> QED BY <3>1, <3>2
  <2> QED BY <1>1, <2>1 DEF FramesTakenOnce, InOrder, PageFrame
<1>5. NewPageIsPrivateAndZero
  <2>1. \A f \in PageFrame : f # 0
    BY DEF PageFrame
  <2> QED BY <1>2, <2>1 DEF NewPageIsPrivateAndZero, UserPagesInv, Private
<1> QED BY <1>3, <1>4, <1>5 DEF PageFramesAccounted
-----------------------------------------------------------------------------
(***************************************************************************)
(* No frame is freed while a page shows it, none stays behind but those    *)
(* that a failed call or sys_clearFFL() took, and the page that            *)
(* __sys_allocate_page() hands out is zero and nobody else's: after any    *)
(* sequence of its calls and of the commands ap, fp and aup, also when     *)
(* memory runs out in the middle of one.                                   *)
(***************************************************************************)
THEOREM PageFramesKept == UserPagesSpec => []PageFramesAccounted
<1>1. UserPagesSpec => []UserPagesInv
  BY UserPagesInitInv, UserPagesNextKeeps, PTL DEF UserPagesSpec
<1> QED BY <1>1, UserPagesInvImplies, PTL
-----------------------------------------------------------------------------
(***************************************************************************)
(* The console.                                                            *)
(***************************************************************************)
ConsoleSpec == ConsoleInit /\ [][ConsoleNext]_console
-----------------------------------------------------------------------------
(***************************************************************************)
(* Scan codes: what a byte does to the modifiers.                          *)
(***************************************************************************)
Held == {"SHIFT", "CTL", "ALT"}

LEMMA ShiftCodes ==
  ASSUME NEW d \in Int
  PROVE  /\ "SHIFT" \in shiftcode(d) <=> d \in {42, 54}
         /\ "CTL" \in shiftcode(d) <=> d \in {29, 157}
         /\ "ALT" \in shiftcode(d) <=> d \in {56, 184}
         /\ "E0ESC" \notin shiftcode(d)
  BY DEF shiftcode

ScanCode(bits, d) == IF "E0ESC" \in bits THEN d + 128 ELSE d

LEMMA ByteMakes ==
  ASSUME NEW bits, NEW d \in 0 .. 127
  PROVE  /\ \A m \in Held : m \in kbd_proc_data(bits, d).bits
                            <=> m \in bits \/ m \in shiftcode(ScanCode(bits, d))
         /\ "E0ESC" \notin kbd_proc_data(bits, d).bits
<1> DEFINE x == ScanCode(bits, d)
           now == (bits \ {"E0ESC"}) \cup shiftcode(x)
           locked == (now \ togglecode(x)) \cup (togglecode(x) \ now)
<1>1. kbd_proc_data(bits, d).bits = locked
  BY DEF kbd_proc_data, E0, ScanCode
<1>2. x \in Int /\ "E0ESC" \notin shiftcode(x)
  BY ShiftCodes DEF ScanCode
<1>3. togglecode(x) \subseteq {"CAPSLOCK"}
  BY DEF togglecode
<1>4. \A m \in Held : m # "CAPSLOCK" /\ m # "E0ESC"
  BY DEF Held
<1> HIDE DEF x
<1> QED BY <1>1, <1>2, <1>3, <1>4 DEF x

LEMMA ByteBreaks ==
  ASSUME NEW bits, NEW d \in 128 .. 255, d # E0
  PROVE  /\ \A m \in Held : m \in kbd_proc_data(bits, d).bits
                            <=> m \in bits /\ m \notin shiftcode(ScanCode(bits, d - 128))
         /\ "E0ESC" \notin kbd_proc_data(bits, d).bits
<1> DEFINE x == ScanCode(bits, d - 128)
<1>1. kbd_proc_data(bits, d).bits = bits \ (shiftcode(x) \cup {"E0ESC"})
  BY DEF kbd_proc_data, ScanCode
<1>2. \A m \in Held : m # "E0ESC"
  BY DEF Held
<1> HIDE DEF x
<1> QED BY <1>1, <1>2 DEF x

LEMMA ByteEscapes ==
  ASSUME NEW bits
  PROVE  kbd_proc_data(bits, E0).bits = bits \cup {"E0ESC"}
  BY DEF kbd_proc_data
-----------------------------------------------------------------------------
(***************************************************************************)
(* The modifiers that the keys held down stand for, and the modifiers      *)
(* before and after each of the bytes that kbd_intr() has yet to take.     *)
(***************************************************************************)
AsHeld(bits, down) ==
  /\ "E0ESC" \notin bits
  /\ "SHIFT" \in bits => down \cap {"LSHIFT", "RSHIFT"} # {}
  /\ "CTL" \in bits => down \cap {"LCTL", "RCTL"} # {}
  /\ "ALT" \in bits => down \cap {"LALT", "RALT"} # {}

Consumed(f, bits, bytes) ==
  /\ f[0] = bits
  /\ \A i \in 1 .. Len(bytes) : f[i] = kbd_proc_data(f[i - 1], bytes[i]).bits

Leads(bits, bytes, down) == \E f : Consumed(f, bits, bytes) /\ AsHeld(f[Len(bytes)], down)

LEMMA OneByteLeads ==
  ASSUME NEW bits, NEW b, NEW down, AsHeld(kbd_proc_data(bits, b).bits, down)
  PROVE  Leads(bits, <<b>>, down)
<1> DEFINE f == [i \in 0 .. 1 |-> IF i = 0 THEN bits ELSE kbd_proc_data(bits, b).bits]
<1>1. f[0] = bits /\ f[1] = kbd_proc_data(bits, b).bits /\ Len(<<b>>) = 1 /\ <<b>>[1] = b
  OBVIOUS
<1> HIDE DEF f
<1>2. Consumed(f, bits, <<b>>) /\ AsHeld(f[Len(<<b>>)], down)
  BY <1>1 DEF Consumed
<1> QED BY <1>2 DEF Leads

LEMMA TwoBytesLead ==
  ASSUME NEW bits, NEW a, NEW b, NEW down,
         AsHeld(kbd_proc_data(kbd_proc_data(bits, a).bits, b).bits, down)
  PROVE  Leads(bits, <<a, b>>, down)
<1> DEFINE x == kbd_proc_data(bits, a).bits
           y == kbd_proc_data(x, b).bits
           f == [i \in 0 .. 2 |-> IF i = 0 THEN bits ELSE IF i = 1 THEN x ELSE y]
<1>1. f[0] = bits /\ f[1] = x /\ f[2] = y /\ Len(<<a, b>>) = 2 /\ <<a, b>>[1] = a /\ <<a, b>>[2] = b
  OBVIOUS
<1> HIDE DEF f
<1>2. ASSUME NEW i \in 1 .. 2 PROVE f[i] = kbd_proc_data(f[i - 1], <<a, b>>[i]).bits
  <2>1. CASE i = 1
    BY <1>1, <2>1
  <2>2. CASE i = 2
    BY <1>1, <2>2
  <2> QED BY <2>1, <2>2
<1>3. Consumed(f, bits, <<a, b>>) /\ AsHeld(f[Len(<<a, b>>)], down)
  BY <1>1, <1>2 DEF Consumed
<1> QED BY <1>3 DEF Leads

(* A key that goes down or comes up, with or without the escape code. *)
LEMMA MakeLeads ==
  ASSUME NEW bits, NEW d \in 0 .. 127, NEW down, AsHeld(bits, down), NEW k,
         "SHIFT" \in shiftcode(d) => k \in {"LSHIFT", "RSHIFT"},
         "CTL" \in shiftcode(d) => k \in {"LCTL", "RCTL"},
         "ALT" \in shiftcode(d) => k \in {"LALT", "RALT"}
  PROVE  Leads(bits, <<d>>, down \cup {k})
<1>1. "E0ESC" \notin bits
  BY DEF AsHeld
<1> DEFINE y == kbd_proc_data(bits, d).bits
<1>2. /\ \A m \in Held : m \in y <=> m \in bits \/ m \in shiftcode(d)
      /\ "E0ESC" \notin y
  BY <1>1, ByteMakes DEF ScanCode
<1> HIDE DEF y
<1>3. AsHeld(y, down \cup {k})
  BY <1>2 DEF AsHeld, Held
<1> QED BY <1>3, OneByteLeads DEF y

LEMMA GreyMakeLeads ==
  ASSUME NEW bits, NEW d \in 0 .. 127, NEW down, AsHeld(bits, down), NEW k,
         "SHIFT" \in shiftcode(d + 128) => k \in {"LSHIFT", "RSHIFT"},
         "CTL" \in shiftcode(d + 128) => k \in {"LCTL", "RCTL"},
         "ALT" \in shiftcode(d + 128) => k \in {"LALT", "RALT"}
  PROVE  Leads(bits, <<E0, d>>, down \cup {k})
<1> DEFINE x == kbd_proc_data(bits, E0).bits
           y == kbd_proc_data(x, d).bits
<1>1. x = bits \cup {"E0ESC"}
  BY ByteEscapes
<1> HIDE DEF x
<1>2. /\ \A m \in Held : m \in y <=> m \in x \/ m \in shiftcode(d + 128)
      /\ "E0ESC" \notin y
  <2>1. ScanCode(x, d) = d + 128
    BY <1>1 DEF ScanCode
  <2> QED BY <2>1, ByteMakes
<1> HIDE DEF y
<1>3. AsHeld(y, down \cup {k})
  BY <1>1, <1>2 DEF AsHeld, Held
<1> QED BY <1>3, TwoBytesLead DEF x, y

LEMMA BreakLeads ==
  ASSUME NEW bits, NEW d \in 128 .. 255, d # E0, NEW down, AsHeld(bits, down), NEW k,
         k \in {"LSHIFT", "RSHIFT"} => "SHIFT" \in shiftcode(d - 128),
         k \in {"LCTL", "RCTL"} => "CTL" \in shiftcode(d - 128),
         k \in {"LALT", "RALT"} => "ALT" \in shiftcode(d - 128)
  PROVE  Leads(bits, <<d>>, down \ {k})
<1>1. "E0ESC" \notin bits
  BY DEF AsHeld
<1> DEFINE y == kbd_proc_data(bits, d).bits
<1>2. /\ \A m \in Held : m \in y <=> m \in bits /\ m \notin shiftcode(d - 128)
      /\ "E0ESC" \notin y
  <2>1. ScanCode(bits, d - 128) = d - 128
    BY <1>1 DEF ScanCode
  <2> QED BY <2>1, ByteBreaks
<1> HIDE DEF y
<1>3. AsHeld(y, down \ {k})
  BY <1>2 DEF AsHeld, Held
<1> QED BY <1>3, OneByteLeads DEF y

LEMMA GreyBreakLeads ==
  ASSUME NEW bits, NEW d \in 128 .. 255, d # E0, NEW down, AsHeld(bits, down), NEW k,
         k \in {"LSHIFT", "RSHIFT"} => "SHIFT" \in shiftcode(d),
         k \in {"LCTL", "RCTL"} => "CTL" \in shiftcode(d),
         k \in {"LALT", "RALT"} => "ALT" \in shiftcode(d)
  PROVE  Leads(bits, <<E0, d>>, down \ {k})
<1> DEFINE x == kbd_proc_data(bits, E0).bits
           y == kbd_proc_data(x, d).bits
<1>1. x = bits \cup {"E0ESC"}
  BY ByteEscapes
<1> HIDE DEF x
<1>2. /\ \A m \in Held : m \in y <=> m \in x /\ m \notin shiftcode(d)
      /\ "E0ESC" \notin y
  <2>1. ScanCode(x, d - 128) = d
    BY <1>1 DEF ScanCode
  <2> QED BY <2>1, ByteBreaks
<1> HIDE DEF y
<1>3. AsHeld(y, down \ {k})
  BY <1>1, <1>2 DEF AsHeld, Held
<1> QED BY <1>3, TwoBytesLead DEF x, y

LEMMA PressLeads ==
  ASSUME NEW k \in DOMAIN Key, NEW bits, NEW down, AsHeld(bits, down)
  PROVE  Leads(bits, Key[k], down \cup {k})
<1>1. k \in {"LSHIFT", "RSHIFT", "LCTL", "RCTL", "LALT", "RALT", "CAPS", "A", "BACKSPACE",
            "ENTER", "DELETE"}
  BY DEF Key
<1>2. CASE k = "LSHIFT"
  <2>1. Key[k] = <<42>>
    BY <1>2 DEF Key
  <2>2. /\ 42 \in 0 .. 127
        /\ "SHIFT" \in shiftcode(42) => k \in {"LSHIFT", "RSHIFT"}
        /\ "CTL" \in shiftcode(42) => k \in {"LCTL", "RCTL"}
        /\ "ALT" \in shiftcode(42) => k \in {"LALT", "RALT"}
    BY <1>2, ShiftCodes
  <2>3. Leads(bits, <<42>>, down \cup {k})
    BY <2>2, MakeLeads
  <2> QED BY <2>1, <2>3
<1>3. CASE k = "RSHIFT"
  <2>1. Key[k] = <<54>>
    BY <1>3 DEF Key
  <2>2. /\ 54 \in 0 .. 127
        /\ "SHIFT" \in shiftcode(54) => k \in {"LSHIFT", "RSHIFT"}
        /\ "CTL" \in shiftcode(54) => k \in {"LCTL", "RCTL"}
        /\ "ALT" \in shiftcode(54) => k \in {"LALT", "RALT"}
    BY <1>3, ShiftCodes
  <2>3. Leads(bits, <<54>>, down \cup {k})
    BY <2>2, MakeLeads
  <2> QED BY <2>1, <2>3
<1>4. CASE k = "LCTL"
  <2>1. Key[k] = <<29>>
    BY <1>4 DEF Key
  <2>2. /\ 29 \in 0 .. 127
        /\ "SHIFT" \in shiftcode(29) => k \in {"LSHIFT", "RSHIFT"}
        /\ "CTL" \in shiftcode(29) => k \in {"LCTL", "RCTL"}
        /\ "ALT" \in shiftcode(29) => k \in {"LALT", "RALT"}
    BY <1>4, ShiftCodes
  <2>3. Leads(bits, <<29>>, down \cup {k})
    BY <2>2, MakeLeads
  <2> QED BY <2>1, <2>3
<1>5. CASE k = "RCTL"
  <2>1. Key[k] = <<E0, 29>>
    BY <1>5 DEF Key
  <2>2. /\ 29 \in 0 .. 127
        /\ "SHIFT" \in shiftcode(29 + 128) => k \in {"LSHIFT", "RSHIFT"}
        /\ "CTL" \in shiftcode(29 + 128) => k \in {"LCTL", "RCTL"}
        /\ "ALT" \in shiftcode(29 + 128) => k \in {"LALT", "RALT"}
    BY <1>5, ShiftCodes
  <2>3. Leads(bits, <<E0, 29>>, down \cup {k})
    BY <2>2, GreyMakeLeads
  <2> QED BY <2>1, <2>3
<1>6. CASE k = "LALT"
  <2>1. Key[k] = <<56>>
    BY <1>6 DEF Key
  <2>2. /\ 56 \in 0 .. 127
        /\ "SHIFT" \in shiftcode(56) => k \in {"LSHIFT", "RSHIFT"}
        /\ "CTL" \in shiftcode(56) => k \in {"LCTL", "RCTL"}
        /\ "ALT" \in shiftcode(56) => k \in {"LALT", "RALT"}
    BY <1>6, ShiftCodes
  <2>3. Leads(bits, <<56>>, down \cup {k})
    BY <2>2, MakeLeads
  <2> QED BY <2>1, <2>3
<1>7. CASE k = "RALT"
  <2>1. Key[k] = <<E0, 56>>
    BY <1>7 DEF Key
  <2>2. /\ 56 \in 0 .. 127
        /\ "SHIFT" \in shiftcode(56 + 128) => k \in {"LSHIFT", "RSHIFT"}
        /\ "CTL" \in shiftcode(56 + 128) => k \in {"LCTL", "RCTL"}
        /\ "ALT" \in shiftcode(56 + 128) => k \in {"LALT", "RALT"}
    BY <1>7, ShiftCodes
  <2>3. Leads(bits, <<E0, 56>>, down \cup {k})
    BY <2>2, GreyMakeLeads
  <2> QED BY <2>1, <2>3
<1>8. CASE k = "CAPS"
  <2>1. Key[k] = <<58>>
    BY <1>8 DEF Key
  <2>2. /\ 58 \in 0 .. 127
        /\ "SHIFT" \in shiftcode(58) => k \in {"LSHIFT", "RSHIFT"}
        /\ "CTL" \in shiftcode(58) => k \in {"LCTL", "RCTL"}
        /\ "ALT" \in shiftcode(58) => k \in {"LALT", "RALT"}
    BY <1>8, ShiftCodes
  <2>3. Leads(bits, <<58>>, down \cup {k})
    BY <2>2, MakeLeads
  <2> QED BY <2>1, <2>3
<1>9. CASE k = "A"
  <2>1. Key[k] = <<30>>
    BY <1>9 DEF Key
  <2>2. /\ 30 \in 0 .. 127
        /\ "SHIFT" \in shiftcode(30) => k \in {"LSHIFT", "RSHIFT"}
        /\ "CTL" \in shiftcode(30) => k \in {"LCTL", "RCTL"}
        /\ "ALT" \in shiftcode(30) => k \in {"LALT", "RALT"}
    BY <1>9, ShiftCodes
  <2>3. Leads(bits, <<30>>, down \cup {k})
    BY <2>2, MakeLeads
  <2> QED BY <2>1, <2>3
<1>10. CASE k = "BACKSPACE"
  <2>1. Key[k] = <<14>>
    BY <1>10 DEF Key
  <2>2. /\ 14 \in 0 .. 127
        /\ "SHIFT" \in shiftcode(14) => k \in {"LSHIFT", "RSHIFT"}
        /\ "CTL" \in shiftcode(14) => k \in {"LCTL", "RCTL"}
        /\ "ALT" \in shiftcode(14) => k \in {"LALT", "RALT"}
    BY <1>10, ShiftCodes
  <2>3. Leads(bits, <<14>>, down \cup {k})
    BY <2>2, MakeLeads
  <2> QED BY <2>1, <2>3
<1>11. CASE k = "ENTER"
  <2>1. Key[k] = <<28>>
    BY <1>11 DEF Key
  <2>2. /\ 28 \in 0 .. 127
        /\ "SHIFT" \in shiftcode(28) => k \in {"LSHIFT", "RSHIFT"}
        /\ "CTL" \in shiftcode(28) => k \in {"LCTL", "RCTL"}
        /\ "ALT" \in shiftcode(28) => k \in {"LALT", "RALT"}
    BY <1>11, ShiftCodes
  <2>3. Leads(bits, <<28>>, down \cup {k})
    BY <2>2, MakeLeads
  <2> QED BY <2>1, <2>3
<1>12. CASE k = "DELETE"
  <2>1. Key[k] = <<E0, 83>>
    BY <1>12 DEF Key
  <2>2. /\ 83 \in 0 .. 127
        /\ "SHIFT" \in shiftcode(83 + 128) => k \in {"LSHIFT", "RSHIFT"}
        /\ "CTL" \in shiftcode(83 + 128) => k \in {"LCTL", "RCTL"}
        /\ "ALT" \in shiftcode(83 + 128) => k \in {"LALT", "RALT"}
    BY <1>12, ShiftCodes
  <2>3. Leads(bits, <<E0, 83>>, down \cup {k})
    BY <2>2, GreyMakeLeads
  <2> QED BY <2>1, <2>3
<1> QED BY <1>1, <1>2, <1>3, <1>4, <1>5, <1>6, <1>7, <1>8, <1>9, <1>10, <1>11, <1>12

LEMMA CodeReleased ==
  ASSUME NEW d \in Int
  PROVE  /\ released(<<d>>) = <<d + 128>>
         /\ released(<<E0, d>>) = <<E0, d + 128>>
  BY DEF released

LEMMA ReleaseLeads ==
  ASSUME NEW k \in DOMAIN Key, NEW bits, NEW down, AsHeld(bits, down)
  PROVE  Leads(bits, released(Key[k]), down \ {k})
<1>1. k \in {"LSHIFT", "RSHIFT", "LCTL", "RCTL", "LALT", "RALT", "CAPS", "A", "BACKSPACE",
            "ENTER", "DELETE"}
  BY DEF Key
<1>2. CASE k = "LSHIFT"
  <2>1. released(Key[k]) = <<170>>
    <3>1. Key[k] = <<42>> /\ 42 + 128 = 170 /\ 42 \in Int
      BY <1>2 DEF Key
    <3>2. released(<<42>>) = <<42 + 128>>
      BY <3>1, CodeReleased
    <3> QED BY <3>1, <3>2
  <2>2. /\ 170 \in 128 .. 255 /\ 170 # E0
        /\ k \in {"LSHIFT", "RSHIFT"} => "SHIFT" \in shiftcode(170 - 128)
        /\ k \in {"LCTL", "RCTL"} => "CTL" \in shiftcode(170 - 128)
        /\ k \in {"LALT", "RALT"} => "ALT" \in shiftcode(170 - 128)
    BY <1>2, ShiftCodes DEF E0
  <2>3. Leads(bits, <<170>>, down \ {k})
    BY <2>2, BreakLeads
  <2> QED BY <2>1, <2>3
<1>3. CASE k = "RSHIFT"
  <2>1. released(Key[k]) = <<182>>
    <3>1. Key[k] = <<54>> /\ 54 + 128 = 182 /\ 54 \in Int
      BY <1>3 DEF Key
    <3>2. released(<<54>>) = <<54 + 128>>
      BY <3>1, CodeReleased
    <3> QED BY <3>1, <3>2
  <2>2. /\ 182 \in 128 .. 255 /\ 182 # E0
        /\ k \in {"LSHIFT", "RSHIFT"} => "SHIFT" \in shiftcode(182 - 128)
        /\ k \in {"LCTL", "RCTL"} => "CTL" \in shiftcode(182 - 128)
        /\ k \in {"LALT", "RALT"} => "ALT" \in shiftcode(182 - 128)
    BY <1>3, ShiftCodes DEF E0
  <2>3. Leads(bits, <<182>>, down \ {k})
    BY <2>2, BreakLeads
  <2> QED BY <2>1, <2>3
<1>4. CASE k = "LCTL"
  <2>1. released(Key[k]) = <<157>>
    <3>1. Key[k] = <<29>> /\ 29 + 128 = 157 /\ 29 \in Int
      BY <1>4 DEF Key
    <3>2. released(<<29>>) = <<29 + 128>>
      BY <3>1, CodeReleased
    <3> QED BY <3>1, <3>2
  <2>2. /\ 157 \in 128 .. 255 /\ 157 # E0
        /\ k \in {"LSHIFT", "RSHIFT"} => "SHIFT" \in shiftcode(157 - 128)
        /\ k \in {"LCTL", "RCTL"} => "CTL" \in shiftcode(157 - 128)
        /\ k \in {"LALT", "RALT"} => "ALT" \in shiftcode(157 - 128)
    BY <1>4, ShiftCodes DEF E0
  <2>3. Leads(bits, <<157>>, down \ {k})
    BY <2>2, BreakLeads
  <2> QED BY <2>1, <2>3
<1>5. CASE k = "RCTL"
  <2>1. released(Key[k]) = <<E0, 157>>
    <3>1. Key[k] = <<E0, 29>> /\ 29 + 128 = 157 /\ 29 \in Int
      BY <1>5 DEF Key
    <3>2. released(<<E0, 29>>) = <<E0, 29 + 128>>
      BY <3>1, CodeReleased
    <3> QED BY <3>1, <3>2
  <2>2. /\ 157 \in 128 .. 255 /\ 157 # E0
        /\ k \in {"LSHIFT", "RSHIFT"} => "SHIFT" \in shiftcode(157)
        /\ k \in {"LCTL", "RCTL"} => "CTL" \in shiftcode(157)
        /\ k \in {"LALT", "RALT"} => "ALT" \in shiftcode(157)
    BY <1>5, ShiftCodes DEF E0
  <2>3. Leads(bits, <<E0, 157>>, down \ {k})
    BY <2>2, GreyBreakLeads
  <2> QED BY <2>1, <2>3
<1>6. CASE k = "LALT"
  <2>1. released(Key[k]) = <<184>>
    <3>1. Key[k] = <<56>> /\ 56 + 128 = 184 /\ 56 \in Int
      BY <1>6 DEF Key
    <3>2. released(<<56>>) = <<56 + 128>>
      BY <3>1, CodeReleased
    <3> QED BY <3>1, <3>2
  <2>2. /\ 184 \in 128 .. 255 /\ 184 # E0
        /\ k \in {"LSHIFT", "RSHIFT"} => "SHIFT" \in shiftcode(184 - 128)
        /\ k \in {"LCTL", "RCTL"} => "CTL" \in shiftcode(184 - 128)
        /\ k \in {"LALT", "RALT"} => "ALT" \in shiftcode(184 - 128)
    BY <1>6, ShiftCodes DEF E0
  <2>3. Leads(bits, <<184>>, down \ {k})
    BY <2>2, BreakLeads
  <2> QED BY <2>1, <2>3
<1>7. CASE k = "RALT"
  <2>1. released(Key[k]) = <<E0, 184>>
    <3>1. Key[k] = <<E0, 56>> /\ 56 + 128 = 184 /\ 56 \in Int
      BY <1>7 DEF Key
    <3>2. released(<<E0, 56>>) = <<E0, 56 + 128>>
      BY <3>1, CodeReleased
    <3> QED BY <3>1, <3>2
  <2>2. /\ 184 \in 128 .. 255 /\ 184 # E0
        /\ k \in {"LSHIFT", "RSHIFT"} => "SHIFT" \in shiftcode(184)
        /\ k \in {"LCTL", "RCTL"} => "CTL" \in shiftcode(184)
        /\ k \in {"LALT", "RALT"} => "ALT" \in shiftcode(184)
    BY <1>7, ShiftCodes DEF E0
  <2>3. Leads(bits, <<E0, 184>>, down \ {k})
    BY <2>2, GreyBreakLeads
  <2> QED BY <2>1, <2>3
<1>8. CASE k = "CAPS"
  <2>1. released(Key[k]) = <<186>>
    <3>1. Key[k] = <<58>> /\ 58 + 128 = 186 /\ 58 \in Int
      BY <1>8 DEF Key
    <3>2. released(<<58>>) = <<58 + 128>>
      BY <3>1, CodeReleased
    <3> QED BY <3>1, <3>2
  <2>2. /\ 186 \in 128 .. 255 /\ 186 # E0
        /\ k \in {"LSHIFT", "RSHIFT"} => "SHIFT" \in shiftcode(186 - 128)
        /\ k \in {"LCTL", "RCTL"} => "CTL" \in shiftcode(186 - 128)
        /\ k \in {"LALT", "RALT"} => "ALT" \in shiftcode(186 - 128)
    BY <1>8, ShiftCodes DEF E0
  <2>3. Leads(bits, <<186>>, down \ {k})
    BY <2>2, BreakLeads
  <2> QED BY <2>1, <2>3
<1>9. CASE k = "A"
  <2>1. released(Key[k]) = <<158>>
    <3>1. Key[k] = <<30>> /\ 30 + 128 = 158 /\ 30 \in Int
      BY <1>9 DEF Key
    <3>2. released(<<30>>) = <<30 + 128>>
      BY <3>1, CodeReleased
    <3> QED BY <3>1, <3>2
  <2>2. /\ 158 \in 128 .. 255 /\ 158 # E0
        /\ k \in {"LSHIFT", "RSHIFT"} => "SHIFT" \in shiftcode(158 - 128)
        /\ k \in {"LCTL", "RCTL"} => "CTL" \in shiftcode(158 - 128)
        /\ k \in {"LALT", "RALT"} => "ALT" \in shiftcode(158 - 128)
    BY <1>9, ShiftCodes DEF E0
  <2>3. Leads(bits, <<158>>, down \ {k})
    BY <2>2, BreakLeads
  <2> QED BY <2>1, <2>3
<1>10. CASE k = "BACKSPACE"
  <2>1. released(Key[k]) = <<142>>
    <3>1. Key[k] = <<14>> /\ 14 + 128 = 142 /\ 14 \in Int
      BY <1>10 DEF Key
    <3>2. released(<<14>>) = <<14 + 128>>
      BY <3>1, CodeReleased
    <3> QED BY <3>1, <3>2
  <2>2. /\ 142 \in 128 .. 255 /\ 142 # E0
        /\ k \in {"LSHIFT", "RSHIFT"} => "SHIFT" \in shiftcode(142 - 128)
        /\ k \in {"LCTL", "RCTL"} => "CTL" \in shiftcode(142 - 128)
        /\ k \in {"LALT", "RALT"} => "ALT" \in shiftcode(142 - 128)
    BY <1>10, ShiftCodes DEF E0
  <2>3. Leads(bits, <<142>>, down \ {k})
    BY <2>2, BreakLeads
  <2> QED BY <2>1, <2>3
<1>11. CASE k = "ENTER"
  <2>1. released(Key[k]) = <<156>>
    <3>1. Key[k] = <<28>> /\ 28 + 128 = 156 /\ 28 \in Int
      BY <1>11 DEF Key
    <3>2. released(<<28>>) = <<28 + 128>>
      BY <3>1, CodeReleased
    <3> QED BY <3>1, <3>2
  <2>2. /\ 156 \in 128 .. 255 /\ 156 # E0
        /\ k \in {"LSHIFT", "RSHIFT"} => "SHIFT" \in shiftcode(156 - 128)
        /\ k \in {"LCTL", "RCTL"} => "CTL" \in shiftcode(156 - 128)
        /\ k \in {"LALT", "RALT"} => "ALT" \in shiftcode(156 - 128)
    BY <1>11, ShiftCodes DEF E0
  <2>3. Leads(bits, <<156>>, down \ {k})
    BY <2>2, BreakLeads
  <2> QED BY <2>1, <2>3
<1>12. CASE k = "DELETE"
  <2>1. released(Key[k]) = <<E0, 211>>
    <3>1. Key[k] = <<E0, 83>> /\ 83 + 128 = 211 /\ 83 \in Int
      BY <1>12 DEF Key
    <3>2. released(<<E0, 83>>) = <<E0, 83 + 128>>
      BY <3>1, CodeReleased
    <3> QED BY <3>1, <3>2
  <2>2. /\ 211 \in 128 .. 255 /\ 211 # E0
        /\ k \in {"LSHIFT", "RSHIFT"} => "SHIFT" \in shiftcode(211)
        /\ k \in {"LCTL", "RCTL"} => "CTL" \in shiftcode(211)
        /\ k \in {"LALT", "RALT"} => "ALT" \in shiftcode(211)
    BY <1>12, ShiftCodes DEF E0
  <2>3. Leads(bits, <<E0, 211>>, down \ {k})
    BY <2>2, GreyBreakLeads
  <2> QED BY <2>1, <2>3
<1> QED BY <1>1, <1>2, <1>3, <1>4, <1>5, <1>6, <1>7, <1>8, <1>9, <1>10, <1>11, <1>12
-----------------------------------------------------------------------------
(***************************************************************************)
(* Bytes are put behind the others and taken from the front.               *)
(***************************************************************************)
LEMMA SendLeads ==
  ASSUME NEW bits, NEW port \in Seq(Int), NEW down, Leads(bits, port, down),
         NEW bytes \in Seq(Int), NEW later,
         \A b : AsHeld(b, down) => Leads(b, bytes, later)
  PROVE  Leads(bits, port \o bytes, later)
<1> DEFINE n == Len(port)
           p == Len(bytes)
           all == port \o bytes
<1>1. PICK f : Consumed(f, bits, port) /\ AsHeld(f[n], down)
  BY DEF Leads
<1>2. PICK g : Consumed(g, f[n], bytes) /\ AsHeld(g[p], later)
  BY <1>1 DEF Leads
<1>3. /\ n \in Nat /\ p \in Nat /\ Len(all) = n + p
      /\ \A i \in 1 .. n : all[i] = port[i]
      /\ \A i \in n + 1 .. n + p : all[i] = bytes[i - n]
  OBVIOUS
<1> DEFINE h == [i \in 0 .. n + p |-> IF i <= n THEN f[i] ELSE g[i - n]]
<1> HIDE DEF all, n, p
<1>4. h[0] = bits
  BY <1>1, <1>3 DEF Consumed
<1>5. ASSUME NEW i \in 1 .. n + p PROVE h[i] = kbd_proc_data(h[i - 1], all[i]).bits
  <2>1. CASE i <= n
    <3>1. i \in 1 .. n /\ i - 1 <= n /\ i - 1 \in 0 .. n + p /\ i \in 0 .. n + p
      BY <1>3, <2>1
    <3>2. f[i] = kbd_proc_data(f[i - 1], port[i]).bits
      BY <1>1, <3>1 DEF Consumed, n
    <3> QED BY <1>3, <2>1, <3>1, <3>2
  <2>2. CASE i > n
    <3> DEFINE j == i - n
    <3>1. j \in 1 .. p /\ i \in n + 1 .. n + p /\ i - 1 \in 0 .. n + p /\ i \in 0 .. n + p
      BY <1>3, <2>2
    <3>2. g[j] = kbd_proc_data(g[j - 1], bytes[j]).bits
      BY <1>2, <3>1 DEF Consumed, p
    <3>3. h[i] = g[j]
      BY <1>3, <2>2, <3>1
    <3>4. h[i - 1] = g[j - 1]
      <4>1. CASE i - 1 = n
        BY <1>2, <1>3, <3>1, <4>1 DEF Consumed
      <4>2. CASE i - 1 # n
        <5>1. ~(i - 1 <= n) /\ i - 1 - n = j - 1
          BY <1>3, <2>2, <4>2
        <5> QED BY <3>1, <5>1
      <4> QED BY <4>1, <4>2
    <3>5. all[i] = bytes[j]
      BY <1>3, <3>1
    <3> HIDE DEF h, j
    <3> QED BY <3>2, <3>3, <3>4, <3>5
  <2> QED BY <1>3, <2>1, <2>2
<1>6. AsHeld(h[n + p], later)
  <2>1. h[n + p] = g[p]
    <3>1. CASE p = 0
      BY <1>2, <1>3, <3>1 DEF Consumed
    <3>2. CASE p # 0
      <4>1. ~(n + p <= n) /\ n + p - n = p /\ n + p \in 0 .. n + p
        BY <1>3, <3>2
      <4>2. h[n + p] = g[(n + p) - n]
        BY <4>1
      <4>3. (n + p) - n = p
        BY <1>3
      <4> HIDE DEF h
      <4> QED BY <4>2, <4>3
    <3> QED BY <3>1, <3>2
  <2> HIDE DEF h
  <2> QED BY <1>2, <2>1
<1> HIDE DEF h
<1>7. Consumed(h, bits, all)
  BY <1>3, <1>4, <1>5 DEF Consumed
<1>8. Leads(bits, all, later)
  BY <1>3, <1>6, <1>7 DEF Leads
<1> QED BY <1>8 DEF all

LEMMA TakeLeads ==
  ASSUME NEW bits, NEW port \in Seq(Int), port # <<>>, NEW down, Leads(bits, port, down)
  PROVE  Leads(kbd_proc_data(bits, Head(port)).bits, Tail(port), down)
<1> DEFINE n == Len(port)
           rest == Tail(port)
           after == kbd_proc_data(bits, Head(port)).bits
<1>1. PICK f : Consumed(f, bits, port) /\ AsHeld(f[n], down)
  BY DEF Leads
<1>2. /\ n \in Nat \ {0} /\ Len(rest) = n - 1 /\ Head(port) = port[1]
      /\ \A i \in 1 .. n - 1 : rest[i] = port[i + 1]
  OBVIOUS
<1> DEFINE h == [i \in 0 .. n - 1 |-> f[i + 1]]
<1>3. \A i \in 1 .. n : f[i] = kbd_proc_data(f[i - 1], port[i]).bits
  BY <1>1 DEF Consumed
<1>4. f[0] = bits
  BY <1>1 DEF Consumed
<1> HIDE DEF n, rest
<1>5. h[0] = after
  <2>1. f[1] = kbd_proc_data(f[1 - 1], port[1]).bits
    <3>1. 1 \in 1 .. n
      BY <1>2
    <3> QED BY <1>3, <3>1, Zenon
  <2>2. 1 - 1 = 0 /\ 0 + 1 = 1 /\ 0 \in 0 .. n - 1
    BY <1>2
  <2> QED BY <1>2, <1>4, <2>1, <2>2
<1>6. ASSUME NEW i \in 1 .. n - 1 PROVE h[i] = kbd_proc_data(h[i - 1], rest[i]).bits
  <2>1. f[i + 1] = kbd_proc_data(f[(i + 1) - 1], port[i + 1]).bits
    <3>1. i + 1 \in 1 .. n
      BY <1>2
    <3> QED BY <1>3, <3>1, Zenon
  <2>2. (i + 1) - 1 = i /\ (i - 1) + 1 = i /\ i - 1 \in 0 .. n - 1 /\ i \in 0 .. n - 1
    BY <1>2
  <2> QED BY <1>2, <2>1, <2>2
<1>7. h[n - 1] = f[n]
  BY <1>2
<1> HIDE DEF h, after
<1>8. Consumed(h, after, rest) /\ AsHeld(h[Len(rest)], down)
  BY <1>1, <1>2, <1>5, <1>6, <1>7 DEF Consumed
<1>9. Leads(after, rest, down)
  BY <1>8 DEF Leads
<1> QED BY <1>9 DEF after, rest
-----------------------------------------------------------------------------
(***************************************************************************)
(* The ring.                                                               *)
(***************************************************************************)
Pos == 0 .. CONSBUFSIZE - 1

Wrap(a) == a % CONSBUFSIZE

LEMMA RingArithmetic ==
  ASSUME NEW r \in Pos, NEW w \in Pos, NEW k \in Pos
  PROVE  /\ Wrap(w - r) = IF r <= w THEN w - r ELSE w - r + CONSBUFSIZE
         /\ Wrap(r + k) = IF r + k < CONSBUFSIZE THEN r + k ELSE r + k - CONSBUFSIZE
<1> DEFINE c == CONSBUFSIZE
<1>1. c \in Nat \ {0}
  BY ConsoleAssumption
<1>2. ASSUME NEW x \in 0 .. c - 1 PROVE x % c = x /\ (x + c) % c = x /\ (x - c) % c = x
  <2> HIDE DEF c
  <2>1. x % c = x
    BY <1>1, <1>2
  <2>2. (x + c) % c = x
    BY <1>1, <1>2
  <2>3. (x - c) % c = x
    BY <1>1, <1>2
  <2> QED BY <2>1, <2>2, <2>3
<1>3. (w - r) % c = IF r <= w THEN w - r ELSE w - r + c
  <2>1. CASE r <= w
    <3>1. w - r \in 0 .. c - 1
      BY <1>1, <2>1 DEF Pos
    <3> HIDE DEF c
    <3> QED BY <1>2, <2>1, <3>1
  <2>2. CASE r > w
    <3>1. w - r + c \in 0 .. c - 1 /\ (w - r + c) - c = w - r
      BY <1>1, <2>2 DEF Pos
    <3> HIDE DEF c
    <3>2. ((w - r + c) - c) % c = w - r + c
      BY <1>2, <3>1
    <3> QED BY <2>2, <3>1, <3>2 DEF Pos
  <2> QED BY <1>1, <2>1, <2>2 DEF Pos
<1>4. (r + k) % c = IF r + k < c THEN r + k ELSE r + k - c
  <2>1. CASE r + k < c
    <3>1. r + k \in 0 .. c - 1
      BY <1>1, <2>1 DEF Pos
    <3> HIDE DEF c
    <3> QED BY <1>2, <2>1, <3>1
  <2>2. CASE ~(r + k < c)
    <3>1. r + k - c \in 0 .. c - 1 /\ (r + k - c) + c = r + k
      BY <1>1, <2>2 DEF Pos
    <3> HIDE DEF c
    <3>2. ((r + k - c) + c) % c = r + k - c
      BY <1>2, <3>1
    <3> QED BY <2>2, <3>1, <3>2
  <2> QED BY <2>1, <2>2
<1> QED BY <1>3, <1>4 DEF Wrap

Ring(c, q) ==
  /\ Len(q) < CONSBUFSIZE
  /\ Len(q) = Wrap(c.wpos - c.rpos)
  /\ \A i \in DOMAIN q : q[i] = c.buf[Wrap(c.rpos + i - 1)]

RingType == [buf : [Pos -> Char \cup {"NO"}], rpos : Pos, wpos : Pos]

(* Plain arithmetic: how far w is ahead of r, and the k-th place from r. *)
Ahead(r, w) == IF r <= w THEN w - r ELSE w - r + CONSBUFSIZE
Place(r, k) == IF r + k < CONSBUFSIZE THEN r + k ELSE r + k - CONSBUFSIZE

LEMMA WrapIs ==
  ASSUME NEW r \in Pos
  PROVE  /\ \A w \in Pos : Wrap(w - r) = Ahead(r, w)
         /\ \A k \in Pos : Wrap(r + k) = Place(r, k)
  BY RingArithmetic DEF Ahead, Place

LEMMA NextPosition ==
  ASSUME NEW p \in Pos
  PROVE  next_pos(p) \in Pos /\ next_pos(p) = IF p + 1 < CONSBUFSIZE THEN p + 1 ELSE p + 1 - CONSBUFSIZE
  BY ConsoleAssumption DEF next_pos, Pos

LEMMA StoreArithmetic ==
  ASSUME NEW r \in Pos, NEW w \in Pos, NEW n, n = Ahead(r, w), n + 1 < CONSBUFSIZE
  PROVE  /\ n \in Nat
         /\ n + 1 = Ahead(r, next_pos(w))
         /\ \A k \in 0 .. n : k \in Pos /\ Place(r, k) \in Pos /\ (Place(r, k) = w <=> k = n)
<1> DEFINE C == CONSBUFSIZE
           v == next_pos(w)
<1>1. C \in Nat \ {0}
  BY ConsoleAssumption
<1>2. v \in Pos /\ v = IF w + 1 < C THEN w + 1 ELSE w + 1 - C
  BY NextPosition
<1> HIDE DEF v
<1> QED BY <1>1, <1>2 DEF Ahead, Place, Pos, v

LEMMA GrabArithmetic ==
  ASSUME NEW r \in Pos, NEW w \in Pos, r # w, NEW n, n = Ahead(r, w)
  PROVE  /\ n \in Nat \ {0}
         /\ n - 1 = Ahead(next_pos(r), w)
         /\ \A k \in 1 .. n - 1 : /\ k \in Pos /\ k - 1 \in Pos
                                  /\ Place(next_pos(r), k - 1) = Place(r, k)
         /\ 0 \in Pos /\ Place(r, 0) = r
<1> DEFINE C == CONSBUFSIZE
           v == next_pos(r)
<1>1. C \in Nat \ {0}
  BY ConsoleAssumption
<1>2. v \in Pos /\ v = IF r + 1 < C THEN r + 1 ELSE r + 1 - C
  BY NextPosition
<1> HIDE DEF v
<1> QED BY <1>1, <1>2 DEF Ahead, Place, Pos, v

LEMMA StoreKeeps ==
  ASSUME NEW c \in RingType, NEW q \in Seq(Char), Ring(c, q), NEW x \in Char,
         Len(q) + 1 < CONSBUFSIZE
  PROVE  Ring([c EXCEPT !.buf[c.wpos] = x, !.wpos = next_pos(@)], Append(q, x))
<1> DEFINE d == [c EXCEPT !.buf[c.wpos] = x, !.wpos = next_pos(@)]
           p == Append(q, x)
           n == Len(q)
           r == c.rpos
           w == c.wpos
<1>1. /\ d.rpos = r /\ d.wpos = next_pos(w)
      /\ \A i \in Pos : d.buf[i] = IF i = w THEN x ELSE c.buf[i]
      /\ r \in Pos /\ w \in Pos /\ next_pos(w) \in Pos
  BY NextPosition DEF RingType
<1>2. /\ Len(p) = n + 1 /\ n \in Nat /\ DOMAIN p = 1 .. n + 1 /\ DOMAIN q = 1 .. n
      /\ \A i \in 1 .. n : p[i] = q[i]
      /\ p[n + 1] = x
  OBVIOUS
<1>3. n = Ahead(r, w)
  BY <1>1, WrapIs DEF Ring
<1>4. \A i \in 1 .. n : q[i] = c.buf[Wrap(r + i - 1)]
  BY <1>2 DEF Ring
<1>5. n + 1 < CONSBUFSIZE
  OBVIOUS
<1> HIDE DEF d, p, n, r, w
<1>6. /\ n + 1 = Ahead(r, next_pos(w))
      /\ \A k \in 0 .. n : k \in Pos /\ Place(r, k) \in Pos /\ (Place(r, k) = w <=> k = n)
  BY <1>1, <1>3, <1>5, StoreArithmetic
<1>7. Len(p) = Wrap(d.wpos - d.rpos)
  BY <1>1, <1>2, <1>6, WrapIs
<1>8. ASSUME NEW i \in 1 .. n + 1 PROVE p[i] = d.buf[Wrap(d.rpos + i - 1)]
  <2>1. i - 1 \in 0 .. n /\ r + i - 1 = r + (i - 1) /\ (i - 1 = n <=> i = n + 1)
    BY <1>1, <1>2 DEF Pos
  <2> DEFINE at == Place(r, i - 1)
  <2>2. Wrap(r + (i - 1)) = at /\ at \in Pos /\ (at = w <=> i = n + 1)
    BY <1>1, <1>6, <2>1, WrapIs
  <2>3. Wrap(d.rpos + i - 1) = at
    BY <1>1, <2>1, <2>2
  <2> HIDE DEF at
  <2>4. CASE i = n + 1
    <3>1. p[i] = x
      BY <1>2, <2>4
    <3>2. d.buf[at] = x
      BY <1>1, <2>2, <2>4
    <3> QED BY <2>3, <3>1, <3>2
  <2>5. CASE i # n + 1
    <3>1. i \in 1 .. n
      BY <1>2, <2>5
    <3>2. p[i] = c.buf[at]
      BY <1>2, <1>4, <2>1, <2>2, <3>1
    <3> QED BY <1>1, <2>2, <2>3, <2>5, <3>2
  <2> QED BY <2>4, <2>5
<1>9. Ring(d, p)
  BY <1>2, <1>5, <1>7, <1>8 DEF Ring
<1> QED BY <1>9 DEF d, p, w

LEMMA GrabKeeps ==
  ASSUME NEW c \in RingType, NEW q \in Seq(Char), Ring(c, q), c.rpos # c.wpos
  PROVE  q # <<>> /\ Ring([c EXCEPT !.rpos = next_pos(@)], Tail(q)) /\ Head(q) = c.buf[c.rpos]
<1> DEFINE d == [c EXCEPT !.rpos = next_pos(@)]
           p == Tail(q)
           n == Len(q)
           r == c.rpos
           w == c.wpos
<1>1. /\ d.rpos = next_pos(r) /\ d.wpos = w /\ d.buf = c.buf
      /\ r \in Pos /\ w \in Pos /\ r # w /\ next_pos(r) \in Pos
  BY NextPosition DEF RingType
<1>2. n = Ahead(r, w) /\ n < CONSBUFSIZE
  BY <1>1, WrapIs DEF Ring
<1>3. /\ DOMAIN q = 1 .. n /\ n \in Nat
      /\ \A i \in 1 .. n : q[i] = c.buf[Wrap(r + i - 1)]
  BY DEF Ring
<1>4. /\ n \in Nat \ {0}
      /\ n - 1 = Ahead(next_pos(r), w)
      /\ \A k \in 1 .. n - 1 : k \in Pos /\ k - 1 \in Pos /\ Place(next_pos(r), k - 1) = Place(r, k)
      /\ 0 \in Pos /\ Place(r, 0) = r
  <2> HIDE DEF n, r, w
  <2> QED BY <1>1, <1>2, GrabArithmetic
<1>5. /\ q # <<>> /\ Len(p) = n - 1 /\ DOMAIN p = 1 .. n - 1
      /\ \A i \in 1 .. n - 1 : p[i] = q[i + 1]
      /\ Head(q) = q[1]
  BY <1>4
<1> HIDE DEF d, p, n, r, w
<1>6. Len(p) = Wrap(d.wpos - d.rpos)
  BY <1>1, <1>4, <1>5, WrapIs
<1>7. ASSUME NEW i \in 1 .. n - 1 PROVE p[i] = d.buf[Wrap(d.rpos + i - 1)]
  <2>1. /\ i + 1 \in 1 .. n /\ r + (i + 1) - 1 = r + i
        /\ next_pos(r) + i - 1 = next_pos(r) + (i - 1)
    BY <1>1, <1>4 DEF Pos
  <2>2. Wrap(r + i) = Place(r, i) /\ Wrap(next_pos(r) + (i - 1)) = Place(r, i)
    BY <1>1, <1>4, WrapIs
  <2>3. p[i] = c.buf[Wrap(r + i)]
    BY <1>3, <1>5, <2>1
  <2> QED BY <1>1, <2>1, <2>2, <2>3
<1>8. Head(q) = c.buf[r]
  <2>1. 1 \in 1 .. n /\ r + 1 - 1 = r + 0
    BY <1>1, <1>4 DEF Pos
  <2>2. Wrap(r + 0) = r
    BY <1>1, <1>4, WrapIs
  <2>3. q[1] = c.buf[Wrap(r + 1 - 1)]
    BY <1>3, <2>1
  <2> QED BY <1>5, <2>1, <2>2, <2>3
<1>9. n - 1 < CONSBUFSIZE
  BY <1>2, <1>3, ConsoleAssumption
<1>10. Ring(d, p)
  BY <1>5, <1>6, <1>7, <1>9 DEF Ring
<1> QED BY <1>5, <1>8, <1>10 DEF d, p, r
-----------------------------------------------------------------------------
(***************************************************************************)
(* What kbd_proc_data() returns can be stored.                             *)
(***************************************************************************)
LEMMA KeyboardCharacter ==
  ASSUME NEW bits, NEW d
  PROVE  kbd_proc_data(bits, d).c \in Char \cup {"NO"}
<1> DEFINE C == {"a", "A", "C-a", "BS", "NL", "CR", "KEY_DEL", "NO"}
<1>1. \A x : normalmap(x) \in C
  BY DEF normalmap
<1>2. \A x : shiftmap(x) \in C
  BY <1>1 DEF shiftmap
<1>3. \A x : ctlmap(x) \in C
  BY DEF ctlmap
<1>4. \A b, x : charcode(b, x) \in C
  <2> HIDE DEF C
  <2> QED BY <1>1, <1>2, <1>3 DEF charcode
<1>5. \A x \in C : capitals(x) \in C
  BY DEF capitals
<1> DEFINE y == IF "E0ESC" \in bits THEN d + 128 ELSE d
           now == (bits \ {"E0ESC"}) \cup shiftcode(y)
           locked == (now \ togglecode(y)) \cup (togglecode(y) \ now)
           k == charcode(locked, y)
<1>6. k \in C /\ capitals(k) \in C
  <2> HIDE DEF C, locked, y
  <2> QED BY <1>4, <1>5
<1>7. kbd_proc_data(bits, d).c \in {"NO", k, capitals(k)}
  <2>1. kbd_proc_data(bits, d).c
          = IF d = E0 THEN "NO" ELSE IF d >= 128 THEN "NO"
            ELSE IF "CAPSLOCK" \in locked THEN capitals(k) ELSE k
    <3> HIDE DEF k, locked
    <3> QED BY DEF kbd_proc_data, k, locked, y, now
  <2> HIDE DEF k, locked
  <2> QED BY <2>1
<1>8. C \subseteq Char \cup {"NO"}
  BY DEF Char
<1> HIDE DEF C, k
<1> QED BY <1>6, <1>7, <1>8 DEF C

LEMMA CharsKept ==
  ASSUME NEW bits, NEW d,
         bits \subseteq {"SHIFT", "CTL", "ALT", "CAPSLOCK", "E0ESC"}
  PROVE  kbd_proc_data(bits, d).bits \subseteq {"SHIFT", "CTL", "ALT", "CAPSLOCK", "E0ESC"}
<1>1. \A x : shiftcode(x) \subseteq {"SHIFT", "CTL", "ALT"}
  BY DEF shiftcode
<1>2. \A x : togglecode(x) \subseteq {"CAPSLOCK"}
  BY DEF togglecode
<1> DEFINE y == IF "E0ESC" \in bits THEN d + 128 ELSE d
           z == IF "E0ESC" \in bits THEN d ELSE d - 128
           now == (bits \ {"E0ESC"}) \cup shiftcode(y)
           locked == (now \ togglecode(y)) \cup (togglecode(y) \ now)
<1>3. kbd_proc_data(bits, d).bits
        = IF d = E0 THEN bits \cup {"E0ESC"} ELSE IF d >= 128 THEN bits \ (shiftcode(z) \cup {"E0ESC"})
          ELSE locked
  BY DEF kbd_proc_data
<1>4. locked \subseteq {"SHIFT", "CTL", "ALT", "CAPSLOCK", "E0ESC"}
  <2> HIDE DEF y
  <2> QED BY <1>1, <1>2
<1> HIDE DEF locked, z
<1> QED BY <1>3, <1>4
-----------------------------------------------------------------------------
(***************************************************************************)
(* The screen.                                                             *)
(***************************************************************************)
Cells == 0 .. CRT_SIZE - 1
IsScreen(s) ==
  /\ s = [buf |-> s.buf, pos |-> s.pos]
  /\ s.buf = [i \in Cells |-> s.buf[i]]
  /\ s.pos \in Cells

LEMMA ScreenSize == /\ CRT_SIZE \in Nat /\ CRT_COLS \in Nat \ {0} /\ CRT_COLS <= CRT_SIZE
                    /\ BUFLEN \in Nat \ {0} /\ BUFLEN - 1 <= CRT_SIZE - CRT_COLS
<1> DEFINE r == CRT_ROWS
           c == CRT_COLS
<1>1. r \in Nat \ {0} /\ c \in Nat \ {0}
  BY ConsoleAssumption
<1> HIDE DEF r, c
<1>2. r * c \in Nat /\ c <= r * c
  BY <1>1
<1> QED BY <1>1, <1>2, ConsoleAssumption DEF CRT_SIZE, r, c

(* One character that fills a cell, and the scrolling after it. *)
ScrolledTo(t, b, p) ==
  /\ IsScreen(t)
  /\ p < CRT_SIZE => t = [buf |-> b, pos |-> p]
  /\ p = CRT_SIZE =>
       /\ t.pos = CRT_SIZE - CRT_COLS
       /\ \A i \in 0 .. CRT_SIZE - CRT_COLS - 1 : t.buf[i] = b[i + CRT_COLS]

LEMMA ScrollMoves ==
  ASSUME NEW b, b = [i \in Cells |-> b[i]], NEW p \in 0 .. CRT_SIZE
  PROVE  ScrolledTo(scroll([buf |-> b, pos |-> p]), b, p)
<1> DEFINE s == [buf |-> b, pos |-> p]
           t == scroll(s)
           e == [i \in Cells |-> IF i + CRT_COLS < CRT_SIZE THEN b[i + CRT_COLS] ELSE " "]
<1>1. s.buf = b /\ s.pos = p /\ DOMAIN b = Cells
  OBVIOUS
<1>2. CASE p < CRT_SIZE
  <2>1. t = s
    BY <1>1, <1>2 DEF scroll
  <2>2. p \in Cells /\ p # CRT_SIZE
    BY <1>2, ScreenSize DEF Cells
  <2> QED BY <2>1, <2>2 DEF IsScreen, ScrolledTo
<1>3. CASE p = CRT_SIZE
  <2>1. ~(p < CRT_SIZE) /\ p - CRT_COLS \in Cells
    BY <1>3, ScreenSize DEF Cells
  <2>2. t = [buf |-> e, pos |-> p - CRT_COLS]
    BY <1>1, <2>1 DEF scroll
  <2>3. e = [i \in Cells |-> e[i]]
    OBVIOUS
  <2>4. ASSUME NEW i \in 0 .. CRT_SIZE - CRT_COLS - 1 PROVE e[i] = b[i + CRT_COLS]
    <3>1. i \in Cells /\ i + CRT_COLS < CRT_SIZE
      BY ScreenSize DEF Cells
    <3> QED BY <3>1
  <2> HIDE DEF e
  <2> QED BY <1>3, <2>1, <2>2, <2>3, <2>4 DEF IsScreen, ScrolledTo
<1>4. p < CRT_SIZE \/ p = CRT_SIZE
  BY ScreenSize
<1> QED BY <1>2, <1>3, <1>4

LEMMA ScrollIsScreen ==
  ASSUME NEW b, b = [i \in Cells |-> b[i]], NEW p \in 0 .. CRT_SIZE
  PROVE  IsScreen(scroll([buf |-> b, pos |-> p]))
  BY ScrollMoves DEF ScrolledTo

LEMMA RowStarts ==
  ASSUME NEW p \in Nat
  PROVE  start_of_row(p) \in 0 .. p
<1> DEFINE c == CRT_COLS
           m == p % c
<1>1. c \in Nat \ {0}
  BY ConsoleAssumption
<1>2. m \in Nat /\ m <= p
  <2> HIDE DEF c
  <2> QED BY <1>1
<1> HIDE DEF m
<1> QED BY <1>2 DEF start_of_row, m

LEMMA NextRowStarts ==
  ASSUME NEW p \in Cells
  PROVE  start_of_row(p + CRT_COLS) \in 0 .. CRT_SIZE
<1> DEFINE c == CRT_COLS
           r == CRT_ROWS
           q == p + c
<1>1. c \in Nat \ {0} /\ r \in Nat \ {0} /\ CRT_SIZE = r * c /\ p \in Nat /\ p < r * c
  BY ConsoleAssumption, ScreenSize DEF CRT_SIZE, Cells
<1>2. start_of_row(q) = q - (q % c)
  BY DEF start_of_row
<1> HIDE DEF c, r
<1>3. q = c * (q \div c) + (q % c) /\ q \div c \in Nat /\ q % c \in Nat /\ q < r * c + c
  BY <1>1
<1> DEFINE d == q \div c
<1>4. d * c < (r + 1) * c
  <2>1. (r + 1) * c = r * c + c
    BY <1>1
  <2>2. c * (q \div c) = d * c
    BY <1>1, <1>3
  <2> QED BY <1>1, <1>3, <2>1, <2>2
<1>5. d \in Nat
  BY <1>3
<1>6. d < r + 1
  <2> HIDE DEF d
  <2>1. ASSUME d >= r + 1 PROVE FALSE
    <3>1. d * c >= (r + 1) * c
      BY <1>1, <1>5, <2>1
    <3>2. d * c \in Nat /\ (r + 1) * c \in Nat
      BY <1>1, <1>5
    <3> QED BY <1>4, <3>1, <3>2
  <2> QED BY <1>1, <1>5, <2>1
<1>7. c * d <= r * c /\ c * d \in Nat
  <2> HIDE DEF d
  <2>1. d <= r
    BY <1>1, <1>5, <1>6
  <2> QED BY <1>1, <1>5, <2>1
<1>8. q - (q % c) = c * d
  <2> DEFINE x == q % c
             y == c * (q \div c)
  <2>1. q = y + x /\ x \in Nat /\ y \in Int
    BY <1>1, <1>3
  <2> HIDE DEF x, y, q
  <2>2. q - x = y
    BY <2>1
  <2> QED BY <2>2 DEF x, y
<1> HIDE DEF d
<1> QED BY <1>1, <1>2, <1>7, <1>8 DEF q, c

LEMMA PutIsScreen ==
  ASSUME NEW s, IsScreen(s), NEW c
  PROVE  IsScreen(put(s, c))
<1> DEFINE b == s.buf
           p == s.pos
<1>1. /\ s = [buf |-> b, pos |-> p] /\ b = [i \in Cells |-> b[i]] /\ p \in Cells
      /\ p \in 0 .. CRT_SIZE
  BY ScreenSize DEF IsScreen, Cells
<1>2. ASSUME NEW x, NEW q PROVE [b EXCEPT ![q] = x] = [i \in Cells |-> [b EXCEPT ![q] = x][i]]
  BY <1>1
<1> HIDE DEF b, p
<1>3. CASE c = "BS"
  <2>1. put(s, c) = IF p > 0 THEN scroll([buf |-> [b EXCEPT ![p - 1] = " "], pos |-> p - 1])
                    ELSE scroll([buf |-> b, pos |-> p])
    BY <1>1, <1>3 DEF put, b, p
  <2>2. CASE p > 0
    <3> DEFINE e == [b EXCEPT ![p - 1] = " "]
    <3>1. p - 1 \in 0 .. CRT_SIZE
      BY <1>1, <2>2, ScreenSize DEF Cells
    <3>2. e = [i \in Cells |-> e[i]]
      BY <1>2
    <3>3. put(s, c) = scroll([buf |-> e, pos |-> p - 1])
      BY <2>1, <2>2
    <3> HIDE DEF e
    <3>4. IsScreen(scroll([buf |-> e, pos |-> p - 1]))
      BY <3>1, <3>2, ScrollIsScreen
    <3> QED BY <3>3, <3>4
  <2>3. CASE ~(p > 0)
    <3>1. IsScreen(scroll([buf |-> b, pos |-> p]))
      BY <1>1, ScrollIsScreen
    <3> QED BY <2>1, <2>3, <3>1
  <2> QED BY <2>2, <2>3
<1>4. CASE c = "NL"
  <2>1. put(s, c) = scroll([buf |-> b, pos |-> start_of_row(p + CRT_COLS)])
    BY <1>1, <1>4 DEF put
  <2>2. start_of_row(p + CRT_COLS) \in 0 .. CRT_SIZE
    BY <1>1, NextRowStarts
  <2> QED BY <1>1, <2>1, <2>2, ScrollIsScreen
<1>5. CASE c = "CR"
  <2>1. put(s, c) = scroll([buf |-> b, pos |-> start_of_row(p)])
    BY <1>1, <1>5 DEF put
  <2>2. start_of_row(p) \in 0 .. CRT_SIZE
    <3>1. p \in Nat /\ p < CRT_SIZE
      BY <1>1, ScreenSize DEF Cells
    <3> QED BY <3>1, RowStarts, ScreenSize
  <2> QED BY <1>1, <2>1, <2>2, ScrollIsScreen
<1>6. CASE c \notin {"BS", "NL", "CR"}
  <2>1. put(s, c) = scroll([buf |-> [b EXCEPT ![p] = c], pos |-> p + 1])
    BY <1>6 DEF put, b, p
  <2>2. p + 1 \in 0 .. CRT_SIZE
    BY <1>1, ScreenSize DEF Cells
  <2> QED BY <1>2, <2>1, <2>2, ScrollIsScreen
<1> QED BY <1>3, <1>4, <1>5, <1>6
-----------------------------------------------------------------------------
(***************************************************************************)
(* Induction over the naturals, for the elements of a set.                 *)
(***************************************************************************)
LEMMA SetInduction ==
  ASSUME NEW S, 0 \in S, \A n \in Nat : n \in S => n + 1 \in S
  PROVE  Nat \subseteq S
<1> DEFINE T == Nat \ S
<1> SUFFICES ASSUME T # {} PROVE FALSE
  OBVIOUS
<1>1. IsWellFoundedOn({ss \in Nat \X Nat : ss[1] < ss[2]}, Nat)
  BY NatLessThanWellFounded DEF OpToRel
<1>2. PICK x \in T : \A y \in T : ~ (<<y, x>> \in {ss \in Nat \X Nat : ss[1] < ss[2]})
  BY <1>1, WFMin
<1>3. x \in Nat \ {0}
  OBVIOUS
<1>4. x - 1 \in Nat /\ x - 1 < x /\ (x - 1) + 1 = x
  BY <1>3
<1>5. x - 1 \notin T
  BY <1>2, <1>4
<1> QED BY <1>4, <1>5

(***************************************************************************)
(* The loops over a sequence: the characters that are printed one by one,  *)
(* the cells that are blanked and the disk frames that are freed.          *)
(***************************************************************************)
Turn(w, x, k) ==
  IF w.loop = "text" THEN cga_putc(x, w.seq[k])
  ELSE IF w.loop = "free" THEN free_disk_frame(x, w.entries[k - 1])
  ELSE put(x, w.seq[k])

IsRun(path, w, m, n) ==
  /\ path[0] = m
  /\ \A k \in 0 .. n - 1 : path[k + 1] = Turn(w, path[k], k + 1)

(***************************************************************************)
(* The function that FoldLeft() is defined by exists.                      *)
(***************************************************************************)
Folding(g, w, m, n) ==
  g = [s \in SUBSET (1 .. n) |-> IF s = {} THEN m ELSE Turn(w, g[s \ {Max(s)}], Max(s))]

LEMMA MaxOfRange ==
  ASSUME NEW n \in Nat, NEW s, s \subseteq 1 .. n + 1, n + 1 \in s
  PROVE  Max(s) = n + 1
<1>1. \A y \in s : y \in Int /\ n + 1 >= y
  OBVIOUS
<1>2. \E x \in s : \A y \in s : x >= y
  BY <1>1
<1> DEFINE x == Max(s)
<1>3. x \in s /\ \A y \in s : x >= y
  BY <1>2 DEF Max
<1> HIDE DEF x
<1>4. x \in Int /\ n + 1 >= x /\ x >= n + 1
  BY <1>1, <1>3
<1>5. x = n + 1
  BY <1>4
<1> QED BY <1>5 DEF x

LEMMA MaxInSet ==
  \A n \in Nat : \A s \in SUBSET (1 .. n) : s # {} => Max(s) \in 1 .. n
<1> DEFINE S == {n \in Nat : \A s \in SUBSET (1 .. n) : s # {} => Max(s) \in 1 .. n}
<1>1. 0 \in S
  <2>1. \A s \in SUBSET (1 .. 0) : s = {}
    OBVIOUS
  <2> QED BY <2>1
<1>2. ASSUME NEW n \in Nat, n \in S PROVE n + 1 \in S
  <2> SUFFICES ASSUME NEW s \in SUBSET (1 .. n + 1), s # {} PROVE Max(s) \in 1 .. n + 1
    OBVIOUS
  <2>1. CASE n + 1 \in s
    <3>1. s \subseteq 1 .. n + 1
      OBVIOUS
    <3>2. Max(s) = n + 1
      BY <2>1, <3>1, MaxOfRange, Zenon
    <3> QED BY <3>2
  <2>2. CASE n + 1 \notin s
    <3>1. s \in SUBSET (1 .. n)
      BY <2>2
    <3>2. Max(s) \in 1 .. n
      BY <1>2, <3>1
    <3> QED BY <3>2
  <2> QED BY <2>1, <2>2
<1> HIDE DEF S
<1>3. Nat \subseteq S
  BY <1>1, <1>2, SetInduction
<1> QED BY <1>3 DEF S

LEMMA FoldingExists ==
  ASSUME NEW w, NEW m
  PROVE  \A n \in Nat : \E g : Folding(g, w, m, n)
<1> DEFINE S == {n \in Nat : \E g : Folding(g, w, m, n)}
<1>1. 0 \in S
  <2> DEFINE g == [s \in SUBSET (1 .. 0) |-> m]
  <2>1. \A s \in SUBSET (1 .. 0) : s = {}
    OBVIOUS
  <2>2. Folding(g, w, m, 0)
    BY <2>1 DEF Folding
  <2> QED BY <2>2
<1>2. ASSUME NEW n \in Nat, n \in S PROVE n + 1 \in S
  <2>1. PICK g : Folding(g, w, m, n)
    BY <1>2
  <2> DEFINE h == [s \in SUBSET (1 .. n + 1) |->
                     IF n + 1 \in s THEN Turn(w, g[s \ {n + 1}], n + 1) ELSE g[s]]
  <2>2. \A s \in SUBSET (1 .. n) : h[s] = g[s]
    OBVIOUS
  <2>3. ASSUME NEW s \in SUBSET (1 .. n + 1)
        PROVE  h[s] = IF s = {} THEN m ELSE Turn(w, h[s \ {Max(s)}], Max(s))
    <3>1. CASE n + 1 \in s
      <4>1. Max(s) = n + 1
        <5>1. s \subseteq 1 .. n + 1
          OBVIOUS
        <5>2. Max(s) = n + 1
          BY <3>1, <5>1, MaxOfRange, Zenon
        <5> QED BY <5>2
      <4>2. s \ {n + 1} \in SUBSET (1 .. n)
        OBVIOUS
      <4>3. h[s] = Turn(w, g[s \ {n + 1}], n + 1)
        BY <3>1
      <4>4. h[s \ {Max(s)}] = g[s \ {n + 1}]
        BY <4>1, <4>2, <2>2
      <4> HIDE DEF h
      <4> QED BY <3>1, <4>1, <4>3, <4>4
    <3>2. CASE n + 1 \notin s
      <4>1. s \in SUBSET (1 .. n)
        BY <3>2
      <4>2. h[s] = g[s]
        BY <4>1, <2>2
      <4>3. g[s] = IF s = {} THEN m ELSE Turn(w, g[s \ {Max(s)}], Max(s))
        BY <2>1, <4>1 DEF Folding
      <4>4. s \ {Max(s)} \in SUBSET (1 .. n)
        BY <4>1
      <4>5. h[s \ {Max(s)}] = g[s \ {Max(s)}]
        BY <4>4, <2>2
      <4> HIDE DEF h
      <4> QED BY <4>2, <4>3, <4>5
    <3> QED BY <3>1, <3>2
  <2>4. DOMAIN h = SUBSET (1 .. n + 1)
    OBVIOUS
  <2>5. h = [s \in SUBSET (1 .. n + 1) |-> h[s]]
    OBVIOUS
  <2> HIDE DEF h
  <2>6. h = [s \in SUBSET (1 .. n + 1) |-> IF s = {} THEN m ELSE Turn(w, h[s \ {Max(s)}], Max(s))]
    BY <2>3, <2>5
  <2>7. Folding(h, w, m, n + 1)
    BY <2>6 DEF Folding
  <2> QED BY <2>7
<1> HIDE DEF S
<1>3. Nat \subseteq S
  BY <1>1, <1>2, SetInduction
<1> QED BY <1>3 DEF S

(***************************************************************************)
(* It takes the initial segments of 1 .. n through the rounds.             *)
(***************************************************************************)
LEMMA FoldingRuns ==
  ASSUME NEW w, NEW m, NEW n \in Nat, NEW g, Folding(g, w, m, n)
  PROVE  \E path : IsRun(path, w, m, n) /\ path[n] = g[1 .. n]
<1> DEFINE path == [k \in 0 .. n |-> g[1 .. k]]
<1>1. \A k \in 0 .. n : 1 .. k \in SUBSET (1 .. n)
  OBVIOUS
<1>2. \A s \in SUBSET (1 .. n) : g[s] = IF s = {} THEN m ELSE Turn(w, g[s \ {Max(s)}], Max(s))
  BY DEF Folding
<1>3. path[0] = m
  <2>1. 1 .. 0 = {} /\ 0 \in 0 .. n
    OBVIOUS
  <2>2. g[{}] = m
    BY <1>1, <1>2, <2>1
  <2> QED BY <2>1, <2>2
<1>4. ASSUME NEW k \in 0 .. n - 1 PROVE path[k + 1] = Turn(w, path[k], k + 1)
  <2>1. 1 .. k + 1 \in SUBSET (1 .. n) /\ 1 .. k + 1 # {} /\ (1 .. k + 1) \ {k + 1} = 1 .. k
    OBVIOUS
  <2>2. Max(1 .. k + 1) = k + 1
    <3>1. k \in Nat /\ 1 .. k + 1 \subseteq 1 .. k + 1 /\ k + 1 \in 1 .. k + 1
      OBVIOUS
    <3> QED BY <3>1, MaxOfRange
  <2>3. g[1 .. k + 1] = Turn(w, g[1 .. k], k + 1)
    <3>1. g[1 .. k + 1] = Turn(w, g[(1 .. k + 1) \ {Max(1 .. k + 1)}], Max(1 .. k + 1))
      BY <1>2, <2>1
    <3>2. (k + 1) - 1 = k
      OBVIOUS
    <3> QED BY <2>1, <2>2, <3>1, <3>2
  <2>4. k \in 0 .. n /\ k + 1 \in 0 .. n
    OBVIOUS
  <2> QED BY <2>3, <2>4
<1>5. path[n] = g[1 .. n]
  OBVIOUS
<1> HIDE DEF path
<1>6. IsRun(path, w, m, n)
  BY <1>3, <1>4 DEF IsRun
<1> QED BY <1>5, <1>6

LEMMA BlanksRun ==
  ASSUME NEW m, NEW seq, NEW n \in Nat, DOMAIN seq = 1 .. n
  PROVE  \E path : /\ IsRun(path, [loop |-> "put", seq |-> seq], m, n)
                  /\ FoldLeft(put, m, seq) = path[n]
<1> DEFINE w == [loop |-> "put", seq |-> seq]
           Body(g) == [s \in SUBSET DOMAIN seq |->
                         IF s = {} THEN m ELSE put(g[s \ {Max(s)}], seq[Max(s)])]
           it == CHOOSE g : g = Body(g)
<1>1. FoldLeft(put, m, seq) = it[DOMAIN seq]
  BY DEF FoldLeft, MapThenFoldSet
<1>2. ASSUME NEW g PROVE Folding(g, w, m, n) <=> g = Body(g)
  <2>1. \A x, k : Turn(w, x, k) = put(x, seq[k])
    BY DEF Turn
  <2> HIDE DEF w
  <2> QED BY <2>1 DEF Folding
<1>3. \E g : g = Body(g)
  <2>1. PICK g : Folding(g, w, m, n)
    BY FoldingExists
  <2> HIDE DEF Body, w
  <2> QED BY <1>2, <2>1
<1>4. it = Body(it)
  <2> HIDE DEF Body
  <2> QED BY <1>3
<1>5. Folding(it, w, m, n)
  <2> HIDE DEF Body, it, w
  <2> QED BY <1>2, <1>4
<1>6. PICK path : IsRun(path, w, m, n) /\ path[n] = it[1 .. n]
  <2> HIDE DEF it, w
  <2> QED BY <1>5, FoldingRuns
<1> HIDE DEF it
<1> QED BY <1>1, <1>6

LEMMA TextRuns ==
  ASSUME NEW m, NEW seq, NEW n \in Nat, DOMAIN seq = 1 .. n
  PROVE  \E path : /\ IsRun(path, [loop |-> "text", seq |-> seq], m, n)
                  /\ cprintf(m, seq) = path[n]
<1> DEFINE w == [loop |-> "text", seq |-> seq]
           Body(g) == [s \in SUBSET DOMAIN seq |->
                         IF s = {} THEN m ELSE cga_putc(g[s \ {Max(s)}], seq[Max(s)])]
           it == CHOOSE g : g = Body(g)
<1>1. cprintf(m, seq) = it[DOMAIN seq]
  BY DEF cprintf, FoldLeft, MapThenFoldSet
<1>2. ASSUME NEW g PROVE Folding(g, w, m, n) <=> g = Body(g)
  <2>1. \A x, k : Turn(w, x, k) = cga_putc(x, seq[k])
    BY DEF Turn
  <2> HIDE DEF w
  <2> QED BY <2>1 DEF Folding
<1>3. \E g : g = Body(g)
  <2>1. PICK g : Folding(g, w, m, n)
    BY FoldingExists
  <2> HIDE DEF Body, w
  <2> QED BY <1>2, <2>1
<1>4. it = Body(it)
  <2> HIDE DEF Body
  <2> QED BY <1>3
<1>5. Folding(it, w, m, n)
  <2> HIDE DEF Body, it, w
  <2> QED BY <1>2, <1>4
<1>6. PICK path : IsRun(path, w, m, n) /\ path[n] = it[1 .. n]
  <2> HIDE DEF it, w
  <2> QED BY <1>5, FoldingRuns
<1> HIDE DEF it
<1> QED BY <1>1, <1>6

(* What every turn keeps, the whole loop keeps. *)
LEMMA RunKeepsScreen ==
  ASSUME NEW w, NEW m, IsScreen(m), NEW n \in Nat, NEW path, IsRun(path, w, m, n),
         \A x : IsScreen(x) => \A k \in 1 .. n : IsScreen(Turn(w, x, k))
  PROVE  IsScreen(path[n])
<1> DEFINE S == {k \in Nat : k <= n => IsScreen(path[k])}
<1>1. 0 \in S
  BY DEF IsRun
<1>2. ASSUME NEW k \in Nat, k \in S PROVE k + 1 \in S
  <2> SUFFICES ASSUME k + 1 <= n PROVE IsScreen(path[k + 1])
    OBVIOUS
  <2>1. k \in 0 .. n - 1 /\ k + 1 \in 1 .. n /\ k <= n
    OBVIOUS
  <2>2. path[k + 1] = Turn(w, path[k], k + 1)
    BY <2>1 DEF IsRun
  <2>3. IsScreen(path[k])
    BY <1>2, <2>1
  <2> QED BY <2>1, <2>2, <2>3
<1> HIDE DEF S
<1>3. Nat \subseteq S
  BY <1>1, <1>2, SetInduction
<1> QED BY <1>3 DEF S

LEMMA PutcIsScreen ==
  ASSUME NEW s, IsScreen(s), NEW c
  PROVE  IsScreen(cga_putc(s, c))
<1> DEFINE seq == <<" ", " ", " ", " ", " ">>
           w == [loop |-> "put", seq |-> seq]
<1>1. DOMAIN seq = 1 .. 5 /\ 5 \in Nat
  OBVIOUS
<1>2. \A x : IsScreen(x) => \A k \in 1 .. 5 : IsScreen(Turn(w, x, k))
  BY PutIsScreen DEF Turn
<1> HIDE DEF seq
<1>3. PICK path : IsRun(path, w, s, 5) /\ FoldLeft(put, s, seq) = path[5]
  BY <1>1, BlanksRun
<1> HIDE DEF w
<1>4. IsScreen(path[5])
  BY <1>1, <1>2, <1>3, RunKeepsScreen
<1>5. cga_putc(s, c) = IF c = "TAB" THEN FoldLeft(put, s, seq) ELSE put(s, c)
  BY DEF cga_putc, seq
<1> QED BY <1>3, <1>4, <1>5, PutIsScreen

LEMMA PrintIsScreen ==
  ASSUME NEW s, IsScreen(s), NEW text \in Seq(STRING)
  PROVE  IsScreen(cprintf(s, text))
<1> DEFINE w == [loop |-> "text", seq |-> text]
           n == Len(text)
<1>1. n \in Nat /\ DOMAIN text = 1 .. n
  OBVIOUS
<1> HIDE DEF n
<1>2. \A x : IsScreen(x) => \A k \in 1 .. n : IsScreen(Turn(w, x, k))
  BY PutcIsScreen DEF Turn
<1>3. PICK path : IsRun(path, w, s, n) /\ cprintf(s, text) = path[n]
  BY <1>1, TextRuns
<1> HIDE DEF w
<1> QED BY <1>1, <1>2, <1>3, RunKeepsScreen
-----------------------------------------------------------------------------
(***************************************************************************)
(* The inductive invariant.  The bytes that the keyboard has sent lead     *)
(* from kbd_proc_data()'s shift to modifiers of keys that are held; unless *)
(* it was overrun, the ring holds less than its size and what is unread;   *)
(* and the line is on the screen.                                          *)
(***************************************************************************)
KeyboardInv ==
  /\ keyboard \in [port : Seq(Int), down : SUBSET DOMAIN Key]
  /\ serial \in SerialChars \cup {"none", "absent"}
  /\ Leads(shift, keyboard.port, keyboard.down)

RingInv ==
  /\ cons \in RingType /\ unread \in Seq(Char) /\ overrun \in BOOLEAN
  /\ ~overrun => Ring(cons, unread)

Stages == {"initialize", "prompt", "serial", "keyboard", "ring", "edit", "rebooting"}

LineInv ==
  /\ reader \in [mode : {"kernel", "user"}, at : Stages, c : Char \cup {"NO"}]
  /\ line \in Seq(Char \cup {"NO"}) /\ Len(line) < BUFLEN
  /\ IsScreen(screen)
  /\ EchoMatchesLine

ConsoleInv == KeyboardInv /\ RingInv /\ LineInv

(* The three parts in steps that leave their variables alone. *)
LEMMA KeyboardInvKept ==
  ASSUME KeyboardInv, UNCHANGED <<keyboard, serial, shift>>
  PROVE  KeyboardInv'
  BY DEF KeyboardInv

LEMMA RingInvKept ==
  ASSUME RingInv, UNCHANGED <<cons, unread, overrun>>
  PROVE  RingInv'
  BY DEF RingInv

LEMMA LineInvKept ==
  ASSUME LineInv, UNCHANGED <<line, screen>>,
         reader' \in [mode : {"kernel", "user"}, at : Stages, c : Char \cup {"NO"}],
         reader.at \in {"initialize", "prompt", "rebooting"} => reader'.at \in {"initialize", "prompt", "rebooting"}
  PROVE  LineInv'
<1>1. EchoMatchesLine'
  BY DEF LineInv, EchoMatchesLine, Stages
<1> QED BY <1>1 DEF LineInv

LEMMA StoreInv ==
  ASSUME RingInv, NEW c \in Char \cup {"NO"}, store(c)
  PROVE  RingInv'
<1>1. CASE c = "NO"
  BY <1>1, RingInvKept DEF store
<1>2. CASE c # "NO"
  <2> DEFINE d == [cons EXCEPT !.buf[cons.wpos] = c, !.wpos = next_pos(@)]
  <2>1. /\ cons' = d /\ unread' = Append(unread, c)
        /\ overrun' = (overrun \/ Len(unread) + 1 >= CONSBUFSIZE)
        /\ c \in Char
    BY <1>2 DEF store
  <2>2. d \in RingType
    BY NextPosition DEF RingInv, RingType
  <2>3. Append(unread, c) \in Seq(Char)
    BY <2>1 DEF RingInv
  <2>4. ASSUME ~overrun' PROVE Ring(d, Append(unread, c))
    <3>1. ~overrun /\ Len(unread) + 1 < CONSBUFSIZE
      <4>1. Len(unread) \in Nat /\ CONSBUFSIZE \in Nat
        BY ConsoleAssumption DEF RingInv
      <4>2. ~overrun /\ ~(Len(unread) + 1 >= CONSBUFSIZE)
        BY <2>1, <2>4, Zenon
      <4> QED BY <4>1, <4>2
    <3> QED BY <2>1, <3>1, StoreKeeps DEF RingInv
  <2> HIDE DEF d
  <2>5. overrun' \in BOOLEAN
    BY <2>1
  <2> QED BY <2>1, <2>2, <2>3, <2>4, <2>5 DEF RingInv
<1> QED BY <1>1, <1>2

LEMMA ConsoleInitInv == ConsoleInit => ConsoleInv
<1> SUFFICES ASSUME ConsoleInit PROVE ConsoleInv
  OBVIOUS
<1>1. KeyboardInv
  <2>1. keyboard.port = <<>> /\ keyboard.down = {} /\ shift = {}
    BY DEF ConsoleInit
  <2> DEFINE f == [i \in 0 .. 0 |-> {}]
  <2>2. Consumed(f, shift, keyboard.port) /\ AsHeld(f[Len(keyboard.port)], keyboard.down)
    BY <2>1 DEF Consumed, AsHeld
  <2>3. Leads(shift, keyboard.port, keyboard.down)
    BY <2>2 DEF Leads
  <2> QED BY <2>3 DEF ConsoleInit, KeyboardInv
<1>2. RingInv
  <2>1. 0 \in Pos /\ CONSBUFSIZE \in Nat \ {0}
    BY ConsoleAssumption DEF Pos
  <2>2. cons.wpos = 0 /\ cons.rpos = 0 /\ unread = <<>> /\ ~overrun
    BY DEF ConsoleInit
  <2>3. cons \in RingType
    BY <2>1 DEF ConsoleInit, RingType, Pos
  <2>4. Wrap(0 - 0) = 0
    BY <2>1, WrapIs DEF Ahead
  <2>5. Ring(cons, unread)
    BY <2>1, <2>2, <2>4 DEF Ring
  <2>6. unread \in Seq(Char)
    BY <2>2
  <2>7. overrun = FALSE
    BY DEF ConsoleInit
  <2> QED BY <2>3, <2>5, <2>6, <2>7 DEF RingInv
<1>3. LineInv
  <2>1. line = <<>> /\ Len(line) < BUFLEN
    BY ConsoleAssumption DEF ConsoleInit
  <2>2. IsScreen(screen)
    <3>1. 0 \in Cells
      BY ScreenSize DEF Cells
    <3> QED BY <3>1 DEF ConsoleInit, cga_init, IsScreen, Cells
  <2>3. reader \in [mode : {"kernel", "user"}, at : Stages, c : Char \cup {"NO"}]
    BY DEF ConsoleInit, Stages
  <2>4. EchoMatchesLine
    BY <2>1 DEF EchoMatchesLine
  <2> QED BY <2>1, <2>2, <2>3, <2>4 DEF LineInv
<1> QED BY <1>1, <1>2, <1>3 DEF ConsoleInv

LEMMA ConsoleInvImplies == ConsoleInv => InputAsTyped /\ EchoMatchesLine
<1> SUFFICES ASSUME ConsoleInv PROVE InputAsTyped /\ EchoMatchesLine
  OBVIOUS
<1>1. RingIsQueue
  BY DEF ConsoleInv, RingInv, Ring, Wrap, RingIsQueue
<1>2. NoStuckModifier
  <2>1. SUFFICES ASSUME keyboard.port = <<>> PROVE AsHeld(shift, keyboard.down)
    BY DEF NoStuckModifier, AsHeld
  <2>2. PICK f : /\ Consumed(f, shift, keyboard.port)
                 /\ AsHeld(f[Len(keyboard.port)], keyboard.down)
    BY DEF ConsoleInv, KeyboardInv, Leads
  <2>3. Len(keyboard.port) = 0 /\ f[0] = shift
    BY <2>1, <2>2 DEF Consumed
  <2> QED BY <2>2, <2>3
<1>3. EchoMatchesLine
  BY DEF ConsoleInv, LineInv
<1> QED BY <1>1, <1>2, <1>3 DEF InputAsTyped
-----------------------------------------------------------------------------
(***************************************************************************)
(* The steps.                                                              *)
(***************************************************************************)
LEMMA SendKeeps ==
  ASSUME ConsoleInv, NEW k \in Keys, press(k) \/ release(k)
  PROVE  ConsoleInv'
<1> DEFINE port == keyboard.port
           down == keyboard.down
<1>1. k \in DOMAIN Key
  BY KeysAssumption
<1>2. /\ keyboard \in [port : Seq(Int), down : SUBSET DOMAIN Key]
      /\ port \in Seq(Int) /\ down \subseteq DOMAIN Key /\ Leads(shift, port, down)
  BY DEF ConsoleInv, KeyboardInv
<1>3. Key[k] \in Seq(Int) /\ released(Key[k]) \in Seq(Int)
  <2>1. Key[k] \in Seq(Int) \ {<<>>}
    <3>1. CASE k \in {"RCTL", "RALT", "DELETE"}
      <4>1. \E d \in {29, 56, 83} : Key[k] = <<224, d>>
        BY <3>1 DEF Key, E0
      <4>2. \A d \in {29, 56, 83} : <<224, d>> \in Seq(Int) \ {<<>>}
        OBVIOUS
      <4> QED BY <4>1, <4>2
    <3>2. CASE k \in {"LSHIFT", "RSHIFT", "LCTL", "LALT", "CAPS", "A", "BACKSPACE", "ENTER"}
      <4>1. \E d \in {42, 54, 29, 56, 58, 30, 14, 28} : Key[k] = <<d>>
        BY <3>2 DEF Key
      <4>2. \A d \in {42, 54, 29, 56, 58, 30, 14, 28} : <<d>> \in Seq(Int) \ {<<>>}
        OBVIOUS
      <4> QED BY <4>1, <4>2
    <3>3. k \in {"RCTL", "RALT", "DELETE"} \cup
               {"LSHIFT", "RSHIFT", "LCTL", "LALT", "CAPS", "A", "BACKSPACE", "ENTER"}
      BY <1>1 DEF Key
    <3> QED BY <3>1, <3>2, <3>3
  <2>2. released(Key[k]) \in Seq(Int)
    <3> DEFINE s == Key[k]
    <3>1. s \in Seq(Int) /\ Len(s) \in 1 .. Len(s) /\ s[Len(s)] + 128 \in Int
      BY <2>1
    <3> HIDE DEF s
    <3>2. [s EXCEPT ![Len(s)] = s[Len(s)] + 128] \in Seq(Int)
      BY <3>1, ExceptSeq
    <3> QED BY <3>2 DEF released, s
  <2> QED BY <2>1, <2>2
<1>4. PICK bytes \in Seq(Int), later \in SUBSET DOMAIN Key :
        /\ sends(bytes, later)
        /\ \A b : AsHeld(b, down) => Leads(b, bytes, later)
  <2>1. CASE press(k)
    <3>1. sends(Key[k], down \cup {k})
      BY <2>1 DEF press
    <3>2. \A b : AsHeld(b, down) => Leads(b, Key[k], down \cup {k})
      BY <1>1, PressLeads
    <3> QED BY <1>1, <1>2, <1>3, <3>1, <3>2
  <2>2. CASE release(k)
    <3>1. sends(released(Key[k]), down \ {k})
      BY <2>2 DEF release
    <3>2. \A b : AsHeld(b, down) => Leads(b, released(Key[k]), down \ {k})
      BY <1>1, ReleaseLeads
    <3> QED BY <1>1, <1>2, <1>3, <3>1, <3>2
  <2> QED BY <2>1, <2>2
<1>5. keyboard' = [port |-> port \o bytes, down |-> later]
      /\ UNCHANGED <<serial, shift, cons, unread, overrun, reader, line, screen>>
  BY <1>4 DEF sends
<1>6. Leads(shift, port \o bytes, later)
  BY <1>2, <1>4, SendLeads
<1>7. port \o bytes \in Seq(Int)
  BY <1>2
<1>8. KeyboardInv'
  <2> HIDE DEF port
  <2> QED BY <1>4, <1>5, <1>6, <1>7 DEF KeyboardInv, ConsoleInv
<1>9. RingInv'
  BY <1>5, RingInvKept DEF ConsoleInv
<1>10. LineInv'
  BY <1>5, LineInvKept DEF ConsoleInv, LineInv
<1> QED BY <1>8, <1>9, <1>10 DEF ConsoleInv

LEMMA InterruptKeeps ==
  ASSUME ConsoleInv, kbd_intr
  PROVE  ConsoleInv'
<1> DEFINE port == keyboard.port
           b == Head(port)
           p == kbd_proc_data(shift, b)
<1>1. /\ keyboard \in [port : Seq(Int), down : SUBSET DOMAIN Key]
      /\ Leads(shift, port, keyboard.down) /\ port \in Seq(Int)
      /\ serial \in SerialChars \cup {"none", "absent"}
      /\ reader.at = "keyboard" /\ reader.mode \in {"kernel", "user"} /\ reader.c \in Char \cup {"NO"}
      /\ reader = [mode |-> reader.mode, at |-> reader.at, c |-> reader.c]
  BY DEF ConsoleInv, KeyboardInv, LineInv, kbd_intr
<1>2. UNCHANGED <<serial, events, line, screen>>
  BY DEF kbd_intr
<1>3. CASE port = <<>>
  <2>1. /\ reader' = [reader EXCEPT !.at = IF reader.mode = "kernel" THEN "ring" ELSE "serial"]
        /\ UNCHANGED <<keyboard, shift, cons, unread, overrun>>
    BY <1>3 DEF kbd_intr
  <2>2. KeyboardInv' /\ RingInv'
    BY <1>2, <2>1, KeyboardInvKept, RingInvKept DEF ConsoleInv
  <2>3. reader' \in [mode : {"kernel", "user"}, at : Stages, c : Char \cup {"NO"}]
    BY <1>1, <2>1 DEF Stages
  <2>4. LineInv'
    BY <1>1, <1>2, <2>3, LineInvKept DEF ConsoleInv
  <2> QED BY <2>2, <2>4 DEF ConsoleInv
<1>4. CASE port # <<>>
  <2>1. /\ keyboard' = [keyboard EXCEPT !.port = Tail(@)]
        /\ shift' = p.bits
        /\ store(p.c)
        /\ reader' = [reader EXCEPT !.at =
                        CASE reboots(p) -> "rebooting"
                          [] reader.mode = "kernel" -> "keyboard"
                          [] p.c = "NO" -> "serial"
                          [] OTHER -> "ring"]
    BY <1>4 DEF kbd_intr
  <2>2. p.c \in Char \cup {"NO"}
    BY KeyboardCharacter
  <2>3. Leads(p.bits, Tail(port), keyboard.down)
    BY <1>1, <1>4, TakeLeads
  <2>4. Tail(port) \in Seq(Int)
    BY <1>1, <1>4
  <2> HIDE DEF p
  <2>5. RingInv'
    BY <2>1, <2>2, StoreInv DEF ConsoleInv
  <2>6. KeyboardInv'
    <3>1. keyboard'.port = Tail(port) /\ keyboard'.down = keyboard.down
          /\ keyboard' \in [port : Seq(Int), down : SUBSET DOMAIN Key]
      BY <1>1, <2>1, <2>4
    <3> HIDE DEF port
    <3> QED BY <1>1, <1>2, <2>1, <2>3, <3>1 DEF KeyboardInv
  <2>7. reader' \in [mode : {"kernel", "user"}, at : Stages, c : Char \cup {"NO"}]
    <3> DEFINE next == CASE reboots(p) -> "rebooting"
                         [] reader.mode = "kernel" -> "keyboard"
                         [] p.c = "NO" -> "serial"
                         [] OTHER -> "ring"
    <3>1. next \in Stages
      BY DEF Stages
    <3> HIDE DEF next
    <3>2. reader' = [reader EXCEPT !.at = next]
      BY <2>1 DEF next
    <3> QED BY <1>1, <3>1, <3>2
  <2>8. LineInv'
    BY <1>1, <1>2, <2>7, LineInvKept DEF ConsoleInv
  <2> QED BY <2>5, <2>6, <2>8 DEF ConsoleInv
<1> QED BY <1>3, <1>4

LEMMA SerialKeeps ==
  ASSUME ConsoleInv, serial_intr
  PROVE  ConsoleInv'
<1>1. /\ reader.at = "serial" /\ reader.mode \in {"kernel", "user"} /\ reader.c \in Char \cup {"NO"}
      /\ reader = [mode |-> reader.mode, at |-> reader.at, c |-> reader.c]
  BY DEF ConsoleInv, LineInv, serial_intr
<1>2. UNCHANGED <<keyboard, events, shift, line, screen>>
  BY DEF serial_intr
<1>3. CASE serial \in {"none", "absent"}
  <2>1. /\ reader' = [reader EXCEPT !.at = "keyboard"]
        /\ UNCHANGED <<serial, cons, unread, overrun>>
    BY <1>3 DEF serial_intr
  <2>2. KeyboardInv' /\ RingInv'
    BY <1>2, <2>1, KeyboardInvKept, RingInvKept DEF ConsoleInv
  <2>3. reader' \in [mode : {"kernel", "user"}, at : Stages, c : Char \cup {"NO"}]
    BY <1>1, <2>1 DEF Stages
  <2>4. LineInv'
    BY <1>1, <1>2, <2>3, LineInvKept DEF ConsoleInv
  <2> QED BY <2>2, <2>4 DEF ConsoleInv
<1>4. CASE serial \notin {"none", "absent"}
  <2>1. /\ serial' = "none"
        /\ store(serial)
        /\ reader' = [reader EXCEPT !.at = IF reader.mode = "kernel" THEN "serial" ELSE "keyboard"]
    BY <1>4 DEF serial_intr
  <2>2. serial \in Char \cup {"NO"}
    BY <1>4 DEF ConsoleInv, KeyboardInv, Char
  <2>3. RingInv'
    BY <2>1, <2>2, StoreInv DEF ConsoleInv
  <2>4. KeyboardInv'
    BY <1>2, <2>1 DEF ConsoleInv, KeyboardInv
  <2>5. reader' \in [mode : {"kernel", "user"}, at : Stages, c : Char \cup {"NO"}]
    BY <1>1, <2>1 DEF Stages
  <2>6. LineInv'
    BY <1>1, <1>2, <2>5, LineInvKept DEF ConsoleInv
  <2> QED BY <2>3, <2>4, <2>6 DEF ConsoleInv
<1> QED BY <1>3, <1>4

LEMMA GrabStepKeeps ==
  ASSUME ConsoleInv, grab
  PROVE  ConsoleInv'
<1>1. /\ reader.at = "ring" /\ reader.mode \in {"kernel", "user"} /\ reader.c \in Char \cup {"NO"}
      /\ reader = [mode |-> reader.mode, at |-> reader.at, c |-> reader.c]
      /\ cons \in RingType /\ unread \in Seq(Char) /\ overrun \in BOOLEAN
      /\ ~overrun => Ring(cons, unread)
  BY DEF ConsoleInv, LineInv, RingInv, grab
<1>2. UNCHANGED <<keyboard, serial, events, shift, overrun, line, screen>>
  BY DEF grab, devices
<1>3. KeyboardInv'
  BY <1>2, KeyboardInvKept DEF ConsoleInv
<1>4. CASE cons.rpos = cons.wpos
  <2>1. reader' = [reader EXCEPT !.at = "serial"] /\ UNCHANGED <<cons, unread>>
    BY <1>4 DEF grab
  <2>2. reader' \in [mode : {"kernel", "user"}, at : Stages, c : Char \cup {"NO"}]
    BY <1>1, <2>1 DEF Stages
  <2>3. LineInv' /\ RingInv'
    BY <1>1, <1>2, <2>1, <2>2, LineInvKept, RingInvKept DEF ConsoleInv
  <2> QED BY <1>3, <2>3 DEF ConsoleInv
<1>5. CASE cons.rpos # cons.wpos
  <2> DEFINE d == [cons EXCEPT !.rpos = next_pos(@)]
  <2>1. /\ reader' = [reader EXCEPT !.at = "edit", !.c = cons.buf[cons.rpos]]
        /\ cons' = d
        /\ unread' = IF unread = <<>> THEN unread ELSE Tail(unread)
    BY <1>5 DEF grab
  <2>2. cons.buf[cons.rpos] \in Char \cup {"NO"}
    BY <1>1 DEF RingType
  <2>3. reader' \in [mode : {"kernel", "user"}, at : Stages, c : Char \cup {"NO"}]
    BY <1>1, <2>1, <2>2 DEF Stages
  <2>4. d \in RingType
    BY <1>1, NextPosition DEF RingType
  <2>5. unread' \in Seq(Char)
    BY <1>1, <2>1
  <2>6. ASSUME ~overrun PROVE Ring(d, unread')
    <3>1. unread # <<>> /\ Ring(d, Tail(unread))
      BY <1>1, <1>5, <2>6, GrabKeeps
    <3> HIDE DEF d
    <3> QED BY <2>1, <3>1
  <2> HIDE DEF d
  <2>7. RingInv'
    BY <1>1, <1>2, <2>1, <2>4, <2>5, <2>6 DEF RingInv
  <2>8. LineInv'
    BY <1>1, <1>2, <2>3, LineInvKept DEF ConsoleInv
  <2> QED BY <1>3, <2>7, <2>8 DEF ConsoleInv
<1> QED BY <1>4, <1>5

(* The line that the cells in front of position p show. *)
Shows(b, p, q) ==
  \A i \in 1 .. Len(q) : /\ p - Len(q) + i - 1 >= 0
                         /\ b[p - Len(q) + i - 1] = q[i]

LEMMA TypedIsShown ==
  ASSUME NEW b, b = [i \in Cells |-> b[i]], NEW p \in Cells, NEW c, NEW T, NEW q \in Seq(T), c \in T,
         Shows(b, p, q), Len(q) < BUFLEN - 1,
         NEW t, t = scroll([buf |-> [b EXCEPT ![p] = c], pos |-> p + 1])
  PROVE  Shows(t.buf, t.pos, Append(q, c))
<1> DEFINE n == Len(q)
           r == Append(q, c)
           d == [b EXCEPT ![p] = c]
<1>1. /\ n \in Nat /\ Len(r) = n + 1
      /\ \A i \in 1 .. n : r[i] = q[i]
      /\ r[n + 1] = c
  OBVIOUS
<1>2. /\ p \in Nat /\ p < CRT_SIZE /\ CRT_SIZE \in Nat /\ CRT_COLS \in Nat
      /\ BUFLEN \in Nat /\ BUFLEN - 1 <= CRT_SIZE - CRT_COLS /\ n < BUFLEN - 1
  BY ScreenSize DEF Cells
<1>3. d = [i \in Cells |-> d[i]] /\ t = scroll([buf |-> d, pos |-> p + 1])
  OBVIOUS
<1>10. p + 1 \in 0 .. CRT_SIZE
  BY <1>2
<1>4. \A i \in Cells : d[i] = IF i = p THEN c ELSE b[i]
  OBVIOUS
<1> HIDE DEF d
<1>5. ScrolledTo(t, d, p + 1)
  BY <1>3, <1>10, ScrollMoves
<1> HIDE DEF n, r
<1>6. \A i \in 1 .. n : p - n + i - 1 >= 0 /\ b[p - n + i - 1] = q[i]
  BY DEF Shows, n
<1>7. ASSUME NEW i \in 1 .. n + 1
      PROVE  p - n + i - 1 \in Cells /\ d[p - n + i - 1] = r[i]
  <2>1. CASE i = n + 1
    <3>1. p - n + i - 1 = p /\ p \in Cells
      BY <1>1, <1>2, <2>1
    <3>2. d[p] = c
      BY <1>4
    <3> QED BY <1>1, <2>1, <3>1, <3>2
  <2>2. CASE i # n + 1
    <3> DEFINE a == p - n + i - 1
    <3>1. i \in 1 .. n
      BY <1>1, <2>2
    <3>2. a >= 0 /\ b[a] = q[i]
      BY <1>6, <3>1
    <3>3. a \in Cells /\ a # p
      <4>1. n \in Nat
        BY <1>1
      <4>2. a \in Int /\ a < p
        BY <1>2, <3>1, <4>1
      <4> HIDE DEF a
      <4> QED BY <1>2, <3>2, <4>2 DEF Cells
    <3> HIDE DEF a
    <3>4. d[a] = r[i]
      BY <1>1, <1>4, <3>1, <3>2, <3>3
    <3> QED BY <3>3, <3>4 DEF a
  <2> QED BY <2>1, <2>2
<1>8. ASSUME NEW i \in 1 .. n + 1
      PROVE  t.pos - (n + 1) + i - 1 >= 0 /\ t.buf[t.pos - (n + 1) + i - 1] = r[i]
  <2> DEFINE a == p - n + i - 1
  <2>1. a \in Cells /\ d[a] = r[i]
    BY <1>7
  <2>2. CASE p + 1 < CRT_SIZE
    <3>1. t = [buf |-> d, pos |-> p + 1]
      BY <1>5, <2>2 DEF ScrolledTo
    <3>2. t.buf = d /\ t.pos = p + 1
      BY <3>1
    <3>3. t.pos - (n + 1) + i - 1 = a /\ a >= 0
      BY <1>1, <1>2, <2>1, <3>2 DEF Cells
    <3> HIDE DEF a
    <3> QED BY <2>1, <3>2, <3>3
  <2>3. CASE ~(p + 1 < CRT_SIZE)
    <3>1. p + 1 = CRT_SIZE
      BY <1>2, <2>3
    <3> DEFINE m == CRT_SIZE - CRT_COLS
               x == m - (n + 1) + i - 1
    <3>2. t.pos = m /\ \A j \in 0 .. m - 1 : t.buf[j] = d[j + CRT_COLS]
      BY <1>5, <3>1 DEF ScrolledTo
    <3>3. x >= 0 /\ x \in 0 .. m - 1 /\ x + CRT_COLS = a
      <4>1. n \in Nat /\ n + 1 <= CRT_SIZE - CRT_COLS
        <5>1. n \in Nat
          BY <1>1
        <5> HIDE DEF n
        <5> QED BY <1>2, <5>1
      <4>2. CRT_SIZE \in Nat /\ CRT_COLS \in Nat /\ p \in Nat
        BY <1>2
      <4>3. i \in Nat /\ i >= 1 /\ i <= n + 1
        BY <4>1
      <4> HIDE DEF n
      <4>4. x = CRT_SIZE - CRT_COLS - (n + 1) + i - 1
        OBVIOUS
      <4>5. a = CRT_SIZE - 1 - n + i - 1
        BY <3>1, <4>1, <4>2, <4>3
      <4>6. m \in Int /\ m = CRT_SIZE - CRT_COLS
        BY <4>2
      <4> HIDE DEF x, a, m
      <4>7. x \in Int /\ x >= 0 /\ x <= m - 1
        <5>1. x = m - (n + 1) + i - 1
          BY DEF x
        <5> QED BY <4>1, <4>3, <4>6, <5>1
      <4>8. x + CRT_COLS = a
        BY <4>1, <4>2, <4>3, <4>4, <4>5
      <4> QED BY <4>6, <4>7, <4>8
    <3>4. t.buf[x] = d[x + CRT_COLS]
      <4> HIDE DEF x, m
      <4> QED BY <3>2, <3>3
    <3>5. t.buf[x] = r[i]
      <4> HIDE DEF x, a
      <4> QED BY <2>1, <3>3, <3>4
    <3>6. t.pos - (n + 1) + i - 1 = x
      <4> HIDE DEF m
      <4> QED BY <3>2 DEF x
    <3> QED BY <3>3, <3>5, <3>6
  <2> QED BY <2>2, <2>3
<1>9. Shows(t.buf, t.pos, r)
  BY <1>1, <1>8 DEF Shows
<1> QED BY <1>9 DEF r

LEMMA RubbedOutIsShown ==
  ASSUME NEW b, b = [i \in Cells |-> b[i]], NEW p \in Cells, NEW T, NEW q \in Seq(T), q # <<>>,
         Shows(b, p, q),
         NEW x, NEW t, t = scroll([buf |-> [b EXCEPT ![p - 1] = x], pos |-> p - 1])
  PROVE  p > 0 /\ Shows(t.buf, t.pos, Front(q)) /\ Front(q) \in Seq(T) /\ Len(Front(q)) < Len(q)
<1> DEFINE n == Len(q)
           r == Front(q)
           d == [b EXCEPT ![p - 1] = x]
<1>1. /\ n \in Nat \ {0} /\ Len(r) = n - 1 /\ r \in Seq(T)
      /\ \A i \in 1 .. n - 1 : r[i] = q[i]
  <2>1. n \in Nat /\ n # 0 /\ \A i \in 1 .. n - 1 : q[i] \in T
    OBVIOUS
  <2>2. r = SubSeq(q, 1, n - 1)
    BY DEF Front
  <2> HIDE DEF n, r
  <2> DEFINE u == n - 1
  <2>3. u \in Nat /\ \A i \in 1 .. u : q[i] \in T
    BY <2>1
  <2>4. r = SubSeq(q, 1, u)
    BY <2>2
  <2>7. /\ SubSeq(q, 1, u) \in Seq(T)
        /\ Len(SubSeq(q, 1, u)) = u
        /\ \A i \in 1 .. u : SubSeq(q, 1, u)[i] = q[i]
    <3> HIDE DEF u
    <3> QED BY <2>3, SMT
  <2>5. Len(r) = n - 1 /\ r \in Seq(T)
    BY <2>4, <2>7
  <2>6. ASSUME NEW i \in 1 .. n - 1
        PROVE  r[i] = q[i]
    BY <2>4, <2>7
  <2> QED BY <2>1, <2>5, <2>6
<1>2. p \in Nat /\ p < CRT_SIZE /\ CRT_SIZE \in Nat
  BY ScreenSize DEF Cells
<1>3. d = [i \in Cells |-> d[i]]
  OBVIOUS
<1>4. \A i \in Cells : i # p - 1 => d[i] = b[i]
  OBVIOUS
<1> HIDE DEF d, n, r
<1>5. \A i \in 1 .. n : p - n + i - 1 >= 0 /\ b[p - n + i - 1] = q[i]
  BY DEF Shows, n
<1>6. p > 0
  <2>1. p - n + 1 - 1 >= 0
    <3>1. 1 \in 1 .. n
      BY <1>1
    <3> QED BY <1>5, <3>1
  <2> QED BY <1>1, <1>2, <2>1
<1>7. t = [buf |-> d, pos |-> p - 1]
  <2>1. p - 1 \in 0 .. CRT_SIZE /\ p - 1 < CRT_SIZE
    BY <1>2, <1>6
  <2>2. ScrolledTo(t, d, p - 1)
    BY <1>3, <2>1, ScrollMoves DEF d
  <2> QED BY <2>1, <2>2 DEF ScrolledTo
<1>8. ASSUME NEW i \in 1 .. n - 1
      PROVE  t.pos - (n - 1) + i - 1 >= 0 /\ t.buf[t.pos - (n - 1) + i - 1] = r[i]
  <2> DEFINE a == p - n + i - 1
  <2>1. i \in 1 .. n
    BY <1>1
  <2>2. a >= 0 /\ b[a] = q[i]
    BY <1>5, <2>1
  <2>3. a \in Cells /\ a # p - 1
    BY <1>1, <1>2, <2>2 DEF Cells
  <2>4. t.pos - (n - 1) + i - 1 = a
    <3>1. t.pos = p - 1
      BY <1>7
    <3> QED BY <1>1, <1>2, <3>1
  <2> HIDE DEF a
  <2>5. d[a] = r[i]
    BY <1>1, <1>4, <2>2, <2>3
  <2>6. t.buf = d
    BY <1>7
  <2> QED BY <2>2, <2>4, <2>5, <2>6
<1>9. Shows(t.buf, t.pos, r)
  BY <1>1, <1>8 DEF Shows
<1>10. n - 1 < n
  BY <1>1
<1> QED BY <1>1, <1>6, <1>9, <1>10 DEF r, n

LEMMA EchoIsShows ==
  ASSUME NEW T, line \in Seq(T), IsScreen(screen)
  PROVE  EchoMatchesLine <=>
           (reader.at \in {"serial", "keyboard", "ring", "edit"} => Shows(screen.buf, screen.pos, line))
<1>1. DOMAIN line = 1 .. Len(line)
  OBVIOUS
<1> QED BY <1>1 DEF EchoMatchesLine, Shows

LEMMA EditKeeps ==
  ASSUME ConsoleInv, edit
  PROVE  ConsoleInv'
<1> DEFINE T == Char \cup {"NO"}
           c == reader.c
           b == screen.buf
           p == screen.pos
<1>1. /\ reader.at = "edit" /\ reader.mode \in {"kernel", "user"} /\ c \in T
      /\ reader = [mode |-> reader.mode, at |-> reader.at, c |-> reader.c]
      /\ line \in Seq(T) /\ Len(line) < BUFLEN
      /\ IsScreen(screen)
  BY DEF ConsoleInv, LineInv, edit
<1>2. UNCHANGED <<keyboard, serial, shift, cons, unread, overrun>>
  BY DEF edit, devices
<1>3. KeyboardInv' /\ RingInv'
  BY <1>2, KeyboardInvKept, RingInvKept DEF ConsoleInv
<1>4. Shows(b, p, line)
  BY <1>1, EchoIsShows DEF ConsoleInv, LineInv
<1>5. screen = [buf |-> b, pos |-> p] /\ b = [i \in Cells |-> b[i]] /\ p \in Cells
  BY <1>1 DEF IsScreen
<1>6. IsScreen(cga_putc(screen, c))
  BY <1>1, PutcIsScreen
<1>7. ASSUME NEW next \in {"serial", "prompt"}, reader' = [reader EXCEPT !.at = next],
             line' \in Seq(T), Len(line') < BUFLEN, IsScreen(screen'),
             next = "serial" => Shows(screen'.buf, screen'.pos, line')
      PROVE  ConsoleInv'
  <2>1. reader' \in [mode : {"kernel", "user"}, at : Stages, c : Char \cup {"NO"}]
    BY <1>1, <1>7 DEF Stages
  <2>2. reader'.at = next
    BY <1>1, <1>7
  <2>3. EchoMatchesLine'
    <3>1. DOMAIN line' = 1 .. Len(line')
      BY <1>7
    <3> QED BY <1>7, <2>2, <3>1 DEF EchoMatchesLine, Shows
  <2> QED BY <1>3, <1>7, <2>1, <2>3 DEF ConsoleInv, LineInv
<1>8. CASE printable(c) /\ Len(line) < BUFLEN - 1
  <2>1. screen' = cga_putc(screen, c) /\ line' = Append(line, c) /\ reader' = [reader EXCEPT !.at = "serial"]
    BY <1>8 DEF edit
  <2>2. c \notin {"BS", "NL", "CR", "TAB"}
    BY <1>8 DEF printable
  <2>3. cga_putc(screen, c) = scroll([buf |-> [b EXCEPT ![p] = c], pos |-> p + 1])
    BY <2>2 DEF cga_putc, put
  <2>4. Shows(screen'.buf, screen'.pos, line')
    <3> HIDE DEF b, p, c, T
    <3> QED BY <1>1, <1>4, <1>5, <1>8, <2>1, <2>3, TypedIsShown
  <2>5. line' \in Seq(T) /\ Len(line') < BUFLEN
    BY <1>1, <1>8, <2>1, ScreenSize
  <2> QED BY <1>6, <1>7, <2>1, <2>4, <2>5
<1>9. CASE ~(printable(c) /\ Len(line) < BUFLEN - 1) /\ c = "BS" /\ line # <<>>
  <2>1. screen' = cga_putc(screen, c) /\ line' = Front(line) /\ reader' = [reader EXCEPT !.at = "serial"]
    BY <1>9 DEF edit
  <2> DEFINE t == scroll([buf |-> [b EXCEPT ![p - 1] = " "], pos |-> p - 1])
  <2>2. p > 0 /\ Shows(t.buf, t.pos, Front(line)) /\ Front(line) \in Seq(T) /\ Len(Front(line)) < Len(line)
    <3> HIDE DEF b, p, T
    <3> QED BY <1>1, <1>4, <1>5, <1>9, RubbedOutIsShown
  <2>3. cga_putc(screen, c) = t
    BY <1>9, <2>2 DEF cga_putc, put
  <2> HIDE DEF t
  <2>4. Shows(screen'.buf, screen'.pos, line')
    BY <2>1, <2>2, <2>3
  <2>5. line' \in Seq(T) /\ Len(line') < BUFLEN
    BY <1>1, <2>1, <2>2, ScreenSize
  <2> QED BY <1>6, <1>7, <2>1, <2>4, <2>5
<1>10. CASE /\ ~(printable(c) /\ Len(line) < BUFLEN - 1) /\ ~(c = "BS" /\ line # <<>>)
            /\ c \in {"NL", "CR"}
  <2>1. screen' = cga_putc(screen, c) /\ line' = line /\ reader' = [reader EXCEPT !.at = "prompt"]
    BY <1>10 DEF edit
  <2> QED BY <1>1, <1>6, <1>7, <2>1
<1>11. CASE /\ ~(printable(c) /\ Len(line) < BUFLEN - 1) /\ ~(c = "BS" /\ line # <<>>)
            /\ c \notin {"NL", "CR"}
  <2>1. screen' = screen /\ line' = line /\ reader' = [reader EXCEPT !.at = "serial"]
    BY <1>11 DEF edit
  <2> QED BY <1>1, <1>4, <1>7, <2>1
<1> QED BY <1>8, <1>9, <1>10, <1>11

LEMMA PromptKeeps ==
  ASSUME ConsoleInv, prompt
  PROVE  ConsoleInv'
<1>1. /\ reader.mode \in {"kernel", "user"} /\ reader.c \in Char \cup {"NO"}
      /\ reader = [mode |-> reader.mode, at |-> reader.at, c |-> reader.c]
      /\ IsScreen(screen)
  BY DEF ConsoleInv, LineInv
<1>2. UNCHANGED <<keyboard, serial, shift, cons, unread, overrun>> /\ line' = <<>>
      /\ reader' = [reader EXCEPT !.at = "serial"]
  BY DEF prompt, devices
<1>3. KeyboardInv' /\ RingInv'
  BY <1>2, KeyboardInvKept, RingInvKept DEF ConsoleInv
<1>4. IsScreen(screen')
  <2>1. PICK text \in Outputs : screen' = cprintf(screen, text)
    BY DEF prompt
  <2>2. text \in Seq(STRING)
    BY ConsoleAssumption
  <2> QED BY <1>1, <2>1, <2>2, PrintIsScreen
<1>5. reader' \in [mode : {"kernel", "user"}, at : Stages, c : Char \cup {"NO"}]
  BY <1>1, <1>2 DEF Stages
<1>6. line' \in Seq(Char \cup {"NO"}) /\ Len(line') < BUFLEN /\ DOMAIN line' = {}
  BY <1>2, ScreenSize
<1>7. EchoMatchesLine'
  BY <1>6 DEF EchoMatchesLine
<1> QED BY <1>3, <1>4, <1>5, <1>6, <1>7 DEF ConsoleInv, LineInv

LEMMA ConsoleNextKeeps == ConsoleInv /\ [ConsoleNext]_console => ConsoleInv'
<1> SUFFICES ASSUME ConsoleInv, [ConsoleNext]_console PROVE ConsoleInv'
  OBVIOUS
<1>1. CASE \E port \in {"none", "absent"}, mode \in {"kernel", "user"} : console_initialize(port, mode)
  <2>1. PICK port \in {"none", "absent"}, mode \in {"kernel", "user"} : console_initialize(port, mode)
    BY <1>1
  <2>2. /\ serial' = port /\ reader' = [reader EXCEPT !.at = "prompt", !.mode = mode]
        /\ UNCHANGED <<keyboard, events, shift, cons, unread, overrun, line, screen>>
        /\ reader.at = "initialize"
    BY <2>1 DEF console_initialize
  <2>3. RingInv' /\ KeyboardInv'
    BY <2>2, RingInvKept DEF ConsoleInv, KeyboardInv
  <2>4. reader' \in [mode : {"kernel", "user"}, at : Stages, c : Char \cup {"NO"}] /\ reader'.at = "prompt"
    BY <2>2 DEF ConsoleInv, LineInv, Stages
  <2>5. LineInv'
    BY <2>2, <2>4, LineInvKept DEF ConsoleInv
  <2> QED BY <2>3, <2>5 DEF ConsoleInv
<1>2. CASE \E k \in Keys : press(k) \/ release(k)
  BY <1>2, SendKeeps
<1>3. CASE \E c \in SerialChars : receive(c)
  <2>1. PICK c \in SerialChars : receive(c)
    BY <1>3
  <2>2. serial' = c /\ UNCHANGED <<keyboard, shift, cons, unread, overrun, reader, line, screen>>
    BY <2>1 DEF receive
  <2>3. RingInv' /\ KeyboardInv'
    BY <2>2, RingInvKept DEF ConsoleInv, KeyboardInv
  <2>4. LineInv'
    BY <2>2, LineInvKept DEF ConsoleInv, LineInv
  <2> QED BY <2>3, <2>4 DEF ConsoleInv
<1>4. CASE UNCHANGED console
  <2>1. UNCHANGED <<keyboard, serial, shift, cons, unread, overrun, reader, line, screen>>
    BY <1>4 DEF console
  <2>2. RingInv' /\ KeyboardInv'
    BY <2>1, RingInvKept, KeyboardInvKept DEF ConsoleInv
  <2>3. LineInv'
    BY <2>1, LineInvKept DEF ConsoleInv, LineInv
  <2> QED BY <2>2, <2>3 DEF ConsoleInv
<1> QED BY <1>1, <1>2, <1>3, <1>4, PromptKeeps, SerialKeeps, InterruptKeeps, GrabStepKeeps, EditKeeps
        DEF ConsoleNext
-----------------------------------------------------------------------------
(***************************************************************************)
(* Whatever is typed and received while readers poll the devices, in the   *)
(* kernel and in programs: what the ring holds between its two positions   *)
(* is what came and was not read, in order, unless it was overrun, and no  *)
(* modifier stays set without its key.                                     *)
(***************************************************************************)
THEOREM InputReadAsTyped == ConsoleSpec => []InputAsTyped
<1>1. ConsoleSpec => []ConsoleInv
  BY ConsoleInitInv, ConsoleNextKeeps, PTL DEF ConsoleSpec
<1> QED BY <1>1, ConsoleInvImplies, PTL

(***************************************************************************)
(* For every size of screen and buffer, what readline() will return stands *)
(* in front of the cursor, through wraps, scrolling and rubbing out.       *)
(***************************************************************************)
THEOREM LineIsOnScreen == ConsoleSpec => []EchoMatchesLine
<1>1. ConsoleSpec => []ConsoleInv
  BY ConsoleInitInv, ConsoleNextKeeps, PTL DEF ConsoleSpec
<1> QED BY <1>1, ConsoleInvImplies, PTL
-----------------------------------------------------------------------------
(***************************************************************************)
(* The boot of the memory.                                                 *)
(***************************************************************************)
BootSpec == BootInit /\ [][BootNext]_bootMemory
-----------------------------------------------------------------------------
(***************************************************************************)
(* Pages and their multiples.                                              *)
(***************************************************************************)
LEMMA MultiplesApart ==
  ASSUME NEW x \in Nat, NEW y \in Nat, NEW p \in Nat \ {0}, x < y
  PROVE  x * p + p <= y * p
<1>1. PICK z \in Nat : y = x + 1 + z
  <2>1. y - x - 1 \in Nat /\ y = x + 1 + (y - x - 1)
    OBVIOUS
  <2> QED BY <2>1
<1>2. y * p = x * p + p + z * p
  BY <1>1
<1>3. z * p \in Nat /\ x * p \in Nat
  OBVIOUS
<1> HIDE <1>1
<1> QED BY <1>2, <1>3

LEMMA RoundedUp ==
  ASSUME NEW n \in Nat
  PROVE  /\ ROUNDUP(n, PAGE_SIZE) \in Nat
         /\ n <= ROUNDUP(n, PAGE_SIZE) /\ ROUNDUP(n, PAGE_SIZE) < n + PAGE_SIZE
         /\ ROUNDUP(n, PAGE_SIZE) \div PAGE_SIZE \in Nat
         /\ ROUNDUP(n, PAGE_SIZE) = (ROUNDUP(n, PAGE_SIZE) \div PAGE_SIZE) * PAGE_SIZE
         /\ ROUNDUP(n, PAGE_SIZE) % PAGE_SIZE = 0
<1> DEFINE p == PAGE_SIZE
           m == n + p - 1
           k == m \div p
           r == m % p
<1>1. p \in Nat \ {0} /\ m \in Nat
  BY BootAssumption
<1>2. k \in Nat /\ r \in 0 .. p - 1 /\ m = k * p + r
  <2>1. k = m \div p /\ r = m % p
    OBVIOUS
  <2> HIDE DEF p, m, k, r
  <2>2. k \in Nat /\ r \in 0 .. p - 1
    BY <1>1, <2>1
  <2>3. m \in Int /\ p \in Int /\ p > 0
    BY <1>1
  <2>4. m = p * k + r
    BY <2>1, <2>3
  <2> QED BY <1>1, <2>2, <2>4
<1>3. ROUNDUP(n, PAGE_SIZE) = k * p
  BY DEF ROUNDUP
<1>4. m = n + p - 1
  OBVIOUS
<1> HIDE DEF p, m, k, r
<1>5. k * p \in Nat /\ n <= k * p /\ k * p < n + p
  <2>1. k * p \in Nat
    BY <1>1, <1>2
  <2> DEFINE kp == k * p
  <2> HIDE DEF kp
  <2>2. kp \in Nat /\ m = kp + r
    BY <1>2, <2>1 DEF kp
  <2>3. n <= kp /\ kp < n + p
    BY <1>1, <1>2, <1>4, <2>2
  <2> QED BY <2>1, <2>3 DEF kp
<1>6. (k * p) \div p = k /\ (k * p) % p = 0
  BY <1>1, <1>2
<1> QED BY <1>2, <1>3, <1>5, <1>6 DEF p

LEMMA RoundUpMonotone ==
  ASSUME NEW m \in Nat, NEW n \in Nat, m <= n
  PROVE  ROUNDUP(m, PAGE_SIZE) <= ROUNDUP(n, PAGE_SIZE)
<1> DEFINE p == PAGE_SIZE
           x == ROUNDUP(m, PAGE_SIZE) \div PAGE_SIZE
           y == ROUNDUP(n, PAGE_SIZE) \div PAGE_SIZE
           rm == ROUNDUP(m, PAGE_SIZE)
           rn == ROUNDUP(n, PAGE_SIZE)
<1>1. /\ x \in Nat /\ y \in Nat /\ rm = x * p /\ rn = y * p
      /\ rm \in Nat /\ rn \in Nat /\ rm < m + p /\ n <= rn
  BY RoundedUp
<1>2. p \in Nat \ {0}
  BY BootAssumption
<1> HIDE DEF p, x, y, rm, rn
<1>3. y < x => rn + p <= rm
  BY <1>1, <1>2, MultiplesApart
<1>4. rm < rn + p
  BY <1>1, <1>2
<1>5. ~(y < x)
  BY <1>1, <1>2, <1>3, <1>4
<1>6. CASE x = y
  BY <1>1, <1>6 DEF rm, rn
<1>7. CASE x < y
  <2>1. rm + p <= rn
    BY <1>1, <1>2, <1>7, MultiplesApart
  <2> QED BY <1>1, <1>2, <2>1 DEF rm, rn
<1> QED BY <1>1, <1>5, <1>6, <1>7
-----------------------------------------------------------------------------
(***************************************************************************)
(* A memory in which every space has pages of its own behind the kernel.   *)
(***************************************************************************)
Space == [at : Nat, size : Nat]

Bottom(mem) == IF mem.free = 0 THEN end_of_kernel ELSE mem.free

Apart(mem) ==
  /\ mem = [free |-> mem.free, spaces |-> mem.spaces, directory |-> mem.directory,
            entries |-> mem.entries]
  /\ mem.free \in Nat /\ (mem.free # 0 => end_of_kernel <= mem.free)
  /\ mem.spaces \in Seq(Space)
  /\ \A i \in 1 .. Len(mem.spaces) :
       /\ end_of_kernel <= mem.spaces[i].at /\ mem.spaces[i].at % PAGE_SIZE = 0
       /\ mem.spaces[i].at + mem.spaces[i].size <= mem.free
       /\ \A j \in 1 .. Len(mem.spaces) : i < j =>
            ROUNDUP(mem.spaces[i].at + mem.spaces[i].size, PAGE_SIZE) <= mem.spaces[j].at

LEMMA SpaceAllocated ==
  ASSUME NEW mem, Apart(mem), NEW size \in Nat, end_of_kernel \in Nat
  PROVE  /\ Apart(boot_allocate_space(mem, size))
         /\ end_of_kernel <= boot_allocate_space(mem, size).free
         /\ Len(boot_allocate_space(mem, size).spaces) = Len(mem.spaces) + 1
<1> DEFINE b == Bottom(mem)
           at == ROUNDUP(b, PAGE_SIZE)
           s == mem.spaces
           n == Len(s)
           one == [at |-> at, size |-> size]
           t == Append(s, one)
           new == boot_allocate_space(mem, size)
<1>1. /\ b \in Nat /\ end_of_kernel <= b
      /\ \A i \in 1 .. n : s[i].at + s[i].size <= b
  <2>1. /\ mem.free \in Nat /\ (mem.free # 0 => end_of_kernel <= mem.free)
        /\ \A i \in 1 .. n : s[i] \in Space /\ s[i].at + s[i].size <= mem.free
    BY DEF Apart
  <2>2. b = IF mem.free = 0 THEN end_of_kernel ELSE mem.free
    BY DEF Bottom
  <2> HIDE DEF b, s, n
  <2>3. b \in Nat /\ end_of_kernel <= b /\ mem.free <= b
    BY <2>1, <2>2
  <2>4. \A i \in 1 .. n : s[i].at \in Nat /\ s[i].size \in Nat
    BY <2>1 DEF Space
  <2> QED BY <2>1, <2>3, <2>4
<1>2. at \in Nat /\ b <= at /\ at % PAGE_SIZE = 0
  BY <1>1, RoundedUp
<1>3. /\ s \in Seq(Space) /\ n \in Nat
      /\ \A i \in 1 .. n : s[i] \in Space
  BY DEF Apart
<1>4. new = [free |-> at + size, spaces |-> t, directory |-> mem.directory, entries |-> mem.entries]
  <2>1. mem = [free |-> mem.free, spaces |-> mem.spaces, directory |-> mem.directory,
               entries |-> mem.entries]
    BY DEF Apart
  <2>2. new = [mem EXCEPT !.free = at + size, !.spaces = Append(@, one)]
    BY DEF boot_allocate_space, Bottom
  <2> HIDE DEF at, one, new
  <2> QED BY <2>1, <2>2
<1>5. one \in Space /\ one.at = at /\ one.size = size
  BY <1>2 DEF Space
<1> HIDE DEF at, b, one
<1>6. /\ t \in Seq(Space) /\ Len(t) = n + 1
      /\ \A i \in 1 .. n : t[i] = s[i]
      /\ t[n + 1] = one
  BY <1>3, <1>5
<1>7. /\ new.free = at + size /\ new.spaces = t
      /\ new = [free |-> new.free, spaces |-> new.spaces, directory |-> new.directory,
                entries |-> new.entries]
  BY <1>4
<1>8. end_of_kernel <= at /\ at <= at + size
  BY <1>1, <1>2
<1> HIDE DEF new, t, n
<1>9. ASSUME NEW i \in 1 .. n
      PROVE  /\ end_of_kernel <= t[i].at /\ t[i].at % PAGE_SIZE = 0
             /\ t[i].at + t[i].size <= at + size
             /\ ROUNDUP(t[i].at + t[i].size, PAGE_SIZE) <= at
             /\ \A j \in 1 .. n : i < j => ROUNDUP(t[i].at + t[i].size, PAGE_SIZE) <= t[j].at
  <2>1. /\ end_of_kernel <= s[i].at /\ s[i].at % PAGE_SIZE = 0
        /\ \A j \in 1 .. n : i < j => ROUNDUP(s[i].at + s[i].size, PAGE_SIZE) <= s[j].at
    BY DEF Apart, n
  <2>2. s[i].at + s[i].size \in Nat /\ s[i].at + s[i].size <= b
    <3>1. s[i] \in Space
      BY <1>3
    <3>2. s[i].at \in Nat /\ s[i].size \in Nat
      BY <3>1 DEF Space
    <3> QED BY <1>1, <3>2
  <2> DEFINE e == s[i].at + s[i].size
  <2>3. ROUNDUP(e, PAGE_SIZE) <= at
    <3> HIDE DEF e
    <3> QED BY <1>1, <2>2, RoundUpMonotone DEF at, e
  <2>4. s[i].at + s[i].size <= at + size
    BY <1>1, <1>2, <2>2
  <2> QED BY <1>6, <2>1, <2>3, <2>4
<1>10. ASSUME NEW i \in 1 .. n + 1
       PROVE  /\ end_of_kernel <= t[i].at /\ t[i].at % PAGE_SIZE = 0
              /\ t[i].at + t[i].size <= at + size
  <2>1. CASE i = n + 1
    BY <1>2, <1>5, <1>6, <1>8, <2>1
  <2>2. CASE i # n + 1
    <3>1. i \in 1 .. n
      BY <1>3, <2>2
    <3> QED BY <1>9, <3>1
  <2> QED BY <2>1, <2>2
<1>11. ASSUME NEW i \in 1 .. n + 1, NEW j \in 1 .. n + 1, i < j
       PROVE  ROUNDUP(t[i].at + t[i].size, PAGE_SIZE) <= t[j].at
  <2>1. i \in 1 .. n
    BY <1>3, <1>11
  <2>2. CASE j = n + 1
    BY <1>5, <1>6, <1>9, <2>1, <2>2
  <2>3. CASE j # n + 1
    <3>1. j \in 1 .. n
      BY <1>3, <2>3
    <3> QED BY <1>9, <1>11, <2>1, <3>1
  <2> QED BY <2>2, <2>3
<1>12. at + size \in Nat /\ end_of_kernel <= at + size
  BY <1>2, <1>8
<1>13. Apart(new)
  BY <1>6, <1>7, <1>10, <1>11, <1>12 DEF Apart
<1> QED BY <1>6, <1>7, <1>12, <1>13 DEF new, n

(* Neither a change of the directory nor one of the entries matters.       *)
LEMMA OtherFields ==
  ASSUME NEW mem, Apart(mem), NEW d, NEW e
  PROVE  Apart([mem EXCEPT !.directory = d]) /\ Apart([mem EXCEPT !.entries = e])
<1>1. /\ [mem EXCEPT !.directory = d].free = mem.free /\ [mem EXCEPT !.directory = d].spaces = mem.spaces
      /\ [mem EXCEPT !.entries = e].free = mem.free /\ [mem EXCEPT !.entries = e].spaces = mem.spaces
  BY DEF Apart
<1> QED BY <1>1 DEF Apart

LEMMA TableMade ==
  ASSUME NEW mem, Apart(mem), end_of_kernel <= mem.free, NEW d, end_of_kernel \in Nat
  PROVE  /\ Apart(boot_get_page_table(mem, d))
         /\ end_of_kernel <= boot_get_page_table(mem, d).free
<1>1. CASE mem.directory[d].table # 0
  BY <1>1 DEF boot_get_page_table
<1>2. CASE mem.directory[d].table = 0
  <2> DEFINE new == boot_allocate_space(mem, PAGE_SIZE)
             dir == [new.directory EXCEPT ![d] = [table |-> last_space(new), user |-> FALSE]]
  <2>1. Apart(new) /\ end_of_kernel <= new.free
    BY BootAssumption, SpaceAllocated
  <2>2. boot_get_page_table(mem, d) = [new EXCEPT !.directory = dir]
    BY <1>2 DEF boot_get_page_table
  <2> HIDE DEF new, dir
  <2>3. [new EXCEPT !.directory = dir].free = new.free
    BY <2>1 DEF Apart
  <2>4. Apart([new EXCEPT !.directory = dir])
    BY <2>1, OtherFields
  <2> QED BY <2>1, <2>2, <2>3, <2>4
<1> QED BY <1>1, <1>2

(***************************************************************************)
(* The loops over directory entries.  The function that the model defines  *)
(* recursively exists, and keeps the spaces apart.                         *)
(***************************************************************************)
Filling(g, m, a, n) ==
  g = [k \in a .. a + n |-> IF k = a THEN m ELSE boot_get_page_table(g[k - 1], k)]

LEMMA FillingExists ==
  ASSUME NEW m, NEW a \in Nat
  PROVE  \A n \in Nat : \E g : Filling(g, m, a, n)
<1> DEFINE S == {n \in Nat : \E g : Filling(g, m, a, n)}
<1>1. 0 \in S
  <2> DEFINE g == [k \in a .. a + 0 |-> m]
  <2>1. \A k \in a .. a + 0 : k = a
    OBVIOUS
  <2>2. Filling(g, m, a, 0)
    BY <2>1 DEF Filling
  <2> HIDE DEF g
  <2> QED BY <2>2
<1>2. ASSUME NEW n \in Nat, n \in S PROVE n + 1 \in S
  <2>1. PICK g : Filling(g, m, a, n)
    BY <1>2
  <2> DEFINE z == a + (n + 1)
             h == [k \in a .. z |-> IF k = z THEN boot_get_page_table(g[z - 1], z) ELSE g[k]]
  <2>2. /\ z \in Nat /\ z # a /\ z - 1 \in a .. a + n
        /\ \A k \in a .. z : k # z => k \in a .. a + n
        /\ \A k \in a .. a + n : k \in a .. z /\ k # z
        /\ \A k \in a .. a + n : k # a => k - 1 \in a .. a + n
    OBVIOUS
  <2> HIDE DEF z
  <2>3. \A k \in a .. a + n : h[k] = g[k]
    BY <2>2
  <2>4. \A k \in a .. a + n : g[k] = IF k = a THEN m ELSE boot_get_page_table(g[k - 1], k)
    BY <2>1 DEF Filling
  <2>5. ASSUME NEW k \in a .. z
        PROVE  h[k] = IF k = a THEN m ELSE boot_get_page_table(h[k - 1], k)
    <3>1. CASE k = z
      <4>1. h[k] = boot_get_page_table(g[z - 1], z) /\ h[z - 1] = g[z - 1]
        BY <2>2, <2>3, <3>1
      <4> HIDE DEF h
      <4> QED BY <2>2, <3>1, <4>1
    <3>2. CASE k # z
      <4>1. k \in a .. a + n
        BY <2>2, <3>2
      <4>2. h[k] = g[k] /\ (k # a => h[k - 1] = g[k - 1])
        BY <2>2, <2>3, <4>1
      <4> HIDE DEF h
      <4> QED BY <2>4, <4>1, <4>2
    <3> QED BY <3>1, <3>2
  <2>6. h = [k \in a .. z |-> h[k]]
    OBVIOUS
  <2> HIDE DEF h
  <2>7. h = [k \in a .. z |-> IF k = a THEN m ELSE boot_get_page_table(h[k - 1], k)]
    BY <2>5, <2>6
  <2>8. Filling(h, m, a, n + 1)
    BY <2>7 DEF Filling, z
  <2> QED BY <2>8
<1> HIDE DEF S
<1>3. Nat \subseteq S
  BY <1>1, <1>2, SetInduction
<1> QED BY <1>3 DEF S

Grown(mem) == Apart(mem) /\ end_of_kernel <= mem.free

LEMMA FillingKeeps ==
  ASSUME NEW m, Grown(m), end_of_kernel \in Nat, NEW a \in Nat, NEW n \in Nat,
         NEW g, Filling(g, m, a, n)
  PROVE  Grown(g[a + n])
<1> DEFINE S == {k \in Nat : k <= n => Grown(g[a + k])}
<1>1. \A k \in a .. a + n : g[k] = IF k = a THEN m ELSE boot_get_page_table(g[k - 1], k)
  BY DEF Filling
<1>2. 0 \in S
  <2>1. a + 0 \in a .. a + n /\ a + 0 = a
    OBVIOUS
  <2>2. g[a + 0] = m
    BY <1>1, <2>1
  <2> QED BY <2>2
<1>3. ASSUME NEW k \in Nat, k \in S PROVE k + 1 \in S
  <2> SUFFICES ASSUME k + 1 <= n PROVE Grown(g[a + (k + 1)])
    OBVIOUS
  <2>1. Grown(g[a + k])
    BY <1>3
  <2> DEFINE z == a + (k + 1)
  <2>2. z \in a .. a + n /\ z # a /\ z - 1 = a + k
    OBVIOUS
  <2> HIDE DEF z
  <2>3. g[z] = boot_get_page_table(g[a + k], z)
    BY <1>1, <2>2
  <2>4. Grown(g[z])
    BY <2>1, <2>3, TableMade DEF Grown
  <2> QED BY <2>4 DEF z
<1> HIDE DEF S
<1>4. Nat \subseteq S
  BY <1>2, <1>3, SetInduction
<1> QED BY <1>4 DEF S

(***************************************************************************)
(* boot_map_range() makes the tables first, then writes entries.           *)
(***************************************************************************)
LEMMA PagesOf ==
  ASSUME NEW size \in Nat
  PROVE  pages_of(size) \in Nat
  BY RoundedUp DEF pages_of

LEMMA RangeMapped ==
  ASSUME NEW mem, Grown(mem), end_of_kernel \in Nat, NEW d \in Nat, NEW first \in Nat,
         NEW size \in Nat, NEW pa, NEW perm
  PROVE  Grown(boot_map_range(mem, d, first, size, pa, perm))
<1> DEFINE k == (first + pages_of(size) - 1) \div NPT
           dirs == d .. d + k
           Body(g) == [i \in dirs |-> boot_get_page_table(IF i = d THEN mem ELSE g[i - 1], i)]
           get == CHOOSE g : g = Body(g)
           with == get[d + k]
           m == boot_get_page_table(mem, d)
           at(j) == <<with.directory[d + ((first + j) \div NPT)].table, (first + j) % NPT>>
           new == [slot \in {at(j) : j \in 0 .. pages_of(size) - 1} |->
                     LET j == CHOOSE x \in 0 .. pages_of(size) - 1 : at(x) = slot
                     IN [frame |-> pa \div PAGE_SIZE + j, user |-> "U" \in perm, write |-> "W" \in perm]]
           ent == [slot \in DOMAIN with.entries \cup DOMAIN new |->
                     IF slot \in DOMAIN new THEN new[slot] ELSE with.entries[slot]]
           res == [with EXCEPT !.entries = [slot \in DOMAIN @ \cup DOMAIN new |->
                                              IF slot \in DOMAIN new THEN new[slot] ELSE @[slot]]]
<1>1. CASE pages_of(size) = 0
  BY <1>1 DEF boot_map_range
<1>2. CASE pages_of(size) # 0
  <2>1. k \in Nat
    BY <1>2, PagesOf, BootAssumption
  <2>2. boot_map_range(mem, d, first, size, pa, perm) = res
    BY <1>2 DEF boot_map_range
  <2>3. res = [with EXCEPT !.entries = ent]
    OBVIOUS
  <2> HIDE DEF ent, res, k
  <2>4. Grown(m)
    BY TableMade DEF Grown
  <2>5. ASSUME NEW g
        PROVE  Body(g) = [i \in d .. d + k |-> IF i = d THEN m ELSE boot_get_page_table(g[i - 1], i)]
    OBVIOUS
  <2>6. \A g : g = Body(g) <=> Filling(g, m, d, k)
    BY <2>5 DEF Filling
  <2>7. \E g : Filling(g, m, d, k)
    BY <2>1, FillingExists
  <2> HIDE DEF Body, m
  <2>8. Filling(get, m, d, k)
    BY <2>6, <2>7
  <2> HIDE DEF get
  <2>9. Grown(with)
    BY <2>1, <2>4, <2>8, FillingKeeps
  <2> HIDE DEF with
  <2>10. Apart([with EXCEPT !.entries = ent])
    BY <2>9, OtherFields DEF Grown
  <2>11. [with EXCEPT !.entries = ent].free = with.free
    BY <2>9 DEF Grown, Apart
  <2> QED BY <2>2, <2>3, <2>9, <2>10, <2>11 DEF Grown
<1> QED BY <1>1, <1>2
-----------------------------------------------------------------------------
(***************************************************************************)
(* The boot.                                                               *)
(***************************************************************************)
BootInv ==
  /\ end_of_kernel \in Nat /\ number_of_frames \in Nat
  /\ Apart(Memory)
  /\ boot = "detect_memory" => ptr_free_mem = 0 /\ spaces = <<>>
  /\ boot # "detect_memory" => /\ PHYS_EXTENDED_MEM <= end_of_kernel
                               /\ PHYS_IO_MEM \div PAGE_SIZE <= number_of_frames
  /\ boot \notin {"detect_memory", "directory"} => end_of_kernel <= ptr_free_mem
  /\ boot # "done" => free_frame_list = {}
  /\ NoReservedFrameIsFree

LEMMA BootStarts ==
  BootInit => BootInv
<1> SUFFICES ASSUME BootInit PROVE BootInv
  OBVIOUS
<1>1. /\ Memory.free = 0 /\ Memory.spaces = <<>>
      /\ Memory = [free |-> Memory.free, spaces |-> Memory.spaces, directory |-> Memory.directory,
                   entries |-> Memory.entries]
  BY DEF BootInit, Memory
<1>2. Apart(Memory)
  <2>1. Memory.spaces \in Seq(Space) /\ Len(Memory.spaces) = 0
    BY <1>1
  <2> QED BY <1>1, <2>1 DEF Apart
<1> QED BY <1>2 DEF BootInit, BootInv, NoReservedFrameIsFree

LEMMA StatementKeeps ==
  ASSUME BootInv, NEW before, before \notin {"detect_memory", "done"},
         NEW next, next \notin {"detect_memory", "directory", "done"},
         NEW mem, Grown(mem), statement(before, next, mem)
  PROVE  BootInv'
<1>1. /\ boot = before /\ boot' = next
      /\ ptr_free_mem' = mem.free /\ spaces' = mem.spaces
      /\ directory' = mem.directory /\ entries' = mem.entries
      /\ UNCHANGED <<end_of_kernel, number_of_frames, paging, free_frame_list>>
  BY DEF statement
<1>2. Memory' = mem
  BY <1>1 DEF Memory, Grown, Apart
<1>3. Apart(Memory)'
  <2>1. Apart(mem)
    BY DEF Grown
  <2> QED BY <1>1, <1>2, <2>1 DEF Apart
<1>4. free_frame_list' = {}
  BY <1>1 DEF BootInv
<1>5. NoReservedFrameIsFree'
  BY <1>4 DEF NoReservedFrameIsFree
<1>6. end_of_kernel' <= ptr_free_mem'
  BY <1>1 DEF Grown
<1> QED BY <1>1, <1>3, <1>4, <1>5, <1>6 DEF BootInv

LEMMA MemoryGrown ==
  ASSUME BootInv, boot \notin {"detect_memory", "directory"}
  PROVE  Grown(Memory)
  BY DEF BootInv, Grown, Memory

LEMMA DivisionMonotone ==
  ASSUME NEW m \in Nat, NEW n \in Nat, m <= n, NEW p \in Nat \ {0}
  PROVE  m \div p <= n \div p
<1> DEFINE x == m \div p
           y == n \div p
           r == m % p
           t == n % p
<1>1. x \in Nat /\ y \in Nat /\ r \in 0 .. p - 1 /\ t \in 0 .. p - 1
  OBVIOUS
<1>2. x = m \div p /\ r = m % p /\ y = n \div p /\ t = n % p
  OBVIOUS
<1> HIDE DEF x, y, r, t
<1>3. m = p * x + r /\ n = p * y + t
  <2>1. m \in Int /\ n \in Int /\ p \in Int /\ p > 0
    OBVIOUS
  <2>2. m = p * x + r
    BY <1>2, <2>1
  <2>3. n = p * y + t
    BY <1>2, <2>1
  <2> QED BY <2>2, <2>3
<1>4. ASSUME y < x PROVE FALSE
  <2>1. y * p + p <= x * p
    BY <1>1, <1>4, MultiplesApart
  <2>2. x * p = p * x /\ y * p = p * y /\ p * x \in Nat /\ p * y \in Nat
    BY <1>1
  <2> DEFINE u == p * x
             v == p * y
  <2>3. v + p <= u /\ m = u + r /\ n = v + t /\ u \in Nat /\ v \in Nat
    BY <1>3, <2>1, <2>2
  <2> HIDE DEF u, v
  <2> QED BY <1>1, <2>3
<1>5. ~(y < x)
  BY <1>4
<1>6. x <= y
  BY <1>1, <1>5
<1> QED BY <1>6 DEF x, y

LEMMA MemoryDetected ==
  ASSUME BootInv, NEW maxpa \in Memories, NEW kern \in Kernels, detect_memory(maxpa, kern)
  PROVE  BootInv'
<1>1. /\ boot = "detect_memory" /\ boot' = "directory"
      /\ number_of_frames' = maxpa \div PAGE_SIZE
      /\ end_of_kernel' = kern
      /\ UNCHANGED <<ptr_free_mem, spaces, directory, entries, paging, free_frame_list>>
  BY DEF detect_memory
<1>2. /\ maxpa \in Nat /\ kern \in Nat /\ PAGE_SIZE \in Nat \ {0} /\ PHYS_IO_MEM \in Nat
      /\ PHYS_IO_MEM <= maxpa /\ PHYS_EXTENDED_MEM <= kern
  <2>1. /\ maxpa \in Nat /\ kern \in Nat /\ PAGE_SIZE \in Nat \ {0} /\ PHYS_IO_MEM \in Nat
        /\ PHYS_EXTENDED_MEM \in Nat /\ KERNEL_STACK_SIZE \in Nat
        /\ PHYS_IO_MEM <= PHYS_EXTENDED_MEM /\ PHYS_EXTENDED_MEM <= maxpa
        /\ PHYS_EXTENDED_MEM + KERNEL_STACK_SIZE <= kern
    BY BootAssumption
  <2> QED BY <2>1
<1>3. number_of_frames' \in Nat /\ PHYS_IO_MEM \div PAGE_SIZE <= number_of_frames'
  <2>1. maxpa \div PAGE_SIZE \in Nat
    BY <1>2
  <2>2. PHYS_IO_MEM \div PAGE_SIZE <= maxpa \div PAGE_SIZE
    BY <1>2, DivisionMonotone
  <2> QED BY <1>1, <2>1, <2>2
<1>4. Memory'.free = 0 /\ Memory'.spaces = <<>> /\ free_frame_list' = {}
  BY <1>1 DEF BootInv, Memory
<1>5. Apart(Memory)'
  <2>1. Memory'.spaces \in Seq(Space) /\ Len(Memory'.spaces) = 0
    BY <1>4
  <2>2. Memory' = [free |-> Memory'.free, spaces |-> Memory'.spaces, directory |-> Memory'.directory,
                   entries |-> Memory'.entries]
    BY DEF Memory
  <2> QED BY <1>4, <2>1, <2>2 DEF Apart
<1>6. NoReservedFrameIsFree'
  BY <1>4 DEF NoReservedFrameIsFree
<1> QED BY <1>1, <1>2, <1>3, <1>4, <1>5, <1>6 DEF BootInv

(***************************************************************************)
(* initialize_paging(): the frames under the IO hole, and those behind the *)
(* last boot space.                                                        *)
(***************************************************************************)
LEMMA FreeFramesAreNobodys ==
  ASSUME BootInv, initialize_paging
  PROVE  BootInv'
<1> DEFINE p == PAGE_SIZE
           q == PHYS_IO_MEM \div p
           ff == first_free
<1>1. /\ boot = "frames" /\ boot' = "done"
      /\ free_frame_list' = (3 .. q - 1) \cup (ff .. number_of_frames - 1)
      /\ UNCHANGED <<end_of_kernel, number_of_frames, ptr_free_mem, spaces, directory, entries, paging>>
  BY DEF initialize_paging
<1>2. /\ p \in Nat \ {0} /\ PHYS_IO_MEM \in Nat /\ PHYS_EXTENDED_MEM \in Nat
      /\ 3 * p <= PHYS_IO_MEM /\ PHYS_IO_MEM <= PHYS_EXTENDED_MEM /\ PHYS_IO_MEM % p = 0
  BY BootAssumption
<1>3. /\ end_of_kernel \in Nat /\ number_of_frames \in Nat /\ ptr_free_mem \in Nat
      /\ PHYS_EXTENDED_MEM <= end_of_kernel /\ end_of_kernel <= ptr_free_mem
      /\ q <= number_of_frames
      /\ spaces \in Seq(Space)
      /\ \A i \in DOMAIN spaces : /\ spaces[i] \in Space /\ end_of_kernel <= spaces[i].at
                                  /\ spaces[i].at + spaces[i].size <= ptr_free_mem
  BY <1>1 DEF BootInv, Apart, Memory
<1>4. q \in Nat /\ PHYS_IO_MEM = q * p
  <2>1. q = PHYS_IO_MEM \div p /\ q \in Nat
    BY <1>2
  <2> DEFINE r == PHYS_IO_MEM % p
  <2>2. r = PHYS_IO_MEM % p /\ r = 0 /\ PHYS_IO_MEM \in Int /\ p \in Int /\ p > 0
    BY <1>2
  <2> HIDE DEF p, q, r
  <2>3. PHYS_IO_MEM = p * q + r
    BY <2>1, <2>2
  <2> QED BY <1>2, <2>1, <2>2, <2>3
<1>5. ff \in Nat /\ ptr_free_mem <= ff * p
  <2>1. ff = ROUNDUP(ptr_free_mem, PAGE_SIZE) \div PAGE_SIZE
    BY DEF first_free
  <2> QED BY <1>3, <2>1, RoundedUp
<1>6. ASSUME NEW f \in free_frame_list'
      PROVE  LET a == f * PAGE_SIZE
             IN /\ f < number_of_frames /\ f > 2
                /\ ~(PHYS_IO_MEM < a + PAGE_SIZE /\ a < PHYS_EXTENDED_MEM)
                /\ ~(PHYS_EXTENDED_MEM < a + PAGE_SIZE /\ a < end_of_kernel)
                /\ \A i \in DOMAIN spaces :
                     ~(spaces[i].at < a + PAGE_SIZE /\ a < spaces[i].at + spaces[i].size)
  <2> DEFINE a == f * p
  <2>1. CASE f \in 3 .. q - 1
    <3>1. f \in Nat /\ f < q /\ f > 2
      BY <1>4, <2>1
    <3>2. a + p <= PHYS_IO_MEM /\ a \in Nat
      <4>1. f * p + p <= q * p
        BY <1>2, <1>4, <3>1, MultiplesApart
      <4> QED BY <1>2, <1>4, <3>1, <4>1
    <3>3. f < number_of_frames
      BY <1>3, <1>4, <3>1
    <3> HIDE DEF a, p
    <3>4. /\ ~(PHYS_IO_MEM < a + p) /\ ~(PHYS_EXTENDED_MEM < a + p)
      BY <1>2, <3>2
    <3>5. \A i \in DOMAIN spaces : ~(spaces[i].at < a + p)
      <4> SUFFICES ASSUME NEW i \in DOMAIN spaces PROVE ~(spaces[i].at < a + p)
        OBVIOUS
      <4>1. spaces[i].at \in Nat /\ end_of_kernel <= spaces[i].at
        BY <1>3 DEF Space
      <4> QED BY <1>2, <1>3, <3>2, <4>1
    <3> QED BY <3>1, <3>3, <3>4, <3>5 DEF a, p
  <2>2. CASE f \in ff .. number_of_frames - 1
    <3>1. f \in Nat /\ ff <= f /\ f < number_of_frames
      BY <1>3, <1>5, <2>2
    <3>2. a \in Nat /\ ptr_free_mem <= a
      <4>1. a \in Nat
        BY <1>2, <3>1
      <4>2. CASE f = ff
        BY <1>5, <4>1, <4>2
      <4>3. CASE f # ff
        <5>1. ff < f
          BY <1>5, <3>1, <4>3
        <5>2. ff * p + p <= f * p /\ ff * p \in Nat
          BY <1>2, <1>5, <3>1, <5>1, MultiplesApart
        <5> DEFINE w == ff * p
        <5>3. ptr_free_mem <= w /\ w + p <= a /\ w \in Nat
          BY <1>5, <5>2
        <5> HIDE DEF w, a
        <5> QED BY <1>2, <1>3, <4>1, <5>3
      <4> QED BY <4>1, <4>2, <4>3
    <3>3. f > 2
      <4> SUFFICES ASSUME ~(f > 2) PROVE FALSE
        OBVIOUS
      <4>1. f = 0 \/ f = 1 \/ f = 2
        BY <3>1
      <4>2. a = 0 \/ a = p \/ a = 2 * p
        BY <1>2, <4>1
      <4> HIDE DEF a
      <4> QED BY <1>2, <1>3, <3>2, <4>2
    <3> HIDE DEF a, p
    <3>4. ~(a < PHYS_EXTENDED_MEM) /\ ~(a < end_of_kernel)
      BY <1>2, <1>3, <3>2
    <3>5. \A i \in DOMAIN spaces : ~(a < spaces[i].at + spaces[i].size)
      <4> SUFFICES ASSUME NEW i \in DOMAIN spaces PROVE ~(a < spaces[i].at + spaces[i].size)
        OBVIOUS
      <4>1. spaces[i].at + spaces[i].size \in Nat /\ spaces[i].at + spaces[i].size <= ptr_free_mem
        BY <1>3 DEF Space
      <4> QED BY <1>3, <3>2, <4>1
    <3> QED BY <3>1, <3>3, <3>4, <3>5 DEF a, p
  <2> QED BY <1>1, <2>1, <2>2
<1>7. NoReservedFrameIsFree'
  BY <1>1, <1>6 DEF NoReservedFrameIsFree
<1>8. Apart(Memory)'
  BY <1>1 DEF BootInv, Apart, Memory
<1> QED BY <1>1, <1>7, <1>8 DEF BootInv

LEMMA DirectoryAllocated ==
  ASSUME BootInv, allocate_directory
  PROVE  BootInv'
<1>1. Apart(Memory) /\ end_of_kernel \in Nat /\ PAGE_SIZE \in Nat
  BY BootAssumption DEF BootInv
<1>2. Grown(boot_allocate_space(Memory, PAGE_SIZE))
  BY <1>1, SpaceAllocated DEF Grown
<1> QED BY <1>2, StatementKeeps DEF allocate_directory

LEMMA StackMapped ==
  ASSUME BootInv, map_stack
  PROVE  BootInv'
<1> DEFINE first == NPT - KERNEL_STACK_SIZE \div PAGE_SIZE
           mem == boot_map_range(Memory, STACK_DIR, first, KERNEL_STACK_SIZE, PHYS_EXTENDED_MEM, {"W"})
<1>1. boot = "stack" /\ statement("stack", "tables", mem)
  BY DEF map_stack, statement
<1>2. Grown(Memory) /\ end_of_kernel \in Nat
  BY <1>1, MemoryGrown DEF BootInv
<1>3. STACK_DIR \in Nat /\ KERNEL_STACK_SIZE \in Nat
  BY BootAssumption DEF STACK_DIR
<1>4. first \in Nat
  <2> DEFINE p == PAGE_SIZE
             q == KERNEL_STACK_SIZE \div p
             r == KERNEL_STACK_SIZE % p
  <2>1. /\ p \in Nat \ {0} /\ NPT \in Nat /\ KERNEL_STACK_SIZE \in Nat
        /\ KERNEL_STACK_SIZE <= p * NPT
    BY BootAssumption DEF PTSIZE
  <2>2. q \in Nat /\ r \in 0 .. p - 1 /\ q = KERNEL_STACK_SIZE \div p /\ r = KERNEL_STACK_SIZE % p
    BY <2>1
  <2> HIDE DEF p, q, r
  <2>3. KERNEL_STACK_SIZE \in Int /\ p \in Int /\ p > 0
    BY <2>1
  <2>4. KERNEL_STACK_SIZE = p * q + r
    BY <2>2, <2>3
  <2>5. ASSUME NPT < q PROVE FALSE
    <3>1. NPT * p + p <= q * p
      BY <2>1, <2>2, <2>5, MultiplesApart
    <3>2. NPT * p = p * NPT /\ q * p = p * q /\ p * NPT \in Nat /\ p * q \in Nat
      BY <2>1, <2>2
    <3> DEFINE u == p * NPT
               v == p * q
    <3>3. u + p <= v /\ KERNEL_STACK_SIZE = v + r /\ KERNEL_STACK_SIZE <= u /\ u \in Nat /\ v \in Nat
      BY <2>1, <2>4, <3>1, <3>2
    <3> HIDE DEF u, v
    <3> QED BY <2>1, <2>2, <3>3
  <2>6. NPT - q \in Nat
    BY <2>1, <2>2, <2>5
  <2> QED BY <2>6 DEF p, q
<1>5. Grown(mem)
  <2> HIDE DEF first
  <2> QED BY <1>2, <1>3, <1>4, RangeMapped
<1> HIDE DEF mem
<1> QED BY <1>1, <1>5, StatementKeeps

LEMMA KernelTablesMade ==
  ASSUME BootInv, kernel_tables
  PROVE  BootInv'
<1> DEFINE a == KERNEL_DIR - 1
           n == NDIR - KERNEL_DIR
           Body(g) == [d \in a .. NDIR - 1 |->
                         IF d < KERNEL_DIR THEN Memory ELSE boot_get_page_table(g[d - 1], d)]
           with == CHOOSE g : g = Body(g)
<1>1. statement("tables", "frames_info", with[NDIR - 1])
  BY DEF kernel_tables
<1>2. Grown(Memory) /\ end_of_kernel \in Nat
  BY <1>1, MemoryGrown DEF BootInv, statement
<1>3. a \in Nat /\ n \in Nat /\ a + n = NDIR - 1
  BY BootAssumption
<1>4. \A g : g = Body(g) <=> Filling(g, Memory, a, n)
  <2>1. \A d \in a .. NDIR - 1 : d < KERNEL_DIR <=> d = a
    BY BootAssumption
  <2>2. ASSUME NEW g
        PROVE  Body(g) = [d \in a .. NDIR - 1 |->
                            IF d = a THEN Memory ELSE boot_get_page_table(g[d - 1], d)]
    <3> HIDE DEF a
    <3> QED BY <2>1
  <2> HIDE DEF Body, a, n
  <2> QED BY <1>3, <2>2 DEF Filling
<1>5. \E g : Filling(g, Memory, a, n)
  <2> HIDE DEF a, n
  <2> QED BY <1>3, FillingExists
<1>6. Filling(with, Memory, a, n)
  <2> HIDE DEF Body, a, n
  <2> QED BY <1>4, <1>5
<1>7. Grown(with[NDIR - 1])
  <2> HIDE DEF with, a, n
  <2>1. Grown(with[a + n])
    BY <1>2, <1>3, <1>6, FillingKeeps
  <2> QED BY <1>3, <2>1
<1> HIDE DEF with
<1> QED BY <1>1, <1>7, StatementKeeps

LEMMA ArraysAllocated ==
  ASSUME BootInv, allocate_frames_info \/ allocate_disk_frames_info
  PROVE  BootInv'
<1>1. Apart(Memory) /\ end_of_kernel \in Nat
  BY DEF BootInv
<1>2. number_of_frames * FRAME_INFO_SIZE \in Nat /\ DISK_ARRAY_SIZE \in Nat
  BY BootAssumption DEF BootInv
<1>3. ASSUME NEW size \in Nat
      PROVE  Grown(boot_allocate_space(Memory, size))
  BY <1>1, SpaceAllocated DEF Grown
<1>4. CASE allocate_frames_info
  <2>1. Grown(boot_allocate_space(Memory, number_of_frames * FRAME_INFO_SIZE))
    BY <1>2, <1>3
  <2> QED BY <1>4, <2>1, StatementKeeps DEF allocate_frames_info
<1>5. CASE allocate_disk_frames_info
  <2>1. Grown(boot_allocate_space(Memory, DISK_ARRAY_SIZE))
    BY <1>2, <1>3
  <2> QED BY <1>5, <2>1, StatementKeeps DEF allocate_disk_frames_info
<1> QED BY <1>4, <1>5

LEMMA ListingSetUp ==
  ASSUME BootInv, setup_listing
  PROVE  BootInv'
<1> DEFINE self == spaces[1].at
           dir == [[Memory.directory EXCEPT ![VPT_DIR] = [table |-> self, user |-> FALSE]]
                     EXCEPT ![UVPT_DIR] = [table |-> self, user |-> TRUE]]
           mem == [Memory EXCEPT !.directory[VPT_DIR] = [table |-> self, user |-> FALSE],
                                 !.directory[UVPT_DIR] = [table |-> self, user |-> TRUE]]
<1>1. statement("listing", "envs", mem)
  BY DEF setup_listing
<1>2. Grown(Memory)
  BY <1>1, MemoryGrown DEF statement
<1>3. mem = [Memory EXCEPT !.directory = dir]
  BY DEF Memory
<1> HIDE DEF dir, mem
<1>4. Apart(mem)
  BY <1>2, <1>3, OtherFields DEF Grown
<1>5. mem.free = Memory.free
  BY <1>3 DEF Memory
<1> QED BY <1>1, <1>2, <1>4, <1>5, StatementKeeps DEF Grown

LEMMA EnvsAllocated ==
  ASSUME BootInv, allocate_envs
  PROVE  BootInv'
<1> DEFINE new == boot_allocate_space(Memory, ENVS_SIZE)
           mapped == boot_map_range(new, UENVS_DIR, 0, ENVS_SIZE, last_space(new), envs_permission)
           dir == [mapped.directory EXCEPT ![UENVS_DIR].user = TRUE]
           mem == [mapped EXCEPT !.directory[UENVS_DIR].user = TRUE]
<1>1. statement("envs", "map_kernel", mem)
  BY DEF allocate_envs
<1>2. UENVS_DIR \in Nat /\ ENVS_SIZE \in Nat /\ end_of_kernel \in Nat /\ 0 \in Nat
  BY BootAssumption DEF UENVS_DIR, BootInv
<1>3. Grown(new)
  BY <1>2, SpaceAllocated DEF BootInv, Grown
<1>4. mem = [mapped EXCEPT !.directory = dir]
  OBVIOUS
<1> HIDE DEF new, dir, mem
<1>5. Grown(mapped)
  BY <1>2, <1>3, RangeMapped
<1> HIDE DEF mapped
<1>6. Apart(mem) /\ mem.free = mapped.free
  <2>1. Apart(mapped)
    BY <1>5 DEF Grown
  <2>2. Apart([mapped EXCEPT !.directory = dir])
    BY <2>1, OtherFields
  <2>3. [mapped EXCEPT !.directory = dir].free = mapped.free
    BY <2>1 DEF Apart
  <2> QED BY <1>4, <2>2, <2>3
<1>7. Grown(mem)
  BY <1>5, <1>6 DEF Grown
<1> QED BY <1>1, <1>7, StatementKeeps

LEMMA KernelMapped ==
  ASSUME BootInv, map_kernel
  PROVE  BootInv'
<1> DEFINE mem == boot_map_range(Memory, KERNEL_DIR, 0, mapped_size, 0, {"W"})
<1>1. statement("map_kernel", "switch", mem)
  BY DEF map_kernel
<1>2. Grown(Memory) /\ end_of_kernel \in Nat
  BY <1>1, MemoryGrown DEF BootInv, statement
<1>3. KERNEL_DIR \in Nat /\ mapped_size \in Nat /\ 0 \in Nat
  BY BootAssumption DEF mapped_size, BootInv, Apart, Memory
<1>4. Grown(mem)
  BY <1>2, <1>3, RangeMapped
<1> HIDE DEF mem
<1> QED BY <1>1, <1>4, StatementKeeps

LEMMA PagingTurnedOn ==
  ASSUME BootInv, turn_on_paging \/ reload_segments
  PROVE  BootInv'
<1>1. /\ boot \notin {"detect_memory", "directory", "done"}
      /\ boot' \notin {"detect_memory", "directory", "done"}
      /\ UNCHANGED <<end_of_kernel, number_of_frames, ptr_free_mem, spaces, entries, free_frame_list>>
  BY DEF turn_on_paging, reload_segments
<1>2. Memory' = [Memory EXCEPT !.directory = directory']
  BY <1>1 DEF Memory
<1>3. Apart(Memory')
  BY <1>2, OtherFields DEF BootInv
<1>4. Apart(Memory)'
  BY <1>1, <1>3 DEF Apart
<1>5. NoReservedFrameIsFree'
  BY <1>1 DEF BootInv, NoReservedFrameIsFree
<1> QED BY <1>1, <1>4, <1>5 DEF BootInv

LEMMA BootMeansOwnedOnce ==
  BootInv => BootMemoryOwnedOnce
<1> SUFFICES ASSUME BootInv PROVE BootMemoryOwnedOnce
  OBVIOUS
<1>1. DOMAIN spaces = 1 .. Len(spaces)
  BY DEF BootInv, Apart, Memory
<1>2. BootSpacesDisjoint
  BY <1>1 DEF BootInv, Apart, Memory, BootSpacesDisjoint
<1> QED BY <1>2 DEF BootInv, BootMemoryOwnedOnce

LEMMA BootInvKept ==
  BootInv /\ [BootNext]_bootMemory => BootInv'
<1> SUFFICES ASSUME BootInv, [BootNext]_bootMemory PROVE BootInv'
  OBVIOUS
<1>1. CASE \E maxpa \in Memories, kern \in Kernels : detect_memory(maxpa, kern)
  BY <1>1, MemoryDetected
<1>2. CASE \/ allocate_directory \/ map_stack \/ kernel_tables
           \/ allocate_frames_info \/ allocate_disk_frames_info
  BY <1>2, DirectoryAllocated, StackMapped, KernelTablesMade, ArraysAllocated
<1>3. CASE \/ setup_listing \/ allocate_envs \/ map_kernel
           \/ turn_on_paging \/ reload_segments
  BY <1>3, ListingSetUp, EnvsAllocated, KernelMapped, PagingTurnedOn
<1>4. CASE initialize_paging
  BY <1>4, FreeFramesAreNobodys
<1>5. CASE UNCHANGED bootMemory
  <2>1. UNCHANGED <<boot, end_of_kernel, number_of_frames, ptr_free_mem, spaces, directory,
                    entries, paging, free_frame_list>>
    BY <1>5 DEF bootMemory
  <2> QED BY <2>1 DEF BootInv, Apart, Memory, NoReservedFrameIsFree
<1> QED BY <1>1, <1>2, <1>3, <1>4, <1>5 DEF BootNext

(***************************************************************************)
(* What boot_allocate_space() hands out while the memory is set up, tables *)
(* included, overlaps neither the kernel nor anything handed out before,   *)
(* and initialize_paging() puts no frame of it, of the kernel, of the BIOS *)
(* and of the IO hole into the list of free frames.                        *)
(***************************************************************************)
THEOREM BootMemoryHasOneOwner == BootSpec => []BootMemoryOwnedOnce
  BY BootInvKept, BootStarts, BootMeansOwnedOnce, PTL DEF BootSpec
-----------------------------------------------------------------------------
(***************************************************************************)
(* The tables through which boot maps: each entry of the directory has one *)
(* of its own, made from memory that was free.                             *)
(***************************************************************************)
AllDirs == 0 .. NDIR - 1
MapDirs == {STACK_DIR, UENVS_DIR} \cup (KERNEL_DIR .. NDIR - 1)
DirEntry == [table : Nat, user : BOOLEAN]

Tabled(mem) ==
  /\ mem.directory \in [AllDirs -> DirEntry]
  /\ \A d \in MapDirs : mem.directory[d].table = 0 \/ mem.directory[d].table < mem.free
  /\ \A d, e \in MapDirs :
       d # e /\ mem.directory[d].table # 0 => mem.directory[d].table # mem.directory[e].table
  /\ \A slot \in DOMAIN mem.entries : slot[1] \in Nat /\ slot[1] < mem.free

LEMMA MapDirsAre ==
  /\ MapDirs \subseteq AllDirs /\ STACK_DIR \in MapDirs /\ UENVS_DIR \in MapDirs
  /\ STACK_DIR # UENVS_DIR
  /\ \A d \in KERNEL_DIR .. NDIR - 1 : d \in MapDirs /\ d # STACK_DIR /\ d # UENVS_DIR
  /\ VPT_DIR \in AllDirs \ MapDirs /\ UVPT_DIR \in AllDirs \ MapDirs /\ VPT_DIR # UVPT_DIR
  BY BootAssumption DEF MapDirs, AllDirs, STACK_DIR, UENVS_DIR, VPT_DIR, UVPT_DIR

(* The place of the next space. *)
Room(mem) == ROUNDUP(Bottom(mem), PAGE_SIZE)

LEMMA MultiplesStay ==
  ASSUME NEW k \in Nat
  PROVE  ROUNDUP(k * PAGE_SIZE, PAGE_SIZE) = k * PAGE_SIZE
<1> DEFINE p == PAGE_SIZE
           n == k * p
           q == ROUNDUP(n, PAGE_SIZE) \div p
<1>1. p \in Nat \ {0} /\ n \in Nat
  BY BootAssumption
<1>2. /\ q \in Nat /\ ROUNDUP(n, PAGE_SIZE) = q * p
      /\ n <= ROUNDUP(n, PAGE_SIZE) /\ ROUNDUP(n, PAGE_SIZE) < n + p
  <2> HIDE DEF n
  <2> QED BY <1>1, RoundedUp
<1> HIDE DEF q
<1>3. ~(q < k)
  <2> SUFFICES ASSUME q < k PROVE FALSE
    OBVIOUS
  <2>1. q * p + p <= k * p
    BY <1>1, <1>2, MultiplesApart
  <2> DEFINE v == q * p
  <2>2. v + p <= n /\ n <= v /\ v \in Nat
    BY <1>1, <1>2, <2>1
  <2> HIDE DEF v, n
  <2> QED BY <1>1, <2>2
<1>4. ~(k < q)
  <2> SUFFICES ASSUME k < q PROVE FALSE
    OBVIOUS
  <2>1. k * p + p <= q * p
    BY <1>1, <1>2, MultiplesApart
  <2> DEFINE v == q * p
  <2>2. n + p <= v /\ v < n + p /\ v \in Nat
    BY <1>1, <1>2, <2>1
  <2> HIDE DEF v, n
  <2> QED BY <1>1, <2>2
<1>5. q = k
  BY <1>2, <1>3, <1>4
<1> QED BY <1>2, <1>5

LEMMA RoomIs ==
  ASSUME NEW mem, Apart(mem), end_of_kernel \in Nat \ {0}
  PROVE  /\ Room(mem) \in Nat \ {0} /\ mem.free \in Nat
         /\ end_of_kernel <= Room(mem) /\ mem.free <= Room(mem)
<1> DEFINE b == Bottom(mem)
<1>1. b \in Nat \ {0} /\ end_of_kernel <= b /\ mem.free <= b /\ mem.free \in Nat
  BY DEF Bottom, Apart
<1> HIDE DEF b
<1>2. ROUNDUP(b, PAGE_SIZE) \in Nat /\ b <= ROUNDUP(b, PAGE_SIZE)
  BY <1>1, RoundedUp
<1> DEFINE r == ROUNDUP(b, PAGE_SIZE)
<1>3. Room(mem) = r
  BY DEF Room, b
<1> HIDE DEF r
<1> QED BY <1>1, <1>2, <1>3 DEF r

SpaceAdded(new, mem, size) ==
  /\ Tabled(new)
  /\ new.directory = mem.directory /\ new.entries = mem.entries
  /\ new.free = Room(mem) + size
  /\ Len(new.spaces) = Len(mem.spaces) + 1
  /\ new.spaces[Len(new.spaces)] = [at |-> Room(mem), size |-> size]
  /\ \A i \in 1 .. Len(mem.spaces) : new.spaces[i] = mem.spaces[i]

LEMMA SpaceTabled ==
  ASSUME NEW mem, Apart(mem), Tabled(mem), NEW size \in Nat, end_of_kernel \in Nat \ {0}
  PROVE  SpaceAdded(boot_allocate_space(mem, size), mem, size)
<1> DEFINE r == Room(mem)
           one == [at |-> r, size |-> size]
           new == boot_allocate_space(mem, size)
<1>1. mem = [free |-> mem.free, spaces |-> mem.spaces, directory |-> mem.directory,
             entries |-> mem.entries]
  BY DEF Apart
<1>2. new = [mem EXCEPT !.free = r + size, !.spaces = Append(@, one)]
  BY DEF boot_allocate_space, Room, Bottom
<1>3. r \in Nat /\ mem.free \in Nat /\ mem.free <= r
  BY RoomIs
<1> HIDE DEF r, one, new
<1>4. new = [free |-> r + size, spaces |-> Append(mem.spaces, one), directory |-> mem.directory,
             entries |-> mem.entries]
  BY <1>1, <1>2
<1>5. /\ new.free = r + size /\ new.spaces = Append(mem.spaces, one)
      /\ new.directory = mem.directory /\ new.entries = mem.entries
  BY <1>4
<1>6. mem.free <= new.free /\ new.free \in Nat
  BY <1>3, <1>5
<1>7. Tabled(new)
  <2>1. \A d \in MapDirs : mem.directory[d].table \in Nat
    BY MapDirsAre DEF Tabled, DirEntry
  <2>2. \A d \in MapDirs : new.directory[d].table = 0 \/ new.directory[d].table < new.free
    BY <1>3, <1>5, <1>6, <2>1 DEF Tabled
  <2>3. \A slot \in DOMAIN new.entries : slot[1] \in Nat /\ slot[1] < new.free
    BY <1>3, <1>5, <1>6 DEF Tabled
  <2> QED BY <1>5, <2>2, <2>3 DEF Tabled
<1>8. mem.spaces \in Seq(Space)
  BY DEF Apart
<1>9. /\ Len(new.spaces) = Len(mem.spaces) + 1 /\ new.spaces[Len(new.spaces)] = one
      /\ \A i \in 1 .. Len(mem.spaces) : new.spaces[i] = mem.spaces[i]
  BY <1>5, <1>8
<1>10. SpaceAdded(new, mem, size)
  BY <1>5, <1>7, <1>9 DEF SpaceAdded, r, one
<1> QED BY <1>10 DEF new

(* A space of a page leaves the room behind it at once. *)
LEMMA RoomBehind ==
  ASSUME NEW mem, Apart(mem), end_of_kernel \in Nat \ {0}, NEW size \in Nat,
         NEW new, new.free = Room(mem) + size
  PROVE  /\ Room(new) < Room(mem) + size + PAGE_SIZE
         /\ size = PAGE_SIZE => Room(new) = Room(mem) + PAGE_SIZE
         /\ Room(mem) + size <= Room(new)
<1> DEFINE r == Room(mem)
           n == r + size
           k == r \div PAGE_SIZE
<1>1. r \in Nat \ {0}
  BY RoomIs
<1>2. PAGE_SIZE \in Nat \ {0}
  BY BootAssumption
<1>3. k \in Nat /\ r = k * PAGE_SIZE
  <2> DEFINE b == Bottom(mem)
  <2>1. b \in Nat
    BY DEF Bottom, Apart
  <2>2. r = ROUNDUP(b, PAGE_SIZE)
    BY DEF Room
  <2> HIDE DEF b, r
  <2> QED BY <2>1, <2>2, RoundedUp
<1> HIDE DEF r, k
<1>4. n \in Nat \ {0}
  BY <1>1
<1>5. Room(new) = ROUNDUP(n, PAGE_SIZE)
  BY <1>4 DEF Room, Bottom, r
<1> HIDE DEF n
<1>6. ROUNDUP(n, PAGE_SIZE) < n + PAGE_SIZE /\ n <= ROUNDUP(n, PAGE_SIZE)
  BY <1>4, RoundedUp
<1>7. CASE size = PAGE_SIZE
  <2>1. n = (k + 1) * PAGE_SIZE /\ k + 1 \in Nat
    BY <1>2, <1>3, <1>7 DEF n
  <2>2. ROUNDUP(n, PAGE_SIZE) = n
    BY <2>1, MultiplesStay
  <2> QED BY <1>2, <1>1, <1>5, <1>7, <2>2 DEF n, r
<1>8. CASE size # PAGE_SIZE
  BY <1>5, <1>6, <1>8 DEF n, r
<1> QED BY <1>7, <1>8

(***************************************************************************)
(* boot_get_page_table(): a table that is there is left alone, a new one   *)
(* is a page of its own.                                                   *)
(***************************************************************************)
LEMMA TableThere ==
  ASSUME NEW mem, NEW d, mem.directory[d].table # 0
  PROVE  boot_get_page_table(mem, d) = mem
  BY DEF boot_get_page_table

(* new has a table for entry d of the directory that mem does not have. *)
NewTable(new, mem, d) ==
  /\ Tabled(new) /\ Apart(new)
  /\ new.directory[d] = [table |-> Room(mem), user |-> FALSE]
  /\ \A x \in AllDirs \ {d} : new.directory[x] = mem.directory[x]
  /\ new.free = Room(mem) + PAGE_SIZE /\ Room(new) = Room(mem) + PAGE_SIZE
  /\ Len(new.spaces) = Len(mem.spaces) + 1
  /\ \A i \in 1 .. Len(mem.spaces) : new.spaces[i] = mem.spaces[i]

LEMMA TableTabled ==
  ASSUME NEW mem, Apart(mem), Tabled(mem), end_of_kernel \in Nat \ {0}, NEW d \in MapDirs,
         mem.directory[d].table = 0
  PROVE  /\ NewTable(boot_get_page_table(mem, d), mem, d)
         /\ boot_get_page_table(mem, d).entries = mem.entries
<1> DEFINE r == Room(mem)
           one == boot_allocate_space(mem, PAGE_SIZE)
           entry == [table |-> r, user |-> FALSE]
           dir == [mem.directory EXCEPT ![d] = entry]
           new == boot_get_page_table(mem, d)
<1>1. PAGE_SIZE \in Nat \ {0}
  BY BootAssumption
<1>2. /\ Tabled(one) /\ one.directory = mem.directory /\ one.entries = mem.entries
      /\ one.free = r + PAGE_SIZE /\ Len(one.spaces) = Len(mem.spaces) + 1
      /\ one.spaces[Len(one.spaces)] = [at |-> r, size |-> PAGE_SIZE]
      /\ \A i \in 1 .. Len(mem.spaces) : one.spaces[i] = mem.spaces[i]
  BY <1>1, SpaceTabled DEF SpaceAdded
<1>3. Apart(one) /\ Apart([one EXCEPT !.directory = dir])
  <2>1. Apart(one)
    BY <1>1, SpaceAllocated
  <2> HIDE DEF one, dir
  <2> QED BY <2>1, OtherFields
<1>4. r \in Nat \ {0} /\ mem.free \in Nat /\ mem.free <= r
  BY RoomIs
<1>5. new = [one EXCEPT !.directory[d] = [table |-> last_space(one), user |-> FALSE]]
  BY DEF boot_get_page_table
<1>6. last_space(one) = r
  BY <1>2 DEF last_space
<1> HIDE DEF one, r, new
<1>7. one = [free |-> one.free, spaces |-> one.spaces, directory |-> mem.directory,
             entries |-> mem.entries]
  BY <1>2, <1>3 DEF Apart
<1>8. new = [one EXCEPT !.directory = dir]
  BY <1>2, <1>5, <1>6
<1>9. new = [free |-> one.free, spaces |-> one.spaces, directory |-> dir, entries |-> mem.entries]
  <2> HIDE DEF dir
  <2> QED BY <1>7, <1>8
<1>10. /\ new.free = r + PAGE_SIZE /\ new.spaces = one.spaces
       /\ new.directory = dir /\ new.entries = mem.entries
  BY <1>2, <1>9
<1>11. /\ mem.directory \in [AllDirs -> DirEntry] /\ d \in AllDirs
       /\ \A x \in AllDirs : mem.directory[x].table \in Nat
  BY MapDirsAre DEF Tabled, DirEntry
<1>12. entry \in DirEntry /\ entry.table = r
  BY <1>4 DEF DirEntry
<1> HIDE DEF entry
<1>13. /\ dir \in [AllDirs -> DirEntry] /\ dir[d] = entry
       /\ \A x \in AllDirs \ {d} : dir[x] = mem.directory[x]
  BY <1>11, <1>12
<1> HIDE DEF dir
<1>14. Tabled(new)
  <2>1. ASSUME NEW x \in MapDirs PROVE dir[x].table = 0 \/ dir[x].table < new.free
    <3>1. CASE x = d
      BY <1>1, <1>4, <1>10, <1>12, <1>13, <3>1
    <3>2. CASE x # d
      <4>1. dir[x] = mem.directory[x] /\ mem.directory[x].table \in Nat
        BY <1>11, <1>13, <3>2, MapDirsAre
      <4>2. mem.directory[x].table = 0 \/ mem.directory[x].table < mem.free
        BY DEF Tabled
      <4> QED BY <1>1, <1>4, <1>10, <4>1, <4>2
    <3> QED BY <3>1, <3>2
  <2>2. ASSUME NEW x \in MapDirs, NEW y \in MapDirs, x # y, dir[x].table # 0
        PROVE  dir[x].table # dir[y].table
    <3>1. x \in AllDirs /\ y \in AllDirs
      BY MapDirsAre
    <3>2. \A z \in MapDirs : mem.directory[z].table # r
      <4> SUFFICES ASSUME NEW z \in MapDirs PROVE mem.directory[z].table # r
        OBVIOUS
      <4>1. mem.directory[z].table = 0 \/ mem.directory[z].table < mem.free
        BY DEF Tabled
      <4>2. mem.directory[z].table \in Nat
        BY <1>11, MapDirsAre
      <4> QED BY <1>4, <4>1, <4>2
    <3>3. CASE x = d
      <4>1. dir[y] = mem.directory[y] /\ dir[x].table = r
        BY <1>12, <1>13, <2>2, <3>1, <3>3
      <4> QED BY <3>1, <3>2, <4>1
    <3>4. CASE y = d
      <4>1. dir[x] = mem.directory[x] /\ dir[y].table = r
        BY <1>12, <1>13, <2>2, <3>1, <3>4
      <4> QED BY <3>1, <3>2, <4>1
    <3>5. CASE x # d /\ y # d
      <4>1. dir[x] = mem.directory[x] /\ dir[y] = mem.directory[y]
        BY <1>13, <3>1, <3>5
      <4> QED BY <2>2, <4>1 DEF Tabled
    <3> QED BY <3>3, <3>4, <3>5
  <2>3. ASSUME NEW slot \in DOMAIN new.entries PROVE slot[1] \in Nat /\ slot[1] < new.free
    <3>1. slot[1] \in Nat /\ slot[1] < mem.free
      BY <1>10 DEF Tabled
    <3> QED BY <1>1, <1>4, <1>10, <3>1
  <2> QED BY <1>10, <1>13, <2>1, <2>2, <2>3 DEF Tabled
<1>15. Room(new) = Room(mem) + PAGE_SIZE
  BY <1>1, <1>10, RoomBehind DEF r
<1>16. Apart(new)
  BY <1>3, <1>8
<1>17. new.directory[d] = [table |-> r, user |-> FALSE]
  BY <1>10, <1>13 DEF entry
<1>18. NewTable(new, mem, d)
  BY <1>2, <1>10, <1>13, <1>14, <1>15, <1>16, <1>17 DEF NewTable, r
<1> QED BY <1>10, <1>18 DEF new

(***************************************************************************)
(* boot_map_range(): a loop that makes the tables, then the entries.       *)
(***************************************************************************)
RangeSlot(w, d, first, j) == <<w.directory[d + ((first + j) \div NPT)].table, (first + j) % NPT>>

RangeEntry(pa, perm, j) == [frame |-> pa \div PAGE_SIZE + j, user |-> "U" \in perm, write |-> "W" \in perm]

RangeEntries(w, d, first, n, pa, perm) ==
  LET new == [slot \in {RangeSlot(w, d, first, k) : k \in 0 .. n - 1} |->
                LET k == CHOOSE j \in 0 .. n - 1 : RangeSlot(w, d, first, j) = slot
                IN RangeEntry(pa, perm, k)]
  IN [slot \in DOMAIN w.entries \cup DOMAIN new |->
        IF slot \in DOMAIN new THEN new[slot] ELSE w.entries[slot]]

LEMMA RangeIs ==
  ASSUME NEW mem, NEW d \in Nat, NEW first \in Nat, NEW size \in Nat, pages_of(size) # 0,
         NEW pa, NEW perm, NEW k, k = (first + pages_of(size) - 1) \div NPT
  PROVE  /\ k \in Nat
         /\ \E g : /\ Filling(g, boot_get_page_table(mem, d), d, k)
                   /\ boot_map_range(mem, d, first, size, pa, perm)
                        = [g[d + k] EXCEPT !.entries =
                             RangeEntries(g[d + k], d, first, pages_of(size), pa, perm)]
<1> DEFINE n == pages_of(size)
           dirs == d .. d + ((first + n - 1) \div NPT)
           Body(g) == [i \in dirs |-> boot_get_page_table(IF i = d THEN mem ELSE g[i - 1], i)]
           get == CHOOSE g : g = Body(g)
           m == boot_get_page_table(mem, d)
           with == get[d + ((first + n - 1) \div NPT)]
           at(j) == <<with.directory[d + ((first + j) \div NPT)].table, (first + j) % NPT>>
           new == [slot \in {at(j) : j \in 0 .. n - 1} |->
                     LET j == CHOOSE x \in 0 .. n - 1 : at(x) = slot
                     IN [frame |-> pa \div PAGE_SIZE + j, user |-> "U" \in perm, write |-> "W" \in perm]]
<1>1. n \in Nat /\ n # 0
  BY PagesOf
<1>2. boot_map_range(mem, d, first, size, pa, perm)
        = [with EXCEPT !.entries = [slot \in DOMAIN @ \cup DOMAIN new |->
                                      IF slot \in DOMAIN new THEN new[slot] ELSE @[slot]]]
  <2> HIDE DEF with
  <2> QED BY <1>1 DEF boot_map_range, with
<1>3. k \in Nat /\ k = (first + n - 1) \div NPT
  BY <1>1, BootAssumption
<1> HIDE DEF n
<1>4. \A g : g = Body(g) <=> Filling(g, m, d, k)
  <2>1. ASSUME NEW g
        PROVE  Body(g) = [i \in d .. d + k |-> IF i = d THEN m ELSE boot_get_page_table(g[i - 1], i)]
    BY <1>3
  <2> HIDE DEF Body, m
  <2> QED BY <2>1 DEF Filling
<1>5. \E g : Filling(g, m, d, k)
  BY <1>3, FillingExists
<1>6. Filling(get, m, d, k)
  <2> HIDE DEF Body, m
  <2> QED BY <1>4, <1>5
<1>7. with = get[d + k]
  BY <1>3
<1> HIDE DEF get, with
<1>8. [slot \in DOMAIN with.entries \cup DOMAIN new |->
         IF slot \in DOMAIN new THEN new[slot] ELSE with.entries[slot]]
        = RangeEntries(with, d, first, n, pa, perm)
  BY DEF RangeEntries, RangeSlot, RangeEntry
<1> HIDE DEF new
<1>9. boot_map_range(mem, d, first, size, pa, perm)
        = [with EXCEPT !.entries = RangeEntries(with, d, first, n, pa, perm)]
  BY <1>2, <1>8
<1> QED BY <1>3, <1>6, <1>7, <1>9 DEF n, m

AreMapped(e, w, d, first, n, pa, perm) ==
  /\ DOMAIN e = DOMAIN w.entries \cup {RangeSlot(w, d, first, j) : j \in 0 .. n - 1}
  /\ \A j \in 0 .. n - 1 : e[RangeSlot(w, d, first, j)] = RangeEntry(pa, perm, j)
  /\ \A slot \in DOMAIN w.entries :
       (\A j \in 0 .. n - 1 : slot # RangeSlot(w, d, first, j)) => e[slot] = w.entries[slot]

LEMMA EntriesMapped ==
  ASSUME NEW w, NEW d, NEW first, NEW n \in Nat, NEW pa, NEW perm,
         \A i, j \in 0 .. n - 1 : RangeSlot(w, d, first, i) = RangeSlot(w, d, first, j) => i = j
  PROVE  AreMapped(RangeEntries(w, d, first, n, pa, perm), w, d, first, n, pa, perm)
<1> DEFINE at(j) == RangeSlot(w, d, first, j)
           J == 0 .. n - 1
           S == {at(j) : j \in J}
           new == [slot \in S |-> LET k == CHOOSE j \in J : at(j) = slot IN RangeEntry(pa, perm, k)]
           old == w.entries
           e == RangeEntries(w, d, first, n, pa, perm)
<1>1. e = [slot \in DOMAIN old \cup S |-> IF slot \in S THEN new[slot] ELSE old[slot]]
  BY DEF RangeEntries
<1>2. \A i, j \in J : at(i) = at(j) => i = j
  OBVIOUS
<1> HIDE DEF at, J
<1>3. ASSUME NEW j \in J PROVE new[at(j)] = RangeEntry(pa, perm, j)
  <2> DEFINE k == CHOOSE i \in J : at(i) = at(j)
  <2>1. k \in J /\ at(k) = at(j)
    OBVIOUS
  <2>2. k = j
    BY <1>2, <2>1
  <2>3. new[at(j)] = RangeEntry(pa, perm, k)
    OBVIOUS
  <2> QED BY <2>2, <2>3
<1> HIDE DEF new, old, e
<1>4. \A j \in J : at(j) \in S
  OBVIOUS
<1>5. \A slot \in S : \E j \in J : slot = at(j)
  OBVIOUS
<1> HIDE DEF S
<1>6. DOMAIN e = DOMAIN old \cup S
  BY <1>1
<1>7. \A j \in J : e[at(j)] = RangeEntry(pa, perm, j)
  BY <1>1, <1>3, <1>4
<1>8. \A slot \in DOMAIN old : (\A j \in J : slot # at(j)) => e[slot] = old[slot]
  BY <1>1, <1>5
<1> QED BY <1>6, <1>7, <1>8 DEF at, J, S, old, e, AreMapped

EntriesAre(new, w, e) ==
  /\ new.free = w.free /\ new.spaces = w.spaces /\ new.directory = w.directory
  /\ new.entries = e /\ Apart(new) /\ Room(new) = Room(w)

LEMMA EntriesReplaced ==
  ASSUME NEW w, Apart(w), NEW e
  PROVE  EntriesAre([w EXCEPT !.entries = e], w, e)
<1> DEFINE new == [w EXCEPT !.entries = e]
<1>1. w = [free |-> w.free, spaces |-> w.spaces, directory |-> w.directory, entries |-> w.entries]
  BY DEF Apart
<1>2. new = [free |-> w.free, spaces |-> w.spaces, directory |-> w.directory, entries |-> e]
  BY <1>1
<1>3. /\ new.free = w.free /\ new.spaces = w.spaces /\ new.directory = w.directory
      /\ new.entries = e
  BY <1>2
<1>4. Apart(new)
  BY OtherFields
<1> HIDE DEF new
<1>5. EntriesAre(new, w, e)
  BY <1>3, <1>4 DEF EntriesAre, Room, Bottom
<1> QED BY <1>5 DEF new

LEMMA EntriesTabled ==
  ASSUME NEW w, Tabled(w), NEW new, new.free = w.free, new.directory = w.directory,
         \A slot \in DOMAIN new.entries :
           slot \in DOMAIN w.entries \/ (slot[1] \in Nat /\ slot[1] < w.free)
  PROVE  Tabled(new)
<1>1. \A slot \in DOMAIN new.entries : slot[1] \in Nat /\ slot[1] < new.free
  BY DEF Tabled
<1> QED BY <1>1 DEF Tabled

(***************************************************************************)
(* A range that fits a table that is not there yet.                        *)
(***************************************************************************)
RangeAdded(new, mem, d, first, n, pa, perm) ==
  /\ NewTable(new, mem, d)
  /\ DOMAIN new.entries = DOMAIN mem.entries \cup {<<Room(mem), first + j>> : j \in 0 .. n - 1}
  /\ \A j \in 0 .. n - 1 : new.entries[<<Room(mem), first + j>>] = RangeEntry(pa, perm, j)
  /\ \A slot \in DOMAIN mem.entries :
       slot[1] # Room(mem) /\ new.entries[slot] = mem.entries[slot]

LEMMA NewTableMapped ==
  ASSUME NEW mem, Apart(mem), Tabled(mem), end_of_kernel \in Nat \ {0}, NEW d \in MapDirs,
         mem.directory[d].table = 0, NEW first \in Nat, NEW size \in Nat, pages_of(size) # 0,
         first + pages_of(size) <= NPT, NEW pa, NEW perm
  PROVE  RangeAdded(boot_map_range(mem, d, first, size, pa, perm), mem, d, first, pages_of(size),
                    pa, perm)
<1> DEFINE n == pages_of(size)
           k == (first + n - 1) \div NPT
           w == boot_get_page_table(mem, d)
           r == Room(mem)
           e == RangeEntries(w, d, first, n, pa, perm)
           new == boot_map_range(mem, d, first, size, pa, perm)
<1>1. n \in Nat /\ n # 0 /\ NPT \in Nat \ {0} /\ PAGE_SIZE \in Nat \ {0}
  BY PagesOf, BootAssumption
<1>2. d \in Nat /\ d \in AllDirs
  BY MapDirsAre DEF AllDirs
<1>3. first + n - 1 \in 0 .. NPT - 1
  <2> HIDE DEF n
  <2> QED BY <1>1 DEF n
<1>4. k = 0
  <2> HIDE DEF n
  <2> QED BY <1>1, <1>3
<1>5. new = [w EXCEPT !.entries = e]
  <2>1. \E g : Filling(g, w, d, k) /\ new = [g[d + k] EXCEPT !.entries =
                                              RangeEntries(g[d + k], d, first, n, pa, perm)]
    <3>1. k = (first + pages_of(size) - 1) \div NPT
      OBVIOUS
    <3> HIDE DEF k
    <3>2. \E g : /\ Filling(g, boot_get_page_table(mem, d), d, k)
                 /\ boot_map_range(mem, d, first, size, pa, perm)
                      = [g[d + k] EXCEPT !.entries =
                           RangeEntries(g[d + k], d, first, pages_of(size), pa, perm)]
      BY <1>2, <3>1, RangeIs
    <3> QED BY <3>2
  <2> HIDE DEF k, w, n
  <2>2. PICK g : Filling(g, w, d, k) /\ new = [g[d + k] EXCEPT !.entries =
                                                RangeEntries(g[d + k], d, first, n, pa, perm)]
    BY <2>1
  <2>3. g[d + k] = w
    BY <1>2, <1>4, <2>2 DEF Filling
  <2> QED BY <2>2, <2>3
<1>6. /\ Tabled(w) /\ Apart(w) /\ w.entries = mem.entries
      /\ w.directory[d] = [table |-> r, user |-> FALSE]
      /\ \A x \in AllDirs \ {d} : w.directory[x] = mem.directory[x]
      /\ w.free = r + PAGE_SIZE /\ Room(w) = r + PAGE_SIZE
      /\ Len(w.spaces) = Len(mem.spaces) + 1
      /\ \A i \in 1 .. Len(mem.spaces) : w.spaces[i] = mem.spaces[i]
  BY TableTabled DEF NewTable
<1> HIDE DEF new
<1>7. r \in Nat /\ mem.free \in Nat /\ mem.free <= r
  BY RoomIs
<1> HIDE DEF w, r, n, e, k
<1>8. ASSUME NEW j \in 0 .. n - 1 PROVE RangeSlot(w, d, first, j) = <<r, first + j>>
  <2>1. first + j \in 0 .. NPT - 1
    BY <1>1, <1>3
  <2>2. (first + j) \div NPT = 0 /\ (first + j) % NPT = first + j
    BY <1>1, <2>1
  <2>3. w.directory[d + 0].table = r
    BY <1>2, <1>6
  <2> QED BY <2>2, <2>3 DEF RangeSlot
<1>9. \A i, j \in 0 .. n - 1 : RangeSlot(w, d, first, i) = RangeSlot(w, d, first, j) => i = j
  BY <1>1, <1>8
<1>10. /\ DOMAIN e = DOMAIN w.entries \cup {RangeSlot(w, d, first, j) : j \in 0 .. n - 1}
       /\ \A j \in 0 .. n - 1 : e[RangeSlot(w, d, first, j)] = RangeEntry(pa, perm, j)
       /\ \A slot \in DOMAIN w.entries :
            (\A j \in 0 .. n - 1 : slot # RangeSlot(w, d, first, j)) => e[slot] = w.entries[slot]
  <2>1. e = RangeEntries(w, d, first, n, pa, perm)
    BY DEF e
  <2>2. AreMapped(e, w, d, first, n, pa, perm)
    BY <1>1, <1>9, <2>1, EntriesMapped
  <2> QED BY <2>2 DEF AreMapped
<1>11. {RangeSlot(w, d, first, j) : j \in 0 .. n - 1} = {<<r, first + j>> : j \in 0 .. n - 1}
  BY <1>8
<1>12. DOMAIN e = DOMAIN mem.entries \cup {<<r, first + j>> : j \in 0 .. n - 1}
  BY <1>6, <1>10, <1>11
<1>13. \A j \in 0 .. n - 1 : e[<<r, first + j>>] = RangeEntry(pa, perm, j)
  BY <1>8, <1>10
<1>14. ASSUME NEW slot \in DOMAIN mem.entries PROVE slot[1] # r /\ e[slot] = mem.entries[slot]
  <2>1. slot[1] \in Nat /\ slot[1] < mem.free
    BY DEF Tabled
  <2>2. slot[1] # r
    BY <1>7, <2>1
  <2>3. ASSUME NEW j \in 0 .. n - 1 PROVE slot # RangeSlot(w, d, first, j)
    BY <1>8, <2>2
  <2> QED BY <1>6, <1>10, <2>2, <2>3
<1>15. /\ new.free = w.free /\ new.spaces = w.spaces /\ new.directory = w.directory
       /\ new.entries = e /\ Apart(new) /\ Room(new) = Room(w)
  <2>1. EntriesAre([w EXCEPT !.entries = e], w, e)
    BY <1>6, EntriesReplaced
  <2>2. EntriesAre(new, w, e)
    BY <1>5, <2>1
  <2> QED BY <2>2 DEF EntriesAre
<1>16. Tabled(new)
  <2>1. ASSUME NEW slot \in DOMAIN new.entries
        PROVE  slot \in DOMAIN w.entries \/ (slot[1] \in Nat /\ slot[1] < w.free)
    <3>1. CASE slot \in DOMAIN mem.entries
      BY <1>6, <3>1
    <3>2. CASE slot \notin DOMAIN mem.entries
      <4>1. PICK j \in 0 .. n - 1 : slot = <<r, first + j>>
        BY <1>12, <1>15, <3>2
      <4>2. slot[1] = r
        BY <4>1
      <4> QED BY <1>1, <1>6, <1>7, <4>2
    <3> QED BY <3>1, <3>2
  <2> QED BY <1>6, <1>15, <2>1, EntriesTabled
<1>17. /\ new.directory[d] = [table |-> r, user |-> FALSE]
       /\ \A x \in AllDirs \ {d} : new.directory[x] = mem.directory[x]
  BY <1>6, <1>15
<1>18. /\ new.free = r + PAGE_SIZE /\ Room(new) = r + PAGE_SIZE
       /\ Len(new.spaces) = Len(mem.spaces) + 1
       /\ \A i \in 1 .. Len(mem.spaces) : new.spaces[i] = mem.spaces[i]
  BY <1>6, <1>15
<1>19. /\ DOMAIN new.entries = DOMAIN mem.entries \cup {<<r, first + j>> : j \in 0 .. n - 1}
       /\ \A j \in 0 .. n - 1 : new.entries[<<r, first + j>>] = RangeEntry(pa, perm, j)
       /\ \A slot \in DOMAIN mem.entries : slot[1] # r /\ new.entries[slot] = mem.entries[slot]
  BY <1>12, <1>13, <1>14, <1>15
<1>20. NewTable(new, mem, d)
  BY <1>15, <1>16, <1>17, <1>18 DEF NewTable, r
<1>21. RangeAdded(new, mem, d, first, n, pa, perm)
  BY <1>19, <1>20 DEF r, RangeAdded
<1> QED BY <1>21 DEF new, n

LEMMA FillingStays ==
  ASSUME NEW m, NEW a \in Nat, NEW n \in Nat, \A k \in a .. a + n : m.directory[k].table # 0,
         NEW g, Filling(g, m, a, n)
  PROVE  g[a + n] = m
<1> DEFINE S == {k \in Nat : k <= n => g[a + k] = m}
<1>1. \A k \in a .. a + n : g[k] = IF k = a THEN m ELSE boot_get_page_table(g[k - 1], k)
  BY DEF Filling
<1>2. 0 \in S
  <2>1. a + 0 \in a .. a + n /\ a + 0 = a
    OBVIOUS
  <2> QED BY <1>1, <2>1
<1>3. ASSUME NEW k \in Nat, k \in S PROVE k + 1 \in S
  <2> SUFFICES ASSUME k + 1 <= n PROVE g[a + (k + 1)] = m
    OBVIOUS
  <2> DEFINE z == a + (k + 1)
  <2>1. z \in a .. a + n /\ z # a /\ z - 1 = a + k /\ g[a + k] = m
    BY <1>3
  <2> HIDE DEF z
  <2>2. g[z] = boot_get_page_table(m, z)
    BY <1>1, <2>1
  <2>3. boot_get_page_table(m, z) = m
    BY <2>1, TableThere
  <2> QED BY <2>2, <2>3 DEF z
<1> HIDE DEF S
<1>4. Nat \subseteq S
  BY <1>2, <1>3, SetInduction
<1> QED BY <1>4 DEF S

(* Two numbers with the same quotient and the same remainder are the same. *)
LEMMA Divided ==
  ASSUME NEW x \in Nat, NEW p \in Nat \ {0}
  PROVE  /\ x \div p \in Nat /\ x % p \in 0 .. p - 1
         /\ x = (x \div p) * p + (x % p)
<1> DEFINE q == x \div p
           r == x % p
<1>1. q \in Nat /\ r \in 0 .. p - 1 /\ q = x \div p /\ r = x % p
  OBVIOUS
<1> HIDE DEF q, r
<1>2. x \in Int /\ p \in Int /\ p > 0
  OBVIOUS
<1>3. x = p * q + r
  BY <1>1, <1>2
<1>4. x = q * p + r
  BY <1>1, <1>3
<1> QED BY <1>1, <1>4 DEF q, r

LEMMA DividedBelow ==
  ASSUME NEW x \in Nat, NEW m \in Nat, NEW p \in Nat \ {0}, x < m * p
  PROVE  x \div p < m
<1> DEFINE q == x \div p
           r == x % p
           v == q * p
<1>1. q \in Nat /\ r \in 0 .. p - 1 /\ x = v + r /\ v \in Nat
  <2>1. q \in Nat /\ r \in 0 .. p - 1
    BY Divided
  <2>2. x = v + r
    BY Divided
  <2> HIDE DEF q, r
  <2> QED BY <2>1, <2>2
<1>2. ASSUME m <= q PROVE FALSE
  <2> HIDE DEF q, r, v
  <2>1. CASE m = q
    BY <1>1, <2>1 DEF v
  <2>2. CASE m < q
    <3>1. m * p + p <= q * p
      BY <1>1, <2>2, MultiplesApart
    <3> DEFINE u == m * p
    <3>2. u + p <= v /\ x < u /\ u \in Nat
      BY <3>1 DEF v
    <3> HIDE DEF u
    <3> QED BY <1>1, <3>2
  <2> QED BY <1>1, <1>2, <2>1, <2>2
<1> HIDE DEF q
<1>3. q < m
  BY <1>1, <1>2
<1> QED BY <1>3 DEF q

(***************************************************************************)
(* The range from KERNEL_BASE on, which has its tables.                    *)
(***************************************************************************)
EntriesAdded(new, mem, n, pa, perm) ==
  /\ Tabled(new) /\ Apart(new)
  /\ new.directory = mem.directory /\ new.free = mem.free /\ new.spaces = mem.spaces
  /\ Room(new) = Room(mem)
  /\ AreMapped(new.entries, mem, KERNEL_DIR, 0, n, pa, perm)
  /\ \A j \in 0 .. n - 1 : KERNEL_DIR + (j \div NPT) \in KERNEL_DIR .. NDIR - 1

LEMMA OldTablesMapped ==
  ASSUME NEW mem, Apart(mem), Tabled(mem),
         \A x \in KERNEL_DIR .. NDIR - 1 : mem.directory[x].table # 0,
         NEW size \in Nat, pages_of(size) # 0, pages_of(size) <= (NDIR - KERNEL_DIR) * NPT,
         NEW pa, NEW perm
  PROVE  EntriesAdded(boot_map_range(mem, KERNEL_DIR, 0, size, pa, perm), mem, pages_of(size),
                      pa, perm)
<1> DEFINE n == pages_of(size)
           k == (0 + n - 1) \div NPT
           d == KERNEL_DIR
           e == RangeEntries(mem, d, 0, n, pa, perm)
           new == boot_map_range(mem, KERNEL_DIR, 0, size, pa, perm)
           at(j) == RangeSlot(mem, d, 0, j)
<1>1. /\ n \in Nat /\ n # 0 /\ NPT \in Nat \ {0}
      /\ d \in Nat /\ NDIR \in Nat /\ d <= NDIR - 1 /\ NDIR - d \in Nat
  BY PagesOf, BootAssumption
<1> DEFINE m == NDIR - d
<1>2. ASSUME NEW j \in 0 .. n - 1 PROVE j \div NPT \in Nat /\ j \div NPT < m
  <2> HIDE DEF n, d
  <2>1. j \in Nat /\ j < n /\ n <= m * NPT /\ m \in Nat
    BY <1>1 DEF n, d
  <2> HIDE DEF m
  <2>2. m * NPT \in Nat
    BY <1>1, <2>1
  <2>3. j < m * NPT
    BY <1>1, <2>1, <2>2
  <2> QED BY <1>1, <2>1, <2>3, Divided, DividedBelow
<1>3. k \in Nat /\ k < m
  <2> HIDE DEF n, m
  <2>1. n - 1 \in 0 .. n - 1 /\ 0 + n - 1 = n - 1
    BY <1>1
  <2> QED BY <1>2, <2>1
<1>4. \A x \in d .. d + k : x \in KERNEL_DIR .. NDIR - 1
  <2> HIDE DEF k
  <2> QED BY <1>1, <1>3
<1>5. new = [mem EXCEPT !.entries = e]
  <2>1. k = (0 + pages_of(size) - 1) \div NPT
    OBVIOUS
  <2> HIDE DEF k, n
  <2>2. \E g : /\ Filling(g, boot_get_page_table(mem, d), d, k)
               /\ boot_map_range(mem, d, 0, size, pa, perm)
                    = [g[d + k] EXCEPT !.entries =
                         RangeEntries(g[d + k], d, 0, pages_of(size), pa, perm)]
    <3> DEFINE f == 0
    <3>1. f \in Nat /\ k = (f + pages_of(size) - 1) \div NPT
      BY <2>1
    <3> HIDE DEF f
    <3>2. \E g : /\ Filling(g, boot_get_page_table(mem, d), d, k)
                 /\ boot_map_range(mem, d, f, size, pa, perm)
                      = [g[d + k] EXCEPT !.entries =
                           RangeEntries(g[d + k], d, f, pages_of(size), pa, perm)]
      BY <1>1, <3>1, RangeIs
    <3> QED BY <3>2 DEF f
  <2>3. PICK g : /\ Filling(g, boot_get_page_table(mem, d), d, k)
                 /\ boot_map_range(mem, d, 0, size, pa, perm)
                      = [g[d + k] EXCEPT !.entries =
                           RangeEntries(g[d + k], d, 0, pages_of(size), pa, perm)]
    BY <2>2
  <2>4. \A x \in d .. d + k : mem.directory[x].table # 0
    BY <1>4
  <2>5. boot_get_page_table(mem, d) = mem
    <3>1. d \in d .. d + k
      BY <1>1, <1>3
    <3> QED BY <2>4, <3>1, TableThere
  <2>6. Filling(g, mem, d, k)
    BY <2>3, <2>5
  <2> HIDE DEF d
  <2>7. g[d + k] = mem
    BY <1>1, <1>3, <2>4, <2>6, FillingStays
  <2> QED BY <2>3, <2>7 DEF n, d
<1>6. ASSUME NEW i \in 0 .. n - 1, NEW j \in 0 .. n - 1, at(i) = at(j) PROVE i = j
  <2> DEFINE x == i \div NPT
             y == j \div NPT
  <2>1. x \in Nat /\ y \in Nat /\ x < m /\ y < m
    BY <1>2
  <2>2. i % NPT = j % NPT /\ mem.directory[d + x].table = mem.directory[d + y].table
    <3>1. 0 + i = i /\ 0 + j = j
      BY <1>1
    <3> QED BY <1>6, <3>1 DEF RangeSlot
  <2>3. x = y
    <3> HIDE DEF x, y, d
    <3> SUFFICES ASSUME x # y PROVE FALSE
      OBVIOUS
    <3>1. d + x \in KERNEL_DIR .. NDIR - 1 /\ d + y \in KERNEL_DIR .. NDIR - 1 /\ d + x # d + y
      BY <1>1, <2>1 DEF d
    <3>2. d + x \in MapDirs /\ d + y \in MapDirs /\ mem.directory[d + x].table # 0
      BY <3>1, MapDirsAre
    <3> QED BY <2>2, <3>1, <3>2 DEF Tabled
  <2>4. /\ i \in Nat /\ j \in Nat
        /\ i = x * NPT + (i % NPT) /\ j = y * NPT + (j % NPT)
    <3>1. i \in Nat /\ j \in Nat
      BY <1>1
    <3> QED BY <1>1, <3>1, Divided
  <2> DEFINE u == i % NPT
             v == j % NPT
             s == x * NPT
             t == y * NPT
  <2> HIDE DEF x, y
  <2>5. u = v /\ s = t
    BY <2>2, <2>3
  <2>6. i = s + u /\ j = t + v
    BY <2>4
  <2> HIDE DEF u, v, s, t
  <2> QED BY <2>5, <2>6
<1> HIDE DEF n, k, d, m, new
<1>7. AreMapped(e, mem, d, 0, n, pa, perm)
  BY <1>1, <1>6, EntriesMapped
<1> HIDE DEF e
<1>8. /\ new.free = mem.free /\ new.spaces = mem.spaces /\ new.directory = mem.directory
      /\ new.entries = e /\ Apart(new) /\ Room(new) = Room(mem)
  <2>1. EntriesAre([mem EXCEPT !.entries = e], mem, e)
    BY EntriesReplaced
  <2>2. EntriesAre(new, mem, e)
    BY <1>5, <2>1
  <2> QED BY <2>2 DEF EntriesAre
<1>9. ASSUME NEW j \in 0 .. n - 1
      PROVE  d + (j \div NPT) \in KERNEL_DIR .. NDIR - 1
  <2> DEFINE x == j \div NPT
  <2>1. x \in Nat /\ x < m
    BY <1>2
  <2> HIDE DEF x
  <2>2. d + x \in KERNEL_DIR .. NDIR - 1
    BY <1>1, <2>1 DEF d, m
  <2> QED BY <2>2 DEF x
<1>10. Tabled(new)
  <2>1. ASSUME NEW slot \in DOMAIN new.entries
        PROVE  slot \in DOMAIN mem.entries \/ (slot[1] \in Nat /\ slot[1] < mem.free)
    <3> SUFFICES ASSUME slot \notin DOMAIN mem.entries
                 PROVE  slot[1] \in Nat /\ slot[1] < mem.free
      OBVIOUS
    <3>1. PICK j \in 0 .. n - 1 : slot = at(j)
      BY <1>7, <1>8 DEF AreMapped
    <3> DEFINE x == d + (j \div NPT)
    <3>2. x \in KERNEL_DIR .. NDIR - 1 /\ x \in AllDirs /\ x \in MapDirs
      BY <1>9, MapDirsAre
    <3>3. slot[1] = mem.directory[x].table
      <4>1. 0 + j = j
        BY <1>1
      <4> QED BY <3>1, <4>1 DEF RangeSlot
    <3> HIDE DEF x
    <3>4. mem.directory[x].table \in Nat /\ mem.directory[x].table # 0
      BY <3>2 DEF Tabled, DirEntry
    <3>5. mem.directory[x].table < mem.free
      BY <3>2, <3>4 DEF Tabled
    <3> QED BY <3>3, <3>4, <3>5
  <2> QED BY <1>8, <2>1, EntriesTabled
<1>11. EntriesAdded(new, mem, n, pa, perm)
  BY <1>7, <1>8, <1>9, <1>10 DEF d, EntriesAdded
<1> QED BY <1>11 DEF n, new
-----------------------------------------------------------------------------
(***************************************************************************)
(* The address space statement by statement.  n is the number of           *)
(* statements before the one that is next.                                 *)
(***************************************************************************)
Step == [detect_memory |-> 0, directory |-> 1, stack |-> 2, tables |-> 3, frames_info |-> 4,
         disk_frames_info |-> 5, listing |-> 6, envs |-> 7, map_kernel |-> 8, switch |-> 9,
         segments |-> 10, frames |-> 11, done |-> 12]

KernelDirs == KERNEL_DIR .. NDIR - 1

(* What the statements took of the memory behind the kernel, at most. *)
Taken(n) ==
  (CASE n = 1 -> 1 [] n = 2 -> 2 [] n \in {3, 4} -> 3 [] n = 5 -> 4 [] n \in {6, 7} -> 5
     [] OTHER -> 7) * PAGE_SIZE
    + (IF n >= 4 THEN (NDIR - KERNEL_DIR) * PAGE_SIZE ELSE 0)
    + (IF n >= 5 THEN number_of_frames * FRAME_INFO_SIZE ELSE 0)
    + (IF n >= 6 THEN DISK_ARRAY_SIZE ELSE 0) + (IF n >= 8 THEN ENVS_SIZE ELSE 0)

MemoryTaken(mem, n) ==
  /\ n >= 1 => Room(mem) <= end_of_kernel + Taken(n)
  /\ n >= 6 => end_of_kernel + DISK_ARRAY_SIZE <= mem.free
  /\ n >= 8 => end_of_kernel + DISK_ARRAY_SIZE + ENVS_SIZE <= mem.free
  /\ n >= 2 => Len(mem.spaces) >= 1

SlotOf(mem, d, i) == <<mem.directory[d].table, i>>

StackThere(mem, n) ==
  IF n < 3 THEN mem.directory[STACK_DIR].table = 0
  ELSE \A k \in 1 .. KERNEL_STACK_SIZE \div PAGE_SIZE :
         /\ mem.directory[STACK_DIR].table # 0 /\ SlotOf(mem, STACK_DIR, NPT - k) \in DOMAIN mem.entries
         /\ mem.entries[SlotOf(mem, STACK_DIR, NPT - k)].frame
              = (PHYS_EXTENDED_MEM + KERNEL_STACK_SIZE) \div PAGE_SIZE - k

EnvsThere(mem, n) ==
  IF n < 8 THEN mem.directory[UENVS_DIR].table = 0
  ELSE /\ mem.directory[UENVS_DIR].table # 0 /\ Len(mem.spaces) >= 2
       /\ \A slot \in DOMAIN mem.entries : slot[1] = mem.directory[UENVS_DIR].table =>
            /\ ~mem.entries[slot].write
            /\ \E k \in 0 .. pages_of(ENVS_SIZE) - 1 :
                 mem.entries[slot].frame = mem.spaces[Len(mem.spaces) - 1].at \div PAGE_SIZE + k

KernelThere(mem, n) ==
  /\ n >= 4 => \A d \in KernelDirs : mem.directory[d].table # 0
  /\ n >= 9 => \A p \in 0 .. pages_of(mem.free) - 1 :
                 /\ KERNEL_DIR + (p \div NPT) \in KernelDirs
                 /\ SlotOf(mem, KERNEL_DIR + (p \div NPT), p % NPT) \in DOMAIN mem.entries
                 /\ mem.entries[SlotOf(mem, KERNEL_DIR + (p \div NPT), p % NPT)].frame = p

UsersAre(mem, n) ==
  \A d \in AllDirs : mem.directory[d].user =>
    \/ d = UVPT_DIR /\ n >= 7 /\ mem.directory[d].table = mem.spaces[1].at
    \/ d = UENVS_DIR /\ n >= 8

NothingBelow(mem) == \A d \in 0 .. UENVS_DIR - 1 : mem.directory[d] = NoTable

Addressed(mem, n) ==
  /\ Tabled(mem) /\ MemoryTaken(mem, n) /\ StackThere(mem, n) /\ EnvsThere(mem, n)
  /\ KernelThere(mem, n) /\ UsersAre(mem, n)

AddressInv ==
  /\ boot \in DOMAIN Step
  /\ boot # "detect_memory" => /\ end_of_kernel \in Kernels
                               /\ \E m \in Memories : number_of_frames = m \div PAGE_SIZE
  /\ Addressed(Memory, Step[boot])
  /\ paging = IF Step[boot] <= 9 THEN "off" ELSE IF boot = "segments" THEN "low" ELSE "on"
  /\ IF boot = "segments"
     THEN \A d \in 0 .. UENVS_DIR - 1 :
            directory[d] = IF d < low_dirs THEN directory[KERNEL_DIR + d] ELSE NoTable
     ELSE NothingBelow(Memory)

LEMMA KernelEndsBehind ==
  ASSUME BootInv, boot # "detect_memory"
  PROVE  end_of_kernel \in Nat \ {0} /\ number_of_frames \in Nat
<1>1. /\ end_of_kernel \in Nat /\ number_of_frames \in Nat /\ PHYS_EXTENDED_MEM <= end_of_kernel
  BY DEF BootInv
<1>2. /\ PAGE_SIZE \in Nat \ {0} /\ PHYS_IO_MEM \in Nat /\ PHYS_EXTENDED_MEM \in Nat
      /\ 3 * PAGE_SIZE <= PHYS_IO_MEM /\ PHYS_IO_MEM <= PHYS_EXTENDED_MEM
  BY BootAssumption
<1> QED BY <1>1, <1>2

LEMMA TakenIs ==
  ASSUME number_of_frames \in Nat,
         NEW t, t = (NDIR - KERNEL_DIR) * PAGE_SIZE, NEW f, f = number_of_frames * FRAME_INFO_SIZE
  PROVE  /\ t \in Nat /\ f \in Nat /\ PAGE_SIZE \in Nat \ {0}
         /\ DISK_ARRAY_SIZE \in Nat /\ ENVS_SIZE \in Nat
         /\ Taken(1) = PAGE_SIZE /\ Taken(2) = 2 * PAGE_SIZE /\ Taken(3) = 3 * PAGE_SIZE
         /\ Taken(4) = 3 * PAGE_SIZE + t /\ Taken(5) = 4 * PAGE_SIZE + t + f
         /\ Taken(6) = 5 * PAGE_SIZE + t + f + DISK_ARRAY_SIZE
         /\ Taken(7) = 5 * PAGE_SIZE + t + f + DISK_ARRAY_SIZE
         /\ \A n \in 8 .. 12 : Taken(n) = 7 * PAGE_SIZE + t + f + DISK_ARRAY_SIZE + ENVS_SIZE
<1>1. /\ PAGE_SIZE \in Nat \ {0} /\ NDIR - KERNEL_DIR \in Nat /\ FRAME_INFO_SIZE \in Nat
      /\ DISK_ARRAY_SIZE \in Nat /\ ENVS_SIZE \in Nat
  BY BootAssumption
<1> DEFINE d == NDIR - KERNEL_DIR
<1>2. d * PAGE_SIZE \in Nat /\ number_of_frames * FRAME_INFO_SIZE \in Nat
  <2> HIDE DEF d
  <2> QED BY <1>1 DEF d
<1>3. t \in Nat /\ f \in Nat
  BY <1>2
<1>4. ASSUME NEW n \in Nat
      PROVE  Taken(n) = (CASE n = 1 -> 1 [] n = 2 -> 2 [] n \in {3, 4} -> 3 [] n = 5 -> 4
                           [] n \in {6, 7} -> 5 [] OTHER -> 7) * PAGE_SIZE
                          + (IF n >= 4 THEN t ELSE 0) + (IF n >= 5 THEN f ELSE 0)
                          + (IF n >= 6 THEN DISK_ARRAY_SIZE ELSE 0)
                          + (IF n >= 8 THEN ENVS_SIZE ELSE 0)
  BY DEF Taken
<1>5. Taken(1) = PAGE_SIZE /\ Taken(2) = 2 * PAGE_SIZE /\ Taken(3) = 3 * PAGE_SIZE
  BY <1>1, <1>3, <1>4
<1>6. Taken(4) = 3 * PAGE_SIZE + t /\ Taken(5) = 4 * PAGE_SIZE + t + f
  BY <1>1, <1>3, <1>4
<1>7. /\ Taken(6) = 5 * PAGE_SIZE + t + f + DISK_ARRAY_SIZE
      /\ Taken(7) = 5 * PAGE_SIZE + t + f + DISK_ARRAY_SIZE
  BY <1>1, <1>3, <1>4
<1>8. \A n \in 8 .. 12 : Taken(n) = 7 * PAGE_SIZE + t + f + DISK_ARRAY_SIZE + ENVS_SIZE
  BY <1>1, <1>3, <1>4
<1> QED BY <1>1, <1>3, <1>5, <1>6, <1>7, <1>8

(***************************************************************************)
(* A statement keeps the invariant if what it makes of the memory is right *)
(* for the next one.                                                       *)
(***************************************************************************)
LEMMA StatementAddressed ==
  ASSUME BootInv, AddressInv, NEW before \in DOMAIN Step, NEW next \in DOMAIN Step,
         NEW mem, Apart(mem), statement(before, next, mem),
         Step[before] \in 1 .. 8, Step[next] = Step[before] + 1, next # "segments",
         Addressed(mem, Step[next]), NothingBelow(mem)
  PROVE  AddressInv'
<1> DEFINE n == Step[next]
<1>1. /\ boot = before /\ boot' = next
      /\ ptr_free_mem' = mem.free /\ spaces' = mem.spaces
      /\ directory' = mem.directory /\ entries' = mem.entries
      /\ UNCHANGED <<end_of_kernel, number_of_frames, paging, free_frame_list>>
  BY DEF statement
<1>2. Memory' = mem
  BY <1>1 DEF Memory, Apart
<1>3. before # "detect_memory" /\ before # "segments" /\ n \in 2 .. 9
  BY DEF Step
<1>4. /\ Tabled(mem) /\ MemoryTaken(mem, n) /\ StackThere(mem, n) /\ EnvsThere(mem, n)
      /\ KernelThere(mem, n) /\ UsersAre(mem, n)
  BY DEF Addressed
<1>5. Step[boot]' = n
  BY <1>1
<1> HIDE DEF n
<1>6. Tabled(Memory)'
  BY <1>2, <1>4 DEF Tabled
<1>7. MemoryTaken(Memory, Step[boot])'
  BY <1>1, <1>2, <1>4, <1>5 DEF MemoryTaken, Room, Bottom, Taken
<1>8. StackThere(Memory, Step[boot])' /\ EnvsThere(Memory, Step[boot])'
  BY <1>2, <1>4, <1>5 DEF StackThere, EnvsThere, SlotOf
<1>9. KernelThere(Memory, Step[boot])'
  BY <1>2, <1>4, <1>5 DEF KernelThere, SlotOf
<1>10. UsersAre(Memory, Step[boot])' /\ NothingBelow(Memory)'
  BY <1>2, <1>4, <1>5 DEF UsersAre, NothingBelow
<1>11. Addressed(Memory, Step[boot])'
  BY <1>6, <1>7, <1>8, <1>9, <1>10 DEF Addressed
<1>12. /\ end_of_kernel' \in Kernels /\ \E m \in Memories : number_of_frames' = m \div PAGE_SIZE
  BY <1>1, <1>3 DEF AddressInv
<1>13. paging' = "off"
  BY <1>1, <1>3 DEF AddressInv
<1> QED BY <1>1, <1>3, <1>5, <1>10, <1>11, <1>12, <1>13 DEF AddressInv

LEMMA AddressStarts ==
  BootInit => AddressInv
<1> SUFFICES ASSUME BootInit PROVE AddressInv
  OBVIOUS
<1>1. /\ boot = "detect_memory" /\ Step[boot] = 0 /\ paging = "off"
      /\ ptr_free_mem = 0 /\ spaces = <<>> /\ directory = [d \in AllDirs |-> NoTable]
      /\ entries = [slot \in {} |-> 0]
  BY DEF BootInit, AllDirs, Step
<1>2. /\ Memory.free = 0 /\ Memory.spaces = <<>> /\ Memory.directory = directory
      /\ Memory.entries = entries
  BY <1>1 DEF Memory
<1>3. \A d \in AllDirs : directory[d] = NoTable
  BY <1>1
<1>4. NoTable \in DirEntry /\ NoTable.table = 0 /\ ~NoTable.user
  BY DEF NoTable, DirEntry
<1>5. DOMAIN entries = {}
  BY <1>1
<1>6. Tabled(Memory)
  <2>1. directory \in [AllDirs -> DirEntry]
    BY <1>1, <1>4
  <2>2. \A d \in AllDirs : directory[d].table = 0
    BY <1>3, <1>4
  <2>3. \A d \in MapDirs : directory[d].table = 0
    BY <2>2, MapDirsAre
  <2> QED BY <1>2, <1>5, <2>1, <2>2, <2>3 DEF Tabled
<1>7. MemoryTaken(Memory, 0) /\ KernelThere(Memory, 0)
  BY DEF MemoryTaken, KernelThere
<1>8. StackThere(Memory, 0) /\ EnvsThere(Memory, 0)
  BY <1>2, <1>3, <1>4, MapDirsAre DEF StackThere, EnvsThere
<1>9. UsersAre(Memory, 0)
  BY <1>2, <1>3, <1>4 DEF UsersAre
<1>10. NothingBelow(Memory)
  <2>1. \A d \in 0 .. UENVS_DIR - 1 : d \in AllDirs
    BY BootAssumption DEF UENVS_DIR, AllDirs
  <2> QED BY <1>2, <1>3, <2>1 DEF NothingBelow
<1>11. Addressed(Memory, Step[boot])
  BY <1>1, <1>6, <1>7, <1>8, <1>9 DEF Addressed
<1> QED BY <1>1, <1>10, <1>11 DEF AddressInv, Step

LEMMA MemoryDetectedAddressed ==
  ASSUME BootInv, AddressInv, NEW maxpa \in Memories, NEW kern \in Kernels, detect_memory(maxpa, kern)
  PROVE  AddressInv'
<1>1. /\ boot = "detect_memory" /\ boot' = "directory" /\ Step[boot] = 0 /\ Step[boot'] = 1
      /\ number_of_frames' = maxpa \div PAGE_SIZE /\ end_of_kernel' = kern
      /\ UNCHANGED <<ptr_free_mem, spaces, directory, entries, paging, free_frame_list>>
  BY DEF detect_memory, Step
<1>2. Memory' = Memory /\ Memory.free = 0
  BY <1>1 DEF Memory, BootInv
<1>3. Tabled(Memory) /\ StackThere(Memory, 0) /\ EnvsThere(Memory, 0) /\ UsersAre(Memory, 0)
  BY <1>1 DEF AddressInv, Addressed
<1>4. Tabled(Memory)'
  BY <1>2, <1>3 DEF Tabled
<1>5. kern \in Nat /\ PAGE_SIZE \in Nat \ {0} /\ number_of_frames' \in Nat
  <2>1. kern \in Nat /\ maxpa \in Nat /\ PAGE_SIZE \in Nat \ {0}
    BY BootAssumption
  <2> QED BY <1>1, <2>1
<1>6. MemoryTaken(Memory, Step[boot])'
  <2>1. Room(Memory)' = ROUNDUP(kern, PAGE_SIZE)
    BY <1>1, <1>2 DEF Room, Bottom
  <2>2. ROUNDUP(kern, PAGE_SIZE) \in Nat /\ ROUNDUP(kern, PAGE_SIZE) < kern + PAGE_SIZE
    BY <1>5, RoundedUp
  <2>3. Taken(1)' = PAGE_SIZE
    BY <1>5 DEF Taken
  <2>4. Room(Memory)' <= end_of_kernel' + Taken(1)'
    BY <1>1, <1>5, <2>1, <2>2, <2>3
  <2> QED BY <1>1, <2>4 DEF MemoryTaken
<1>7. StackThere(Memory, Step[boot])' /\ EnvsThere(Memory, Step[boot])'
  BY <1>1, <1>2, <1>3 DEF StackThere, EnvsThere
<1>8. UsersAre(Memory, Step[boot])' /\ KernelThere(Memory, Step[boot])'
  BY <1>1, <1>2, <1>3 DEF UsersAre, KernelThere
<1>9. NothingBelow(Memory)' /\ paging' = "off"
  BY <1>1, <1>2 DEF AddressInv, NothingBelow
<1>10. Addressed(Memory, Step[boot])'
  BY <1>4, <1>6, <1>7, <1>8 DEF Addressed
<1> QED BY <1>1, <1>9, <1>10 DEF AddressInv, Step

(* What has been mapped stays, if its tables and entries do. *)
EntriesKept(new, mem) ==
  \A slot \in DOMAIN mem.entries :
    slot \in DOMAIN new.entries /\ new.entries[slot] = mem.entries[slot]

LEMMA StackStays ==
  ASSUME NEW mem, NEW new, NEW n \in 3 .. 12, NEW m \in 3 .. 12, StackThere(mem, n),
         new.directory[STACK_DIR] = mem.directory[STACK_DIR], EntriesKept(new, mem)
  PROVE  StackThere(new, m)
  BY DEF StackThere, SlotOf, EntriesKept

(* The conditions of one number that are those of the next one too. *)
LEMMA AddressedNext ==
  ASSUME NEW mem, NEW n \in 1 .. 8, Addressed(mem, n)
  PROVE  /\ Tabled(mem)
         /\ n \in 1 .. 2 => mem.directory[STACK_DIR].table = 0
         /\ n < 8 => mem.directory[UENVS_DIR].table = 0
         /\ n < 7 => \A d \in AllDirs : ~mem.directory[d].user
         /\ n >= 4 => \A d \in KernelDirs : mem.directory[d].table # 0
         /\ Room(mem) <= end_of_kernel + Taken(n)
         /\ n >= 3 => StackThere(mem, n)
  BY DEF Addressed, StackThere, EnvsThere, UsersAre, KernelThere, MemoryTaken

LEMMA DirectoryAddressed ==
  ASSUME BootInv, AddressInv, allocate_directory
  PROVE  AddressInv'
<1> DEFINE mem == Memory
           new == boot_allocate_space(mem, PAGE_SIZE)
<1>1. /\ statement("directory", "stack", new)
      /\ Step["directory"] = 1 /\ Step["stack"] = 2 /\ "directory" \in DOMAIN Step /\ "stack" \in DOMAIN Step
      /\ boot = "directory"
  BY DEF allocate_directory, Step, statement
<1>2. /\ Apart(mem) /\ end_of_kernel \in Nat \ {0} /\ number_of_frames \in Nat /\ PAGE_SIZE \in Nat \ {0}
  BY <1>1, KernelEndsBehind, BootAssumption DEF BootInv
<1>3. Addressed(mem, 1) /\ NothingBelow(mem)
  BY <1>1 DEF AddressInv
<1>4. /\ Tabled(mem) /\ mem.directory[STACK_DIR].table = 0 /\ mem.directory[UENVS_DIR].table = 0
      /\ \A d \in AllDirs : ~mem.directory[d].user
      /\ Room(mem) <= end_of_kernel + Taken(1)
  BY <1>3, AddressedNext
<1>5. Apart(new)
  BY <1>2, SpaceAllocated
<1> HIDE DEF mem
<1>6. /\ Tabled(new) /\ new.directory = mem.directory /\ new.entries = mem.entries
      /\ new.free = Room(mem) + PAGE_SIZE /\ Len(new.spaces) = Len(mem.spaces) + 1
  BY <1>2, <1>4, SpaceTabled DEF SpaceAdded
<1> HIDE DEF new
<1>7. Room(new) = Room(mem) + PAGE_SIZE /\ Room(mem) \in Nat
  BY <1>2, <1>6, RoomBehind, RoomIs
<1>8. Len(new.spaces) >= 1
  BY <1>2, <1>6 DEF Apart
<1>9. MemoryTaken(new, 2)
  <2>1. Taken(1) = PAGE_SIZE /\ Taken(2) = 2 * PAGE_SIZE
    BY <1>2, TakenIs
  <2>2. Room(new) <= end_of_kernel + Taken(2)
    BY <1>2, <1>4, <1>7, <2>1
  <2> QED BY <1>8, <2>2 DEF MemoryTaken
<1>10. StackThere(new, 2) /\ EnvsThere(new, 2)
  BY <1>4, <1>6 DEF StackThere, EnvsThere
<1>11. UsersAre(new, 2) /\ KernelThere(new, 2) /\ NothingBelow(new)
  BY <1>3, <1>4, <1>6 DEF UsersAre, KernelThere, NothingBelow
<1>12. Addressed(new, 2)
  BY <1>6, <1>9, <1>10, <1>11 DEF Addressed
<1> QED BY <1>1, <1>5, <1>11, <1>12, StatementAddressed

LEMMA StackPages ==
  /\ KERNEL_STACK_SIZE \div PAGE_SIZE \in 0 .. NPT
  /\ pages_of(KERNEL_STACK_SIZE) = KERNEL_STACK_SIZE \div PAGE_SIZE
  /\ PHYS_EXTENDED_MEM \div PAGE_SIZE \in Nat
  /\ (PHYS_EXTENDED_MEM + KERNEL_STACK_SIZE) \div PAGE_SIZE
       = PHYS_EXTENDED_MEM \div PAGE_SIZE + KERNEL_STACK_SIZE \div PAGE_SIZE
<1> DEFINE p == PAGE_SIZE
           s == KERNEL_STACK_SIZE \div p
           x == PHYS_EXTENDED_MEM \div p
<1>1. /\ p \in Nat \ {0} /\ NPT \in Nat \ {0} /\ KERNEL_STACK_SIZE \in Nat /\ PHYS_EXTENDED_MEM \in Nat
      /\ KERNEL_STACK_SIZE <= p * NPT
      /\ KERNEL_STACK_SIZE % p = 0 /\ PHYS_EXTENDED_MEM % p = 0
  BY BootAssumption DEF PTSIZE
<1>2. s \in Nat /\ KERNEL_STACK_SIZE = s * p
  <2>1. s \in Nat /\ KERNEL_STACK_SIZE = s * p + (KERNEL_STACK_SIZE % p)
    <3> HIDE DEF p
    <3> QED BY <1>1, Divided
  <2> DEFINE v == s * p
  <2>2. v \in Nat
    BY <1>1, <2>1
  <2> HIDE DEF v, s
  <2>3. KERNEL_STACK_SIZE = v
    BY <1>1, <2>1, <2>2 DEF v
  <2> QED BY <2>1, <2>3 DEF v
<1>3. x \in Nat /\ PHYS_EXTENDED_MEM = x * p
  <2>1. x \in Nat /\ PHYS_EXTENDED_MEM = x * p + (PHYS_EXTENDED_MEM % p)
    <3> HIDE DEF p
    <3> QED BY <1>1, Divided
  <2> DEFINE v == x * p
  <2>2. v \in Nat
    BY <1>1, <2>1
  <2> HIDE DEF v, x
  <2>3. PHYS_EXTENDED_MEM = v
    BY <1>1, <2>1, <2>2 DEF v
  <2> QED BY <2>1, <2>3 DEF v
<1> HIDE DEF s, x
<1>4. s <= NPT
  <2> SUFFICES ASSUME NPT < s PROVE FALSE
    BY <1>1, <1>2
  <2>1. NPT * p + p <= s * p
    BY <1>1, <1>2, MultiplesApart
  <2> DEFINE v == NPT * p
             u == s * p
  <2>2. v \in Nat /\ v + p <= u /\ u <= v /\ u \in Nat
    BY <1>1, <1>2, <2>1
  <2> HIDE DEF u, v, p
  <2> QED BY <1>1, <2>2
<1>5. pages_of(KERNEL_STACK_SIZE) = s
  <2>1. ROUNDUP(s * PAGE_SIZE, PAGE_SIZE) = s * PAGE_SIZE
    BY <1>2, MultiplesStay
  <2>2. (s * p) \div p = s
    BY <1>1, <1>2
  <2> QED BY <1>2, <2>1, <2>2 DEF pages_of
<1>6. (PHYS_EXTENDED_MEM + KERNEL_STACK_SIZE) \div p = x + s
  <2>1. PHYS_EXTENDED_MEM + KERNEL_STACK_SIZE = (x + s) * p
    BY <1>1, <1>2, <1>3
  <2>2. ((x + s) * p) \div p = x + s
    BY <1>1, <1>2, <1>3
  <2> QED BY <2>1, <2>2
<1> QED BY <1>1, <1>2, <1>3, <1>4, <1>5, <1>6 DEF s, x

LEMMA StackAddressed ==
  ASSUME BootInv, AddressInv, map_stack
  PROVE  AddressInv'
<1> DEFINE mem == Memory
           s == KERNEL_STACK_SIZE \div PAGE_SIZE
           first == NPT - s
           x == PHYS_EXTENDED_MEM \div PAGE_SIZE
           new == boot_map_range(mem, STACK_DIR, first, KERNEL_STACK_SIZE, PHYS_EXTENDED_MEM, {"W"})
           r == Room(mem)
<1>1. /\ statement("stack", "tables", new)
      /\ Step["stack"] = 2 /\ Step["tables"] = 3 /\ "stack" \in DOMAIN Step /\ "tables" \in DOMAIN Step
      /\ boot = "stack"
  BY DEF map_stack, Step, statement
<1>2. /\ Apart(mem) /\ end_of_kernel \in Nat \ {0} /\ number_of_frames \in Nat /\ PAGE_SIZE \in Nat \ {0}
      /\ Grown(mem)
  BY <1>1, KernelEndsBehind, MemoryGrown, BootAssumption DEF BootInv
<1>3. Addressed(mem, 2) /\ NothingBelow(mem)
  BY <1>1 DEF AddressInv
<1>4. /\ Tabled(mem) /\ mem.directory[STACK_DIR].table = 0 /\ mem.directory[UENVS_DIR].table = 0
      /\ \A d \in AllDirs : ~mem.directory[d].user
      /\ r <= end_of_kernel + Taken(2)
  BY <1>3, AddressedNext
<1>5. /\ s \in 0 .. NPT /\ pages_of(KERNEL_STACK_SIZE) = s /\ x \in Nat /\ first \in Nat
      /\ NPT \in Nat /\ KERNEL_STACK_SIZE \in Nat
      /\ (PHYS_EXTENDED_MEM + KERNEL_STACK_SIZE) \div PAGE_SIZE = x + s
  <2>1. NPT \in Nat /\ KERNEL_STACK_SIZE \in Nat
    BY BootAssumption
  <2> QED BY <2>1, StackPages
<1>6. Taken(2) = 2 * PAGE_SIZE /\ Taken(3) = 3 * PAGE_SIZE /\ r \in Nat \ {0}
  BY <1>2, TakenIs, RoomIs
<1>7. mem.free \in Nat /\ Len(mem.spaces) \in Nat /\ Len(mem.spaces) >= 1
  <2>1. MemoryTaken(mem, 2)
    BY <1>3 DEF Addressed
  <2> QED BY <1>2, <2>1 DEF Apart, MemoryTaken
<1>8. CASE s = 0
  <2>1. new = mem
    BY <1>5, <1>8 DEF boot_map_range
  <2>2. MemoryTaken(mem, 3)
    BY <1>2, <1>4, <1>6, <1>7 DEF MemoryTaken
  <2>3. StackThere(mem, 3) /\ EnvsThere(mem, 3)
    BY <1>4, <1>8 DEF StackThere, EnvsThere
  <2>4. UsersAre(mem, 3) /\ KernelThere(mem, 3)
    BY <1>4 DEF UsersAre, KernelThere
  <2>5. Addressed(mem, 3)
    BY <1>4, <2>2, <2>3, <2>4 DEF Addressed
  <2> HIDE DEF mem, new
  <2> QED BY <1>1, <1>2, <1>3, <2>1, <2>5, StatementAddressed
<1>9. CASE s # 0
  <2>1. STACK_DIR \in MapDirs /\ STACK_DIR \in AllDirs /\ UENVS_DIR \in AllDirs \ {STACK_DIR}
    BY MapDirsAre
  <2>2. /\ NewTable(new, mem, STACK_DIR)
        /\ DOMAIN new.entries
             = DOMAIN mem.entries \cup {<<r, first + j>> : j \in 0 .. pages_of(KERNEL_STACK_SIZE) - 1}
        /\ \A j \in 0 .. pages_of(KERNEL_STACK_SIZE) - 1 :
             new.entries[<<r, first + j>>] = RangeEntry(PHYS_EXTENDED_MEM, {"W"}, j)
    <3>1. first + pages_of(KERNEL_STACK_SIZE) <= NPT /\ pages_of(KERNEL_STACK_SIZE) # 0
      BY <1>5, <1>9
    <3> DEFINE pa == PHYS_EXTENDED_MEM
               perm == {"W"}
               size == KERNEL_STACK_SIZE
               d == STACK_DIR
    <3>2. /\ Apart(mem) /\ Tabled(mem) /\ end_of_kernel \in Nat \ {0} /\ d \in MapDirs
          /\ mem.directory[d].table = 0 /\ first \in Nat /\ size \in Nat
          /\ first + pages_of(size) <= NPT /\ pages_of(size) # 0
      BY <1>2, <1>4, <1>5, <2>1, <3>1
    <3> HIDE DEF mem, first, pa, perm, size, d
    <3>3. RangeAdded(boot_map_range(mem, d, first, size, pa, perm), mem, d, first, pages_of(size),
                     pa, perm)
      BY <3>2, NewTableMapped
    <3> QED BY <3>3 DEF RangeAdded, pa, perm, size, d
  <2> HIDE DEF mem, new, r, x, s
  <2>3. /\ Tabled(new) /\ Apart(new) /\ new.directory[STACK_DIR] = [table |-> r, user |-> FALSE]
        /\ \A d \in AllDirs \ {STACK_DIR} : new.directory[d] = mem.directory[d]
        /\ new.free = r + PAGE_SIZE /\ Room(new) = r + PAGE_SIZE
        /\ Len(new.spaces) = Len(mem.spaces) + 1
    BY <2>2 DEF NewTable, r
  <2>4. MemoryTaken(new, 3)
    BY <1>2, <1>4, <1>6, <1>7, <2>3 DEF MemoryTaken
  <2>5. StackThere(new, 3)
    <3> SUFFICES ASSUME NEW k \in 1 .. s
                 PROVE  /\ new.directory[STACK_DIR].table # 0
                        /\ SlotOf(new, STACK_DIR, NPT - k) \in DOMAIN new.entries
                        /\ new.entries[SlotOf(new, STACK_DIR, NPT - k)].frame = x + s - k
      BY <1>5 DEF StackThere, s
    <3> DEFINE j == s - k
    <3>1. j \in 0 .. s - 1 /\ first + j = NPT - k /\ x + j = x + s - k
      BY <1>5
    <3> HIDE DEF j, first
    <3>2. SlotOf(new, STACK_DIR, NPT - k) = <<r, first + j>>
      BY <2>3, <3>1 DEF SlotOf
    <3>3. new.entries[<<r, first + j>>].frame = x + j
      <4>1. j \in 0 .. pages_of(KERNEL_STACK_SIZE) - 1
        BY <1>5, <3>1
      <4>2. new.entries[<<r, first + j>>] = RangeEntry(PHYS_EXTENDED_MEM, {"W"}, j)
        BY <2>2, <4>1
      <4> QED BY <4>2 DEF RangeEntry, x
    <3>4. <<r, first + j>> \in DOMAIN new.entries
      BY <1>5, <2>2, <3>1
    <3> QED BY <1>6, <2>3, <3>1, <3>2, <3>3, <3>4
  <2>6. EnvsThere(new, 3)
    BY <1>4, <2>1, <2>3 DEF EnvsThere
  <2>7. UsersAre(new, 3)
    <3>1. \A d \in AllDirs : ~new.directory[d].user
      BY <1>4, <2>3
    <3> QED BY <3>1 DEF UsersAre
  <2>8. KernelThere(new, 3)
    BY DEF KernelThere
  <2>9. NothingBelow(new)
    <3>1. \A d \in 0 .. UENVS_DIR - 1 : d \in AllDirs \ {STACK_DIR}
      BY BootAssumption DEF UENVS_DIR, STACK_DIR, AllDirs
    <3> QED BY <1>3, <2>3, <3>1 DEF NothingBelow
  <2>10. Addressed(new, 3)
    BY <2>3, <2>4, <2>5, <2>6, <2>7, <2>8 DEF Addressed
  <2> QED BY <1>1, <2>3, <2>9, <2>10, StatementAddressed
<1> QED BY <1>8, <1>9

(***************************************************************************)
(* The tables of the first i entries from KERNEL_BASE on.                  *)
(***************************************************************************)
TablesSince(w, mem, i) ==
  /\ Tabled(w) /\ Apart(w) /\ w.entries = mem.entries
  /\ \A x \in AllDirs \ KernelDirs : w.directory[x] = mem.directory[x]
  /\ \A x \in KernelDirs : ~w.directory[x].user
  /\ \A x \in KernelDirs : x < KERNEL_DIR + i => w.directory[x].table # 0
  /\ Room(w) <= Room(mem) + i * PAGE_SIZE
  /\ Len(w.spaces) >= Len(mem.spaces)

LEMMA OneTableMade ==
  ASSUME NEW mem, Apart(mem), end_of_kernel \in Nat \ {0}, NEW i \in Nat, i < NDIR - KERNEL_DIR,
         NEW w, TablesSince(w, mem, i)
  PROVE  TablesSince(boot_get_page_table(w, KERNEL_DIR + i), mem, i + 1)
<1> DEFINE d == KERNEL_DIR + i
           new == boot_get_page_table(w, d)
           l == Len(mem.spaces)
           lw == Len(w.spaces)
           r == Room(mem)
           rw == Room(w)
           u == i * PAGE_SIZE
           v == (i + 1) * PAGE_SIZE
<1>1. /\ KERNEL_DIR \in Nat /\ NDIR \in Nat /\ PAGE_SIZE \in Nat \ {0}
      /\ Tabled(w) /\ Apart(w) /\ w.entries = mem.entries
      /\ \A x \in AllDirs \ KernelDirs : w.directory[x] = mem.directory[x]
      /\ \A x \in KernelDirs : ~w.directory[x].user
      /\ \A x \in KernelDirs : x < KERNEL_DIR + i => w.directory[x].table # 0
  BY BootAssumption DEF TablesSince
<1>2. d \in KernelDirs /\ d \in Nat
  BY <1>1 DEF KernelDirs
<1>3. /\ l \in Nat /\ lw \in Nat /\ r \in Nat /\ rw \in Nat
  <2>1. r \in Nat /\ rw \in Nat
    BY <1>1, RoomIs
  <2>2. mem.spaces \in Seq(Space) /\ w.spaces \in Seq(Space)
    BY <1>1 DEF Apart
  <2> QED BY <2>1, <2>2
<1>4. u \in Nat /\ v = u + PAGE_SIZE
  BY <1>1
<1>5. rw <= r + u /\ l <= lw
  BY <1>3 DEF TablesSince
<1>6. \A x \in KernelDirs : x \in Nat /\ (x < KERNEL_DIR + (i + 1) => x = d \/ x < KERNEL_DIR + i)
  BY <1>1 DEF KernelDirs
<1>7. CASE w.directory[d].table # 0
  <2>1. new = w
    BY <1>7, TableThere
  <2>2. rw <= r + v
    <3> HIDE DEF r, rw, u, v
    <3> QED BY <1>1, <1>3, <1>4, <1>5
  <2>3. \A x \in KernelDirs : x < KERNEL_DIR + (i + 1) => w.directory[x].table # 0
    BY <1>1, <1>6, <1>7
  <2>4. TablesSince(w, mem, i + 1)
    BY <1>1, <1>5, <2>2, <2>3 DEF TablesSince
  <2> QED BY <2>1, <2>4
<1>8. CASE w.directory[d].table = 0
  <2>1. d \in MapDirs
    BY <1>2, MapDirsAre DEF KernelDirs
  <2>2. NewTable(new, w, d) /\ new.entries = w.entries
    <3> HIDE DEF d
    <3> QED BY <1>1, <1>8, <2>1, TableTabled
  <2> HIDE DEF new, d
  <2>3. /\ Tabled(new) /\ Apart(new) /\ new.directory[d] = [table |-> rw, user |-> FALSE]
        /\ \A x \in AllDirs \ {d} : new.directory[x] = w.directory[x]
        /\ Room(new) = rw + PAGE_SIZE /\ Len(new.spaces) = lw + 1
    BY <2>2 DEF NewTable
  <2>4. rw # 0
    BY <1>1, RoomIs
  <2>5. \A x \in KernelDirs : x \in AllDirs
    BY MapDirsAre DEF KernelDirs
  <2>6. \A x \in AllDirs \ KernelDirs : new.directory[x] = mem.directory[x]
    BY <1>1, <1>2, <2>3
  <2>7. ASSUME NEW x \in KernelDirs
        PROVE  ~new.directory[x].user /\ (x < KERNEL_DIR + (i + 1) => new.directory[x].table # 0)
    <3>1. CASE x = d
      BY <2>3, <2>4, <3>1
    <3>2. CASE x # d
      <4>1. new.directory[x] = w.directory[x]
        BY <2>3, <2>5, <3>2
      <4> QED BY <1>1, <1>6, <3>2, <4>1
    <3> QED BY <3>1, <3>2
  <2>8. Room(new) <= r + v /\ l <= Len(new.spaces)
    <3> HIDE DEF r, rw, u, v, l, lw
    <3> QED BY <1>1, <1>3, <1>4, <1>5, <2>3
  <2>9. new.entries = mem.entries
    BY <1>1, <2>2
  <2>10. TablesSince(new, mem, i + 1)
    BY <2>3, <2>6, <2>7, <2>8, <2>9 DEF TablesSince
  <2> QED BY <2>10 DEF new, d
<1> QED BY <1>7, <1>8

LEMMA TablesFilled ==
  ASSUME NEW mem, Apart(mem), Tabled(mem), end_of_kernel \in Nat \ {0},
         \A x \in KernelDirs : ~mem.directory[x].user,
         NEW a, a = KERNEL_DIR - 1, NEW n, n = NDIR - KERNEL_DIR,
         NEW g, Filling(g, mem, a, n)
  PROVE  TablesSince(g[a + n], mem, n)
<1> DEFINE S == {i \in Nat : i <= n => TablesSince(g[a + i], mem, i)}
<1>1. /\ a \in Nat /\ n \in Nat /\ KERNEL_DIR \in Nat /\ PAGE_SIZE \in Nat
      /\ \A k \in a .. a + n : g[k] = IF k = a THEN mem ELSE boot_get_page_table(g[k - 1], k)
  BY BootAssumption DEF Filling
<1>2. 0 \in S
  <2>1. a + 0 \in a .. a + n /\ a + 0 = a
    BY <1>1
  <2>2. g[a + 0] = mem
    BY <1>1, <2>1
  <2>3. TablesSince(mem, mem, 0)
    <3>1. Room(mem) \in Nat /\ Len(mem.spaces) \in Nat
      BY RoomIs DEF Apart
    <3>2. 0 * PAGE_SIZE = 0
      BY <1>1
    <3>3. \A x \in KernelDirs : ~(x < KERNEL_DIR + 0)
      BY <1>1 DEF KernelDirs
    <3> QED BY <3>1, <3>2, <3>3 DEF TablesSince
  <2> QED BY <2>2, <2>3
<1>3. ASSUME NEW k \in Nat, k \in S PROVE k + 1 \in S
  <2> SUFFICES ASSUME k + 1 <= n PROVE TablesSince(g[a + (k + 1)], mem, k + 1)
    OBVIOUS
  <2> DEFINE z == a + (k + 1)
  <2>1. z \in a .. a + n /\ z # a /\ z - 1 = a + k /\ z = KERNEL_DIR + k /\ k < NDIR - KERNEL_DIR
    BY <1>1
  <2>2. TablesSince(g[a + k], mem, k)
    BY <1>1, <1>3
  <2> HIDE DEF z
  <2>3. g[z] = boot_get_page_table(g[a + k], z)
    BY <1>1, <2>1
  <2>4. TablesSince(boot_get_page_table(g[a + k], KERNEL_DIR + k), mem, k + 1)
    BY <2>1, <2>2, OneTableMade
  <2> QED BY <2>1, <2>3, <2>4 DEF z
<1> HIDE DEF S
<1>4. Nat \subseteq S
  BY <1>2, <1>3, SetInduction
<1> QED BY <1>1, <1>4 DEF S

LEMMA TablesAddressed ==
  ASSUME BootInv, AddressInv, kernel_tables
  PROVE  AddressInv'
<1> DEFINE mem == Memory
           a == KERNEL_DIR - 1
           n == NDIR - KERNEL_DIR
           Body(g) == [d \in a .. NDIR - 1 |->
                         IF d < KERNEL_DIR THEN mem ELSE boot_get_page_table(g[d - 1], d)]
           with == CHOOSE g : g = Body(g)
           new == with[NDIR - 1]
           r == Room(mem)
           t == n * PAGE_SIZE
<1>1. /\ statement("tables", "frames_info", new)
      /\ Step["tables"] = 3 /\ Step["frames_info"] = 4
      /\ "tables" \in DOMAIN Step /\ "frames_info" \in DOMAIN Step /\ boot = "tables"
  BY DEF kernel_tables, Step, statement
<1>2. /\ Apart(mem) /\ end_of_kernel \in Nat \ {0} /\ number_of_frames \in Nat /\ PAGE_SIZE \in Nat \ {0}
  BY <1>1, KernelEndsBehind, BootAssumption DEF BootInv
<1>3. Addressed(mem, 3) /\ NothingBelow(mem)
  BY <1>1 DEF AddressInv
<1>4. /\ Tabled(mem) /\ mem.directory[UENVS_DIR].table = 0
      /\ \A d \in AllDirs : ~mem.directory[d].user
      /\ r <= end_of_kernel + Taken(3) /\ StackThere(mem, 3)
  BY <1>3, AddressedNext
<1>5. a \in Nat /\ n \in Nat /\ a + n = NDIR - 1
  BY BootAssumption
<1>6. \A g : g = Body(g) <=> Filling(g, mem, a, n)
  <2>1. \A d \in a .. NDIR - 1 : d < KERNEL_DIR <=> d = a
    BY BootAssumption
  <2>2. ASSUME NEW g
        PROVE  Body(g) = [d \in a .. NDIR - 1 |->
                            IF d = a THEN mem ELSE boot_get_page_table(g[d - 1], d)]
    <3> HIDE DEF a, mem
    <3> QED BY <2>1
  <2> HIDE DEF Body, a, n, mem
  <2> QED BY <1>5, <2>2 DEF Filling
<1>7. \E g : Filling(g, mem, a, n)
  <2> HIDE DEF a, n, mem
  <2> QED BY <1>5, FillingExists
<1>8. Filling(with, mem, a, n)
  <2> HIDE DEF Body, a, n, mem
  <2> QED BY <1>6, <1>7
<1>9. TablesSince(new, mem, n)
  <2>1. a = KERNEL_DIR - 1 /\ n = NDIR - KERNEL_DIR
    OBVIOUS
  <2>2. \A x \in KernelDirs : ~mem.directory[x].user
    BY <1>4, MapDirsAre DEF KernelDirs
  <2> HIDE DEF with, a, n, mem
  <2>3. TablesSince(with[a + n], mem, n)
    BY <1>2, <1>4, <1>8, <2>1, <2>2, TablesFilled
  <2> QED BY <1>5, <2>3
<1>10. Taken(3) = 3 * PAGE_SIZE /\ Taken(4) = 3 * PAGE_SIZE + t /\ t \in Nat /\ r \in Nat
  BY <1>2, TakenIs, RoomIs
<1> HIDE DEF mem, with, new, r, t
<1>11. /\ Tabled(new) /\ Apart(new) /\ new.entries = mem.entries
       /\ \A x \in AllDirs \ KernelDirs : new.directory[x] = mem.directory[x]
       /\ \A x \in KernelDirs : ~new.directory[x].user
       /\ \A x \in KernelDirs : x < KERNEL_DIR + n => new.directory[x].table # 0
       /\ Room(new) <= r + t
       /\ Len(new.spaces) >= Len(mem.spaces)
  BY <1>9 DEF TablesSince, r, t
<1>12. STACK_DIR \in AllDirs \ KernelDirs /\ UENVS_DIR \in AllDirs \ KernelDirs
  BY MapDirsAre DEF KernelDirs
<1>13. MemoryTaken(new, 4)
  <2>1. Room(new) \in Nat
    BY <1>2, <1>11, RoomIs
  <2>2. Room(new) <= end_of_kernel + Taken(4)
    BY <1>2, <1>4, <1>10, <1>11, <2>1
  <2>3. Len(mem.spaces) >= 1
    BY <1>3 DEF Addressed, MemoryTaken
  <2>4. mem.spaces \in Seq(Space) /\ new.spaces \in Seq(Space)
    BY <1>2, <1>11 DEF Apart
  <2>5. Len(new.spaces) >= 1
    BY <1>11, <2>3, <2>4
  <2> QED BY <2>2, <2>5 DEF MemoryTaken
<1>14. StackThere(new, 4)
  <2>1. EntriesKept(new, mem)
    BY <1>11 DEF EntriesKept
  <2> QED BY <1>4, <1>11, <1>12, <2>1, StackStays
<1>15. EnvsThere(new, 4)
  BY <1>4, <1>11, <1>12 DEF EnvsThere
<1>16. UsersAre(new, 4)
  <2>1. \A d \in AllDirs : ~new.directory[d].user
    BY <1>4, <1>11
  <2> QED BY <2>1 DEF UsersAre
<1>17. KernelThere(new, 4)
  <2>1. \A x \in KernelDirs : x < KERNEL_DIR + n
    BY BootAssumption DEF KernelDirs
  <2> QED BY <1>11, <2>1 DEF KernelThere
<1>18. NothingBelow(new)
  <2>1. \A d \in 0 .. UENVS_DIR - 1 : d \in AllDirs \ KernelDirs
    BY BootAssumption DEF UENVS_DIR, KernelDirs, AllDirs
  <2> QED BY <1>3, <1>11, <2>1 DEF NothingBelow
<1>19. Addressed(new, 4)
  BY <1>11, <1>13, <1>14, <1>15, <1>16, <1>17 DEF Addressed
<1> QED BY <1>1, <1>11, <1>18, <1>19, StatementAddressed

(***************************************************************************)
(* A space for an array changes nothing but the memory that is taken.      *)
(***************************************************************************)
LEMMA ArrayAddressed ==
  ASSUME BootInv, boot # "detect_memory", NEW mem, Apart(mem), NEW n \in 4 .. 5, Addressed(mem, n),
         NothingBelow(mem), NEW size \in Nat,
         size = IF n = 4 THEN number_of_frames * FRAME_INFO_SIZE ELSE DISK_ARRAY_SIZE
  PROVE  LET new == boot_allocate_space(mem, size)
         IN Apart(new) /\ Addressed(new, n + 1) /\ NothingBelow(new)
<1> DEFINE new == boot_allocate_space(mem, size)
           t == (NDIR - KERNEL_DIR) * PAGE_SIZE
           f == number_of_frames * FRAME_INFO_SIZE
           r == Room(mem)
<1>1. /\ end_of_kernel \in Nat \ {0} /\ number_of_frames \in Nat
      /\ PAGE_SIZE \in Nat \ {0} /\ DISK_ARRAY_SIZE \in Nat
  BY KernelEndsBehind, BootAssumption
<1>2. Apart(new)
  BY <1>1, SpaceAllocated
<1>3. SpaceAdded(new, mem, size)
  BY <1>1, SpaceTabled DEF Addressed
<1> HIDE DEF new
<1>4. /\ Tabled(new) /\ new.directory = mem.directory /\ new.entries = mem.entries
      /\ new.free = r + size /\ Len(new.spaces) = Len(mem.spaces) + 1
  BY <1>3 DEF SpaceAdded
<1>5. /\ Room(new) < r + size + PAGE_SIZE /\ r \in Nat /\ end_of_kernel <= r
  BY <1>1, <1>4, RoomBehind, RoomIs
<1>6. Room(new) \in Nat /\ new.free \in Nat
  BY <1>1, <1>2, RoomIs
<1>7. Len(mem.spaces) \in Nat
  BY DEF Apart
<1>8. /\ mem.directory[UENVS_DIR].table = 0
      /\ \A d \in AllDirs : ~mem.directory[d].user
      /\ \A d \in KernelDirs : mem.directory[d].table # 0
      /\ r <= end_of_kernel + Taken(n) /\ StackThere(mem, n)
  <2>1. n \in 1 .. 8 /\ n < 8 /\ n < 7 /\ n >= 4 /\ n >= 3
    OBVIOUS
  <2> QED BY <2>1, AddressedNext
<1>9. /\ t \in Nat /\ f \in Nat
      /\ Taken(4) = 3 * PAGE_SIZE + t /\ Taken(5) = 4 * PAGE_SIZE + t + f
      /\ Taken(6) = 5 * PAGE_SIZE + t + f + DISK_ARRAY_SIZE
  BY <1>1, TakenIs
<1> HIDE DEF t, r
<1>10. MemoryTaken(new, n + 1)
  <2>1. CASE n = 4
    <3>1. size = f
      BY <2>1
    <3> HIDE DEF f
    <3>2. Room(new) <= end_of_kernel + Taken(5)
      BY <1>1, <1>5, <1>6, <1>8, <1>9, <2>1, <3>1
    <3> QED BY <1>4, <1>7, <2>1, <3>2 DEF MemoryTaken
  <2>2. CASE n = 5
    <3>1. size = DISK_ARRAY_SIZE
      BY <2>2
    <3> HIDE DEF f
    <3>2. Room(new) <= end_of_kernel + Taken(6)
      BY <1>1, <1>5, <1>6, <1>8, <1>9, <2>2, <3>1
    <3>3. end_of_kernel + DISK_ARRAY_SIZE <= new.free
      BY <1>1, <1>4, <1>5, <3>1
    <3> QED BY <1>4, <1>7, <2>2, <3>2, <3>3 DEF MemoryTaken
  <2> QED BY <2>1, <2>2
<1>11. StackThere(new, n + 1)
  <2>1. EntriesKept(new, mem)
    BY <1>4 DEF EntriesKept
  <2> QED BY <1>4, <1>8, <2>1, StackStays
<1>12. EnvsThere(new, n + 1)
  BY <1>4, <1>8 DEF EnvsThere
<1>13. UsersAre(new, n + 1) /\ KernelThere(new, n + 1) /\ NothingBelow(new)
  BY <1>4, <1>8 DEF UsersAre, KernelThere, NothingBelow
<1>14. Addressed(new, n + 1)
  BY <1>4, <1>10, <1>11, <1>12, <1>13 DEF Addressed
<1> QED BY <1>2, <1>13, <1>14 DEF new

LEMMA ArraysAddressed ==
  ASSUME BootInv, AddressInv, allocate_frames_info \/ allocate_disk_frames_info
  PROVE  AddressInv'
<1> DEFINE mem == Memory
           f == number_of_frames * FRAME_INFO_SIZE
           new(size) == boot_allocate_space(mem, size)
<1>1. Step["frames_info"] = 4 /\ Step["disk_frames_info"] = 5 /\ Step["listing"] = 6
  BY DEF Step
<1>2. {"frames_info", "disk_frames_info", "listing"} \subseteq DOMAIN Step
  BY DEF Step
<1>3. Apart(mem) /\ f \in Nat /\ DISK_ARRAY_SIZE \in Nat
  BY BootAssumption DEF BootInv
<1>4. CASE allocate_frames_info
  <2>1. statement("frames_info", "disk_frames_info", new(f)) /\ boot = "frames_info"
    BY <1>4 DEF allocate_frames_info, statement
  <2>2. Addressed(mem, 4) /\ NothingBelow(mem)
    BY <1>1, <2>1 DEF AddressInv
  <2>3. Apart(new(f)) /\ Addressed(new(f), 5) /\ NothingBelow(new(f))
    <3> DEFINE n == 4
    <3>1. n \in 4 .. 5 /\ Addressed(mem, n) /\ n + 1 = 5
          /\ f = IF n = 4 THEN number_of_frames * FRAME_INFO_SIZE ELSE DISK_ARRAY_SIZE
      BY <2>2
    <3> HIDE DEF n, mem, f
    <3>2. /\ Apart(boot_allocate_space(mem, f)) /\ Addressed(boot_allocate_space(mem, f), n + 1)
          /\ NothingBelow(boot_allocate_space(mem, f))
      BY <1>3, <2>1, <2>2, <3>1, ArrayAddressed
    <3> QED BY <3>1, <3>2
  <2> HIDE DEF new
  <2> QED BY <1>1, <1>2, <2>1, <2>3, StatementAddressed
<1>5. CASE allocate_disk_frames_info
  <2> DEFINE s == DISK_ARRAY_SIZE
  <2>1. statement("disk_frames_info", "listing", new(s)) /\ boot = "disk_frames_info"
    BY <1>5 DEF allocate_disk_frames_info, statement
  <2>2. Addressed(mem, 5) /\ NothingBelow(mem)
    BY <1>1, <2>1 DEF AddressInv
  <2>3. Apart(new(s)) /\ Addressed(new(s), 6) /\ NothingBelow(new(s))
    <3> DEFINE n == 5
    <3>1. n \in 4 .. 5 /\ Addressed(mem, n) /\ n + 1 = 6 /\ s \in Nat
          /\ s = IF n = 4 THEN number_of_frames * FRAME_INFO_SIZE ELSE DISK_ARRAY_SIZE
      BY <1>3, <2>2
    <3> HIDE DEF n, mem, s
    <3>2. /\ Apart(boot_allocate_space(mem, s)) /\ Addressed(boot_allocate_space(mem, s), n + 1)
          /\ NothingBelow(boot_allocate_space(mem, s))
      BY <1>3, <2>1, <2>2, <3>1, ArrayAddressed
    <3> QED BY <3>1, <3>2
  <2> HIDE DEF new
  <2> QED BY <1>1, <1>2, <2>1, <2>3, StatementAddressed
<1> QED BY <1>4, <1>5

LEMMA ListingAddressed ==
  ASSUME BootInv, AddressInv, setup_listing
  PROVE  AddressInv'
<1> DEFINE mem == Memory
           self == spaces[1].at
           one == [table |-> self, user |-> FALSE]
           two == [table |-> self, user |-> TRUE]
           dir == [[mem.directory EXCEPT ![VPT_DIR] = one] EXCEPT ![UVPT_DIR] = two]
           new == [mem EXCEPT !.directory[VPT_DIR] = one, !.directory[UVPT_DIR] = two]
<1>1. /\ statement("listing", "envs", new)
      /\ Step["listing"] = 6 /\ Step["envs"] = 7
      /\ "listing" \in DOMAIN Step /\ "envs" \in DOMAIN Step /\ boot = "listing"
  BY DEF setup_listing, Step, statement
<1>2. /\ Apart(mem) /\ end_of_kernel \in Nat \ {0} /\ number_of_frames \in Nat
  BY <1>1, KernelEndsBehind DEF BootInv
<1>3. Addressed(mem, 6) /\ NothingBelow(mem) /\ MemoryTaken(mem, 6)
  BY <1>1 DEF AddressInv, Addressed
<1>4. /\ Tabled(mem) /\ mem.directory[UENVS_DIR].table = 0
      /\ \A d \in AllDirs : ~mem.directory[d].user
      /\ \A d \in KernelDirs : mem.directory[d].table # 0
      /\ StackThere(mem, 6)
  BY <1>3, AddressedNext
<1>5. Taken(6) = Taken(7)
  BY <1>2, TakenIs
<1>6. self \in Nat
  <2>1. /\ mem.spaces \in Seq(Space) /\ Len(mem.spaces) >= 1 /\ mem.spaces = spaces
    BY <1>2, <1>3 DEF Apart, MemoryTaken, Memory
  <2>2. spaces[1] \in Space
    BY <2>1
  <2> QED BY <2>2 DEF Space
<1>7. /\ new = [mem EXCEPT !.directory = dir]
      /\ mem = [free |-> mem.free, spaces |-> mem.spaces, directory |-> mem.directory,
                entries |-> mem.entries]
  BY DEF Memory
<1>8. /\ mem.directory \in [AllDirs -> DirEntry] /\ one \in DirEntry /\ two \in DirEntry
  BY <1>4, <1>6 DEF Tabled, DirEntry
<1>9. mem.spaces[1].at = self
  BY DEF Memory
<1>10. one.table = self /\ ~one.user /\ two.table = self
  OBVIOUS
<1> HIDE DEF mem, self, one, two
<1>11. /\ dir \in [AllDirs -> DirEntry] /\ dir[UVPT_DIR] = two /\ dir[VPT_DIR] = one
       /\ \A d \in AllDirs \ {VPT_DIR, UVPT_DIR} : dir[d] = mem.directory[d]
  BY <1>8, MapDirsAre
<1> HIDE DEF dir, new
<1>12. new = [free |-> mem.free, spaces |-> mem.spaces, directory |-> dir, entries |-> mem.entries]
  BY <1>7
<1>13. /\ new.free = mem.free /\ new.spaces = mem.spaces /\ new.directory = dir
       /\ new.entries = mem.entries
  BY <1>12
<1>14. Apart(new)
  BY <1>2, <1>7, OtherFields
<1>15. \A d \in MapDirs : new.directory[d] = mem.directory[d]
  BY <1>11, <1>13, MapDirsAre
<1>16. Tabled(new)
  BY <1>4, <1>11, <1>13, <1>15 DEF Tabled
<1>17. MemoryTaken(new, 7)
  BY <1>3, <1>5, <1>13 DEF MemoryTaken, Room, Bottom
<1>18. StackThere(new, 7)
  <2>1. EntriesKept(new, mem)
    BY <1>13 DEF EntriesKept
  <2> QED BY <1>4, <1>15, <2>1, StackStays, MapDirsAre
<1>19. EnvsThere(new, 7) /\ KernelThere(new, 7)
  BY <1>4, <1>15, MapDirsAre DEF EnvsThere, KernelThere, KernelDirs
<1>20. UsersAre(new, 7)
  <2> SUFFICES ASSUME NEW d \in AllDirs, new.directory[d].user
               PROVE  d = UVPT_DIR /\ new.directory[d].table = new.spaces[1].at
    BY DEF UsersAre
  <2>1. d = UVPT_DIR
    BY <1>4, <1>10, <1>11, <1>13
  <2> QED BY <1>9, <1>10, <1>11, <1>13, <2>1
<1>21. NothingBelow(new)
  <2>1. \A d \in 0 .. UENVS_DIR - 1 : d \in AllDirs \ {VPT_DIR, UVPT_DIR}
    BY BootAssumption DEF UENVS_DIR, VPT_DIR, UVPT_DIR, AllDirs
  <2> QED BY <1>3, <1>11, <1>13, <2>1 DEF NothingBelow
<1>22. Addressed(new, 7)
  BY <1>16, <1>17, <1>18, <1>19, <1>20 DEF Addressed
<1> QED BY <1>1, <1>14, <1>21, <1>22, StatementAddressed

LEMMA PagesFit ==
  ASSUME NEW size \in Nat, NEW m \in Nat, size <= m * PAGE_SIZE
  PROVE  pages_of(size) \in 0 .. m /\ (size # 0 => pages_of(size) # 0)
<1> DEFINE p == PAGE_SIZE
           up == ROUNDUP(size, PAGE_SIZE)
           q == up \div p
           u == m * p
           v == q * p
<1>1. /\ p \in Nat \ {0} /\ q \in Nat /\ up = v /\ size <= up /\ up < size + p
  BY BootAssumption, RoundedUp
<1>2. q = pages_of(size)
  BY DEF pages_of
<1>3. u \in Nat /\ v \in Nat /\ size <= u
  <2> HIDE DEF q
  <2> QED BY <1>1
<1> HIDE DEF up, q
<1>4. ~(m < q)
  <2> SUFFICES ASSUME m < q PROVE FALSE
    OBVIOUS
  <2>1. u + p <= v
    BY <1>1, MultiplesApart
  <2> HIDE DEF u, v, p
  <2> QED BY <1>1, <1>3, <2>1
<1>5. size # 0 => q # 0
  <2> SUFFICES ASSUME q = 0, size # 0 PROVE FALSE
    OBVIOUS
  <2>1. v = 0
    BY <1>1
  <2> HIDE DEF v
  <2> QED BY <1>1, <2>1
<1> QED BY <1>1, <1>2, <1>4, <1>5

LEMMA EnvsAddressed ==
  ASSUME BootInv, AddressInv, allocate_envs
  PROVE  AddressInv'
<1> DEFINE mem == Memory
           size == ENVS_SIZE
           d == UENVS_DIR
           perm == {"U"}
           zero == 0
           sp == boot_allocate_space(mem, size)
           mapped == boot_map_range(sp, d, zero, size, last_space(sp), perm)
           new == [mapped EXCEPT !.directory[d].user = TRUE]
           r == Room(mem)
           rs == Room(sp)
           l == Len(mem.spaces)
           n == pages_of(size)
<1>1. /\ statement("envs", "map_kernel", new)
      /\ Step["envs"] = 7 /\ Step["map_kernel"] = 8
      /\ "envs" \in DOMAIN Step /\ "map_kernel" \in DOMAIN Step /\ boot = "envs"
  BY DEF allocate_envs, Step, statement, envs_permission
<1>2. /\ Apart(mem) /\ end_of_kernel \in Nat \ {0} /\ number_of_frames \in Nat
      /\ PAGE_SIZE \in Nat \ {0} /\ size \in Nat \ {0} /\ DISK_ARRAY_SIZE \in Nat
      /\ NPT \in Nat \ {0}
  BY <1>1, KernelEndsBehind, BootAssumption DEF BootInv
<1>3. Addressed(mem, 7) /\ NothingBelow(mem) /\ MemoryTaken(mem, 7)
  BY <1>1 DEF AddressInv, Addressed
<1>4. /\ Tabled(mem) /\ mem.directory[d].table = 0 /\ UsersAre(mem, 7)
      /\ \A x \in KernelDirs : mem.directory[x].table # 0
      /\ r <= end_of_kernel + Taken(7)
      /\ StackThere(mem, 7)
  BY <1>3, AddressedNext DEF Addressed
<1>5. d \in MapDirs /\ d \in AllDirs
  BY MapDirsAre
<1>6. n \in 1 .. NPT
  <2>1. size <= NPT * PAGE_SIZE
    BY BootAssumption DEF PTSIZE
  <2> HIDE DEF size
  <2>2. n \in 0 .. NPT /\ n # 0
    BY <1>2, <2>1, PagesFit
  <2> QED BY <1>2, <2>2
<1>7. /\ l \in Nat /\ l >= 1 /\ end_of_kernel + DISK_ARRAY_SIZE <= mem.free
      /\ mem.free \in Nat /\ r \in Nat /\ mem.free <= r
  BY <1>2, <1>3, RoomIs DEF Apart, MemoryTaken
<1>8. Apart(sp) /\ SpaceAdded(sp, mem, size)
  BY <1>2, <1>4, SpaceAllocated, SpaceTabled
<1> HIDE DEF mem, size, perm, d, sp
<1>9. /\ Tabled(sp) /\ sp.directory = mem.directory /\ sp.entries = mem.entries
      /\ sp.free = r + size /\ Len(sp.spaces) = l + 1
      /\ sp.spaces[l + 1] = [at |-> r, size |-> size]
      /\ \A i \in 1 .. l : sp.spaces[i] = mem.spaces[i]
  BY <1>8 DEF SpaceAdded
<1>10. last_space(sp) = r
  BY <1>9 DEF last_space
<1>11. /\ rs < r + size + PAGE_SIZE /\ r + size <= rs /\ rs \in Nat \ {0}
  BY <1>2, <1>8, <1>9, RoomBehind, RoomIs
<1>12. RangeAdded(mapped, sp, d, zero, n, r, perm)
  <2>1. zero \in Nat /\ n # 0 /\ zero + n <= NPT /\ sp.directory[d].table = 0 /\ size \in Nat
    BY <1>2, <1>4, <1>6, <1>9
  <2> HIDE DEF zero, r
  <2>2. RangeAdded(boot_map_range(sp, d, zero, size, r, perm), sp, d, zero, n, r, perm)
    BY <1>2, <1>5, <1>8, <1>9, <2>1, NewTableMapped
  <2> QED BY <1>10, <2>2
<1> HIDE DEF mapped, r, rs, n, l
<1>13. /\ Tabled(mapped) /\ Apart(mapped) /\ mapped.directory[d] = [table |-> rs, user |-> FALSE]
       /\ \A x \in AllDirs \ {d} : mapped.directory[x] = mem.directory[x]
       /\ mapped.free = rs + PAGE_SIZE /\ Room(mapped) = rs + PAGE_SIZE
       /\ Len(mapped.spaces) = l + 2
       /\ mapped.spaces[l + 1] = [at |-> r, size |-> size]
       /\ \A i \in 1 .. l : mapped.spaces[i] = mem.spaces[i]
  <2>1. NewTable(mapped, sp, d)
    BY <1>12 DEF RangeAdded
  <2>2. /\ Tabled(mapped) /\ Apart(mapped) /\ mapped.directory[d] = [table |-> rs, user |-> FALSE]
        /\ \A x \in AllDirs \ {d} : mapped.directory[x] = sp.directory[x]
        /\ mapped.free = rs + PAGE_SIZE /\ Room(mapped) = rs + PAGE_SIZE
        /\ Len(mapped.spaces) = l + 1 + 1
        /\ \A i \in 1 .. l + 1 : mapped.spaces[i] = sp.spaces[i]
    BY <1>9, <2>1 DEF NewTable, rs
  <2>3. l + 1 \in 1 .. l + 1 /\ l + 1 + 1 = l + 2 /\ \A i \in 1 .. l : i \in 1 .. l + 1
    BY <1>7
  <2> QED BY <1>9, <2>2, <2>3
<1>14. /\ DOMAIN mapped.entries = DOMAIN mem.entries \cup {<<rs, zero + j>> : j \in 0 .. n - 1}
       /\ \A j \in 0 .. n - 1 : mapped.entries[<<rs, zero + j>>] = RangeEntry(r, perm, j)
       /\ \A slot \in DOMAIN mem.entries : slot[1] # rs /\ mapped.entries[slot] = mem.entries[slot]
  BY <1>9, <1>12 DEF RangeAdded, rs
<1> DEFINE dir == [mapped.directory EXCEPT ![d].user = TRUE]
<1>15. /\ new.free = mapped.free /\ new.spaces = mapped.spaces /\ new.directory = dir
       /\ new.entries = mapped.entries /\ Apart(new) /\ Room(new) = Room(mapped)
  <2>1. new = [mapped EXCEPT !.directory = dir]
    OBVIOUS
  <2>2. mapped = [free |-> mapped.free, spaces |-> mapped.spaces, directory |-> mapped.directory,
                  entries |-> mapped.entries]
    BY <1>13 DEF Apart
  <2> HIDE DEF dir, new
  <2>3. new = [free |-> mapped.free, spaces |-> mapped.spaces, directory |-> dir,
               entries |-> mapped.entries]
    BY <2>1, <2>2
  <2>4. Apart(new)
    BY <1>13, <2>1, OtherFields
  <2>5. new.free = mapped.free /\ new.spaces = mapped.spaces /\ new.directory = dir
        /\ new.entries = mapped.entries
    BY <2>3
  <2> QED BY <2>4, <2>5 DEF Room, Bottom
<1> HIDE DEF new
<1>16. /\ dir \in [AllDirs -> DirEntry] /\ dir[d].table = rs
       /\ \A x \in AllDirs \ {d} : dir[x] = mem.directory[x]
       /\ \A x \in AllDirs : dir[x].table = mapped.directory[x].table
  <2>1. mapped.directory \in [AllDirs -> DirEntry]
    BY <1>13 DEF Tabled
  <2>2. dir \in [AllDirs -> DirEntry]
    BY <1>5, <2>1 DEF DirEntry
  <2>3. dir[d].table = mapped.directory[d].table
    BY <1>5, <2>1 DEF DirEntry
  <2>4. \A x \in AllDirs \ {d} : dir[x] = mapped.directory[x]
    BY <1>5, <2>1
  <2>5. mapped.directory[d].table = rs
    BY <1>13
  <2> HIDE DEF dir
  <2>6. \A x \in AllDirs : dir[x].table = mapped.directory[x].table
    BY <2>3, <2>4
  <2> QED BY <1>13, <2>2, <2>3, <2>4, <2>5, <2>6
<1> HIDE DEF dir
<1>17. Tabled(new)
  <2>1. \A x \in MapDirs : x \in AllDirs
    BY MapDirsAre
  <2> QED BY <1>13, <1>15, <1>16, <2>1 DEF Tabled
<1>18. MemoryTaken(new, 8)
  <2> DEFINE t == (NDIR - KERNEL_DIR) * PAGE_SIZE
             f == number_of_frames * FRAME_INFO_SIZE
  <2>1. /\ t \in Nat /\ f \in Nat
        /\ Taken(7) = 5 * PAGE_SIZE + t + f + DISK_ARRAY_SIZE
        /\ Taken(8) = 7 * PAGE_SIZE + t + f + DISK_ARRAY_SIZE + size
    BY <1>2, TakenIs DEF size
  <2> HIDE DEF t, f
  <2>2. Room(new) <= end_of_kernel + Taken(8)
    BY <1>2, <1>4, <1>7, <1>11, <1>13, <1>15, <2>1
  <2>3. end_of_kernel + DISK_ARRAY_SIZE + size <= new.free
    BY <1>2, <1>7, <1>11, <1>13, <1>15
  <2>4. end_of_kernel + DISK_ARRAY_SIZE <= new.free
    BY <1>2, <1>7, <1>11, <1>13, <1>15
  <2>5. Len(new.spaces) >= 1
    BY <1>7, <1>13, <1>15
  <2> QED BY <2>2, <2>3, <2>4, <2>5 DEF MemoryTaken, size
<1>19. StackThere(new, 8)
  <2>1. EntriesKept(new, mem)
    BY <1>14, <1>15 DEF EntriesKept
  <2>2. STACK_DIR \in AllDirs \ {d}
    BY MapDirsAre DEF d
  <2>3. new.directory[STACK_DIR] = mem.directory[STACK_DIR]
    BY <1>15, <1>16, <2>2
  <2> QED BY <1>4, <2>1, <2>3, StackStays
<1>20. EnvsThere(new, 8)
  <2>1. new.directory[d].table = rs /\ rs # 0
    BY <1>11, <1>15, <1>16
  <2>2. Len(new.spaces) >= 2 /\ new.spaces[Len(new.spaces) - 1].at = r
    <3>1. l + 2 - 1 = l + 1 /\ l + 2 >= 2
      BY <1>7
    <3>2. Len(new.spaces) = l + 2 /\ new.spaces[l + 1].at = r
      BY <1>13, <1>15
    <3>3. Len(new.spaces) - 1 = l + 1
      BY <1>7, <3>2
    <3> QED BY <3>1, <3>2, <3>3
  <2>3. ASSUME NEW slot \in DOMAIN new.entries, slot[1] = rs
        PROVE  ~new.entries[slot].write /\ \E k \in 0 .. n - 1 : new.entries[slot].frame = r \div PAGE_SIZE + k
    <3>1. PICK j \in 0 .. n - 1 : slot = <<rs, zero + j>>
      BY <1>14, <1>15, <2>3
    <3>2. new.entries[slot] = RangeEntry(r, perm, j)
      BY <1>14, <1>15, <3>1
    <3>3. ~new.entries[slot].write
      <4>1. ~("W" \in perm)
        BY DEF perm
      <4>2. ("W" \in perm) = FALSE
        BY <4>1
      <4>3. RangeEntry(r, perm, j)
              = [frame |-> r \div PAGE_SIZE + j, user |-> "U" \in perm, write |-> FALSE]
        BY <4>2, Zenon DEF RangeEntry
      <4> QED BY <3>2, <4>3
    <3>4. new.entries[slot].frame = r \div PAGE_SIZE + j
      BY <3>2 DEF RangeEntry
    <3> QED BY <3>3, <3>4
  <2> QED BY <2>1, <2>2, <2>3 DEF EnvsThere, d, n, size
<1>21. KernelThere(new, 8)
  <2>1. \A x \in KernelDirs : x \in AllDirs \ {d}
    BY MapDirsAre DEF KernelDirs, d
  <2> QED BY <1>4, <1>15, <1>16, <2>1 DEF KernelThere
<1>22. UsersAre(new, 8)
  <2>1. 1 \in 1 .. l
    BY <1>7
  <2> SUFFICES ASSUME NEW x \in AllDirs, new.directory[x].user, x # UENVS_DIR
               PROVE  x = UVPT_DIR /\ new.directory[x].table = new.spaces[1].at
    BY DEF UsersAre
  <2>2. new.directory[x] = mem.directory[x]
    BY <1>15, <1>16 DEF d
  <2>3. x = UVPT_DIR /\ mem.directory[x].table = mem.spaces[1].at
    BY <1>4, <2>2 DEF UsersAre
  <2> QED BY <1>13, <1>15, <2>1, <2>2, <2>3
<1>23. NothingBelow(new)
  <2>1. \A x \in 0 .. UENVS_DIR - 1 : x \in AllDirs \ {d}
    BY BootAssumption DEF UENVS_DIR, AllDirs, d
  <2> QED BY <1>3, <1>15, <1>16, <2>1 DEF NothingBelow
<1>24. Addressed(new, 8)
  BY <1>17, <1>18, <1>19, <1>20, <1>21, <1>22 DEF Addressed
<1> QED BY <1>1, <1>15, <1>23, <1>24, StatementAddressed

(* The kernel, its arrays and the pages of their tables have kernel addresses. *)
LEMMA KernelFits ==
  ASSUME BootInv, AddressInv, boot # "detect_memory", NEW mem, Apart(mem), NEW n \in 8 .. 12,
         MemoryTaken(mem, n)
  PROVE  mem.free <= ((NDIR - KERNEL_DIR) * NPT) * PAGE_SIZE
<1> DEFINE t == (NDIR - KERNEL_DIR) * PAGE_SIZE
           f == number_of_frames * FRAME_INFO_SIZE
           r == Room(mem)
           c == NDIR - KERNEL_DIR
           top == (c * NPT) * PAGE_SIZE
           need == (c + 7) * PAGE_SIZE
           all == c * PTSIZE
<1>1. /\ end_of_kernel \in Nat \ {0} /\ number_of_frames \in Nat /\ end_of_kernel \in Kernels
      /\ c \in Nat /\ PAGE_SIZE \in Nat \ {0} /\ NPT \in Nat
      /\ DISK_ARRAY_SIZE \in Nat /\ ENVS_SIZE \in Nat
  BY KernelEndsBehind, BootAssumption DEF AddressInv
<1>2. r \in Nat /\ mem.free \in Nat /\ mem.free <= r
  BY <1>1, RoomIs
<1>3. /\ t \in Nat /\ f \in Nat
      /\ Taken(n) = 7 * PAGE_SIZE + t + f + DISK_ARRAY_SIZE + ENVS_SIZE
  BY <1>1, TakenIs
<1>4. r <= end_of_kernel + Taken(n)
  BY DEF MemoryTaken
<1>5. end_of_kernel + f + DISK_ARRAY_SIZE + ENVS_SIZE + need <= all
  <2>1. PICK m \in Memories : number_of_frames = m \div PAGE_SIZE
    BY DEF AddressInv
  <2>2. end_of_kernel + (m \div PAGE_SIZE) * FRAME_INFO_SIZE + DISK_ARRAY_SIZE + ENVS_SIZE
          + (NDIR - KERNEL_DIR + 7) * PAGE_SIZE <= (NDIR - KERNEL_DIR) * PTSIZE
    BY <1>1, BootAssumption
  <2> QED BY <2>1, <2>2
<1> HIDE DEF c
<1>6. need = t + 7 * PAGE_SIZE
  <2>1. t = c * PAGE_SIZE
    BY DEF c
  <2> HIDE DEF t
  <2> QED BY <1>1, <2>1
<1>7. all = top /\ top \in Nat
  BY <1>1 DEF PTSIZE
<1> HIDE DEF t, f, r, top, need, all
<1>8. mem.free <= top
  BY <1>1, <1>2, <1>3, <1>4, <1>5, <1>6, <1>7
<1> QED BY <1>8 DEF top, c

LEMMA KernelAddressed ==
  ASSUME BootInv, AddressInv, map_kernel
  PROVE  AddressInv'
<1> DEFINE mem == Memory
           size == ptr_free_mem
           zero == 0
           perm == {"W"}
           new == boot_map_range(mem, KERNEL_DIR, 0, size, zero, perm)
           n == pages_of(size)
           at(j) == RangeSlot(mem, KERNEL_DIR, 0, j)
<1>1. /\ statement("map_kernel", "switch", new)
      /\ Step["map_kernel"] = 8 /\ Step["switch"] = 9
      /\ "map_kernel" \in DOMAIN Step /\ "switch" \in DOMAIN Step /\ boot = "map_kernel"
  BY DEF map_kernel, mapped_size, Step, statement
<1>2. /\ Apart(mem) /\ end_of_kernel \in Nat \ {0} /\ number_of_frames \in Nat
      /\ PAGE_SIZE \in Nat \ {0} /\ NPT \in Nat \ {0} /\ NDIR - KERNEL_DIR \in Nat
  BY <1>1, KernelEndsBehind, BootAssumption DEF BootInv
<1>3. Addressed(mem, 8) /\ NothingBelow(mem)
  BY <1>1 DEF AddressInv
<1>4. /\ Tabled(mem) /\ UsersAre(mem, 8) /\ EnvsThere(mem, 8) /\ StackThere(mem, 8)
      /\ MemoryTaken(mem, 8)
      /\ \A x \in KernelDirs : mem.directory[x].table # 0
  BY <1>3 DEF Addressed, KernelThere
<1>5. size \in Nat \ {0} /\ mem.free = size
  BY <1>1, <1>2 DEF BootInv, Apart, Memory
<1>6. n # 0 /\ n \in Nat /\ n <= (NDIR - KERNEL_DIR) * NPT
  <2> DEFINE m == (NDIR - KERNEL_DIR) * NPT
  <2>1. m \in Nat
    BY <1>2
  <2>2. size <= m * PAGE_SIZE
    BY <1>1, <1>2, <1>4, <1>5, KernelFits
  <2> HIDE DEF m, size
  <2>3. n \in 0 .. m /\ n # 0
    BY <1>5, <2>1, <2>2, PagesFit
  <2> QED BY <2>1, <2>3 DEF m
<1> HIDE DEF mem, size, zero, perm
<1>7. EntriesAdded(new, mem, n, zero, perm)
  BY <1>2, <1>4, <1>5, <1>6, OldTablesMapped DEF KernelDirs
<1> HIDE DEF new, n
<1>8. /\ Tabled(new) /\ Apart(new)
      /\ new.directory = mem.directory /\ new.free = mem.free /\ new.spaces = mem.spaces
      /\ Room(new) = Room(mem)
      /\ DOMAIN new.entries = DOMAIN mem.entries \cup {at(j) : j \in 0 .. n - 1}
      /\ \A j \in 0 .. n - 1 : new.entries[at(j)] = RangeEntry(zero, perm, j)
      /\ \A slot \in DOMAIN mem.entries :
           (\A j \in 0 .. n - 1 : slot # at(j)) => new.entries[slot] = mem.entries[slot]
      /\ \A j \in 0 .. n - 1 : KERNEL_DIR + (j \div NPT) \in KernelDirs
  BY <1>7 DEF EntriesAdded, AreMapped, KernelDirs
<1>9. ASSUME NEW j \in 0 .. n - 1
      PROVE  at(j) = SlotOf(mem, KERNEL_DIR + (j \div NPT), j % NPT)
  <2>1. 0 + j = j
    BY <1>6
  <2> QED BY <2>1 DEF RangeSlot, SlotOf
<1>10. ASSUME NEW x \in {STACK_DIR, UENVS_DIR}, mem.directory[x].table # 0, NEW j \in 0 .. n - 1
       PROVE  at(j)[1] # mem.directory[x].table
  <2> DEFINE y == KERNEL_DIR + (j \div NPT)
  <2>1. y \in KernelDirs
    BY <1>8
  <2>2. at(j)[1] = mem.directory[y].table
    BY <1>9 DEF SlotOf
  <2> HIDE DEF y, at
  <2>3. y \in MapDirs /\ x \in MapDirs /\ x # y
    BY <2>1, MapDirsAre DEF KernelDirs
  <2> QED BY <1>4, <1>10, <2>2, <2>3 DEF Tabled
<1> HIDE DEF at
<1>11. MemoryTaken(new, 9)
  <2>1. Taken(9) = Taken(8)
    BY <1>2, TakenIs
  <2> QED BY <1>4, <1>8, <2>1 DEF MemoryTaken
<1>12. StackThere(new, 9)
  <2> DEFINE s == KERNEL_STACK_SIZE \div PAGE_SIZE
             x == (PHYS_EXTENDED_MEM + KERNEL_STACK_SIZE) \div PAGE_SIZE
  <2> HIDE DEF s, x
  <2> SUFFICES ASSUME NEW k \in 1 .. s
               PROVE  /\ new.directory[STACK_DIR].table # 0
                      /\ SlotOf(new, STACK_DIR, NPT - k) \in DOMAIN new.entries
                      /\ new.entries[SlotOf(new, STACK_DIR, NPT - k)].frame = x - k
    BY DEF StackThere, s, x
  <2> DEFINE slot == SlotOf(mem, STACK_DIR, NPT - k)
  <2>1. /\ mem.directory[STACK_DIR].table # 0 /\ slot \in DOMAIN mem.entries
        /\ mem.entries[slot].frame = x - k
    BY <1>4 DEF StackThere, s, x
  <2>2. slot[1] = mem.directory[STACK_DIR].table /\ SlotOf(new, STACK_DIR, NPT - k) = slot
    BY <1>8 DEF SlotOf
  <2> HIDE DEF slot
  <2>3. \A j \in 0 .. n - 1 : slot # at(j)
    BY <1>10, <2>1, <2>2
  <2>4. new.entries[slot] = mem.entries[slot] /\ slot \in DOMAIN new.entries
    BY <1>8, <2>1, <2>3
  <2> QED BY <1>8, <2>1, <2>2, <2>4
<1>13. EnvsThere(new, 9)
  <2> DEFINE e == mem.directory[UENVS_DIR].table
  <2>1. e # 0 /\ Len(new.spaces) >= 2 /\ new.directory[UENVS_DIR].table = e
    BY <1>4, <1>8 DEF EnvsThere
  <2>2. ASSUME NEW slot \in DOMAIN new.entries, slot[1] = e
        PROVE  slot \in DOMAIN mem.entries /\ new.entries[slot] = mem.entries[slot]
    <3>1. \A j \in 0 .. n - 1 : slot # at(j)
      BY <1>10, <2>1, <2>2
    <3>2. slot \in DOMAIN mem.entries
      BY <1>8, <3>1
    <3> QED BY <1>8, <3>1, <3>2
  <2> DEFINE good(en, sp) == /\ ~en.write
                             /\ \E k \in 0 .. pages_of(ENVS_SIZE) - 1 :
                                  en.frame = sp[Len(sp) - 1].at \div PAGE_SIZE + k
  <2>3. \A slot \in DOMAIN mem.entries : slot[1] = e => good(mem.entries[slot], mem.spaces)
    BY <1>4 DEF EnvsThere
  <2> HIDE DEF good, e
  <2>4. \A slot \in DOMAIN new.entries : slot[1] = e => good(new.entries[slot], new.spaces)
    BY <1>8, <2>2, <2>3
  <2> QED BY <2>1, <2>4 DEF EnvsThere, good
<1>14. KernelThere(new, 9)
  <2>1. n = pages_of(new.free)
    BY <1>5, <1>8 DEF n
  <2> SUFFICES ASSUME NEW p \in 0 .. n - 1
               PROVE  /\ KERNEL_DIR + (p \div NPT) \in KernelDirs
                      /\ SlotOf(new, KERNEL_DIR + (p \div NPT), p % NPT) \in DOMAIN new.entries
                      /\ new.entries[SlotOf(new, KERNEL_DIR + (p \div NPT), p % NPT)].frame = p
    BY <1>4, <1>8, <2>1 DEF KernelThere
  <2>2. SlotOf(new, KERNEL_DIR + (p \div NPT), p % NPT) = at(p)
    BY <1>8, <1>9 DEF SlotOf
  <2>3. new.entries[at(p)].frame = zero \div PAGE_SIZE + p
    <3>1. new.entries[at(p)] = RangeEntry(zero, perm, p)
      BY <1>8
    <3> QED BY <3>1 DEF RangeEntry
  <2>4. zero \div PAGE_SIZE + p = p
    BY <1>2, <1>6 DEF zero
  <2> QED BY <1>8, <2>2, <2>3, <2>4
<1>15. UsersAre(new, 9) /\ NothingBelow(new)
  BY <1>3, <1>4, <1>8 DEF UsersAre, NothingBelow
<1>16. Addressed(new, 9)
  BY <1>8, <1>11, <1>12, <1>13, <1>14, <1>15 DEF Addressed
<1> QED BY <1>1, <1>8, <1>15, <1>16, StatementAddressed

(***************************************************************************)
(* The statements that turn paging on: nothing from UENVS on changes.      *)
(***************************************************************************)
LEMMA AddressedOn ==
  ASSUME number_of_frames \in Nat,
         NEW mem, NEW n \in 9 .. 11, Addressed(mem, n), NEW new,
         new.free = mem.free, new.spaces = mem.spaces, new.entries = mem.entries,
         Room(new) = Room(mem), new.directory \in [AllDirs -> DirEntry],
         \A x \in UENVS_DIR .. NDIR - 1 : new.directory[x] = mem.directory[x],
         \A x \in 0 .. UENVS_DIR - 1 : ~new.directory[x].user
  PROVE  Addressed(new, n + 1)
<1>1. /\ Tabled(mem) /\ MemoryTaken(mem, n) /\ StackThere(mem, n) /\ EnvsThere(mem, n)
      /\ KernelThere(mem, n) /\ UsersAre(mem, n)
  BY DEF Addressed
<1>2. /\ \A x \in MapDirs : x \in UENVS_DIR .. NDIR - 1
      /\ \A x \in AllDirs : x \in 0 .. UENVS_DIR - 1 \/ x \in UENVS_DIR .. NDIR - 1
      /\ STACK_DIR \in MapDirs /\ UENVS_DIR \in MapDirs
      /\ \A x \in KernelDirs : x \in MapDirs
      /\ UVPT_DIR \in UENVS_DIR .. NDIR - 1
  BY BootAssumption DEF MapDirs, AllDirs, UENVS_DIR, STACK_DIR, KernelDirs, UVPT_DIR
<1>3. \A x \in MapDirs : new.directory[x] = mem.directory[x]
  BY <1>2
<1>4. Tabled(new)
  BY <1>1, <1>3 DEF Tabled
<1>5. MemoryTaken(new, n + 1)
  <2>1. Taken(n) = Taken(n + 1)
    <3>1. n \in 8 .. 12 /\ n + 1 \in 8 .. 12
      OBVIOUS
    <3> QED BY <3>1, TakenIs
  <2> QED BY <1>1, <2>1 DEF MemoryTaken
<1>6. StackThere(new, n + 1)
  <2>1. EntriesKept(new, mem)
    BY DEF EntriesKept
  <2> QED BY <1>1, <1>2, <1>3, <2>1, StackStays
<1>7. EnvsThere(new, n + 1)
  BY <1>1, <1>2, <1>3 DEF EnvsThere
<1>8. KernelThere(new, n + 1)
  <2>1. \A x \in KernelDirs : new.directory[x] = mem.directory[x] /\ mem.directory[x].table # 0
    BY <1>1, <1>2, <1>3 DEF KernelThere
  <2>2. ASSUME NEW p \in 0 .. pages_of(mem.free) - 1
        PROVE  /\ KERNEL_DIR + (p \div NPT) \in KernelDirs
               /\ SlotOf(new, KERNEL_DIR + (p \div NPT), p % NPT) \in DOMAIN mem.entries
               /\ mem.entries[SlotOf(new, KERNEL_DIR + (p \div NPT), p % NPT)].frame = p
    <3> DEFINE x == KERNEL_DIR + (p \div NPT)
    <3>1. /\ x \in KernelDirs /\ SlotOf(mem, x, p % NPT) \in DOMAIN mem.entries
          /\ mem.entries[SlotOf(mem, x, p % NPT)].frame = p
      BY <1>1 DEF KernelThere
    <3> HIDE DEF x
    <3>2. SlotOf(new, x, p % NPT) = SlotOf(mem, x, p % NPT)
      BY <2>1, <3>1 DEF SlotOf
    <3>3. /\ x \in KernelDirs /\ SlotOf(new, x, p % NPT) \in DOMAIN mem.entries
          /\ mem.entries[SlotOf(new, x, p % NPT)].frame = p
      BY <3>1, <3>2
    <3> QED BY <3>3 DEF x
  <2> QED BY <2>1, <2>2 DEF KernelThere
<1>9. UsersAre(new, n + 1)
  BY <1>1, <1>2 DEF UsersAre
<1> QED BY <1>4, <1>5, <1>6, <1>7, <1>8, <1>9 DEF Addressed

LEMMA AddressedThen ==
  ASSUME NEW mem, Memory' = mem, UNCHANGED <<end_of_kernel, number_of_frames>>,
         Addressed(mem, Step[boot'])
  PROVE  Addressed(Memory, Step[boot])'
<1> DEFINE n == Step[boot']
<1>1. /\ Tabled(mem) /\ MemoryTaken(mem, n) /\ StackThere(mem, n) /\ EnvsThere(mem, n)
      /\ KernelThere(mem, n) /\ UsersAre(mem, n)
  BY DEF Addressed
<1>2. Step[boot]' = n
  OBVIOUS
<1> HIDE DEF n
<1>3. Tabled(Memory)'
  BY <1>1 DEF Tabled
<1>4. MemoryTaken(Memory, Step[boot])'
  BY <1>1, <1>2 DEF MemoryTaken, Room, Bottom, Taken
<1>5. StackThere(Memory, Step[boot])' /\ EnvsThere(Memory, Step[boot])'
  BY <1>1, <1>2 DEF StackThere, EnvsThere, SlotOf
<1>6. KernelThere(Memory, Step[boot])'
  BY <1>1, <1>2 DEF KernelThere, SlotOf
<1>7. UsersAre(Memory, Step[boot])'
  BY <1>1, <1>2 DEF UsersAre
<1> QED BY <1>3, <1>4, <1>5, <1>6, <1>7 DEF Addressed

(* The tables that turn_on_paging() uses at 0 too are of the kernel's entries. *)
LEMMA LowDirsAre ==
  ASSUME BootInv, AddressInv, Step[boot] \in 9 .. 10
  PROVE  /\ low_dirs \in 0 .. UENVS_DIR
         /\ \A d \in 0 .. low_dirs - 1 : KERNEL_DIR + d \in KernelDirs
<1> DEFINE c == NDIR - KERNEL_DIR
<1>1. boot # "detect_memory"
  BY DEF Step
<1>2. MemoryTaken(Memory, Step[boot]) /\ Apart(Memory) /\ Memory.free = ptr_free_mem
  BY DEF AddressInv, Addressed, BootInv, Memory
<1>3. ptr_free_mem <= (c * NPT) * PAGE_SIZE
  BY <1>1, <1>2, KernelFits
<1>4. /\ c \in Nat /\ NPT \in Nat \ {0} /\ PAGE_SIZE \in Nat \ {0} /\ PTSIZE \in Nat \ {0}
      /\ KERNEL_DIR \in Nat /\ NDIR \in Nat /\ c <= UENVS_DIR /\ UENVS_DIR \in Nat
  BY BootAssumption DEF PTSIZE, UENVS_DIR
<1>5. ptr_free_mem \in Nat
  BY <1>2 DEF Apart
<1> HIDE DEF c
<1>6. ptr_free_mem < (c + 1) * PTSIZE
  <2> DEFINE u == c * PTSIZE
             v == (c * NPT) * PAGE_SIZE
             w == (c + 1) * PTSIZE
  <2>1. u = v
    BY <1>4 DEF PTSIZE
  <2>2. w = u + PTSIZE /\ u \in Nat
    <3>1. PTSIZE \in Nat
      BY <1>4
    <3> QED BY <1>4, <3>1
  <2>3. ptr_free_mem <= v
    BY <1>3
  <2> HIDE DEF u, v, w
  <2>4. ptr_free_mem < w
    BY <1>4, <1>5, <2>1, <2>2, <2>3
  <2> QED BY <2>4 DEF w
<1>7. low_dirs \in Nat /\ low_dirs < c + 1
  <2> DEFINE d == c + 1
             p == PTSIZE
  <2>1. ptr_free_mem < d * p /\ d \in Nat /\ p \in Nat \ {0}
    BY <1>4, <1>6
  <2> HIDE DEF d, p
  <2>2. ptr_free_mem \div p \in Nat /\ ptr_free_mem \div p < d
    BY <1>5, <2>1, Divided, DividedBelow
  <2> QED BY <2>2 DEF low_dirs, d, p
<1> QED BY <1>4, <1>7 DEF KernelDirs, c

LEMMA PagingAddressed ==
  ASSUME BootInv, AddressInv, turn_on_paging \/ reload_segments
  PROVE  AddressInv'
<1> DEFINE mem == Memory
           new == [mem EXCEPT !.directory = directory']
           n == Step[boot]
<1>1. /\ boot \in {"switch", "segments"} /\ boot' \in {"segments", "frames"} /\ boot' \in DOMAIN Step
      /\ n \in 9 .. 10 /\ Step[boot'] = n + 1
      /\ UNCHANGED <<end_of_kernel, number_of_frames, ptr_free_mem, spaces, entries>>
  BY DEF turn_on_paging, reload_segments, Step
<1>2. /\ Apart(mem) /\ end_of_kernel \in Nat \ {0} /\ number_of_frames \in Nat
  BY <1>1, KernelEndsBehind DEF BootInv
<1>3. Addressed(mem, n) /\ Tabled(mem) /\ UsersAre(mem, n) /\ mem.directory = directory
  BY DEF AddressInv, Addressed, Memory
<1>4. directory \in [AllDirs -> DirEntry] /\ DOMAIN directory = AllDirs
  BY <1>3 DEF Tabled
<1>5. /\ low_dirs \in 0 .. UENVS_DIR /\ low_dirs' = low_dirs
      /\ \A d \in 0 .. low_dirs - 1 : KERNEL_DIR + d \in KernelDirs
  BY <1>1, LowDirsAre DEF low_dirs
<1>6. /\ Memory' = new /\ new.free = mem.free /\ new.spaces = mem.spaces
      /\ new.entries = mem.entries /\ new.directory = directory'
  BY <1>1 DEF Memory
<1>7. NoTable \in DirEntry /\ ~NoTable.user
  BY DEF NoTable, DirEntry
<1>8. /\ UENVS_DIR \in Nat /\ UENVS_DIR < KERNEL_DIR /\ KERNEL_DIR \in Nat /\ NDIR \in Nat
      /\ UENVS_DIR < NDIR
  BY BootAssumption DEF UENVS_DIR
<1>9. \A d \in KernelDirs : d \in AllDirs /\ ~directory[d].user
  <2> SUFFICES ASSUME NEW d \in KernelDirs PROVE d \in AllDirs /\ ~directory[d].user
    OBVIOUS
  <2>1. d \in AllDirs /\ d # UENVS_DIR /\ d # UVPT_DIR
    BY MapDirsAre DEF KernelDirs
  <2> QED BY <1>3, <2>1 DEF UsersAre
<1> HIDE DEF mem, new, n
<1>10. /\ directory' \in [AllDirs -> DirEntry]
       /\ \A x \in UENVS_DIR .. NDIR - 1 : directory'[x] = directory[x]
       /\ \A x \in 0 .. UENVS_DIR - 1 : ~directory'[x].user
       /\ boot' = "segments" => /\ paging' = "low"
                                /\ \A x \in 0 .. UENVS_DIR - 1 :
                                     directory'[x] = IF x < low_dirs THEN directory'[KERNEL_DIR + x] ELSE NoTable
       /\ boot' = "frames" => /\ paging' = "on"
                              /\ \A x \in 0 .. UENVS_DIR - 1 : directory'[x] = NoTable
  <2>1. /\ \A x \in UENVS_DIR .. NDIR - 1 : x \in AllDirs /\ ~(x < low_dirs)
        /\ \A x \in 0 .. UENVS_DIR - 1 : x \in AllDirs
        /\ \A x \in AllDirs : x < low_dirs => KERNEL_DIR + x \in KernelDirs
    BY <1>5, <1>8 DEF AllDirs
  <2>2. CASE turn_on_paging
    <3>1. /\ boot = "switch" /\ boot' = "segments" /\ paging' = "low"
          /\ directory' = [d \in AllDirs |-> IF d < low_dirs THEN directory[KERNEL_DIR + d] ELSE directory[d]]
      BY <1>4, <2>2 DEF turn_on_paging
    <3>2. \A x \in 0 .. UENVS_DIR - 1 : directory[x] = NoTable
      BY <3>1 DEF AddressInv, NothingBelow, Memory
    <3>3. directory' \in [AllDirs -> DirEntry]
      <4>1. \A d \in AllDirs : (IF d < low_dirs THEN directory[KERNEL_DIR + d] ELSE directory[d]) \in DirEntry
        BY <1>4, <1>9, <2>1
      <4> QED BY <3>1, <4>1
    <3>4. \A x \in UENVS_DIR .. NDIR - 1 : directory'[x] = directory[x]
      BY <2>1, <3>1
    <3>5. \A x \in 0 .. UENVS_DIR - 1 : directory'[x] = IF x < low_dirs THEN directory[KERNEL_DIR + x] ELSE NoTable
      BY <2>1, <3>1, <3>2
    <3>6. \A x \in 0 .. UENVS_DIR - 1 : ~directory'[x].user
      BY <1>7, <1>9, <2>1, <3>5
    <3>7. \A x \in 0 .. UENVS_DIR - 1 : x < low_dirs => directory'[KERNEL_DIR + x] = directory[KERNEL_DIR + x]
      <4>1. \A x \in KernelDirs : x \in UENVS_DIR .. NDIR - 1
        BY <1>8 DEF KernelDirs
      <4> QED BY <2>1, <3>4, <4>1
    <3> QED BY <3>1, <3>3, <3>4, <3>5, <3>6, <3>7
  <2>3. CASE reload_segments
    <3>1. /\ boot = "segments" /\ boot' = "frames" /\ paging' = "on"
          /\ directory' = [d \in AllDirs |-> IF d < low_dirs THEN NoTable ELSE directory[d]]
      BY <1>4, <2>3 DEF reload_segments
    <3>2. \A x \in 0 .. UENVS_DIR - 1 : ~(x < low_dirs) => directory[x] = NoTable
      BY <3>1 DEF AddressInv
    <3>3. directory' \in [AllDirs -> DirEntry]
      BY <1>4, <1>7, <3>1
    <3>4. \A x \in UENVS_DIR .. NDIR - 1 : directory'[x] = directory[x]
      BY <2>1, <3>1
    <3>5. \A x \in 0 .. UENVS_DIR - 1 : directory'[x] = NoTable
      BY <2>1, <3>1, <3>2
    <3> QED BY <1>7, <3>1, <3>3, <3>4, <3>5
  <2> QED BY <2>2, <2>3
<1>11. Addressed(new, n + 1)
  <2>1. Room(new) = Room(mem)
    BY <1>6 DEF Room, Bottom
  <2>2. n \in 9 .. 11
    BY <1>1
  <2> QED BY <1>2, <1>3, <1>6, <1>10, <2>1, <2>2, AddressedOn
<1>12. Addressed(Memory, Step[boot])'
  BY <1>1, <1>6, <1>11, AddressedThen
<1>13. end_of_kernel' \in Kernels /\ \E m \in Memories : number_of_frames' = m \div PAGE_SIZE
  BY <1>1 DEF AddressInv
<1>14. boot' = "frames" => NothingBelow(Memory)'
  BY <1>6, <1>10 DEF NothingBelow
<1>15. Step[boot]' = n + 1 /\ n + 1 > 9
  BY <1>1
<1> QED BY <1>1, <1>5, <1>10, <1>12, <1>13, <1>14, <1>15 DEF AddressInv

LEMMA FreeFramesAddressed ==
  ASSUME BootInv, AddressInv, initialize_paging
  PROVE  AddressInv'
<1> DEFINE mem == Memory
<1>1. /\ boot = "frames" /\ boot' = "done" /\ Step[boot] = 11 /\ Step[boot'] = 12
      /\ boot' \in DOMAIN Step
      /\ UNCHANGED <<end_of_kernel, number_of_frames, ptr_free_mem, spaces, directory, entries, paging>>
  BY DEF initialize_paging, Step
<1>2. Memory' = mem /\ number_of_frames \in Nat
  BY <1>1 DEF Memory, BootInv
<1>3. Addressed(mem, 11) /\ Tabled(mem) /\ UsersAre(mem, 11) /\ NothingBelow(mem) /\ paging = "on"
  BY <1>1 DEF AddressInv, Addressed
<1> HIDE DEF mem
<1>4. \A x \in 0 .. UENVS_DIR - 1 : ~mem.directory[x].user
  BY <1>3 DEF NothingBelow, NoTable
<1>5. Addressed(mem, 11 + 1)
  <2> DEFINE n == 11
  <2>1. n \in 9 .. 11 /\ Addressed(mem, n) /\ mem.directory \in [AllDirs -> DirEntry]
    BY <1>3 DEF Tabled
  <2> HIDE DEF n
  <2>2. Addressed(mem, n + 1)
    BY <1>2, <1>4, <2>1, AddressedOn
  <2> QED BY <2>2 DEF n
<1>6. Addressed(Memory, Step[boot])'
  <2>1. Step[boot'] = 11 + 1
    BY <1>1
  <2> QED BY <1>1, <1>2, <1>5, <2>1, AddressedThen
<1>7. NothingBelow(Memory)'
  BY <1>2, <1>3 DEF NothingBelow
<1>8. end_of_kernel' \in Kernels /\ \E m \in Memories : number_of_frames' = m \div PAGE_SIZE
  BY <1>1 DEF AddressInv
<1>9. Step[boot]' = 12
  BY <1>1
<1> QED BY <1>1, <1>3, <1>6, <1>7, <1>8, <1>9 DEF AddressInv

(* A page of the kernel is below the entries that are used at 0 too. *)
LEMMA LowEntriesSuffice ==
  ASSUME BootInv, AddressInv, Step[boot] = 10, NEW p \in 0 .. pages_of(end_of_kernel) - 1
  PROVE  p \div NPT \in Nat /\ p \div NPT < low_dirs /\ p \in 0 .. pages_of(ptr_free_mem) - 1
<1> DEFINE ps == PAGE_SIZE
           l == low_dirs
           q == pages_of(end_of_kernel)
           f == pages_of(ptr_free_mem)
           u == p * ps
           v == (l * NPT) * ps
           w == f * ps
<1>1. boot # "detect_memory"
  BY DEF Step
<1>2. /\ MemoryTaken(Memory, 10) /\ Apart(Memory) /\ Memory.free = ptr_free_mem
      /\ end_of_kernel \in Nat
  BY <1>1, KernelEndsBehind DEF AddressInv, Addressed, BootInv, Memory
<1>3. /\ ptr_free_mem \in Nat /\ end_of_kernel + DISK_ARRAY_SIZE + ENVS_SIZE <= ptr_free_mem
  BY <1>2 DEF Apart, MemoryTaken
<1>4. /\ ps \in Nat \ {0} /\ NPT \in Nat \ {0} /\ PTSIZE \in Nat \ {0} /\ PTSIZE = ps * NPT
      /\ DISK_ARRAY_SIZE \in Nat /\ ENVS_SIZE \in Nat /\ DISK_ARRAY_SIZE + ENVS_SIZE >= PTSIZE
  BY BootAssumption DEF PTSIZE
<1>5. end_of_kernel + PTSIZE <= ptr_free_mem
  <2> HIDE DEF ps
  <2> QED BY <1>2, <1>3, <1>4
<1>6. q \in Nat /\ f \in Nat /\ p \in Nat /\ p < q
  BY <1>2, <1>3, PagesOf
<1>7. u \in Nat /\ u < end_of_kernel
  <2> DEFINE t == q * ps
  <2>1. t < end_of_kernel + ps
    <3>1. ROUNDUP(end_of_kernel, PAGE_SIZE) = q * ps /\ ROUNDUP(end_of_kernel, PAGE_SIZE) < end_of_kernel + ps
      BY <1>2, RoundedUp DEF pages_of
    <3> QED BY <3>1
  <2>2. u + ps <= t
    <3> HIDE DEF ps, q
    <3> QED BY <1>4, <1>6, MultiplesApart
  <2>3. u \in Nat /\ t \in Nat
    <3> HIDE DEF ps, q
    <3> QED BY <1>4, <1>6
  <2> HIDE DEF u, t, ps
  <2> QED BY <1>2, <1>4, <2>1, <2>2, <2>3
<1>8. l \in Nat /\ ptr_free_mem < v + PTSIZE /\ v \in Nat
  <2> DEFINE m == PTSIZE
             s == l * m
             r == ptr_free_mem % m
  <2>1. l = ptr_free_mem \div m /\ m \in Nat \ {0}
    BY <1>4 DEF low_dirs
  <2> HIDE DEF l, m
  <2>2. l \in Nat /\ r \in 0 .. m - 1
    BY <1>3, <2>1, Divided
  <2>3. ptr_free_mem = s + r
    BY <1>3, <2>1, Divided
  <2>4. s = v /\ v \in Nat
    BY <1>4, <2>2 DEF m
  <2> HIDE DEF s, r, v
  <2>5. ptr_free_mem < v + m
    BY <2>1, <2>2, <2>3, <2>4
  <2> QED BY <2>2, <2>4, <2>5 DEF m
<1>9. u < v
  <2> HIDE DEF u, v, ps
  <2> QED BY <1>2, <1>3, <1>4, <1>5, <1>7, <1>8
<1>10. p < l * NPT
  <2> DEFINE z == l * NPT
  <2>1. z \in Nat
    BY <1>4, <1>8
  <2> SUFFICES ASSUME z <= p PROVE FALSE
    BY <1>6, <2>1
  <2> HIDE DEF z, ps
  <2>2. CASE z = p
    BY <1>7, <1>8, <1>9, <2>2 DEF z
  <2>3. CASE z < p
    <3>1. z * ps + ps <= p * ps
      BY <1>4, <1>6, <2>1, <2>3, MultiplesApart
    <3>2. v + ps <= u
      BY <3>1 DEF z
    <3> HIDE DEF u, v
    <3> QED BY <1>4, <1>7, <1>8, <1>9, <3>2
  <2> QED BY <1>6, <2>1, <2>2, <2>3
<1>11. p \div NPT \in Nat /\ p \div NPT < l
  <2> HIDE DEF l
  <2> QED BY <1>4, <1>6, <1>8, <1>10, Divided, DividedBelow
<1>12. p < f
  <2>1. ptr_free_mem <= w /\ w \in Nat
    <3>1. ROUNDUP(ptr_free_mem, PAGE_SIZE) = w /\ ptr_free_mem <= ROUNDUP(ptr_free_mem, PAGE_SIZE)
          /\ ROUNDUP(ptr_free_mem, PAGE_SIZE) \in Nat
      BY <1>3, RoundedUp DEF pages_of
    <3> QED BY <3>1
  <2>2. u < w
    <3> HIDE DEF u, w, ps
    <3> QED BY <1>2, <1>3, <1>4, <1>5, <1>7, <2>1
  <2> SUFFICES ASSUME f <= p PROVE FALSE
    BY <1>6
  <2> HIDE DEF f, ps
  <2>3. CASE f = p
    BY <1>7, <2>1, <2>2, <2>3
  <2>4. CASE f < p
    <3>1. w + ps <= u
      BY <1>4, <1>6, <2>4, MultiplesApart
    <3> HIDE DEF u, w
    <3> QED BY <1>4, <1>7, <2>1, <2>2, <3>1
  <2> QED BY <1>6, <2>3, <2>4
<1> QED BY <1>6, <1>11, <1>12

LEMMA AddressedMeansMapped ==
  ASSUME BootInv, AddressInv
  PROVE  KernelStaysMapped
<1> SUFFICES ASSUME paging # "off" PROVE KernelStaysMapped
  BY DEF KernelStaysMapped
<1> DEFINE n == Step[boot]
           s == KERNEL_STACK_SIZE \div PAGE_SIZE
           x == (PHYS_EXTENDED_MEM + KERNEL_STACK_SIZE) \div PAGE_SIZE
<1>1. n \in 10 .. 12 /\ boot # "detect_memory" /\ (n = 10 <=> boot = "segments")
  BY DEF AddressInv, Step
<1>2. StackThere(Memory, n) /\ KernelThere(Memory, n)
  BY DEF AddressInv, Addressed
<1> HIDE DEF n
<1>3. /\ Memory.directory = directory /\ Memory.entries = entries /\ Memory.free = ptr_free_mem
      /\ \A d, i : SlotOf(Memory, d, i) = Slot(d, i)
  BY DEF Memory, SlotOf, Slot
<1>4. ASSUME NEW p \in 0 .. pages_of(ptr_free_mem) - 1
      PROVE  /\ KERNEL_DIR + (p \div NPT) \in KernelDirs
             /\ Translates(KERNEL_DIR + (p \div NPT), p % NPT)
             /\ Frame(KERNEL_DIR + (p \div NPT), p % NPT) = p
  <2> DEFINE d == KERNEL_DIR + (p \div NPT)
  <2>1. /\ d \in KernelDirs /\ SlotOf(Memory, d, p % NPT) \in DOMAIN Memory.entries
        /\ Memory.entries[SlotOf(Memory, d, p % NPT)].frame = p
    BY <1>1, <1>2, <1>3 DEF KernelThere
  <2> HIDE DEF d
  <2>2. Memory.directory[d].table # 0
    BY <1>1, <1>2, <2>1 DEF KernelThere
  <2>3. d \in KernelDirs /\ Translates(d, p % NPT) /\ Frame(d, p % NPT) = p
    BY <1>3, <2>1, <2>2 DEF Translates, Frame
  <2> QED BY <2>3 DEF d
<1>5. \A p \in 0 .. pages_of(ptr_free_mem) - 1 : KERNEL_DIR + (p \div NPT) < NDIR
  <2>1. \A d \in KernelDirs : d < NDIR
    BY BootAssumption DEF KernelDirs
  <2> QED BY <1>4, <2>1
<1>6. \A k \in 1 .. s : Frame(STACK_DIR, NPT - k) = x - k
  <2> HIDE DEF s, x
  <2>1. \A k \in 1 .. s : Memory.entries[SlotOf(Memory, STACK_DIR, NPT - k)].frame = x - k
    BY <1>1, <1>2 DEF StackThere, s, x
  <2> QED BY <1>3, <2>1 DEF Frame
<1>7. CASE paging = "low"
  <2>1. boot = "segments" /\ n = 10
    BY <1>1, <1>7 DEF AddressInv
  <2> SUFFICES ASSUME NEW p \in 0 .. pages_of(end_of_kernel) - 1
               PROVE  Translates(p \div NPT, p % NPT) /\ Frame(p \div NPT, p % NPT) = p
    BY <1>4, <1>5, <1>6, <1>7 DEF KernelStaysMapped
  <2> DEFINE d == p \div NPT
  <2>2. d \in Nat /\ d < low_dirs /\ p \in 0 .. pages_of(ptr_free_mem) - 1
    BY <2>1, LowEntriesSuffice DEF n
  <2>3. d \in 0 .. UENVS_DIR - 1
    <3>1. low_dirs \in 0 .. UENVS_DIR /\ UENVS_DIR \in Nat
      BY <2>1, LowDirsAre, BootAssumption DEF n, UENVS_DIR
    <3> HIDE DEF d
    <3> QED BY <2>2, <3>1
  <2>4. directory[d] = directory[KERNEL_DIR + d]
    BY <2>1, <2>2, <2>3 DEF AddressInv
  <2>5. Translates(KERNEL_DIR + d, p % NPT) /\ Frame(KERNEL_DIR + d, p % NPT) = p
    BY <1>4, <2>2
  <2> HIDE DEF d
  <2>6. Translates(d, p % NPT) /\ Frame(d, p % NPT) = p
    BY <2>4, <2>5 DEF Translates, Frame, Slot
  <2> QED BY <2>6 DEF d
<1>8. CASE paging # "low"
  <2>1. boot # "segments"
    BY <1>1, <1>8 DEF AddressInv, n
  <2>2. \A d \in 0 .. UENVS_DIR - 1 : directory[d] = NoTable
    BY <1>3, <2>1 DEF AddressInv, NothingBelow
  <2> QED BY <1>4, <1>5, <1>6, <1>8, <2>2 DEF KernelStaysMapped
<1> QED BY <1>7, <1>8

LEMMA AddressedMeansRead ==
  ASSUME AddressInv
  PROVE  UserReadsOnlyEnvs
<1> SUFFICES ASSUME boot \in {"map_kernel", "switch", "segments", "frames", "done"}
             PROVE  UserReadsOnlyEnvs
  BY DEF UserReadsOnlyEnvs
<1> DEFINE n == Step[boot]
           frames == {spaces[Len(spaces) - 1].at \div PAGE_SIZE + k : k \in 0 .. pages_of(ENVS_SIZE) - 1}
           reached(d) == {entries[Slot(d, i)] : i \in {j \in 0 .. NPT - 1 : Translates(d, j)}}
<1>1. n >= 8 /\ ~(n < 8)
  BY DEF Step
<1>2. UsersAre(Memory, n) /\ EnvsThere(Memory, n) /\ DOMAIN directory = AllDirs
  BY DEF AddressInv, Addressed, Tabled, Memory
<1> HIDE DEF n
<1>3. ASSUME NEW d \in {k \in DOMAIN directory : directory[k].user}
      PROVE  \/ d = UVPT_DIR /\ directory[d].table = spaces[1].at
             \/ d = UENVS_DIR /\ \A e \in reached(d) : e.user => ~e.write /\ e.frame \in frames
  <2>1. d \in AllDirs /\ directory[d].user
    BY <1>2
  <2>2. CASE d = UVPT_DIR /\ directory[d].table = spaces[1].at
    BY <2>2
  <2>3. CASE d = UENVS_DIR
    <3>1. \A slot \in DOMAIN entries : slot[1] = directory[d].table =>
            /\ ~entries[slot].write
            /\ \E k \in 0 .. pages_of(ENVS_SIZE) - 1 :
                 entries[slot].frame = spaces[Len(spaces) - 1].at \div PAGE_SIZE + k
      BY <1>1, <1>2, <2>3 DEF EnvsThere, Memory
    <3>2. ASSUME NEW e \in reached(d) PROVE ~e.write /\ e.frame \in frames
      <4>1. PICK i \in 0 .. NPT - 1 : e = entries[Slot(d, i)] /\ Translates(d, i)
        BY <3>2
      <4>2. Slot(d, i) \in DOMAIN entries /\ Slot(d, i)[1] = directory[d].table
        BY <4>1 DEF Translates, Slot
      <4>3. /\ ~e.write
            /\ \E k \in 0 .. pages_of(ENVS_SIZE) - 1 :
                 e.frame = spaces[Len(spaces) - 1].at \div PAGE_SIZE + k
        BY <3>1, <4>1, <4>2
      <4> QED BY <4>3
    <3> QED BY <2>3, <3>2
  <2>4. (d = UVPT_DIR /\ directory[d].table = spaces[1].at) \/ d = UENVS_DIR
    BY <1>2, <2>1 DEF UsersAre, Memory
  <2> QED BY <2>2, <2>3, <2>4
<1> HIDE DEF reached
<1>4. \A d \in {k \in DOMAIN directory : directory[k].user} :
        \/ d = UVPT_DIR /\ directory[d].table = spaces[1].at
        \/ d = UENVS_DIR /\ \A e \in reached(d) : e.user => ~e.write /\ e.frame \in frames
  BY <1>3
<1> QED BY <1>4 DEF UserReadsOnlyEnvs, reached

(***************************************************************************)
(* Once paging is on, the kernel and all that boot put behind it are at    *)
(* the addresses they had, for as long as the old segments are in use also *)
(* at the physical ones, and a program can reach nothing but the array of  *)
(* environments, which it cannot write, and through UVPT the directory.    *)
(***************************************************************************)
THEOREM AddressSpaceIsRight == BootSpec => []AddressSpaceAfterBoot
<1>1. BootInv /\ AddressInv /\ [BootNext]_bootMemory => AddressInv'
  <2> SUFFICES ASSUME BootInv, AddressInv, [BootNext]_bootMemory PROVE AddressInv'
    OBVIOUS
  <2>1. CASE \E maxpa \in Memories, kern \in Kernels : detect_memory(maxpa, kern)
    BY <2>1, MemoryDetectedAddressed
  <2>2. CASE allocate_directory \/ map_stack \/ kernel_tables
    BY <2>2, DirectoryAddressed, StackAddressed, TablesAddressed
  <2>3. CASE \/ allocate_frames_info \/ allocate_disk_frames_info \/ setup_listing
             \/ allocate_envs \/ map_kernel
    BY <2>3, ArraysAddressed, ListingAddressed, EnvsAddressed, KernelAddressed
  <2>4. CASE turn_on_paging \/ reload_segments \/ initialize_paging
    BY <2>4, PagingAddressed, FreeFramesAddressed
  <2>5. CASE UNCHANGED bootMemory
    <3>1. UNCHANGED <<boot, end_of_kernel, number_of_frames, ptr_free_mem, spaces, directory,
                      entries, paging, free_frame_list>>
      BY <2>5 DEF bootMemory
    <3>2. Memory' = Memory /\ low_dirs' = low_dirs /\ Step[boot'] = Step[boot]
      BY <3>1 DEF Memory, low_dirs
    <3>3. Addressed(Memory, Step[boot])'
      <4>1. Addressed(Memory, Step[boot'])
        BY <3>2 DEF AddressInv
      <4> QED BY <3>1, <3>2, <4>1, AddressedThen
    <3>4. NothingBelow(Memory)' = NothingBelow(Memory)
      BY <3>2 DEF NothingBelow
    <3> QED BY <3>1, <3>2, <3>3, <3>4 DEF AddressInv
  <2> QED BY <2>1, <2>2, <2>3, <2>4, <2>5 DEF BootNext
<1>2. BootInv /\ AddressInv => AddressSpaceAfterBoot
  BY AddressedMeansMapped, AddressedMeansRead DEF AddressSpaceAfterBoot
<1>3. BootInv /\ [BootNext]_bootMemory => BootInv'
  BY BootInvKept
<1> QED BY <1>1, <1>2, <1>3, BootStarts, AddressStarts, PTL DEF BootSpec
-----------------------------------------------------------------------------
(***************************************************************************)
(* The page file.                                                          *)
(***************************************************************************)
FileSpec == PageFileInit /\ [][PageFileNext]_pageFile
-----------------------------------------------------------------------------
(***************************************************************************)
(* Sums over the environments.  SumFunction() takes the elements of its    *)
(* domain one by one; the function that it is defined by exists, and what  *)
(* holds of the empty set and from a set to one more holds of all.         *)
(***************************************************************************)
One(s) == CHOOSE x \in s : TRUE
Small(E, n) == {s \in SUBSET E : Cardinality(s) <= n}

Summing(g, u, E, n) ==
  g = [s \in Small(E, n) |-> IF s = {} THEN 0 ELSE u[One(s)] + g[s \ {One(s)}]]

LEMMA OneLess ==
  ASSUME NEW E, IsFiniteSet(E), NEW n \in Nat, NEW s \in Small(E, n + 1), s # {}
  PROVE  One(s) \in s /\ s \ {One(s)} \in Small(E, n) /\ s \ {One(s)} \in SUBSET E
<1>1. s \in SUBSET E /\ Cardinality(s) <= n + 1
  BY DEF Small
<1>2. One(s) \in s
  <2>1. \E x \in s : TRUE
    OBVIOUS
  <2> QED BY <2>1 DEF One
<1>3. IsFiniteSet(s)
  BY <1>1, FS_Subset
<1>4. Cardinality(s \ {One(s)}) = Cardinality(s) - 1 /\ Cardinality(s) \in Nat
  BY <1>2, <1>3, FS_RemoveElement, FS_CardinalityType
<1>5. Cardinality(s \ {One(s)}) <= n
  BY <1>1, <1>4
<1> QED BY <1>1, <1>2, <1>5 DEF Small

LEMMA SummingExists ==
  ASSUME NEW E, IsFiniteSet(E), NEW u
  PROVE  \A n \in Nat : \E g : Summing(g, u, E, n)
<1> DEFINE S == {n \in Nat : \E g : Summing(g, u, E, n)}
<1>1. 0 \in S
  <2> DEFINE g == [s \in Small(E, 0) |-> 0]
  <2>1. \A s \in Small(E, 0) : s = {}
    <3> SUFFICES ASSUME NEW s \in Small(E, 0) PROVE s = {}
      OBVIOUS
    <3>1. s \in SUBSET E /\ Cardinality(s) <= 0
      BY DEF Small
    <3>2. IsFiniteSet(s)
      BY <3>1, FS_Subset
    <3>3. Cardinality(s) = 0
      BY <3>1, <3>2, FS_CardinalityType
    <3> QED BY <3>2, <3>3, FS_EmptySet
  <2>2. Summing(g, u, E, 0)
    BY <2>1 DEF Summing
  <2> QED BY <2>2
<1>2. ASSUME NEW n \in Nat, n \in S PROVE n + 1 \in S
  <2>1. PICK g : Summing(g, u, E, n)
    BY <1>2
  <2> DEFINE h == [s \in Small(E, n + 1) |->
                     IF s = {} THEN 0 ELSE u[One(s)] + g[s \ {One(s)}]]
  <2>2. \A s \in Small(E, n) : g[s] = IF s = {} THEN 0 ELSE u[One(s)] + g[s \ {One(s)}]
    BY <2>1 DEF Summing
  <2>3. \A s \in Small(E, n) : s \in Small(E, n + 1)
    <3> SUFFICES ASSUME NEW s \in Small(E, n) PROVE s \in Small(E, n + 1)
      OBVIOUS
    <3>1. s \in SUBSET E /\ Cardinality(s) <= n
      BY DEF Small
    <3>2. Cardinality(s) \in Nat
      BY <3>1, FS_Subset, FS_CardinalityType
    <3>3. Cardinality(s) <= n + 1
      BY <3>1, <3>2
    <3> QED BY <3>1, <3>3 DEF Small
  <2>4. \A s \in Small(E, n) : h[s] = g[s]
    BY <2>2, <2>3
  <2>5. ASSUME NEW s \in Small(E, n + 1)
        PROVE  h[s] = IF s = {} THEN 0 ELSE u[One(s)] + h[s \ {One(s)}]
    <3>1. CASE s = {}
      BY <3>1
    <3>2. CASE s # {}
      <4>1. s \ {One(s)} \in Small(E, n)
        BY <3>2, OneLess
      <4>2. h[s \ {One(s)}] = g[s \ {One(s)}]
        BY <2>4, <4>1
      <4>3. h[s] = u[One(s)] + g[s \ {One(s)}]
        BY <3>2
      <4> HIDE DEF h
      <4> QED BY <3>2, <4>2, <4>3
    <3> QED BY <3>1, <3>2
  <2>6. h = [s \in Small(E, n + 1) |-> h[s]]
    OBVIOUS
  <2> HIDE DEF h
  <2>7. h = [s \in Small(E, n + 1) |-> IF s = {} THEN 0 ELSE u[One(s)] + h[s \ {One(s)}]]
    BY <2>5, <2>6
  <2>8. Summing(h, u, E, n + 1)
    BY <2>7 DEF Summing
  <2> QED BY <2>8
<1> HIDE DEF S
<1>3. Nat \subseteq S
  BY <1>1, <1>2, SetInduction
<1> QED BY <1>3 DEF S

IsSum(g, u, E) ==
  \A s \in SUBSET E : g[s] = IF s = {} THEN 0 ELSE u[One(s)] + g[s \ {One(s)}]

LEMMA SumIs ==
  ASSUME NEW E, IsFiniteSet(E), NEW u, DOMAIN u = E
  PROVE  \E g : IsSum(g, u, E) /\ SumFunction(u) = g[E]
<1> DEFINE n == Cardinality(E)
           Body(g) == [s \in SUBSET E |->
                         IF s = {} THEN 0
                         ELSE u[CHOOSE x \in s : TRUE] + g[s \ {CHOOSE x \in s : TRUE}]]
           it == CHOOSE g : g = Body(g)
<1>1. SumFunction(u) = it[E]
  BY DEF SumFunction, SumFunctionOnSet, FoldFunctionOnSet, MapThenFoldSet
<1>2. n \in Nat /\ Small(E, n) = SUBSET E
  <2>1. n \in Nat
    BY FS_CardinalityType
  <2>2. \A s \in SUBSET E : Cardinality(s) <= n
    BY FS_Subset
  <2> QED BY <2>1, <2>2 DEF Small
<1>3. PICK g : Summing(g, u, E, n)
  <2> HIDE DEF n
  <2> QED BY <1>2, SummingExists
<1>4. g = Body(g)
  BY <1>2, <1>3 DEF Summing, One
<1>5. it = Body(it)
  <2> HIDE DEF Body
  <2> QED BY <1>4
<1>6. IsSum(it, u, E)
  <2> HIDE DEF it
  <2> QED BY <1>5 DEF IsSum, One
<1> QED BY <1>1, <1>6

LEMMA SubsetInduction ==
  ASSUME NEW E, IsFiniteSet(E), NEW T, {} \in T,
         \A s \in SUBSET E : s # {} /\ One(s) \in s /\ s \ {One(s)} \in T => s \in T
  PROVE  SUBSET E \subseteq T
<1> DEFINE S == {n \in Nat : Small(E, n) \subseteq T}
<1>1. 0 \in S
  <2> SUFFICES ASSUME NEW s \in Small(E, 0) PROVE s \in T
    OBVIOUS
  <2>1. s \in SUBSET E /\ Cardinality(s) <= 0
    BY DEF Small
  <2>2. IsFiniteSet(s)
    BY <2>1, FS_Subset
  <2>3. Cardinality(s) = 0
    BY <2>1, <2>2, FS_CardinalityType
  <2>4. s = {}
    BY <2>2, <2>3, FS_EmptySet
  <2> QED BY <2>4
<1>2. ASSUME NEW n \in Nat, n \in S PROVE n + 1 \in S
  <2> SUFFICES ASSUME NEW s \in Small(E, n + 1), s # {} PROVE s \in T
    OBVIOUS
  <2>1. s \in SUBSET E
    BY DEF Small
  <2>2. One(s) \in s /\ s \ {One(s)} \in Small(E, n)
    BY OneLess
  <2>3. s \ {One(s)} \in T
    BY <1>2, <2>2
  <2> QED BY <2>1, <2>2, <2>3
<1> HIDE DEF S
<1>3. Nat \subseteq S
  BY <1>1, <1>2, SetInduction
<1>4. Cardinality(E) \in Nat
  BY FS_CardinalityType
<1>5. \A s \in SUBSET E : Cardinality(s) <= Cardinality(E)
  BY FS_Subset
<1>6. SUBSET E \subseteq Small(E, Cardinality(E))
  BY <1>5 DEF Small
<1> QED BY <1>3, <1>4, <1>6 DEF S

LEMMA SumTyped ==
  ASSUME NEW E, IsFiniteSet(E), NEW u \in [E -> Nat]
  PROVE  SumFunction(u) \in Nat
<1>1. PICK g : IsSum(g, u, E) /\ SumFunction(u) = g[E]
  <2>1. DOMAIN u = E
    OBVIOUS
  <2> QED BY <2>1, SumIs
<1> DEFINE T == {s \in SUBSET E : g[s] \in Nat}
<1>2. {} \in T
  <2>1. {} \in SUBSET E /\ g[{}] = 0
    BY <1>1 DEF IsSum
  <2> QED BY <2>1
<1>3. ASSUME NEW s \in SUBSET E, s # {} /\ One(s) \in s /\ s \ {One(s)} \in T PROVE s \in T
  <2>1. g[s] = u[One(s)] + g[s \ {One(s)}]
    BY <1>1, <1>3 DEF IsSum
  <2>2. u[One(s)] \in Nat /\ g[s \ {One(s)}] \in Nat
    BY <1>3
  <2> QED BY <2>1, <2>2
<1> HIDE DEF T
<1>4. SUBSET E \subseteq T
  BY <1>2, <1>3, SubsetInduction
<1> QED BY <1>1, <1>4 DEF T

LEMMA SumOfZeros ==
  ASSUME NEW E, IsFiniteSet(E), NEW u \in [E -> Nat], \A e \in E : u[e] = 0
  PROVE  SumFunction(u) = 0
<1>1. PICK g : IsSum(g, u, E) /\ SumFunction(u) = g[E]
  <2>1. DOMAIN u = E
    OBVIOUS
  <2> QED BY <2>1, SumIs
<1> DEFINE T == {s \in SUBSET E : g[s] = 0}
<1>2. {} \in T
  BY <1>1 DEF IsSum
<1>3. ASSUME NEW s \in SUBSET E, s # {} /\ One(s) \in s /\ s \ {One(s)} \in T PROVE s \in T
  <2>1. g[s] = u[One(s)] + g[s \ {One(s)}]
    BY <1>1, <1>3 DEF IsSum
  <2>2. u[One(s)] = 0 /\ g[s \ {One(s)}] = 0
    BY <1>3
  <2> QED BY <2>1, <2>2
<1> HIDE DEF T
<1>4. SUBSET E \subseteq T
  BY <1>2, <1>3, SubsetInduction
<1> QED BY <1>1, <1>4 DEF T

(* One environment gets more or less. *)
LEMMA SumOneChanges ==
  ASSUME NEW E, IsFiniteSet(E), NEW u \in [E -> Nat], NEW w \in [E -> Nat], NEW e \in E,
         \A x \in E \ {e} : w[x] = u[x]
  PROVE  SumFunction(w) = SumFunction(u) + (w[e] - u[e])
<1>1. PICK g : IsSum(g, u, E) /\ SumFunction(u) = g[E]
  <2>1. DOMAIN u = E
    OBVIOUS
  <2> QED BY <2>1, SumIs
<1>2. PICK h : IsSum(h, w, E) /\ SumFunction(w) = h[E]
  <2>1. DOMAIN w = E
    OBVIOUS
  <2> QED BY <2>1, SumIs
<1> DEFINE T == {s \in SUBSET E : /\ g[s] \in Int
                                  /\ h[s] = g[s] + (IF e \in s THEN w[e] - u[e] ELSE 0)}
<1>3. {} \in T
  <2>1. {} \in SUBSET E /\ g[{}] = 0 /\ h[{}] = 0
    BY <1>1, <1>2 DEF IsSum
  <2> QED BY <2>1
<1>4. ASSUME NEW s \in SUBSET E, s # {} /\ One(s) \in s /\ s \ {One(s)} \in T PROVE s \in T
  <2> DEFINE r == s \ {One(s)}
             x == One(s)
  <2>1. g[s] = u[x] + g[r] /\ h[s] = w[x] + h[r]
    BY <1>1, <1>2, <1>4 DEF IsSum
  <2>2. /\ g[r] \in Int /\ u[x] \in Nat /\ w[x] \in Nat /\ x \in E
        /\ h[r] = g[r] + (IF e \in r THEN w[e] - u[e] ELSE 0)
    BY <1>4
  <2>3. CASE x = e
    <3>1. e \notin r /\ e \in s
      BY <1>4, <2>3
    <3> HIDE DEF r, x
    <3> QED BY <2>1, <2>2, <2>3, <3>1
  <2>4. CASE x # e
    <3>1. (e \in r) = (e \in s)
      BY <2>4
    <3>2. w[x] = u[x]
      BY <2>2, <2>4
    <3> HIDE DEF r, x
    <3>3. CASE e \in s
      BY <2>1, <2>2, <3>1, <3>2, <3>3
    <3>4. CASE e \notin s
      BY <2>1, <2>2, <3>1, <3>2, <3>4
    <3> QED BY <3>3, <3>4
  <2> QED BY <2>3, <2>4
<1> HIDE DEF T
<1>5. SUBSET E \subseteq T
  BY <1>3, <1>4, SubsetInduction
<1> QED BY <1>1, <1>2, <1>5 DEF T

(* The sizes of disjoint sets. *)
LEMMA SumOfSizes ==
  ASSUME NEW E, IsFiniteSet(E), NEW D, IsFiniteSet(D), NEW F \in [E -> SUBSET D],
         \A x, y \in E : x # y => F[x] \cap F[y] = {},
         NEW u \in [E -> Nat], \A x \in E : u[x] = Cardinality(F[x])
  PROVE  SumFunction(u) = Cardinality(UNION {F[x] : x \in E})
<1>1. PICK g : IsSum(g, u, E) /\ SumFunction(u) = g[E]
  <2>1. DOMAIN u = E
    OBVIOUS
  <2> QED BY <2>1, SumIs
<1> DEFINE All(s) == UNION {F[x] : x \in s}
           T == {s \in SUBSET E : g[s] = Cardinality(All(s))}
<1>2. {} \in T
  <2>1. All({}) = {}
    OBVIOUS
  <2>2. Cardinality(All({})) = 0
    BY <2>1, FS_EmptySet
  <2> QED BY <1>1, <2>2 DEF IsSum
<1>3. ASSUME NEW s \in SUBSET E, s # {} /\ One(s) \in s /\ s \ {One(s)} \in T PROVE s \in T
  <2> DEFINE r == s \ {One(s)}
             x == One(s)
  <2>1. g[s] = u[x] + g[r] /\ x \in E /\ x \in s /\ r \in SUBSET E
    BY <1>1, <1>3 DEF IsSum
  <2>2. g[r] = Cardinality(All(r))
    BY <1>3
  <2>3. All(s) = F[x] \cup All(r)
    <3>1. s = {x} \cup r
      BY <2>1
    <3> HIDE DEF r, x
    <3> QED BY <3>1
  <2>4. F[x] \cap All(r) = {}
    <3>1. \A y \in r : y \in E /\ y # x
      BY <2>1
    <3> HIDE DEF r, x
    <3> QED BY <2>1, <3>1
  <2>5. IsFiniteSet(F[x]) /\ IsFiniteSet(All(r))
    <3>1. F[x] \subseteq D
      BY <2>1
    <3>2. All(r) \subseteq D
      BY <2>1
    <3> HIDE DEF r, x, All
    <3> QED BY <3>1, <3>2, FS_Subset
  <2>6. Cardinality(F[x] \cup All(r)) = Cardinality(F[x]) + Cardinality(All(r))
    <3> DEFINE a == F[x]
               b == All(r)
    <3> HIDE DEF r, x, All
    <3>1. IsFiniteSet(a) /\ IsFiniteSet(b) /\ a \cap b = {}
      BY <2>4, <2>5
    <3> HIDE DEF a, b
    <3>2. Cardinality(a \cup b) = Cardinality(a) + Cardinality(b) - Cardinality(a \cap b)
      BY <3>1, FS_Union
    <3>3. Cardinality(a) \in Nat /\ Cardinality(b) \in Nat /\ Cardinality(a \cap b) = 0
      BY <3>1, FS_EmptySet, FS_CardinalityType
    <3>4. Cardinality(a \cup b) = Cardinality(a) + Cardinality(b)
      BY <3>2, <3>3
    <3> QED BY <3>4 DEF a, b
  <2>7. u[x] = Cardinality(F[x])
    BY <2>1
  <2>8. g[s] = Cardinality(All(s))
    <3> HIDE DEF r, x, All
    <3> QED BY <2>1, <2>2, <2>3, <2>6, <2>7
  <2> HIDE DEF All
  <2> QED BY <2>8
<1> HIDE DEF T
<1>4. SUBSET E \subseteq T
  BY <1>2, <1>3, SubsetInduction
<1> QED BY <1>1, <1>4 DEF T
-----------------------------------------------------------------------------
(***************************************************************************)
(* Who has which frame of the file: ent gives the frame of every entry, of *)
(* pages and of tables, and 0 where there is none.                         *)
(***************************************************************************)
DfnOr0 == 0 .. PAGES_PER_FILE - 1
FrameEntry == [o \in owners |-> entry_of(o)]

Owned(list, ent) ==
  /\ list \in Seq(Dfn) /\ \A i, j \in 1 .. Len(list) : list[i] = list[j] => i = j
  /\ ent \in [owners -> DfnOr0]
  /\ \A o \in owners : \A i \in 1 .. Len(list) : list[i] # ent[o]
  /\ \A o, q \in owners : ent[o] = ent[q] /\ ent[o] # 0 => o = q
  /\ \A d \in Dfn : (\E i \in 1 .. Len(list) : list[i] = d) \/ (\E o \in owners : ent[o] = d)

LEMMA FileSizes ==
  /\ LastFilePage \in Nat /\ disk_PDX(LastFilePage) \in Nat
  /\ 0 \in FilePages /\ 0 \in DiskTables /\ 0 \in DfnOr0 /\ 0 \notin Dfn
  /\ DfnOr0 = {0} \cup Dfn
  /\ FilePages \subseteq Nat /\ DiskTables \subseteq Nat
  /\ \A p \in FilePages : disk_PDX(p) \in DiskTables
<1>1. LastFilePage \in Nat /\ PAGES_PER_FILE \in Nat \ {0} /\ PAGES_PER_TABLE \in Nat \ {0}
  BY PageFileAssumption
<1> DEFINE n == PAGES_PER_TABLE
           z == LastFilePage
<1>2. \A p \in Nat : p \div n \in Nat
  <2>1. n \in Nat \ {0}
    BY <1>1
  <2> HIDE DEF n
  <2> QED BY <2>1
<1>3. ASSUME NEW p \in 0 .. z PROVE p \div n \in 0 .. z \div n
  <2>1. n \in Nat /\ n > 0 /\ z \in Nat
    BY <1>1
  <2> HIDE DEF n, z
  <2>2. p \in Nat /\ p <= z
    BY <2>1
  <2> DEFINE a == p \div n
             b == z \div n
             r == p % n
             t == z % n
  <2>3. p = n * a + r /\ z = n * b + t /\ r \in 0 .. n - 1 /\ t \in 0 .. n - 1 /\ a \in Int /\ b \in Int
    BY <2>1, <2>2
  <2>4. a \in Nat /\ b \in Nat
    BY <1>2, <2>1, <2>2 DEF n
  <2> HIDE DEF a, b, r, t
  <2>5. ASSUME b < a PROVE FALSE
    <3>1. a - b >= 1 /\ a - b \in Nat
      BY <2>4, <2>5
    <3>2. n * a = n * b + n * (a - b)
      BY <2>1, <2>4
    <3>3. n * (a - b) >= n
      BY <2>1, <3>1
    <3>4. n * a \in Nat /\ n * b \in Nat /\ n * (a - b) \in Nat
      BY <2>1, <2>4, <3>1
    <3> QED BY <2>1, <2>2, <2>3, <3>2, <3>3, <3>4
  <2>6. a \in 0 .. b
    BY <2>4, <2>5
  <2> QED BY <2>6 DEF a, b
<1>4. \A p \in FilePages : disk_PDX(p) \in DiskTables
  BY <1>3 DEF FilePages, DiskTables, disk_PDX
<1>5. disk_PDX(LastFilePage) \in Nat
  BY <1>1, <1>2 DEF disk_PDX
<1> HIDE DEF n, z
<1> QED BY <1>1, <1>4, <1>5 DEF FilePages, DiskTables, DfnOr0, Dfn

LEMMA Owners ==
  /\ \A e \in FileEnvs : /\ \A p \in FilePages : <<e, "page", p>> \in owners
                         /\ \A t \in DiskTables : <<e, "table", t>> \in owners
  /\ \A o \in owners : /\ o = <<o[1], o[2], o[3]>> /\ o[1] \in FileEnvs
                       /\ \/ o[2] = "page" /\ o[3] \in FilePages
                          \/ o[2] = "table" /\ o[3] \in DiskTables
  BY DEF owners

LEMMA HeadLeaves ==
  ASSUME NEW S, NEW list \in Seq(S), list # <<>>
  PROVE  /\ Tail(list) \in Seq(S) /\ Head(list) = list[1] /\ Head(list) \in S
         /\ Len(list) \in Nat \ {0} /\ Len(Tail(list)) = Len(list) - 1
         /\ \A i \in 1 .. Len(Tail(list)) : Tail(list)[i] = list[i + 1]
  OBVIOUS

(* A frame is taken from the head of the list for an entry that has none. *)
LEMMA FrameTaken ==
  ASSUME NEW list, NEW ent, Owned(list, ent), list # <<>>, NEW o \in owners, ent[o] = 0,
         NEW new \in [owners -> DfnOr0],
         \A q \in owners : new[q] = IF q = o THEN Head(list) ELSE ent[q]
  PROVE  Owned(Tail(list), new) /\ Head(list) \in Dfn /\ \A q \in owners : ent[q] # Head(list)
<1> DEFINE tail == Tail(list)
           d == Head(list)
<1>1. /\ list \in Seq(Dfn) /\ \A i, j \in 1 .. Len(list) : list[i] = list[j] => i = j
      /\ \A q \in owners : \A i \in 1 .. Len(list) : list[i] # ent[q]
      /\ \A q, r \in owners : ent[q] = ent[r] /\ ent[q] # 0 => q = r
      /\ \A x \in Dfn : \/ \E i \in 1 .. Len(list) : list[i] = x
                        \/ \E q \in owners : ent[q] = x
  BY DEF Owned
<1>2. /\ tail \in Seq(Dfn) /\ d = list[1] /\ d \in Dfn
      /\ Len(list) \in Nat \ {0} /\ Len(tail) = Len(list) - 1
      /\ \A i \in 1 .. Len(tail) : tail[i] = list[i + 1]
  BY <1>1, HeadLeaves
<1> HIDE DEF tail, d
<1>3. d # 0
  BY <1>2, FileSizes
<1>4. \A i \in 1 .. Len(tail) : i + 1 \in 1 .. Len(list) /\ i + 1 # 1
  BY <1>2
<1>5. 1 \in 1 .. Len(list)
  BY <1>2
<1>6. \A q \in owners : new[q] = IF q = o THEN d ELSE ent[q]
  BY DEF d
<1>7. \A i, j \in 1 .. Len(tail) : tail[i] = tail[j] => i = j
  <2> SUFFICES ASSUME NEW i \in 1 .. Len(tail), NEW j \in 1 .. Len(tail), tail[i] = tail[j]
               PROVE  i = j
    OBVIOUS
  <2>1. i + 1 = j + 1
    BY <1>1, <1>2, <1>4
  <2> QED BY <2>1
<1>8. \A q \in owners : \A i \in 1 .. Len(tail) : tail[i] # new[q]
  <2> SUFFICES ASSUME NEW q \in owners, NEW i \in 1 .. Len(tail) PROVE tail[i] # new[q]
    OBVIOUS
  <2>1. tail[i] = list[i + 1] /\ i + 1 \in 1 .. Len(list) /\ i + 1 # 1
    BY <1>2, <1>4
  <2>2. list[i + 1] # list[1]
    BY <1>1, <1>5, <2>1
  <2>3. CASE q = o
    BY <1>2, <1>6, <2>1, <2>2, <2>3
  <2>4. CASE q # o
    <3>1. new[q] = ent[q] /\ list[i + 1] # ent[q]
      BY <1>1, <1>6, <2>1, <2>4
    <3> QED BY <2>1, <3>1
  <2> QED BY <2>3, <2>4
<1>9. \A q \in owners : ent[q] # d
  BY <1>1, <1>2, <1>5
<1>10. \A q, r \in owners : new[q] = new[r] /\ new[q] # 0 => q = r
  BY <1>1, <1>6, <1>9
<1>11. \A x \in Dfn : (\E i \in 1 .. Len(tail) : tail[i] = x) \/ (\E q \in owners : new[q] = x)
  <2> SUFFICES ASSUME NEW x \in Dfn
               PROVE  (\E i \in 1 .. Len(tail) : tail[i] = x) \/ (\E q \in owners : new[q] = x)
    OBVIOUS
  <2>1. CASE \E q \in owners : ent[q] = x
    <3>1. PICK q \in owners : ent[q] = x
      BY <2>1
    <3>2. q # o
      BY <3>1, FileSizes
    <3> QED BY <1>6, <3>1, <3>2
  <2>2. CASE \E i \in 1 .. Len(list) : list[i] = x
    <3>1. PICK i \in 1 .. Len(list) : list[i] = x
      BY <2>2
    <3>2. CASE i = 1
      <4>1. new[o] = x
        BY <1>2, <1>6, <3>1, <3>2
      <4> QED BY <4>1
    <3>3. CASE i # 1
      <4>1. i - 1 \in 1 .. Len(tail) /\ (i - 1) + 1 = i
        BY <1>2, <3>3
      <4>2. tail[i - 1] = x
        BY <1>2, <3>1, <4>1
      <4> QED BY <4>1, <4>2
    <3> QED BY <3>2, <3>3
  <2> QED BY <1>1, <2>1, <2>2
<1>12. Owned(tail, new)
  BY <1>2, <1>7, <1>8, <1>10, <1>11 DEF Owned
<1> QED BY <1>2, <1>9, <1>12 DEF tail, d

(* The frame of an entry, if it has one, goes to the head of the list. *)
LEMMA HeadJoins ==
  ASSUME NEW S, NEW list \in Seq(S), NEW d \in S
  PROVE  /\ <<d>> \o list \in Seq(S) /\ Len(<<d>> \o list) = Len(list) + 1 /\ Len(list) \in Nat
         /\ (<<d>> \o list)[1] = d
         /\ \A i \in 1 .. Len(list) : (<<d>> \o list)[i + 1] = list[i]
  OBVIOUS

LEMMA FrameFreed ==
  ASSUME NEW list, NEW ent, Owned(list, ent), NEW o \in owners,
         NEW new \in [owners -> DfnOr0],
         \A q \in owners : new[q] = IF q = o THEN 0 ELSE ent[q]
  PROVE  Owned(free_disk_frame(list, ent[o]), new)
<1>1. /\ list \in Seq(Dfn) /\ \A i, j \in 1 .. Len(list) : list[i] = list[j] => i = j
      /\ \A q \in owners : \A i \in 1 .. Len(list) : list[i] # ent[q]
      /\ \A q, r \in owners : ent[q] = ent[r] /\ ent[q] # 0 => q = r
      /\ \A x \in Dfn : \/ \E i \in 1 .. Len(list) : list[i] = x
                        \/ \E q \in owners : ent[q] = x
      /\ ent[o] \in DfnOr0
  BY DEF Owned
<1>2. \A q, r \in owners : new[q] = new[r] /\ new[q] # 0 => q = r
  BY <1>1
<1>3. \A x \in Dfn : x # 0
  BY FileSizes
<1>4. CASE ent[o] = 0
  <2>1. \A q \in owners : new[q] = ent[q]
    BY <1>4
  <2>2. Owned(list, new)
    BY <1>1, <1>2, <2>1 DEF Owned
  <2> QED BY <1>4, <2>2 DEF free_disk_frame
<1>5. CASE ent[o] # 0
  <2> DEFINE d == ent[o]
             l == <<d>> \o list
  <2>1. d \in Dfn
    BY <1>1, <1>5, FileSizes
  <2>2. /\ l \in Seq(Dfn) /\ Len(l) = Len(list) + 1 /\ Len(list) \in Nat /\ l[1] = d
        /\ \A i \in 1 .. Len(list) : l[i + 1] = list[i]
    <3> HIDE DEF d
    <3> QED BY <1>1, <2>1, HeadJoins
  <2>3. free_disk_frame(list, ent[o]) = l
    BY <1>5 DEF free_disk_frame
  <2> HIDE DEF l
  <2>4. \A i \in 1 .. Len(l) : i = 1 \/ (i - 1 \in 1 .. Len(list) /\ l[i] = list[i - 1])
    <3> SUFFICES ASSUME NEW i \in 1 .. Len(l), i # 1
                 PROVE  i - 1 \in 1 .. Len(list) /\ l[i] = list[i - 1]
      OBVIOUS
    <3>1. i - 1 \in 1 .. Len(list) /\ (i - 1) + 1 = i
      BY <2>2
    <3> QED BY <2>2, <3>1
  <2>5. \A i, j \in 1 .. Len(l) : l[i] = l[j] => i = j
    <3> SUFFICES ASSUME NEW i \in 1 .. Len(l), NEW j \in 1 .. Len(l), l[i] = l[j], i # j
                 PROVE  FALSE
      OBVIOUS
    <3>1. CASE i = 1
      BY <1>1, <2>2, <2>4, <3>1
    <3>2. CASE j = 1
      BY <1>1, <2>2, <2>4, <3>2
    <3>3. CASE i # 1 /\ j # 1
      <4>1. i - 1 = j - 1
        BY <1>1, <2>4, <3>3
      <4>2. i \in Int /\ j \in Int
        OBVIOUS
      <4> QED BY <4>1, <4>2
    <3> QED BY <3>1, <3>2, <3>3
  <2>6. \A q \in owners : \A i \in 1 .. Len(l) : l[i] # new[q]
    <3> SUFFICES ASSUME NEW q \in owners, NEW i \in 1 .. Len(l) PROVE l[i] # new[q]
      OBVIOUS
    <3>1. l[i] \in Dfn
      BY <2>2
    <3>2. CASE q = o
      BY <1>3, <3>1, <3>2
    <3>3. CASE q # o
      <4>1. new[q] = ent[q]
        BY <3>3
      <4>2. ent[q] # d
        BY <1>1, <1>5, <3>3
      <4> QED BY <1>1, <2>2, <2>4, <4>1, <4>2
    <3> QED BY <3>2, <3>3
  <2>7. \A x \in Dfn : (\E i \in 1 .. Len(l) : l[i] = x) \/ (\E q \in owners : new[q] = x)
    <3> SUFFICES ASSUME NEW x \in Dfn
                 PROVE  (\E i \in 1 .. Len(l) : l[i] = x) \/ (\E q \in owners : new[q] = x)
      OBVIOUS
    <3>1. CASE \E q \in owners : ent[q] = x
      <4>1. PICK q \in owners : ent[q] = x
        BY <3>1
      <4>2. CASE q = o
        <5>1. l[1] = x /\ 1 \in 1 .. Len(l)
          BY <2>2, <4>1, <4>2
        <5> QED BY <5>1
      <4>3. CASE q # o
        BY <4>1, <4>3
      <4> QED BY <4>2, <4>3
    <3>2. CASE \E i \in 1 .. Len(list) : list[i] = x
      <4>1. PICK i \in 1 .. Len(list) : list[i] = x
        BY <3>2
      <4>2. i + 1 \in 1 .. Len(l) /\ l[i + 1] = x
        BY <2>2, <4>1
      <4> QED BY <4>2
    <3> QED BY <1>1, <3>1, <3>2
  <2>8. Owned(l, new)
    BY <1>2, <2>2, <2>5, <2>6, <2>7 DEF Owned
  <2> QED BY <2>3, <2>8
<1> QED BY <1>4, <1>5
-----------------------------------------------------------------------------
(***************************************************************************)
(* free_disk_frames(): every round frees the frame of one more entry.      *)
(***************************************************************************)
LEMMA FreeingRuns ==
  ASSUME NEW list, NEW row, NEW final \in Nat
  PROVE  \E path : /\ path[0] = list
                   /\ \A k \in 0 .. final : path[k + 1] = free_disk_frame(path[k], row[k])
                   /\ free_disk_frames(list, row, final) = path[final + 1]
<1> DEFINE n == final + 1
           seq == [k \in 1 .. n |-> k]
           w == [loop |-> "free", entries |-> row]
           Body(g) == [s \in SUBSET DOMAIN seq |->
                         IF s = {} THEN list
                         ELSE free_disk_frame(g[s \ {Max(s)}], row[seq[Max(s)] - 1])]
           it == CHOOSE g : g = Body(g)
<1>1. free_disk_frames(list, row, final) = it[DOMAIN seq]
  BY DEF free_disk_frames, FoldLeft, MapThenFoldSet
<1>2. n \in Nat /\ DOMAIN seq = 1 .. n /\ \A k \in 1 .. n : seq[k] = k
  OBVIOUS
<1>3. \A s \in SUBSET (1 .. n) : s # {} => Max(s) \in 1 .. n
  <2> HIDE DEF n
  <2> QED BY <1>2, MaxInSet
<1> HIDE DEF n, seq
<1>4. \A x, k : Turn(w, x, k) = free_disk_frame(x, row[k - 1])
  BY DEF Turn
<1>5. ASSUME NEW g PROVE Folding(g, w, list, n) <=> g = Body(g)
  <2> HIDE DEF w
  <2>1. [s \in SUBSET (1 .. n) |-> IF s = {} THEN list ELSE Turn(w, g[s \ {Max(s)}], Max(s))]
          = Body(g)
    <3> DEFINE a(s) == IF s = {} THEN list ELSE Turn(w, g[s \ {Max(s)}], Max(s))
               b(s) == IF s = {} THEN list
                       ELSE free_disk_frame(g[s \ {Max(s)}], row[seq[Max(s)] - 1])
    <3>1. \A s \in SUBSET (1 .. n) : s # {} => seq[Max(s)] = Max(s)
      BY <1>2, <1>3
    <3>2. \A s \in SUBSET (1 .. n) : a(s) = b(s)
      BY <1>4, <3>1
    <3>3. SUBSET (1 .. n) = SUBSET DOMAIN seq
      BY <1>2
    <3> HIDE DEF a, b
    <3>4. [s \in SUBSET (1 .. n) |-> a(s)] = [s \in SUBSET DOMAIN seq |-> b(s)]
      BY <3>2, <3>3
    <3> QED BY <3>4 DEF a, b
  <2> HIDE DEF Body
  <2> QED BY <2>1 DEF Folding
<1>6. \E g : g = Body(g)
  <2>1. PICK g : Folding(g, w, list, n)
    BY <1>2, FoldingExists
  <2> HIDE DEF Body, w
  <2> QED BY <1>5, <2>1
<1>7. it = Body(it)
  <2> HIDE DEF Body
  <2> QED BY <1>6
<1>8. Folding(it, w, list, n)
  <2> HIDE DEF Body, it, w
  <2> QED BY <1>5, <1>7
<1>9. PICK path : IsRun(path, w, list, n) /\ path[n] = it[1 .. n]
  <2> HIDE DEF it, w
  <2> QED BY <1>2, <1>8, FoldingRuns
<1>10. ASSUME NEW k \in 0 .. final PROVE path[k + 1] = free_disk_frame(path[k], row[k])
  <2>1. k \in 0 .. n - 1 /\ (k + 1) - 1 = k
    BY DEF n
  <2>2. path[k + 1] = Turn(w, path[k], k + 1)
    BY <1>9, <2>1 DEF IsRun
  <2>3. Turn(w, path[k], k + 1) = free_disk_frame(path[k], row[(k + 1) - 1])
    BY <1>4
  <2> QED BY <2>1, <2>2, <2>3
<1>11. path[0] = list
  BY <1>9 DEF IsRun
<1>12. free_disk_frames(list, row, final) = path[final + 1]
  <2>1. it[DOMAIN seq] = it[1 .. n]
    BY <1>2
  <2> HIDE DEF it
  <2> QED BY <1>1, <1>9, <2>1 DEF n
<1> HIDE DEF w, it
<1> QED BY <1>10, <1>11, <1>12

Cleared(ent, e, kind, k) ==
  [o \in owners |-> IF o[1] = e /\ o[2] = kind /\ o[3] < k THEN 0 ELSE ent[o]]

LEMMA FramesFreed ==
  ASSUME NEW list, NEW ent, Owned(list, ent), NEW e \in FileEnvs, NEW kind, NEW final \in Nat,
         \/ kind = "page" /\ final = LastFilePage
         \/ kind = "table" /\ final = disk_PDX(LastFilePage),
         NEW row, \A k \in 0 .. final : row[k] = ent[<<e, kind, k>>]
  PROVE  Owned(free_disk_frames(list, row, final), Cleared(ent, e, kind, final + 1))
<1>1. PICK path : /\ path[0] = list
                  /\ \A k \in 0 .. final : path[k + 1] = free_disk_frame(path[k], row[k])
                  /\ free_disk_frames(list, row, final) = path[final + 1]
  BY FreeingRuns
<1>2. \A k \in 0 .. final : <<e, kind, k>> \in owners
  <2>1. CASE kind = "page" /\ final = LastFilePage
    BY <2>1, Owners DEF FilePages
  <2>2. CASE kind = "table" /\ final = disk_PDX(LastFilePage)
    BY <2>2, Owners DEF DiskTables
  <2> QED BY <2>1, <2>2
<1>3. \A o \in owners : o[3] \in Nat /\ o = <<o[1], o[2], o[3]>> /\ ent[o] \in DfnOr0
  BY Owners, FileSizes DEF Owned
<1> DEFINE S == {k \in Nat : k <= final + 1 => Owned(path[k], Cleared(ent, e, kind, k))}
<1>4. 0 \in S
  <2>1. Cleared(ent, e, kind, 0) = [o \in owners |-> ent[o]]
    BY <1>3 DEF Cleared
  <2>2. ent = [o \in owners |-> ent[o]]
    BY DEF Owned
  <2> QED BY <1>1, <2>1, <2>2
<1>5. ASSUME NEW k \in Nat, k \in S PROVE k + 1 \in S
  <2> SUFFICES ASSUME k + 1 <= final + 1
               PROVE  Owned(path[k + 1], Cleared(ent, e, kind, k + 1))
    OBVIOUS
  <2> DEFINE old == Cleared(ent, e, kind, k)
             new == Cleared(ent, e, kind, k + 1)
             q == <<e, kind, k>>
  <2>1. k \in 0 .. final /\ k <= final + 1
    OBVIOUS
  <2>2. q \in owners /\ q[1] = e /\ q[2] = kind /\ q[3] = k
    BY <1>2, <2>1
  <2>3. Owned(path[k], old)
    BY <1>5, <2>1
  <2>4. old[q] = ent[q]
    BY <2>2 DEF Cleared
  <2>5. path[k + 1] = free_disk_frame(path[k], ent[q])
    BY <1>1, <2>1
  <2>6. new \in [owners -> DfnOr0]
    BY <1>3, FileSizes DEF Cleared
  <2>7. \A o \in owners : new[o] = IF o = q THEN 0 ELSE old[o]
    <3> SUFFICES ASSUME NEW o \in owners PROVE new[o] = IF o = q THEN 0 ELSE old[o]
      OBVIOUS
    <3>1. /\ new[o] = IF o[1] = e /\ o[2] = kind /\ o[3] < k + 1 THEN 0 ELSE ent[o]
          /\ old[o] = IF o[1] = e /\ o[2] = kind /\ o[3] < k THEN 0 ELSE ent[o]
      BY DEF Cleared
    <3>2. o = q <=> o[1] = e /\ o[2] = kind /\ o[3] = k
      BY <1>3, <2>2
    <3>3. o[3] \in Nat /\ (o[3] < k + 1 <=> o[3] < k \/ o[3] = k)
      BY <1>3
    <3> HIDE DEF q, new, old
    <3> QED BY <3>1, <3>2, <3>3
  <2> HIDE DEF old, new, q
  <2>8. Owned(free_disk_frame(path[k], old[q]), new)
    BY <2>2, <2>3, <2>6, <2>7, FrameFreed
  <2> QED BY <2>4, <2>5, <2>8 DEF new
<1> HIDE DEF S
<1>6. Nat \subseteq S
  BY <1>4, <1>5, SetInduction
<1>7. final + 1 \in Nat /\ final + 1 <= final + 1
  OBVIOUS
<1>8. Owned(path[final + 1], Cleared(ent, e, kind, final + 1))
  BY <1>6, <1>7 DEF S
<1> QED BY <1>1, <1>8
-----------------------------------------------------------------------------
(***************************************************************************)
(* The inductive invariant.  That frames have one owner is what keeps the  *)
(* pages of one environment from the writes of another; that a page in the *)
(* file has its table is what makes it readable, and what the loops of     *)
(* pf_free_env() find.                                                     *)
(***************************************************************************)
Dirs == {NoDir} \cup SUBSET DiskTables
Tabs == {NoTableDir} \cup [DiskTables -> DfnOr0]

FileTypeOK ==
  /\ DOMAIN disk = Dfn
  /\ disk_dir \in [FileEnvs -> Dirs]
  /\ disk_table \in [FileEnvs -> [FilePages -> DfnOr0]]
  /\ table_dir \in [FileEnvs -> Tabs]
  /\ DOMAIN saved = FileEnvs /\ \A e \in FileEnvs : DOMAIN saved[e] = FilePages
  /\ kheap_pages \in Nat

SavedOnDisk ==
  \A e \in FileEnvs, p \in FilePages :
    saved[e][p] = IF disk_table[e][p] = 0 THEN NotSaved ELSE disk[disk_table[e][p]]

FileInv ==
  FileTypeOK /\ Owned(disk_free_frame_list, FrameEntry) /\ SavedOnDisk /\ TablesAccounted

(* The entries of given tables and table directories. *)
EntryOf(table, tab) ==
  [o \in owners |-> IF o[2] = "page" THEN table[o[1]][o[3]]
                    ELSE IF tab[o[1]] = NoTableDir THEN 0 ELSE tab[o[1]][o[3]]]

LEMMA EntryIs ==
  /\ FrameEntry = EntryOf(disk_table, table_dir)
  /\ FrameEntry' = EntryOf(disk_table', table_dir')
<1>1. \A o \in owners : o[2] = "page" \/ o[3] \in DiskTables
  BY Owners
<1>2. \A o \in owners :
        entry_of(o) = IF o[2] = "page" THEN disk_table[o[1]][o[3]]
                      ELSE IF table_dir[o[1]] = NoTableDir THEN 0 ELSE table_dir[o[1]][o[3]]
  BY <1>1 DEF entry_of, frames_of_tables
<1>3. \A o \in owners :
        entry_of(o)' = IF o[2] = "page" THEN disk_table'[o[1]][o[3]]
                       ELSE IF table_dir'[o[1]] = NoTableDir THEN 0 ELSE table_dir'[o[1]][o[3]]
  BY <1>1 DEF entry_of, frames_of_tables
<1> QED BY <1>2, <1>3 DEF FrameEntry, EntryOf

LEMMA EntryOfIs ==
  ASSUME NEW table, NEW tab, NEW o \in owners
  PROVE  /\ o[2] = "page" => EntryOf(table, tab)[o] = table[o[1]][o[3]]
         /\ o[2] = "table" => EntryOf(table, tab)[o] = IF tab[o[1]] = NoTableDir THEN 0
                                                      ELSE tab[o[1]][o[3]]
  BY DEF EntryOf

LEMMA EntryTyped ==
  ASSUME NEW table \in [FileEnvs -> [FilePages -> DfnOr0]], NEW tab \in [FileEnvs -> Tabs]
  PROVE  EntryOf(table, tab) \in [owners -> DfnOr0]
<1>1. ASSUME NEW o \in owners
      PROVE  (IF o[2] = "page" THEN table[o[1]][o[3]]
              ELSE IF tab[o[1]] = NoTableDir THEN 0 ELSE tab[o[1]][o[3]]) \in DfnOr0
  <2>1. /\ o[1] \in FileEnvs
        /\ \/ o[2] = "page" /\ o[3] \in FilePages
           \/ o[2] = "table" /\ o[3] \in DiskTables
    BY Owners
  <2>2. tab[o[1]] = NoTableDir \/ tab[o[1]] \in [DiskTables -> DfnOr0]
    BY <2>1 DEF Tabs
  <2>3. 0 \in DfnOr0
    BY FileSizes
  <2>4. CASE o[2] = "page"
    BY <2>1, <2>4
  <2>5. CASE o[2] # "page"
    BY <2>1, <2>2, <2>3, <2>5
  <2> QED BY <2>4, <2>5
<1> QED BY <1>1 DEF EntryOf

LEMMA NoneIsNoTable ==
  /\ \A f \in [DiskTables -> DfnOr0] : f # NoTableDir
  /\ \A d \in SUBSET DiskTables : d # NoDir /\ IsFiniteSet(d) /\ Cardinality(d) \in Nat
<1>1. \A f \in [DiskTables -> DfnOr0] : f # NoTableDir
  <2> SUFFICES ASSUME NEW f \in [DiskTables -> DfnOr0], f = NoTableDir PROVE FALSE
    OBVIOUS
  <2>1. f[0] \in DfnOr0 /\ f[0] = -1
    BY FileSizes DEF NoTableDir
  <2> QED BY <2>1, FileSizes DEF DfnOr0
<1>2. IsFiniteSet(DiskTables)
  BY FileSizes, FS_Interval DEF DiskTables
<1>3. -1 \notin DiskTables
  BY FileSizes
<1>4. \A d \in SUBSET DiskTables : d # NoDir
  BY <1>3 DEF NoDir
<1> QED BY <1>1, <1>2, <1>4, FS_Subset, FS_CardinalityType
-----------------------------------------------------------------------------
(***************************************************************************)
(* The kernel pages of directories and tables.                             *)
(***************************************************************************)
HeldOf(d, t) == (IF d = NoDir THEN 0 ELSE Cardinality(d) + 1) + (IF t = NoTableDir THEN 0 ELSE 1)
HeldBy(dir, tab) == [e \in FileEnvs |-> HeldOf(dir[e], tab[e])]

TablesThere(dir, table) ==
  \A e \in FileEnvs, p \in FilePages :
    table[e][p] # 0 => dir[e] # NoDir /\ disk_PDX(p) \in dir[e]

LEMMA TablesAre ==
  /\ TablesAccounted <=> /\ kheap_pages + SumFunction(HeldBy(disk_dir, table_dir)) = KHeapPages
                         /\ TablesThere(disk_dir, disk_table)
  /\ TablesAccounted' <=> /\ kheap_pages' + SumFunction(HeldBy(disk_dir', table_dir')) = KHeapPages
                          /\ TablesThere(disk_dir', disk_table')
  BY DEF TablesAccounted, held, HeldBy, HeldOf, TablesThere

LEMMA HeldTyped ==
  ASSUME NEW dir \in [FileEnvs -> Dirs], NEW tab \in [FileEnvs -> Tabs]
  PROVE  HeldBy(dir, tab) \in [FileEnvs -> Nat]
<1>1. \A d \in Dirs : \A t : HeldOf(d, t) \in Nat
  BY NoneIsNoTable DEF Dirs, HeldOf
<1> QED BY <1>1 DEF HeldBy

(* One environment gets n more pages, or gives back some. *)
LEMMA HeldChanges ==
  ASSUME NEW dir \in [FileEnvs -> Dirs], NEW tab \in [FileEnvs -> Tabs],
         NEW dir2 \in [FileEnvs -> Dirs], NEW tab2 \in [FileEnvs -> Tabs], NEW e \in FileEnvs,
         \A x \in FileEnvs \ {e} : dir2[x] = dir[x] /\ tab2[x] = tab[x],
         NEW n \in Int, HeldOf(dir2[e], tab2[e]) = HeldOf(dir[e], tab[e]) + n
  PROVE  /\ SumFunction(HeldBy(dir2, tab2)) = SumFunction(HeldBy(dir, tab)) + n
         /\ SumFunction(HeldBy(dir, tab)) \in Nat /\ SumFunction(HeldBy(dir2, tab2)) \in Nat
<1> DEFINE u == HeldBy(dir, tab)
           w == HeldBy(dir2, tab2)
<1>1. u \in [FileEnvs -> Nat] /\ w \in [FileEnvs -> Nat]
  BY HeldTyped
<1>2. /\ \A x \in FileEnvs \ {e} : w[x] = u[x]
      /\ w[e] = HeldOf(dir2[e], tab2[e]) /\ u[e] = HeldOf(dir[e], tab[e])
  BY DEF HeldBy
<1> HIDE DEF u, w
<1>3. IsFiniteSet(FileEnvs)
  BY PageFileAssumption
<1>4. SumFunction(w) = SumFunction(u) + (w[e] - u[e])
  BY <1>1, <1>2, <1>3, SumOneChanges
<1>5. SumFunction(u) \in Nat /\ SumFunction(w) \in Nat
  BY <1>1, <1>3, SumTyped
<1>6. w[e] = u[e] + n /\ u[e] \in Nat /\ w[e] \in Nat
  BY <1>1, <1>2
<1>7. w[e] - u[e] = n
  BY <1>6
<1>8. SumFunction(w) = SumFunction(u) + n
  BY <1>4, <1>7
<1> QED BY <1>5, <1>8 DEF u, w

LEMMA TablesMade ==
  ASSUME FileTypeOK, kheap_pages + SumFunction(HeldBy(disk_dir, table_dir)) = KHeapPages,
         NEW e \in FileEnvs, NEW p \in FilePages,
         get_disk_page_table(e, p), new_tables(e, p) <= kheap_pages, table_dir' = table_dir
  PROVE  /\ kheap_pages' \in Nat /\ disk_dir' \in [FileEnvs -> Dirs]
         /\ kheap_pages' + SumFunction(HeldBy(disk_dir, table_dir)') = KHeapPages
         /\ disk_dir'[e] # NoDir /\ disk_PDX(p) \in disk_dir'[e]
         /\ disk_dir[e] # NoDir => disk_dir[e] \subseteq disk_dir'[e]
         /\ \A x \in FileEnvs \ {e} : disk_dir'[x] = disk_dir[x]
<1> DEFINE t == disk_PDX(p)
           old == IF disk_dir[e] = NoDir THEN {} ELSE disk_dir[e]
           n == new_tables(e, p)
<1>1. disk_dir \in [FileEnvs -> Dirs] /\ table_dir \in [FileEnvs -> Tabs] /\ kheap_pages \in Nat
  BY DEF FileTypeOK
<1>2. /\ disk_dir' = [disk_dir EXCEPT ![e] = old \cup {t}]
      /\ kheap_pages' = kheap_pages - n
  BY DEF get_disk_page_table
<1>3. t \in DiskTables
  BY FileSizes
<1>4. old \in SUBSET DiskTables
  BY <1>1 DEF Dirs
<1>5. n = (IF disk_dir[e] = NoDir THEN 1 ELSE 0)
            + (IF disk_dir[e] = NoDir \/ t \notin disk_dir[e] THEN 1 ELSE 0)
  BY DEF new_tables
<1> HIDE DEF t, n, old
<1>6. old \cup {t} \in SUBSET DiskTables /\ old \cup {t} # NoDir
  BY <1>3, <1>4, NoneIsNoTable
<1>7. disk_dir' \in [FileEnvs -> Dirs]
  BY <1>1, <1>2, <1>6 DEF Dirs
<1>8. disk_dir'[e] = old \cup {t} /\ \A x \in FileEnvs \ {e} : disk_dir'[x] = disk_dir[x]
  BY <1>1, <1>2
<1>9. n \in Nat /\ n <= kheap_pages
  BY <1>5 DEF n
<1>10. kheap_pages' \in Nat
  BY <1>1, <1>2, <1>9
<1>11. HeldOf(disk_dir'[e], table_dir[e]) = HeldOf(disk_dir[e], table_dir[e]) + n
  <2>1. Cardinality(old \cup {t}) = IF t \in old THEN Cardinality(old) ELSE Cardinality(old) + 1
    BY <1>4, NoneIsNoTable, FS_AddElement
  <2>2. Cardinality(old) \in Nat
    BY <1>4, NoneIsNoTable
  <2>3. disk_dir'[e] # NoDir
    BY <1>6, <1>8
  <2>4. HeldOf(disk_dir'[e], table_dir[e])
          = Cardinality(old \cup {t}) + 1 + (IF table_dir[e] = NoTableDir THEN 0 ELSE 1)
    BY <1>8, <2>3 DEF HeldOf
  <2>5. CASE disk_dir[e] = NoDir
    <3>1. old = {} /\ Cardinality(old) = 0 /\ n = 2
      BY <1>5, <2>5, FS_EmptySet DEF old
    <3>2. Cardinality(old \cup {t}) = 1
      BY <2>1, <3>1
    <3>3. HeldOf(disk_dir[e], table_dir[e]) = 0 + (IF table_dir[e] = NoTableDir THEN 0 ELSE 1)
      BY <2>5 DEF HeldOf
    <3> QED BY <2>4, <3>1, <3>2, <3>3
  <2>6. CASE disk_dir[e] # NoDir
    <3>1. old = disk_dir[e] /\ n = IF t \in old THEN 0 ELSE 1
      BY <1>5, <2>6 DEF old
    <3>2. HeldOf(disk_dir[e], table_dir[e])
            = Cardinality(old) + 1 + (IF table_dir[e] = NoTableDir THEN 0 ELSE 1)
      BY <2>6, <3>1 DEF HeldOf
    <3> QED BY <2>1, <2>2, <2>4, <3>1, <3>2
  <2> QED BY <2>5, <2>6
<1>12. /\ SumFunction(HeldBy(disk_dir', table_dir)) = SumFunction(HeldBy(disk_dir, table_dir)) + n
       /\ SumFunction(HeldBy(disk_dir, table_dir)) \in Nat
  <2>1. n \in Int /\ \A x \in FileEnvs \ {e} : disk_dir'[x] = disk_dir[x] /\ table_dir[x] = table_dir[x]
    BY <1>8, <1>9
  <2> QED BY <1>1, <1>7, <1>11, <2>1, HeldChanges
<1>13. HeldBy(disk_dir, table_dir)' = HeldBy(disk_dir', table_dir)
  BY DEF HeldBy
<1>14. kheap_pages' + SumFunction(HeldBy(disk_dir, table_dir)') = KHeapPages
  BY <1>1, <1>2, <1>9, <1>12, <1>13
<1>15. disk_dir[e] # NoDir => disk_dir[e] \subseteq disk_dir'[e]
  BY <1>8 DEF old
<1> QED BY <1>6, <1>7, <1>8, <1>10, <1>14, <1>15 DEF t
-----------------------------------------------------------------------------
(***************************************************************************)
(* What a step does to the entries.                                        *)
(***************************************************************************)
LEMMA PageEntryChanges ==
  ASSUME NEW tab \in [FileEnvs -> Tabs], NEW table, NEW o \in owners, o[2] = "page",
         NEW table2 \in [FileEnvs -> [FilePages -> DfnOr0]],
         \A x \in FileEnvs, y \in FilePages :
           ~(x = o[1] /\ y = o[3]) => table2[x][y] = table[x][y]
  PROVE  /\ EntryOf(table2, tab) \in [owners -> DfnOr0]
         /\ EntryOf(table2, tab)[o] = table2[o[1]][o[3]]
         /\ \A q \in owners : q # o => EntryOf(table2, tab)[q] = EntryOf(table, tab)[q]
<1>1. EntryOf(table2, tab) \in [owners -> DfnOr0]
  BY EntryTyped
<1>2. EntryOf(table2, tab)[o] = table2[o[1]][o[3]]
  BY EntryOfIs
<1>3. ASSUME NEW q \in owners, q # o
      PROVE  EntryOf(table2, tab)[q] = EntryOf(table, tab)[q]
  <2>1. /\ q = <<q[1], q[2], q[3]>> /\ o = <<o[1], o[2], o[3]>> /\ q[1] \in FileEnvs
        /\ \/ q[2] = "page" /\ q[3] \in FilePages
           \/ q[2] = "table" /\ q[3] \in DiskTables
    BY Owners
  <2>2. CASE q[2] = "page" /\ q[3] \in FilePages
    <3>1. /\ EntryOf(table2, tab)[q] = table2[q[1]][q[3]]
          /\ EntryOf(table, tab)[q] = table[q[1]][q[3]]
      BY <2>2 DEF EntryOf
    <3>2. ~(q[1] = o[1] /\ q[3] = o[3])
      BY <1>3, <2>1, <2>2
    <3> QED BY <2>1, <2>2, <3>1, <3>2
  <2>3. CASE q[2] = "table"
    BY <2>3 DEF EntryOf
  <2> QED BY <2>1, <2>2, <2>3
<1> QED BY <1>1, <1>2, <1>3

LEMMA TableEntryChanges ==
  ASSUME NEW table \in [FileEnvs -> [FilePages -> DfnOr0]], NEW tab \in [FileEnvs -> Tabs],
         NEW o \in owners, o[2] = "table",
         NEW tab2 \in [FileEnvs -> Tabs], tab2[o[1]] # NoTableDir,
         \A x \in FileEnvs \ {o[1]} : tab2[x] = tab[x],
         \A u \in DiskTables \ {o[3]} :
           tab2[o[1]][u] = IF tab[o[1]] = NoTableDir THEN 0 ELSE tab[o[1]][u]
  PROVE  /\ EntryOf(table, tab2) \in [owners -> DfnOr0]
         /\ EntryOf(table, tab2)[o] = tab2[o[1]][o[3]]
         /\ \A q \in owners : q # o => EntryOf(table, tab2)[q] = EntryOf(table, tab)[q]
<1>1. EntryOf(table, tab2) \in [owners -> DfnOr0]
  BY EntryTyped
<1>2. EntryOf(table, tab2)[o] = tab2[o[1]][o[3]]
  BY EntryOfIs
<1>3. ASSUME NEW q \in owners, q # o
      PROVE  EntryOf(table, tab2)[q] = EntryOf(table, tab)[q]
  <2>1. /\ q = <<q[1], q[2], q[3]>> /\ o = <<o[1], o[2], o[3]>> /\ q[1] \in FileEnvs
        /\ \/ q[2] = "page" /\ q[3] \in FilePages
           \/ q[2] = "table" /\ q[3] \in DiskTables
    BY Owners
  <2>2. CASE q[2] = "table" /\ q[3] \in DiskTables
    <3>1. /\ EntryOf(table, tab2)[q] = IF tab2[q[1]] = NoTableDir THEN 0 ELSE tab2[q[1]][q[3]]
          /\ EntryOf(table, tab)[q] = IF tab[q[1]] = NoTableDir THEN 0 ELSE tab[q[1]][q[3]]
      BY <2>2 DEF EntryOf
    <3>2. ~(q[1] = o[1] /\ q[3] = o[3])
      BY <1>3, <2>1, <2>2
    <3>3. CASE q[1] = o[1]
      BY <2>2, <3>1, <3>2, <3>3
    <3>4. CASE q[1] # o[1]
      BY <2>1, <3>1, <3>4
    <3> QED BY <3>3, <3>4
  <2>3. CASE q[2] = "page"
    BY <2>3 DEF EntryOf
  <2> QED BY <2>1, <2>2, <2>3
<1> QED BY <1>1, <1>2, <1>3

LEMMA FileUnchanged ==
  ASSUME FileInv,
         UNCHANGED <<disk_free_frame_list, disk, disk_dir, disk_table, table_dir, kheap_pages, saved>>
  PROVE  FileInv'
<1>1. FileTypeOK'
  BY DEF FileInv, FileTypeOK
<1>2. Owned(disk_free_frame_list, FrameEntry)'
  <2>1. FrameEntry' = FrameEntry
    BY EntryIs
  <2> QED BY <2>1 DEF FileInv, Owned
<1>3. SavedOnDisk'
  BY DEF FileInv, SavedOnDisk
<1>4. TablesAccounted'
  BY DEF FileInv, TablesAccounted, held
<1> QED BY <1>1, <1>2, <1>3, <1>4 DEF FileInv
-----------------------------------------------------------------------------
(***************************************************************************)
(* pf_add_env_page(), and what is built from it.                           *)
(***************************************************************************)
LEMMA AddKeeps ==
  ASSUME FileInv, NEW e \in FileEnvs, NEW p \in FilePages, NEW v, pf_add_env_page(e, p, v)
  PROVE  FileInv'
<1> DEFINE list == disk_free_frame_list
           o == <<e, "page", p>>
           dfn == IF takes_frame(e, p) THEN Head(list) ELSE disk_table[e][p]
<1>1. CASE new_tables(e, p) > kheap_pages
  <2>1. null_pointer
    BY <1>1 DEF pf_add_env_page
  <2> QED BY <2>1, FileUnchanged DEF null_pointer
<1>2. CASE ~(new_tables(e, p) > kheap_pages)
  <2>1. /\ get_disk_page_table(e, p) /\ table_dir' = table_dir
        /\ IF takes_frame(e, p) /\ list = <<>>
           THEN UNCHANGED <<disk_free_frame_list, disk, disk_table, saved>>
           ELSE /\ disk_table' = [disk_table EXCEPT ![e][p] = dfn]
                /\ disk_free_frame_list' = IF takes_frame(e, p) THEN Tail(list) ELSE list
                /\ disk' = IF v = Unwritten THEN disk ELSE [disk EXCEPT ![dfn] = v]
                /\ saved' = [saved EXCEPT ![e][p] = IF v = Unwritten THEN disk[dfn] ELSE v]
    BY <1>2 DEF pf_add_env_page
  <2>2. /\ FileTypeOK /\ Owned(list, FrameEntry) /\ SavedOnDisk
        /\ kheap_pages + SumFunction(HeldBy(disk_dir, table_dir)) = KHeapPages
        /\ TablesThere(disk_dir, disk_table)
    BY TablesAre DEF FileInv
  <2>3. new_tables(e, p) <= kheap_pages
    <3>1. new_tables(e, p) \in Nat /\ kheap_pages \in Nat
      BY <2>2 DEF new_tables, FileTypeOK
    <3> QED BY <1>2, <3>1
  <2>4. /\ kheap_pages' \in Nat /\ disk_dir' \in [FileEnvs -> Dirs]
        /\ kheap_pages' + SumFunction(HeldBy(disk_dir, table_dir)') = KHeapPages
        /\ disk_dir'[e] # NoDir /\ disk_PDX(p) \in disk_dir'[e]
        /\ disk_dir[e] # NoDir => disk_dir[e] \subseteq disk_dir'[e]
        /\ \A x \in FileEnvs \ {e} : disk_dir'[x] = disk_dir[x]
    BY <2>1, <2>2, <2>3, TablesMade
  <2>5. /\ disk_table \in [FileEnvs -> [FilePages -> DfnOr0]] /\ table_dir \in [FileEnvs -> Tabs]
        /\ DOMAIN disk = Dfn
        /\ DOMAIN saved = FileEnvs /\ \A x \in FileEnvs : DOMAIN saved[x] = FilePages
    BY <2>2 DEF FileTypeOK
  <2>6. HeldBy(disk_dir, table_dir)' = HeldBy(disk_dir', table_dir')
    BY DEF HeldBy
  <2>7. o \in owners /\ FrameEntry[o] = disk_table[e][p]
    <3>1. o \in owners /\ o[1] = e /\ o[2] = "page" /\ o[3] = p
      BY Owners
    <3> HIDE DEF o
    <3>2. EntryOf(disk_table, table_dir)[o] = disk_table[e][p]
      BY <3>1, EntryOfIs
    <3> QED BY <3>1, <3>2, EntryIs
  <2>8. CASE takes_frame(e, p) /\ list = <<>>
    <3>1. UNCHANGED <<disk_free_frame_list, disk, disk_table, saved>>
      BY <2>1, <2>8
    <3>2. FileTypeOK'
      BY <2>1, <2>2, <2>4, <3>1 DEF FileTypeOK
    <3>3. Owned(list, FrameEntry)'
      <4>1. FrameEntry' = FrameEntry
        BY <2>1, <3>1, EntryIs
      <4> QED BY <2>2, <3>1, <4>1 DEF Owned
    <3>4. SavedOnDisk'
      BY <2>2, <3>1 DEF SavedOnDisk
    <3>5. TablesThere(disk_dir', disk_table')
      BY <2>2, <2>4, <3>1 DEF TablesThere
    <3>6. TablesAccounted'
      BY <2>4, <2>6, <3>5, TablesAre
    <3> QED BY <3>2, <3>3, <3>4, <3>6 DEF FileInv
  <2>9. CASE ~(takes_frame(e, p) /\ list = <<>>)
    <3>1. /\ disk_table' = [disk_table EXCEPT ![e][p] = dfn]
          /\ disk_free_frame_list' = IF takes_frame(e, p) THEN Tail(list) ELSE list
          /\ disk' = IF v = Unwritten THEN disk ELSE [disk EXCEPT ![dfn] = v]
          /\ saved' = [saved EXCEPT ![e][p] = IF v = Unwritten THEN disk[dfn] ELSE v]
      BY <2>1, <2>9
    <3> HIDE DEF dfn
    <3>2. dfn \in Dfn
      <4>1. CASE takes_frame(e, p)
        <5>1. list \in Seq(Dfn) /\ list # <<>>
          BY <2>2, <2>9, <4>1 DEF Owned
        <5>2. Head(list) \in Dfn
          BY <5>1, HeadLeaves
        <5> QED BY <4>1, <5>2 DEF dfn
      <4>2. CASE ~takes_frame(e, p)
        <5>1. disk_table[e][p] \in DfnOr0 /\ disk_table[e][p] # 0
          BY <2>5, <4>2 DEF takes_frame
        <5> QED BY <4>2, <5>1, FileSizes DEF dfn
      <4> QED BY <4>1, <4>2
    <3>3. dfn \in DfnOr0
      BY <3>2, FileSizes
    <3> DEFINE new == EntryOf(disk_table', table_dir)
    <3>4. /\ disk_table' \in [FileEnvs -> [FilePages -> DfnOr0]]
          /\ \A x \in FileEnvs, y \in FilePages :
               disk_table'[x][y] = IF x = e /\ y = p THEN dfn ELSE disk_table[x][y]
      BY <2>5, <3>1, <3>3
    <3>15. /\ new \in [owners -> DfnOr0]
           /\ \A q \in owners : new[q] = IF q = o THEN dfn ELSE EntryOf(disk_table, table_dir)[q]
      <4>1. o \in owners /\ o[1] = e /\ o[2] = "page" /\ o[3] = p
        BY Owners
      <4> HIDE DEF o
      <4> DEFINE a == disk_table
                 b == disk_table'
                 c == table_dir
      <4>2. /\ b \in [FileEnvs -> [FilePages -> DfnOr0]] /\ c \in [FileEnvs -> Tabs]
            /\ \A x \in FileEnvs, y \in FilePages :
                 ~(x = o[1] /\ y = o[3]) => b[x][y] = a[x][y]
            /\ b[o[1]][o[3]] = dfn
        BY <2>5, <3>4, <4>1
      <4> HIDE DEF a, b, c
      <4>3. /\ EntryOf(b, c) \in [owners -> DfnOr0] /\ EntryOf(b, c)[o] = dfn
            /\ \A q \in owners : q # o => EntryOf(b, c)[q] = EntryOf(a, c)[q]
        BY <4>1, <4>2, PageEntryChanges, SMTT(30)
      <4>4. \A q \in owners :
              EntryOf(b, c)[q] = IF q = o THEN dfn ELSE EntryOf(a, c)[q]
        BY <4>3
      <4> QED BY <4>3, <4>4 DEF a, b, c
    <3>5. FrameEntry' = new
      BY <2>1, EntryIs
    <3> HIDE DEF new, o
    <3>6. \A q \in owners : new[q] = IF q = o THEN dfn ELSE FrameEntry[q]
      BY <3>15, EntryIs
    <3>7. /\ Owned(disk_free_frame_list', new)
          /\ \A q \in owners : q # o => FrameEntry[q] # dfn
      <4>1. CASE takes_frame(e, p)
        <5>1. list # <<>> /\ FrameEntry[o] = 0 /\ dfn = Head(list)
          BY <2>7, <2>9, <4>1 DEF takes_frame, dfn
        <5>2. Owned(Tail(list), new) /\ \A q \in owners : FrameEntry[q] # Head(list)
          BY <2>2, <2>7, <3>6, <3>15, <5>1, FrameTaken
        <5> QED BY <3>1, <4>1, <5>1, <5>2
      <4>2. CASE ~takes_frame(e, p)
        <5>1. dfn = FrameEntry[o] /\ FrameEntry[o] # 0 /\ disk_free_frame_list' = list
          BY <2>7, <3>1, <4>2 DEF takes_frame, dfn
        <5>2. \A q \in owners : new[q] = FrameEntry[q]
          BY <3>6, <5>1
        <5>3. new = FrameEntry
          BY <2>2, <3>15, <5>2 DEF Owned
        <5>4. \A q \in owners : q # o => FrameEntry[q] # dfn
          BY <2>2, <2>7, <5>1 DEF Owned
        <5> QED BY <2>2, <5>1, <5>3, <5>4
      <4> QED BY <4>1, <4>2
    <3>8. /\ DOMAIN disk' = Dfn /\ \A d \in Dfn : d # dfn => disk'[d] = disk[d]
          /\ disk'[dfn] = IF v = Unwritten THEN disk[dfn] ELSE v
      BY <2>5, <3>1, <3>2
    <3>9. /\ DOMAIN saved' = FileEnvs /\ \A x \in FileEnvs : DOMAIN saved'[x] = FilePages
          /\ \A x \in FileEnvs, y \in FilePages :
               saved'[x][y] = IF x = e /\ y = p THEN (IF v = Unwritten THEN disk[dfn] ELSE v)
                              ELSE saved[x][y]
      BY <2>5, <3>1
    <3>10. FileTypeOK'
      BY <2>1, <2>4, <2>5, <3>4, <3>8, <3>9 DEF FileTypeOK
    <3>11. SavedOnDisk'
      <4> SUFFICES ASSUME NEW x \in FileEnvs, NEW y \in FilePages
                   PROVE  saved'[x][y] = IF disk_table'[x][y] = 0 THEN NotSaved
                                         ELSE disk'[disk_table'[x][y]]
        BY DEF SavedOnDisk
      <4>1. CASE x = e /\ y = p
        <5>1. disk_table'[x][y] = dfn /\ dfn # 0
          BY <3>2, <3>4, <4>1, FileSizes
        <5> QED BY <3>8, <3>9, <4>1, <5>1
      <4>2. CASE ~(x = e /\ y = p)
        <5> DEFINE d == disk_table[x][y]
        <5>1. disk_table'[x][y] = d /\ saved'[x][y] = saved[x][y]
          BY <3>4, <3>9, <4>2
        <5>2. saved[x][y] = IF d = 0 THEN NotSaved ELSE disk[d]
          BY <2>2 DEF SavedOnDisk
        <5>3. d # dfn
          <6> DEFINE r == <<x, "page", y>>
          <6>1. r \in owners /\ r[1] = x /\ r[2] = "page" /\ r[3] = y
            BY Owners
          <6>3. r # o
            BY <4>2 DEF o
          <6> HIDE DEF r
          <6>2. EntryOf(disk_table, table_dir)[r] = d
            BY <6>1, EntryOfIs
          <6>4. FrameEntry[r] = d
            BY <6>2, EntryIs
          <6> QED BY <3>7, <6>1, <6>3, <6>4
        <5>4. d # 0 => d \in Dfn
          <6>1. d \in DfnOr0
            BY <2>5
          <6> QED BY <6>1, FileSizes
        <5> HIDE DEF d
        <5> QED BY <3>8, <5>1, <5>2, <5>3, <5>4
      <4> QED BY <4>1, <4>2
    <3>12. TablesThere(disk_dir', disk_table')
      <4> SUFFICES ASSUME NEW x \in FileEnvs, NEW y \in FilePages, disk_table'[x][y] # 0
                   PROVE  disk_dir'[x] # NoDir /\ disk_PDX(y) \in disk_dir'[x]
        BY DEF TablesThere
      <4>1. CASE x = e /\ y = p
        BY <2>4, <4>1
      <4>2. CASE ~(x = e /\ y = p)
        <5>1. disk_table[x][y] # 0
          BY <3>4, <4>2
        <5>2. disk_dir[x] # NoDir /\ disk_PDX(y) \in disk_dir[x]
          BY <2>2, <5>1 DEF TablesThere
        <5>3. CASE x = e
          BY <2>4, <5>2, <5>3
        <5>4. CASE x # e
          BY <2>4, <5>2, <5>4
        <5> QED BY <5>3, <5>4
      <4> QED BY <4>1, <4>2
    <3>13. TablesAccounted'
      BY <2>4, <2>6, <3>12, TablesAre
    <3>14. Owned(disk_free_frame_list, FrameEntry)'
      BY <3>5, <3>7 DEF Owned
    <3> QED BY <3>10, <3>11, <3>13, <3>14 DEF FileInv
  <2> QED BY <2>8, <2>9
<1> QED BY <1>1, <1>2

LEMMA UpdateKeeps ==
  ASSUME FileInv, NEW e \in FileEnvs, NEW p \in FilePages, NEW v, pf_update_env_page(e, p, v)
  PROVE  FileInv'
<1>1. CASE takes_frame(e, p) /\ disk_free_frame_list = <<>> /\ new_tables(e, p) <= kheap_pages
  <2>1. /\ get_disk_page_table(e, p) /\ table_dir' = table_dir
        /\ UNCHANGED <<disk_free_frame_list, disk, disk_table, saved>>
    BY <1>1 DEF pf_update_env_page
  <2>2. /\ FileTypeOK /\ Owned(disk_free_frame_list, FrameEntry) /\ SavedOnDisk
        /\ kheap_pages + SumFunction(HeldBy(disk_dir, table_dir)) = KHeapPages
        /\ TablesThere(disk_dir, disk_table)
    BY TablesAre DEF FileInv
  <2>3. /\ kheap_pages' \in Nat /\ disk_dir' \in [FileEnvs -> Dirs]
        /\ kheap_pages' + SumFunction(HeldBy(disk_dir, table_dir)') = KHeapPages
        /\ disk_dir'[e] # NoDir /\ disk_PDX(p) \in disk_dir'[e]
        /\ disk_dir[e] # NoDir => disk_dir[e] \subseteq disk_dir'[e]
        /\ \A x \in FileEnvs \ {e} : disk_dir'[x] = disk_dir[x]
    BY <1>1, <2>1, <2>2, TablesMade
  <2>4. HeldBy(disk_dir, table_dir)' = HeldBy(disk_dir', table_dir')
    BY DEF HeldBy
  <2>5. FileTypeOK'
    BY <2>1, <2>2, <2>3 DEF FileTypeOK
  <2>6. Owned(disk_free_frame_list, FrameEntry)'
    <3>1. FrameEntry' = FrameEntry
      BY <2>1, EntryIs
    <3> QED BY <2>1, <2>2, <3>1 DEF Owned
  <2>7. SavedOnDisk'
    BY <2>1, <2>2 DEF SavedOnDisk
  <2>8. TablesThere(disk_dir', disk_table')
    BY <2>1, <2>2, <2>3 DEF TablesThere
  <2>9. TablesAccounted'
    BY <2>3, <2>4, <2>8, TablesAre
  <2> QED BY <2>5, <2>6, <2>7, <2>9 DEF FileInv
<1>2. CASE ~(takes_frame(e, p) /\ disk_free_frame_list = <<>> /\ new_tables(e, p) <= kheap_pages)
  <2>1. pf_add_env_page(e, p, v)
    BY <1>2 DEF pf_update_env_page
  <2> QED BY <2>1, AddKeeps
<1> QED BY <1>1, <1>2
(***************************************************************************)
(* A frame that is taken or freed for one entry leaves what the others     *)
(* have, so that their pages read as before.                               *)
(***************************************************************************)
LEMMA PageOwner ==
  ASSUME NEW e \in FileEnvs, NEW p \in FilePages
  PROVE  \E o \in owners : /\ o[1] = e /\ o[2] = "page" /\ o[3] = p /\ o = <<e, "page", p>>
                           /\ FrameEntry[o] = disk_table[e][p] /\ FrameEntry'[o] = disk_table'[e][p]
<1> DEFINE o == <<e, "page", p>>
<1>1. o \in owners /\ o[1] = e /\ o[2] = "page" /\ o[3] = p /\ o = <<e, "page", p>>
  BY Owners
<1> HIDE DEF o
<1>2. /\ EntryOf(disk_table, table_dir)[o] = disk_table[e][p]
      /\ EntryOf(disk_table', table_dir')[o] = disk_table'[e][p]
  BY <1>1, EntryOfIs
<1> QED BY <1>1, <1>2, EntryIs

LEMMA TableOwner ==
  ASSUME NEW e \in FileEnvs, NEW t \in DiskTables
  PROVE  \E o \in owners : /\ o[1] = e /\ o[2] = "table" /\ o[3] = t /\ o = <<e, "table", t>>
                           /\ FrameEntry[o] = IF table_dir[e] = NoTableDir THEN 0 ELSE table_dir[e][t]
<1> DEFINE o == <<e, "table", t>>
<1>1. o \in owners /\ o[1] = e /\ o[2] = "table" /\ o[3] = t /\ o = <<e, "table", t>>
  BY Owners
<1> HIDE DEF o
<1>2. EntryOf(disk_table, table_dir)[o] = IF table_dir[e] = NoTableDir THEN 0 ELSE table_dir[e][t]
  BY <1>1, EntryOfIs
<1> QED BY <1>1, <1>2, EntryIs

LEMMA RemoveKeeps ==
  ASSUME FileInv, NEW e \in FileEnvs, NEW p \in FilePages, pf_remove_env_page(e, p)
  PROVE  FileInv'
<1>1. /\ disk_dir[e] # NoDir /\ disk_PDX(p) \in disk_dir[e]
      /\ disk_table' = [disk_table EXCEPT ![e][p] = 0]
      /\ disk_free_frame_list' = free_disk_frame(disk_free_frame_list, disk_table[e][p])
      /\ saved' = [saved EXCEPT ![e][p] = NotSaved]
      /\ UNCHANGED <<disk, disk_dir, table_dir, kheap_pages, kernel>>
  BY DEF pf_remove_env_page
<1>2. /\ FileTypeOK /\ Owned(disk_free_frame_list, FrameEntry) /\ SavedOnDisk
      /\ kheap_pages + SumFunction(HeldBy(disk_dir, table_dir)) = KHeapPages
      /\ TablesThere(disk_dir, disk_table)
  BY TablesAre DEF FileInv
<1>3. /\ disk_table \in [FileEnvs -> [FilePages -> DfnOr0]] /\ table_dir \in [FileEnvs -> Tabs]
      /\ DOMAIN saved = FileEnvs /\ \A x \in FileEnvs : DOMAIN saved[x] = FilePages
  BY <1>2 DEF FileTypeOK
<1>4. /\ disk_table' \in [FileEnvs -> [FilePages -> DfnOr0]]
      /\ \A x \in FileEnvs, y \in FilePages :
           disk_table'[x][y] = IF x = e /\ y = p THEN 0 ELSE disk_table[x][y]
  BY <1>1, <1>3, FileSizes
<1>5. PICK o \in owners : /\ o[1] = e /\ o[2] = "page" /\ o[3] = p
                          /\ FrameEntry[o] = disk_table[e][p] /\ FrameEntry'[o] = disk_table'[e][p]
  BY PageOwner
<1>6. /\ FrameEntry' \in [owners -> DfnOr0]
      /\ \A q \in owners : FrameEntry'[q] = IF q = o THEN 0 ELSE FrameEntry[q]
  <2> DEFINE a == disk_table
             b == disk_table'
  <2>1. /\ b \in [FileEnvs -> [FilePages -> DfnOr0]] /\ table_dir \in [FileEnvs -> Tabs]
        /\ \A x \in FileEnvs, y \in FilePages :
             ~(x = o[1] /\ y = o[3]) => b[x][y] = a[x][y]
        /\ b[o[1]][o[3]] = 0
    BY <1>3, <1>4, <1>5
  <2> HIDE DEF a, b
  <2>2. /\ EntryOf(b, table_dir) \in [owners -> DfnOr0]
        /\ EntryOf(b, table_dir)[o] = b[o[1]][o[3]]
        /\ \A q \in owners : q # o => EntryOf(b, table_dir)[q] = EntryOf(a, table_dir)[q]
    <3>1. o[2] = "page"
      BY <1>5
    <3> QED BY <2>1, <3>1, PageEntryChanges
  <2>3. FrameEntry' = EntryOf(b, table_dir) /\ FrameEntry = EntryOf(a, table_dir)
    BY <1>1, EntryIs DEF a, b
  <2> QED BY <2>1, <2>2, <2>3
<1>7. Owned(disk_free_frame_list, FrameEntry)'
  <2>1. Owned(free_disk_frame(disk_free_frame_list, FrameEntry[o]), FrameEntry')
    BY <1>2, <1>6, FrameFreed
  <2> QED BY <1>1, <1>5, <2>1 DEF Owned
<1>8. /\ DOMAIN saved' = FileEnvs /\ \A x \in FileEnvs : DOMAIN saved'[x] = FilePages
      /\ \A x \in FileEnvs, y \in FilePages :
           saved'[x][y] = IF x = e /\ y = p THEN NotSaved ELSE saved[x][y]
  BY <1>1, <1>3
<1>9. FileTypeOK'
  BY <1>1, <1>2, <1>4, <1>8 DEF FileTypeOK
<1>10. SavedOnDisk'
  BY <1>1, <1>2, <1>4, <1>8 DEF SavedOnDisk
<1>11. TablesThere(disk_dir', disk_table')
  BY <1>1, <1>2, <1>4 DEF TablesThere
<1>12. TablesAccounted'
  BY <1>1, <1>2, <1>11, TablesAre
<1> QED BY <1>7, <1>9, <1>10, <1>12 DEF FileInv

LEMMA WriteTableKeeps ==
  ASSUME FileInv, NEW e \in FileEnvs, NEW t \in DiskTables, NEW v, pf_write_env_table(e, t, v)
  PROVE  FileInv'
<1> DEFINE list == disk_free_frame_list
           isNew == table_dir[e] = NoTableDir
           dir == IF isNew THEN [u \in DiskTables |-> 0] ELSE table_dir[e]
           full == dir[t] = 0 /\ list = <<>>
           dfn == IF dir[t] = 0 THEN Head(list) ELSE dir[t]
           n == IF isNew THEN 1 ELSE 0
           dir2 == IF full THEN dir ELSE [dir EXCEPT ![t] = dfn]
<1>1. CASE isNew /\ kheap_pages = 0
  <2>1. null_pointer
    BY <1>1 DEF pf_write_env_table
  <2> QED BY <2>1, FileUnchanged DEF null_pointer
<1>2. CASE ~(isNew /\ kheap_pages = 0)
  <2>1. /\ kheap_pages' = kheap_pages - n
        /\ table_dir' = [table_dir EXCEPT ![e] = dir2]
        /\ disk' = IF full THEN disk ELSE [disk EXCEPT ![dfn] = v]
        /\ disk_free_frame_list' = IF dir[t] = 0 /\ ~full THEN Tail(list) ELSE list
        /\ UNCHANGED <<disk_dir, disk_table, saved>>
    BY <1>2 DEF pf_write_env_table
  <2>2. /\ FileTypeOK /\ Owned(list, FrameEntry) /\ SavedOnDisk
        /\ kheap_pages + SumFunction(HeldBy(disk_dir, table_dir)) = KHeapPages
        /\ TablesThere(disk_dir, disk_table)
    BY TablesAre DEF FileInv
  <2>3. /\ disk_table \in [FileEnvs -> [FilePages -> DfnOr0]] /\ table_dir \in [FileEnvs -> Tabs]
        /\ DOMAIN disk = Dfn /\ kheap_pages \in Nat /\ disk_dir \in [FileEnvs -> Dirs]
    BY <2>2 DEF FileTypeOK
  <2>4. dir \in [DiskTables -> DfnOr0] /\ (isNew \/ dir = table_dir[e])
        /\ \A u \in DiskTables : dir[u] = IF table_dir[e] = NoTableDir THEN 0 ELSE table_dir[e][u]
    <3>1. table_dir[e] = NoTableDir \/ table_dir[e] \in [DiskTables -> DfnOr0]
      BY <2>3 DEF Tabs
    <3>2. CASE isNew
      BY <3>2, FileSizes
    <3>3. CASE ~isNew
      BY <3>1, <3>3
    <3> QED BY <3>2, <3>3
  <2>5. n \in Nat /\ n <= kheap_pages
    BY <1>2, <2>3
  <2> HIDE DEF dir
  <2>6. PICK o \in owners : /\ o[1] = e /\ o[2] = "table" /\ o[3] = t
                            /\ FrameEntry[o] = dir[t]
    BY <2>4, TableOwner
  <2>7. ~full => dfn \in Dfn
    <3> SUFFICES ASSUME ~full PROVE dfn \in Dfn
      OBVIOUS
    <3>1. CASE dir[t] = 0
      <4>1. list \in Seq(Dfn) /\ list # <<>>
        BY <2>2, <3>1 DEF Owned
      <4>2. Head(list) \in Dfn
        BY <4>1, HeadLeaves
      <4> QED BY <3>1, <4>2
    <3>2. CASE dir[t] # 0
      <4>1. dir[t] \in DfnOr0
        BY <2>4
      <4> QED BY <3>2, <4>1, FileSizes
    <3> QED BY <3>1, <3>2
  <2>8. /\ dir2 \in [DiskTables -> DfnOr0] /\ dir2[t] = (IF full THEN 0 ELSE dfn)
        /\ \A u \in DiskTables \ {t} : dir2[u] = dir[u]
    <3>1. CASE full
      BY <2>4, <3>1
    <3>2. CASE ~full
      <4>1. dfn \in DfnOr0
        BY <2>7, <3>2, FileSizes
      <4> HIDE DEF dfn
      <4> QED BY <2>4, <3>2, <4>1
    <3> QED BY <3>1, <3>2
  <2> HIDE DEF dir2
  <2>9. /\ table_dir' \in [FileEnvs -> Tabs] /\ table_dir'[e] = dir2
        /\ \A x \in FileEnvs \ {e} : table_dir'[x] = table_dir[x]
        /\ dir2 # NoTableDir
    BY <2>1, <2>3, <2>8, NoneIsNoTable DEF Tabs
  <2>10. /\ FrameEntry' \in [owners -> DfnOr0] /\ FrameEntry'[o] = (IF full THEN 0 ELSE dfn)
         /\ \A q \in owners : q # o => FrameEntry'[q] = FrameEntry[q]
    <3> DEFINE a == table_dir
               b == table_dir'
               c == disk_table
    <3>1. /\ a \in [FileEnvs -> Tabs] /\ b \in [FileEnvs -> Tabs] /\ b[o[1]] # NoTableDir
          /\ \A x \in FileEnvs \ {o[1]} : b[x] = a[x]
          /\ \A u \in DiskTables \ {o[3]} : b[o[1]][u] = IF a[o[1]] = NoTableDir THEN 0 ELSE a[o[1]][u]
          /\ b[o[1]][o[3]] = (IF full THEN 0 ELSE dfn)
          /\ c \in [FileEnvs -> [FilePages -> DfnOr0]]
      BY <2>3, <2>4, <2>6, <2>8, <2>9
    <3> HIDE DEF a, b, c, full, dfn
    <3>2. /\ EntryOf(c, b) \in [owners -> DfnOr0]
          /\ EntryOf(c, b)[o] = b[o[1]][o[3]]
          /\ \A q \in owners : q # o => EntryOf(c, b)[q] = EntryOf(c, a)[q]
      BY <2>3, <2>6, <3>1, TableEntryChanges, ZenonT(30)
    <3>3. FrameEntry' = EntryOf(c, b) /\ FrameEntry = EntryOf(c, a)
      BY <2>1, EntryIs DEF a, b, c
    <3> QED BY <3>1, <3>2, <3>3
  <2>11. /\ Owned(disk_free_frame_list', FrameEntry')
         /\ ~full => \A q \in owners : q # o => FrameEntry[q] # dfn
    <3>1. CASE full
      <4>1. \A q \in owners : FrameEntry'[q] = FrameEntry[q]
        BY <2>6, <2>10, <3>1
      <4>2. FrameEntry' = FrameEntry
        BY <2>2, <2>10, <4>1 DEF Owned
      <4> QED BY <2>1, <2>2, <3>1, <4>2
    <3>2. CASE ~full /\ dir[t] = 0
      <4>1. list # <<>> /\ FrameEntry[o] = 0 /\ dfn = Head(list) /\ disk_free_frame_list' = Tail(list)
        BY <2>1, <2>6, <3>2
      <4>2. \A q \in owners : FrameEntry'[q] = IF q = o THEN Head(list) ELSE FrameEntry[q]
        BY <2>10, <3>2, <4>1
      <4>3. Owned(Tail(list), FrameEntry') /\ \A q \in owners : FrameEntry[q] # Head(list)
        BY <2>2, <2>6, <2>10, <4>1, <4>2, FrameTaken
      <4> QED BY <4>1, <4>3
    <3>3. CASE ~full /\ dir[t] # 0
      <4>1. FrameEntry[o] = dfn /\ FrameEntry[o] # 0 /\ disk_free_frame_list' = list
        BY <2>1, <2>6, <3>3
      <4>2. \A q \in owners : FrameEntry'[q] = FrameEntry[q]
        BY <2>10, <3>3, <4>1
      <4>3. FrameEntry' = FrameEntry
        BY <2>2, <2>10, <4>2 DEF Owned
      <4>4. \A q \in owners : q # o => FrameEntry[q] # dfn
        BY <2>2, <2>6, <4>1 DEF Owned
      <4> QED BY <2>2, <4>1, <4>3, <4>4
    <3> QED BY <3>1, <3>2, <3>3
  <2>12. /\ DOMAIN disk' = Dfn
         /\ \A d \in Dfn : (full \/ d # dfn) => disk'[d] = disk[d]
    <3>1. CASE full
      BY <2>1, <2>3, <3>1
    <3>2. CASE ~full
      <4>1. disk' = [disk EXCEPT ![dfn] = v]
        BY <2>1, <3>2
      <4> HIDE DEF dfn
      <4> QED BY <2>3, <3>2, <4>1
    <3> QED BY <3>1, <3>2
  <2> HIDE DEF full, dfn
  <2>13. SavedOnDisk'
    <3> SUFFICES ASSUME NEW x \in FileEnvs, NEW y \in FilePages
                 PROVE  saved'[x][y] = IF disk_table'[x][y] = 0 THEN NotSaved
                                       ELSE disk'[disk_table'[x][y]]
      BY DEF SavedOnDisk
    <3> DEFINE d == disk_table[x][y]
    <3>1. saved'[x][y] = IF d = 0 THEN NotSaved ELSE disk[d]
      BY <2>1, <2>2 DEF SavedOnDisk
    <3>2. full \/ d # dfn
      <4>1. PICK r \in owners : r[2] = "page" /\ FrameEntry[r] = d
        BY PageOwner
      <4>2. r # o
        BY <2>6, <4>1
      <4> QED BY <2>11, <4>1, <4>2
    <3>3. d # 0 => d \in Dfn
      <4>1. d \in DfnOr0
        BY <2>3
      <4> QED BY <4>1, FileSizes
    <3>4. disk_table'[x][y] = d
      BY <2>1
    <3> HIDE DEF d
    <3> QED BY <2>12, <3>1, <3>2, <3>3, <3>4
  <2>14. kheap_pages' \in Nat
    BY <2>1, <2>3, <2>5
  <2>15. FileTypeOK'
    BY <2>1, <2>2, <2>9, <2>12, <2>14 DEF FileTypeOK
  <2>16. kheap_pages' + SumFunction(HeldBy(disk_dir, table_dir')) = KHeapPages
    <3>1. HeldOf(disk_dir[e], table_dir'[e]) = HeldOf(disk_dir[e], table_dir[e]) + n
      <4>1. table_dir'[e] # NoTableDir
        BY <2>9
      <4> DEFINE k == IF disk_dir[e] = NoDir THEN 0 ELSE Cardinality(disk_dir[e]) + 1
      <4>2. k \in Nat
        BY <2>3, NoneIsNoTable DEF Dirs
      <4>3. /\ HeldOf(disk_dir[e], table_dir'[e]) = k + 1
            /\ HeldOf(disk_dir[e], table_dir[e]) = k + (IF isNew THEN 0 ELSE 1)
        BY <4>1 DEF HeldOf
      <4> HIDE DEF k
      <4> QED BY <4>2, <4>3
    <3>2. \A x \in FileEnvs \ {e} : disk_dir[x] = disk_dir[x] /\ table_dir'[x] = table_dir[x]
      BY <2>9
    <3> HIDE DEF n
    <3>3. n \in Int
      BY <2>5
    <3>4. /\ SumFunction(HeldBy(disk_dir, table_dir')) = SumFunction(HeldBy(disk_dir, table_dir)) + n
          /\ SumFunction(HeldBy(disk_dir, table_dir)) \in Nat
      <4> DEFINE a == table_dir
                 b == table_dir'
                 c == disk_dir
      <4>1. /\ a \in [FileEnvs -> Tabs] /\ b \in [FileEnvs -> Tabs] /\ c \in [FileEnvs -> Dirs]
            /\ \A x \in FileEnvs \ {e} : c[x] = c[x] /\ b[x] = a[x]
            /\ HeldOf(c[e], b[e]) = HeldOf(c[e], a[e]) + n
        BY <2>3, <2>9, <3>1, <3>2
      <4> HIDE DEF a, b, c
      <4>2. /\ SumFunction(HeldBy(c, b)) = SumFunction(HeldBy(c, a)) + n
            /\ SumFunction(HeldBy(c, a)) \in Nat
        BY <3>3, <4>1, HeldChanges
      <4> QED BY <4>2 DEF a, b, c
    <3> QED BY <2>1, <2>2, <2>3, <2>5, <3>4
  <2>17. TablesThere(disk_dir', disk_table')
    BY <2>1, <2>2 DEF TablesThere
  <2>18. TablesAccounted'
    BY <2>1, <2>16, <2>17, TablesAre
  <2>19. Owned(disk_free_frame_list, FrameEntry)'
    BY <2>11 DEF Owned
  <2> QED BY <2>13, <2>15, <2>18, <2>19 DEF FileInv
<1> QED BY <1>1, <1>2

LEMMA RemoveTableKeeps ==
  ASSUME FileInv, NEW e \in FileEnvs, NEW t \in DiskTables, pf_remove_env_table(e, t)
  PROVE  FileInv'
<1>1. /\ table_dir[e] # NoTableDir
      /\ disk_free_frame_list' = free_disk_frame(disk_free_frame_list, table_dir[e][t])
      /\ table_dir' = [table_dir EXCEPT ![e][t] = 0]
      /\ UNCHANGED <<disk, disk_dir, disk_table, kheap_pages, saved, kernel>>
  BY DEF pf_remove_env_table
<1>2. /\ FileTypeOK /\ Owned(disk_free_frame_list, FrameEntry) /\ SavedOnDisk
      /\ kheap_pages + SumFunction(HeldBy(disk_dir, table_dir)) = KHeapPages
      /\ TablesThere(disk_dir, disk_table)
  BY TablesAre DEF FileInv
<1>3. /\ disk_table \in [FileEnvs -> [FilePages -> DfnOr0]] /\ table_dir \in [FileEnvs -> Tabs]
      /\ kheap_pages \in Nat /\ disk_dir \in [FileEnvs -> Dirs]
  BY <1>2 DEF FileTypeOK
<1>4. table_dir[e] \in [DiskTables -> DfnOr0]
  BY <1>1, <1>3 DEF Tabs
<1> DEFINE dir2 == [table_dir[e] EXCEPT ![t] = 0]
<1>5. /\ dir2 \in [DiskTables -> DfnOr0] /\ dir2[t] = 0
      /\ \A u \in DiskTables \ {t} : dir2[u] = table_dir[e][u]
  BY <1>4, FileSizes
<1>6. table_dir' = [table_dir EXCEPT ![e] = dir2]
  BY <1>1
<1> HIDE DEF dir2
<1>7. /\ table_dir' \in [FileEnvs -> Tabs] /\ table_dir'[e] = dir2
      /\ \A x \in FileEnvs \ {e} : table_dir'[x] = table_dir[x]
      /\ dir2 # NoTableDir
  BY <1>3, <1>5, <1>6, NoneIsNoTable DEF Tabs
<1>8. PICK o \in owners : /\ o[1] = e /\ o[2] = "table" /\ o[3] = t
                          /\ FrameEntry[o] = table_dir[e][t]
  BY <1>1, TableOwner
<1>9. /\ FrameEntry' \in [owners -> DfnOr0]
      /\ \A q \in owners : FrameEntry'[q] = IF q = o THEN 0 ELSE FrameEntry[q]
  <2> DEFINE a == table_dir
             b == table_dir'
  <2>1. /\ a \in [FileEnvs -> Tabs] /\ b \in [FileEnvs -> Tabs] /\ b[o[1]] # NoTableDir
        /\ \A x \in FileEnvs \ {o[1]} : b[x] = a[x]
        /\ \A u \in DiskTables \ {o[3]} : b[o[1]][u] = IF a[o[1]] = NoTableDir THEN 0 ELSE a[o[1]][u]
        /\ b[o[1]][o[3]] = 0
    BY <1>1, <1>3, <1>5, <1>7, <1>8
  <2> HIDE DEF a, b
  <2>2. /\ EntryOf(disk_table, b) \in [owners -> DfnOr0]
        /\ EntryOf(disk_table, b)[o] = b[o[1]][o[3]]
        /\ \A q \in owners : q # o => EntryOf(disk_table, b)[q] = EntryOf(disk_table, a)[q]
    BY <1>3, <1>8, <2>1, TableEntryChanges
  <2>3. FrameEntry' = EntryOf(disk_table, b) /\ FrameEntry = EntryOf(disk_table, a)
    BY <1>1, EntryIs DEF a, b
  <2> QED BY <2>1, <2>2, <2>3
<1>10. Owned(disk_free_frame_list, FrameEntry)'
  <2>1. Owned(free_disk_frame(disk_free_frame_list, FrameEntry[o]), FrameEntry')
    BY <1>2, <1>9, FrameFreed
  <2> QED BY <1>1, <1>8, <2>1 DEF Owned
<1>11. FileTypeOK'
  BY <1>1, <1>2, <1>7 DEF FileTypeOK
<1>12. SavedOnDisk'
  BY <1>1, <1>2 DEF SavedOnDisk
<1>13. kheap_pages' + SumFunction(HeldBy(disk_dir, table_dir')) = KHeapPages
  <2>1. HeldBy(disk_dir, table_dir') = HeldBy(disk_dir, table_dir)
    <3>1. \A x \in FileEnvs : HeldOf(disk_dir[x], table_dir'[x]) = HeldOf(disk_dir[x], table_dir[x])
      <4>1. HeldOf(disk_dir[e], table_dir'[e]) = HeldOf(disk_dir[e], table_dir[e])
        BY <1>1, <1>7 DEF HeldOf
      <4> QED BY <1>7, <4>1
    <3> QED BY <3>1 DEF HeldBy
  <2> QED BY <1>1, <1>2, <2>1
<1>14. TablesThere(disk_dir', disk_table')
  BY <1>1, <1>2 DEF TablesThere
<1>15. TablesAccounted'
  BY <1>1, <1>13, <1>14, TablesAre
<1> QED BY <1>10, <1>11, <1>12, <1>15 DEF FileInv

LEMMA FreeEnvKeeps ==
  ASSUME FileInv, NEW e \in FileEnvs, pf_free_env(e)
  PROVE  FileInv'
<1> DEFINE list == disk_free_frame_list
           final == LastFilePage
           lastTable == disk_PDX(LastFilePage)
           freed == free_disk_frames(list, disk_table[e], final)
<1>1. /\ disk_dir[e] # NoDir
      /\ disk_free_frame_list' = free_disk_frames(freed, frames_of_tables(e), lastTable)
      /\ disk_table' = [disk_table EXCEPT ![e] = [p \in FilePages |-> 0]]
      /\ kheap_pages' = kheap_pages + tables_freed(e)
      /\ disk_dir' = [disk_dir EXCEPT ![e] = NoDir]
      /\ table_dir' = [table_dir EXCEPT ![e] = NoTableDir]
      /\ saved' = [saved EXCEPT ![e] = [p \in FilePages |-> NotSaved]]
      /\ UNCHANGED <<disk, kernel>>
  BY DEF pf_free_env
<1>2. /\ FileTypeOK /\ Owned(list, FrameEntry) /\ SavedOnDisk
      /\ kheap_pages + SumFunction(HeldBy(disk_dir, table_dir)) = KHeapPages
      /\ TablesThere(disk_dir, disk_table)
  BY TablesAre DEF FileInv
<1>3. /\ disk_table \in [FileEnvs -> [FilePages -> DfnOr0]] /\ table_dir \in [FileEnvs -> Tabs]
      /\ kheap_pages \in Nat /\ disk_dir \in [FileEnvs -> Dirs]
      /\ DOMAIN saved = FileEnvs /\ \A x \in FileEnvs : DOMAIN saved[x] = FilePages
  BY <1>2 DEF FileTypeOK
<1>4. /\ disk_table' \in [FileEnvs -> [FilePages -> DfnOr0]]
      /\ \A x \in FileEnvs : disk_table'[x] = IF x = e THEN [p \in FilePages |-> 0] ELSE disk_table[x]
  BY <1>1, <1>3, FileSizes
<1>5. /\ table_dir' \in [FileEnvs -> Tabs] /\ disk_dir' \in [FileEnvs -> Dirs]
      /\ table_dir'[e] = NoTableDir /\ disk_dir'[e] = NoDir
      /\ \A x \in FileEnvs \ {e} : table_dir'[x] = table_dir[x] /\ disk_dir'[x] = disk_dir[x]
  BY <1>1, <1>3 DEF Tabs, Dirs
<1>6. final \in Nat /\ lastTable \in Nat /\ FilePages = 0 .. final /\ DiskTables = 0 .. lastTable
  BY FileSizes DEF FilePages, DiskTables
<1> HIDE DEF list, final, lastTable, freed
<1> DEFINE ent1 == Cleared(FrameEntry, e, "page", final + 1)
           ent2 == Cleared(ent1, e, "table", lastTable + 1)
<1>7. Owned(freed, ent1)
  <2> DEFINE kind == "page"
             row == disk_table[e]
  <2>1. \A k \in 0 .. final : row[k] = FrameEntry[<<e, kind, k>>]
    <3> SUFFICES ASSUME NEW k \in 0 .. final PROVE row[k] = FrameEntry[<<e, kind, k>>]
      OBVIOUS
    <3>1. k \in FilePages
      BY <1>6
    <3> QED BY <3>1, PageOwner
  <2>2. kind = "page" /\ final = LastFilePage
    BY DEF final
  <2> HIDE DEF kind, row
  <2>3. Owned(free_disk_frames(list, row, final), Cleared(FrameEntry, e, kind, final + 1))
    BY <1>2, <1>6, <2>1, <2>2, FramesFreed
  <2> QED BY <2>3 DEF freed, kind, row
<1>8. Owned(disk_free_frame_list', ent2)
  <2> DEFINE kind == "table"
             row == frames_of_tables(e)
  <2>1. \A k \in 0 .. lastTable : row[k] = ent1[<<e, kind, k>>]
    <3> SUFFICES ASSUME NEW k \in 0 .. lastTable PROVE row[k] = ent1[<<e, kind, k>>]
      OBVIOUS
    <3>1. k \in DiskTables
      BY <1>6
    <3>2. PICK o \in owners :
            /\ o[1] = e /\ o[2] = "table" /\ o = <<e, "table", k>>
            /\ FrameEntry[o] = IF table_dir[e] = NoTableDir THEN 0 ELSE table_dir[e][k]
      BY <3>1, TableOwner
    <3>3. ent1[o] = FrameEntry[o]
      BY <3>2 DEF Cleared
    <3>4. row[k] = FrameEntry[o]
      BY <3>1, <3>2 DEF frames_of_tables
    <3> HIDE DEF row, ent1
    <3> QED BY <3>2, <3>3, <3>4
  <2>2. kind = "table" /\ lastTable = disk_PDX(LastFilePage)
    BY DEF lastTable
  <2> HIDE DEF kind, row, ent1
  <2>3. Owned(free_disk_frames(freed, row, lastTable), Cleared(ent1, e, kind, lastTable + 1))
    BY <1>6, <1>7, <2>1, <2>2, FramesFreed
  <2> QED BY <1>1, <2>3 DEF kind, row
<1>9. FrameEntry' = ent2
  <2>1. \A o \in owners : ent2[o] = IF o[1] = e THEN 0 ELSE FrameEntry[o]
    <3> SUFFICES ASSUME NEW o \in owners PROVE ent2[o] = IF o[1] = e THEN 0 ELSE FrameEntry[o]
      OBVIOUS
    <3>1. \/ o[2] = "page" /\ o[3] \in 0 .. final
          \/ o[2] = "table" /\ o[3] \in 0 .. lastTable
      BY <1>6, Owners
    <3>2. /\ ent1[o] = IF o[1] = e /\ o[2] = "page" /\ o[3] < final + 1 THEN 0 ELSE FrameEntry[o]
          /\ ent2[o] = IF o[1] = e /\ o[2] = "table" /\ o[3] < lastTable + 1 THEN 0 ELSE ent1[o]
      BY DEF Cleared
    <3> HIDE DEF ent1, ent2
    <3>3. CASE o[2] = "page" /\ o[3] \in 0 .. final
      <4>1. o[3] < final + 1 /\ o[2] # "table"
        BY <1>6, <3>3
      <4> QED BY <3>2, <3>3, <4>1
    <3>4. CASE o[2] = "table" /\ o[3] \in 0 .. lastTable
      <4>1. o[3] < lastTable + 1 /\ o[2] # "page"
        BY <1>6, <3>4
      <4> QED BY <3>2, <3>4, <4>1
    <3> QED BY <3>1, <3>3, <3>4
  <2>2. \A o \in owners : FrameEntry'[o] = IF o[1] = e THEN 0 ELSE FrameEntry[o]
    <3> SUFFICES ASSUME NEW o \in owners PROVE FrameEntry'[o] = IF o[1] = e THEN 0 ELSE FrameEntry[o]
      OBVIOUS
    <3> DEFINE a == disk_table
               b == disk_table'
               c == table_dir
               d == table_dir'
    <3>1. FrameEntry = EntryOf(a, c) /\ FrameEntry' = EntryOf(b, d)
      BY EntryIs
    <3>2. /\ o[1] \in FileEnvs
          /\ \/ o[2] = "page" /\ o[3] \in FilePages
             \/ o[2] = "table" /\ o[3] \in DiskTables
      BY Owners
    <3>3. CASE o[2] = "page" /\ o[3] \in FilePages
      <4>1. b[o[1]][o[3]] = IF o[1] = e THEN 0 ELSE a[o[1]][o[3]]
        BY <1>4, <3>2, <3>3
      <4> HIDE DEF a, b, c, d
      <4>2. EntryOf(b, d)[o] = b[o[1]][o[3]] /\ EntryOf(a, c)[o] = a[o[1]][o[3]]
        BY <3>3, EntryOfIs
      <4> QED BY <3>1, <4>1, <4>2
    <3>4. CASE o[2] = "table"
      <4>1. (o[1] = e /\ d[o[1]] = NoTableDir) \/ (o[1] # e /\ d[o[1]] = c[o[1]])
        BY <1>5, <3>2
      <4> HIDE DEF a, b, c, d
      <4>2. /\ EntryOf(b, d)[o] = IF d[o[1]] = NoTableDir THEN 0 ELSE d[o[1]][o[3]]
            /\ EntryOf(a, c)[o] = IF c[o[1]] = NoTableDir THEN 0 ELSE c[o[1]][o[3]]
        BY <3>4, EntryOfIs
      <4> QED BY <3>1, <4>1, <4>2
    <3> QED BY <3>2, <3>3, <3>4
  <2>3. ent2 = [o \in owners |-> ent2[o]]
    BY DEF Cleared
  <2>4. FrameEntry' = [o \in owners |-> FrameEntry'[o]]
    BY DEF FrameEntry
  <2> HIDE DEF ent2
  <2>5. \A o \in owners : FrameEntry'[o] = ent2[o]
    BY <2>1, <2>2
  <2> QED BY <2>3, <2>4, <2>5
<1>10. Owned(disk_free_frame_list, FrameEntry)'
  <2> HIDE DEF ent2
  <2> QED BY <1>8, <1>9 DEF Owned
<1>11. /\ DOMAIN saved' = FileEnvs /\ \A x \in FileEnvs : DOMAIN saved'[x] = FilePages
       /\ \A x \in FileEnvs : saved'[x] = IF x = e THEN [p \in FilePages |-> NotSaved] ELSE saved[x]
  BY <1>1, <1>3
<1>12. tables_freed(e) = HeldOf(disk_dir[e], table_dir[e]) /\ tables_freed(e) \in Nat
  <2>1. disk_dir[e] \in SUBSET DiskTables
    BY <1>1, <1>3 DEF Dirs
  <2>2. Cardinality(disk_dir[e]) \in Nat
    BY <2>1, NoneIsNoTable
  <2> QED BY <1>1, <2>2 DEF tables_freed, HeldOf
<1>13. kheap_pages' \in Nat
  BY <1>1, <1>3, <1>12
<1>14. FileTypeOK'
  BY <1>1, <1>2, <1>4, <1>5, <1>11, <1>13 DEF FileTypeOK
<1>15. SavedOnDisk'
  <2> SUFFICES ASSUME NEW x \in FileEnvs, NEW y \in FilePages
               PROVE  saved'[x][y] = IF disk_table'[x][y] = 0 THEN NotSaved
                                     ELSE disk'[disk_table'[x][y]]
    BY DEF SavedOnDisk
  <2>1. CASE x = e
    BY <1>4, <1>11, <2>1
  <2>2. CASE x # e
    BY <1>1, <1>2, <1>4, <1>11, <2>2 DEF SavedOnDisk
  <2> QED BY <2>1, <2>2
<1>16. kheap_pages' + SumFunction(HeldBy(disk_dir', table_dir')) = KHeapPages
  <2> DEFINE n == 0 - tables_freed(e)
  <2>1. HeldOf(disk_dir'[e], table_dir'[e]) = 0
    BY <1>5 DEF HeldOf
  <2>2. n \in Int /\ HeldOf(disk_dir'[e], table_dir'[e]) = HeldOf(disk_dir[e], table_dir[e]) + n
    BY <1>12, <2>1
  <2>3. \A x \in FileEnvs \ {e} : disk_dir'[x] = disk_dir[x] /\ table_dir'[x] = table_dir[x]
    BY <1>5
  <2> HIDE DEF n
  <2>4. /\ SumFunction(HeldBy(disk_dir', table_dir')) = SumFunction(HeldBy(disk_dir, table_dir)) + n
        /\ SumFunction(HeldBy(disk_dir, table_dir)) \in Nat
    <3> DEFINE a == table_dir
               b == table_dir'
               c == disk_dir
               d == disk_dir'
    <3>1. /\ a \in [FileEnvs -> Tabs] /\ b \in [FileEnvs -> Tabs]
          /\ c \in [FileEnvs -> Dirs] /\ d \in [FileEnvs -> Dirs]
          /\ \A x \in FileEnvs \ {e} : d[x] = c[x] /\ b[x] = a[x]
          /\ n \in Int /\ HeldOf(d[e], b[e]) = HeldOf(c[e], a[e]) + n
      BY <1>3, <1>5, <2>2, <2>3
    <3> HIDE DEF a, b, c, d
    <3>2. /\ SumFunction(HeldBy(d, b)) = SumFunction(HeldBy(c, a)) + n
          /\ SumFunction(HeldBy(c, a)) \in Nat
      BY <3>1, HeldChanges
    <3> QED BY <3>2 DEF a, b, c, d
  <2>5. n = 0 - tables_freed(e)
    BY DEF n
  <2> QED BY <1>1, <1>2, <1>3, <1>12, <2>4, <2>5
<1>17. TablesThere(disk_dir', disk_table')
  <2> SUFFICES ASSUME NEW x \in FileEnvs, NEW y \in FilePages, disk_table'[x][y] # 0
               PROVE  disk_dir'[x] # NoDir /\ disk_PDX(y) \in disk_dir'[x]
    BY DEF TablesThere
  <2>1. x # e
    BY <1>4
  <2>2. disk_table[x][y] # 0 /\ disk_dir'[x] = disk_dir[x]
    BY <1>4, <1>5, <2>1
  <2> QED BY <1>2, <2>2 DEF TablesThere
<1>18. TablesAccounted'
  BY <1>16, <1>17, TablesAre
<1> QED BY <1>10, <1>14, <1>15, <1>18 DEF FileInv
-----------------------------------------------------------------------------
(***************************************************************************)
(* initialize_disk_page_file().                                            *)
(***************************************************************************)
LEMMA DownFrom ==
  ASSUME NEW n \in Nat, NEW s, s = [k \in 1 .. n |-> k]
  PROVE  /\ Reverse(s) \in Seq(1 .. n) /\ Len(Reverse(s)) = n
         /\ \A i \in 1 .. n : Reverse(s)[i] = n - i + 1
<1>1. s \in Seq(1 .. n) /\ Len(s) = n
  <2>1. s \in [1 .. n -> 1 .. n]
    OBVIOUS
  <2> QED BY <2>1
<1>2. Reverse(s) = [i \in 1 .. n |-> s[n - i + 1]]
  BY <1>1 DEF Reverse
<1>3. \A i \in 1 .. n : n - i + 1 \in 1 .. n /\ s[n - i + 1] = n - i + 1
  <2> SUFFICES ASSUME NEW i \in 1 .. n
               PROVE  n - i + 1 \in 1 .. n /\ s[n - i + 1] = n - i + 1
    OBVIOUS
  <2> DEFINE j == n - i + 1
  <2>1. j \in 1 .. n
    OBVIOUS
  <2> HIDE DEF j
  <2>2. s[j] = j
    BY <2>1
  <2> QED BY <2>1, <2>2 DEF j
<1>4. Reverse(s) \in [1 .. n -> 1 .. n] /\ \A i \in 1 .. n : Reverse(s)[i] = n - i + 1
  BY <1>2, <1>3
<1> DEFINE r == Reverse(s)
<1> HIDE DEF r
<1>5. r \in [1 .. n -> 1 .. n]
  BY <1>4 DEF r
<1>6. r \in Seq(1 .. n) /\ Len(r) = n
  BY <1>5
<1> QED BY <1>4, <1>6 DEF r

LEMMA FileInit ==
  ASSUME PageFileInit
  PROVE  FileInv
<1> DEFINE list == disk_free_frame_list
           n == PAGES_PER_FILE - 1
<1>1. /\ list = Reverse([k \in Dfn |-> k])
      /\ disk = [d \in Dfn |-> Unwritten]
      /\ disk_dir = [e \in FileEnvs |-> NoDir]
      /\ disk_table = [e \in FileEnvs |-> [p \in FilePages |-> 0]]
      /\ table_dir = [e \in FileEnvs |-> NoTableDir]
      /\ kheap_pages = KHeapPages
      /\ saved = [e \in FileEnvs |-> [p \in FilePages |-> NotSaved]]
  BY DEF PageFileInit
<1>2. n \in Nat /\ KHeapPages \in Nat
  BY PageFileAssumption
<1>3. FileTypeOK
  BY <1>1, <1>2, FileSizes DEF FileTypeOK, Dirs, Tabs
<1>4. SavedOnDisk
  BY <1>1 DEF SavedOnDisk
<1>5. TablesThere(disk_dir, disk_table)
  BY <1>1 DEF TablesThere
<1>6. SumFunction(HeldBy(disk_dir, table_dir)) = 0
  <2> DEFINE u == HeldBy(disk_dir, table_dir)
  <2>1. \A e \in FileEnvs : u[e] = 0
    BY <1>1 DEF HeldBy, HeldOf
  <2>2. u \in [FileEnvs -> Nat]
    BY <1>3, HeldTyped DEF FileTypeOK
  <2> HIDE DEF u
  <2>3. SumFunction(u) = 0
    BY <2>1, <2>2, PageFileAssumption, SumOfZeros
  <2> QED BY <2>3 DEF u
<1>7. TablesAccounted
  BY <1>1, <1>2, <1>5, <1>6, TablesAre
<1>8. \A o \in owners : FrameEntry[o] = 0
  <2> SUFFICES ASSUME NEW o \in owners PROVE FrameEntry[o] = 0
    OBVIOUS
  <2>1. /\ o[1] \in FileEnvs
        /\ \/ o[2] = "page" /\ o[3] \in FilePages
           \/ o[2] = "table" /\ o[3] \in DiskTables
    BY Owners
  <2>2. /\ o[2] = "page" => EntryOf(disk_table, table_dir)[o] = disk_table[o[1]][o[3]]
        /\ o[2] = "table" => EntryOf(disk_table, table_dir)[o]
                               = IF table_dir[o[1]] = NoTableDir THEN 0 ELSE table_dir[o[1]][o[3]]
    BY EntryOfIs
  <2>3. FrameEntry[o] = EntryOf(disk_table, table_dir)[o]
    BY EntryIs
  <2> QED BY <1>1, <2>1, <2>2, <2>3
<1>9. /\ list \in Seq(Dfn) /\ Len(list) = n
      /\ \A i \in 1 .. n : list[i] = n - i + 1
  <2> DEFINE s == [k \in 1 .. n |-> k]
  <2>1. list = Reverse(s) /\ Dfn = 1 .. n
    BY <1>1 DEF Dfn
  <2> HIDE DEF n
  <2>2. s = [k \in 1 .. n |-> k]
    OBVIOUS
  <2> HIDE DEF s
  <2> QED BY <1>2, <2>1, <2>2, DownFrom
<1>10. Owned(list, FrameEntry)
  <2> HIDE DEF list
  <2>1. \A i, j \in 1 .. Len(list) : list[i] = list[j] => i = j
    BY <1>2, <1>9
  <2>2. FrameEntry \in [owners -> DfnOr0]
    BY <1>8, FileSizes DEF FrameEntry
  <2>3. \A i \in 1 .. Len(list) : list[i] \in Dfn
    BY <1>9
  <2>4. \A o \in owners : \A i \in 1 .. Len(list) : list[i] # FrameEntry[o]
    BY <1>8, <2>3, FileSizes
  <2>5. ASSUME NEW d \in Dfn PROVE \E i \in 1 .. Len(list) : list[i] = d
    <3>1. d \in 1 .. n
      BY DEF Dfn
    <3> HIDE DEF n
    <3> DEFINE i == n - d + 1
    <3>2. i \in 1 .. n /\ n - i + 1 = d
      BY <1>2, <3>1
    <3> HIDE DEF i
    <3>3. list[i] = d
      BY <1>9, <3>2
    <3> QED BY <1>9, <3>2, <3>3
  <2>6. \A o, q \in owners : FrameEntry[o] = FrameEntry[q] /\ FrameEntry[o] # 0 => o = q
    BY <1>8
  <2> QED BY <1>9, <2>1, <2>2, <2>4, <2>5, <2>6 DEF Owned
<1> QED BY <1>3, <1>4, <1>7, <1>10 DEF FileInv

LEMMA FileStep ==
  ASSUME FileInv, [PageFileNext]_pageFile
  PROVE  FileInv'
<1>1. CASE UNCHANGED pageFile
  BY <1>1, FileUnchanged DEF pageFile
<1>2. ASSUME NEW e \in FileEnvs, NEW p \in FilePages, NEW v, pf_add_env_page(e, p, v)
      PROVE  FileInv'
  BY <1>2, AddKeeps
<1>3. ASSUME NEW e \in FileEnvs, NEW p \in FilePages, NEW v, pf_update_env_page(e, p, v)
      PROVE  FileInv'
  BY <1>3, UpdateKeeps
<1>4. ASSUME NEW e \in FileEnvs, NEW p \in FilePages, NEW zero, pf_add_empty_env_page(e, p, zero)
      PROVE  FileInv'
  BY <1>4, AddKeeps DEF pf_add_empty_env_page
<1>5. ASSUME NEW e \in FileEnvs, NEW p \in FilePages, pf_remove_env_page(e, p) PROVE FileInv'
  BY <1>5, RemoveKeeps
<1>6. ASSUME NEW e \in FileEnvs, pf_free_env(e) PROVE FileInv'
  BY <1>6, FreeEnvKeeps
<1>7. ASSUME NEW e \in FileEnvs, NEW t \in DiskTables, pf_write_env_table(e, t, ZeroPage)
      PROVE  FileInv'
  BY <1>7, WriteTableKeeps
<1>8. ASSUME NEW e \in FileEnvs, NEW t \in DiskTables, pf_remove_env_table(e, t) PROVE FileInv'
  BY <1>8, RemoveTableKeeps
<1> QED BY <1>1, <1>2, <1>3, <1>4, <1>5, <1>6, <1>7, <1>8 DEF PageFileNext
-----------------------------------------------------------------------------
(***************************************************************************)
(* What the invariant says of the properties.                              *)
(***************************************************************************)
LEMMA PagesAreKept ==
  ASSUME FileInv
  PROVE  FileKeepsPages
<1> SUFFICES ASSUME NEW e \in FileEnvs, NEW p \in FilePages
             PROVE  pf_read_env_page(e, p) = saved[e][p]
  BY DEF FileKeepsPages
<1>1. saved[e][p] = IF disk_table[e][p] = 0 THEN NotSaved ELSE disk[disk_table[e][p]]
  BY DEF FileInv, SavedOnDisk
<1>2. disk_table[e][p] # 0 => disk_dir[e] # NoDir /\ disk_PDX(p) \in disk_dir[e]
  BY DEF FileInv, TablesAccounted
<1> QED BY <1>1, <1>2 DEF pf_read_env_page

LEMMA OwnedOnce ==
  ASSUME FileInv
  PROVE  DiskFramesOwnedOnce
<1> DEFINE list == disk_free_frame_list
<1>1. /\ list \in Seq(Dfn) /\ \A i, j \in 1 .. Len(list) : list[i] = list[j] => i = j
      /\ \A o \in owners : \A i \in 1 .. Len(list) : list[i] # FrameEntry[o]
      /\ \A o, q \in owners : FrameEntry[o] = FrameEntry[q] /\ FrameEntry[o] # 0 => o = q
      /\ \A d \in Dfn : (\E i \in 1 .. Len(list) : list[i] = d) \/ (\E o \in owners : FrameEntry[o] = d)
  BY DEF FileInv, Owned
<1>2. DOMAIN list = 1 .. Len(list)
  BY <1>1
<1>3. \A o \in owners : entry_of(o) = FrameEntry[o]
  BY DEF FrameEntry
<1> HIDE DEF list
<1> SUFFICES ASSUME NEW d \in Dfn
             PROVE  Cardinality({i \in DOMAIN list : list[i] = d})
                      + Cardinality({o \in owners : entry_of(o) = d}) = 1
  BY DEF DiskFramesOwnedOnce, list
<1> DEFINE A == {i \in DOMAIN list : list[i] = d}
           B == {o \in owners : entry_of(o) = d}
<1>4. d # 0
  BY FileSizes
<1>5. CASE \E i \in 1 .. Len(list) : list[i] = d
  <2>1. PICK i \in 1 .. Len(list) : list[i] = d
    BY <1>5
  <2>2. i \in A /\ \A j \in A : j = i
    BY <1>1, <1>2, <2>1
  <2>3. B = {}
    BY <1>1, <1>3, <2>1
  <2> HIDE DEF A, B
  <2>4. Cardinality(A) = 1 /\ Cardinality(B) = 0
    <3>1. A = {i}
      BY <2>2, Zenon
    <3>2. Cardinality(A) = 1
      BY <3>1, FS_Singleton
    <3> QED BY <2>3, <3>2, FS_EmptySet
  <2> QED BY <2>4 DEF A, B
<1>6. CASE ~\E i \in 1 .. Len(list) : list[i] = d
  <2>1. PICK o \in owners : FrameEntry[o] = d
    BY <1>1, <1>6
  <2>2. o \in B /\ \A q \in B : q = o
    BY <1>1, <1>3, <1>4, <2>1
  <2>3. A = {}
    BY <1>2, <1>6
  <2> HIDE DEF A, B
  <2>4. Cardinality(A) = 0 /\ Cardinality(B) = 1
    <3>1. B = {o}
      BY <2>2, Zenon
    <3>2. Cardinality(B) = 1
      BY <3>1, FS_Singleton
    <3> QED BY <2>3, <3>2, FS_EmptySet
  <2> QED BY <2>4 DEF A, B
<1> QED BY <1>5, <1>6

(* A function that keeps elements apart keeps their number. *)
LEMMA SameSize ==
  ASSUME NEW S, IsFiniteSet(S), NEW f, DOMAIN f = S, \A x, y \in S : f[x] = f[y] => x = y,
         NEW T, T = {f[x] : x \in S}
  PROVE  IsFiniteSet(T) /\ Cardinality(T) = Cardinality(S)
<1> DEFINE g == [x \in S |-> f[x]]
<1>1. g \in [S -> T]
  OBVIOUS
<1>2. g \in Bijection(S, T)
  BY <1>1 DEF Bijection, Injection, Surjection, IsInjective
<1>3. ExistsBijection(S, T)
  BY <1>2 DEF ExistsBijection
<1> QED BY <1>3, FS_Bijection

PagesHad(e) == {p \in FilePages : disk_table[e][p] # 0}
TablesHad(e) == {t \in DiskTables : frames_of_tables(e)[t] # 0}
FramesHad(e) == {FrameEntry[o] : o \in {o \in owners : o[1] = e /\ FrameEntry[o] # 0}}

LEMMA FilesFinite ==
  /\ IsFiniteSet(FilePages) /\ IsFiniteSet(DiskTables) /\ IsFiniteSet(Dfn)
  /\ IsFiniteSet(FileEnvs)
<1>1. LastFilePage \in Int /\ disk_PDX(LastFilePage) \in Int /\ PAGES_PER_FILE - 1 \in Int
  BY FileSizes, PageFileAssumption
<1> QED BY <1>1, FS_Interval, PageFileAssumption DEF FilePages, DiskTables, Dfn

(* An environment has as many frames as it has pages and tables. *)
LEMMA FramesCounted ==
  ASSUME FileInv, NEW e \in FileEnvs
  PROVE  /\ Cardinality(FramesHad(e)) = Cardinality(PagesHad(e)) + Cardinality(TablesHad(e))
         /\ FramesHad(e) \in SUBSET Dfn
<1>1. /\ FrameEntry \in [owners -> DfnOr0]
      /\ \A o, q \in owners : FrameEntry[o] = FrameEntry[q] /\ FrameEntry[o] # 0 => o = q
  BY DEF FileInv, Owned
<1> DEFINE f == [p \in PagesHad(e) |-> disk_table[e][p]]
           g == [t \in TablesHad(e) |-> frames_of_tables(e)[t]]
           A == {f[p] : p \in PagesHad(e)}
           B == {g[t] : t \in TablesHad(e)}
<1>2. ASSUME NEW p \in PagesHad(e)
      PROVE  \E o \in owners : /\ o[1] = e /\ o[2] = "page" /\ o[3] = p
                               /\ FrameEntry[o] = disk_table[e][p] /\ FrameEntry[o] # 0
  <2>1. p \in FilePages /\ disk_table[e][p] # 0
    BY DEF PagesHad
  <2>2. PICK o \in owners : o[1] = e /\ o[2] = "page" /\ o[3] = p /\ FrameEntry[o] = disk_table[e][p]
    BY <2>1, PageOwner
  <2> QED BY <2>1, <2>2
<1>3. ASSUME NEW t \in TablesHad(e)
      PROVE  \E o \in owners : /\ o[1] = e /\ o[2] = "table" /\ o[3] = t
                               /\ FrameEntry[o] = frames_of_tables(e)[t] /\ FrameEntry[o] # 0
  <2>1. t \in DiskTables /\ frames_of_tables(e)[t] # 0
    BY DEF TablesHad
  <2>2. PICK o \in owners : /\ o[1] = e /\ o[2] = "table" /\ o[3] = t
                            /\ FrameEntry[o] = IF table_dir[e] = NoTableDir THEN 0 ELSE table_dir[e][t]
    BY <2>1, TableOwner
  <2>3. frames_of_tables(e)[t] = IF table_dir[e] = NoTableDir THEN 0 ELSE table_dir[e][t]
    BY <2>1 DEF frames_of_tables
  <2> QED BY <2>1, <2>2, <2>3
<1>4. IsFiniteSet(PagesHad(e)) /\ IsFiniteSet(TablesHad(e))
  BY FilesFinite, FS_Subset DEF PagesHad, TablesHad
<1>5. IsFiniteSet(A) /\ Cardinality(A) = Cardinality(PagesHad(e))
  <2>1. \A x, y \in PagesHad(e) : f[x] = f[y] => x = y
    BY <1>1, <1>2
  <2>2. DOMAIN f = PagesHad(e)
    OBVIOUS
  <2> HIDE DEF f
  <2> QED BY <1>4, <2>1, <2>2, SameSize
<1>6. IsFiniteSet(B) /\ Cardinality(B) = Cardinality(TablesHad(e))
  <2>1. \A x, y \in TablesHad(e) : g[x] = g[y] => x = y
    BY <1>1, <1>3
  <2>2. DOMAIN g = TablesHad(e)
    OBVIOUS
  <2> HIDE DEF g
  <2> QED BY <1>4, <2>1, <2>2, SameSize
<1>7. A \cap B = {}
  <2> SUFFICES ASSUME NEW p \in PagesHad(e), NEW t \in TablesHad(e), f[p] = g[t] PROVE FALSE
    OBVIOUS
  <2>1. PICK o \in owners : o[2] = "page" /\ FrameEntry[o] = f[p] /\ FrameEntry[o] # 0
    BY <1>2
  <2>2. PICK q \in owners : q[2] = "table" /\ FrameEntry[q] = g[t]
    BY <1>3
  <2>3. o = q
    BY <1>1, <2>1, <2>2
  <2>4. "page" = "table"
    BY <2>1, <2>2, <2>3
  <2> QED BY <2>4
<1>8. FramesHad(e) = A \cup B
  <2>1. ASSUME NEW d \in FramesHad(e) PROVE d \in A \cup B
    <3>1. PICK o \in owners : o[1] = e /\ FrameEntry[o] # 0 /\ d = FrameEntry[o]
      BY DEF FramesHad
    <3>2. /\ o = <<o[1], o[2], o[3]>>
          /\ \/ o[2] = "page" /\ o[3] \in FilePages
             \/ o[2] = "table" /\ o[3] \in DiskTables
      BY Owners
    <3>3. CASE o[2] = "page" /\ o[3] \in FilePages
      <4>1. FrameEntry[o] = disk_table[e][o[3]]
        BY <3>1, <3>3, EntryIs, EntryOfIs
      <4>2. o[3] \in PagesHad(e)
        BY <3>1, <3>3, <4>1 DEF PagesHad
      <4>3. d = f[o[3]]
        BY <3>1, <4>1, <4>2
      <4> QED BY <4>2, <4>3
    <3>4. CASE o[2] = "table" /\ o[3] \in DiskTables
      <4>1. FrameEntry[o] = IF table_dir[e] = NoTableDir THEN 0 ELSE table_dir[e][o[3]]
        BY <3>1, <3>4, EntryIs, EntryOfIs
      <4>2. frames_of_tables(e)[o[3]] = FrameEntry[o]
        BY <3>4, <4>1 DEF frames_of_tables
      <4>3. o[3] \in TablesHad(e)
        BY <3>1, <3>4, <4>2 DEF TablesHad
      <4>4. d = g[o[3]]
        BY <3>1, <4>2, <4>3
      <4> QED BY <4>3, <4>4
    <3> QED BY <3>2, <3>3, <3>4
  <2>2. ASSUME NEW p \in PagesHad(e) PROVE f[p] \in FramesHad(e)
    BY <1>2 DEF FramesHad
  <2>3. ASSUME NEW t \in TablesHad(e) PROVE g[t] \in FramesHad(e)
    BY <1>3 DEF FramesHad
  <2> QED BY <2>1, <2>2, <2>3
<1> HIDE DEF A, B, f, g
<1>9. Cardinality(A \cup B) = Cardinality(A) + Cardinality(B)
  <2>1. Cardinality(A \cup B) = Cardinality(A) + Cardinality(B) - Cardinality(A \cap B)
    BY <1>5, <1>6, FS_Union
  <2>2. Cardinality(A) \in Nat /\ Cardinality(B) \in Nat /\ Cardinality(A \cap B) = 0
    BY <1>5, <1>6, <1>7, FS_EmptySet, FS_CardinalityType
  <2> QED BY <2>1, <2>2
<1>10. FramesHad(e) \in SUBSET Dfn
  <2>1. \A o \in owners : FrameEntry[o] # 0 => FrameEntry[o] \in Dfn
    BY <1>1, FileSizes
  <2> QED BY <2>1 DEF FramesHad
<1> QED BY <1>5, <1>6, <1>8, <1>9, <1>10

LEMMA FileCounted ==
  ASSUME FileInv
  PROVE  CountsMatchFile
<1> DEFINE list == disk_free_frame_list
           spent == [e \in FileEnvs |-> pf_calculate_allocated_pages(e)
                                         + Cardinality({t \in DiskTables : frames_of_tables(e)[t] # 0})]
           F == [e \in FileEnvs |-> FramesHad(e)]
           All == UNION {F[e] : e \in FileEnvs}
           Free == {list[i] : i \in 1 .. Len(list)}
<1>1. /\ list \in Seq(Dfn) /\ \A i, j \in 1 .. Len(list) : list[i] = list[j] => i = j
      /\ FrameEntry \in [owners -> DfnOr0]
      /\ \A o \in owners : \A i \in 1 .. Len(list) : list[i] # FrameEntry[o]
      /\ \A o, q \in owners : FrameEntry[o] = FrameEntry[q] /\ FrameEntry[o] # 0 => o = q
      /\ \A d \in Dfn : (\E i \in 1 .. Len(list) : list[i] = d) \/ (\E o \in owners : FrameEntry[o] = d)
  BY DEF FileInv, Owned
<1>2. \A e \in FileEnvs : /\ Cardinality(FramesHad(e)) = Cardinality(PagesHad(e)) + Cardinality(TablesHad(e))
                          /\ FramesHad(e) \in SUBSET Dfn
  BY FramesCounted
<1>3. ASSUME NEW e \in FileEnvs PROVE spent[e] = Cardinality(F[e]) /\ spent[e] \in Nat
  <2>1. pf_calculate_allocated_pages(e) = Cardinality(PagesHad(e))
    <3>1. \A p \in FilePages :
            disk_table[e][p] # 0 => disk_dir[e] # NoDir /\ disk_PDX(p) \in disk_dir[e]
      BY DEF FileInv, TablesAccounted
    <3>2. CASE disk_dir[e] = NoDir
      <4>1. PagesHad(e) = {}
        BY <3>1, <3>2 DEF PagesHad
      <4> QED BY <3>2, <4>1, FS_EmptySet DEF pf_calculate_allocated_pages
    <3>3. CASE disk_dir[e] # NoDir
      <4>1. PagesHad(e) = {p \in FilePages : disk_PDX(p) \in disk_dir[e] /\ disk_table[e][p] # 0}
        BY <3>1 DEF PagesHad
      <4> QED BY <3>3, <4>1 DEF pf_calculate_allocated_pages
    <3> QED BY <3>2, <3>3
  <2>2. spent[e] = Cardinality(PagesHad(e)) + Cardinality(TablesHad(e))
    BY <2>1 DEF TablesHad
  <2>3. IsFiniteSet(FramesHad(e))
    BY <1>2, FilesFinite, FS_Subset
  <2> QED BY <1>2, <2>2, <2>3, FS_CardinalityType
<1>4. F \in [FileEnvs -> SUBSET Dfn] /\ spent \in [FileEnvs -> Nat]
  BY <1>2, <1>3
<1>5. \A x, y \in FileEnvs : x # y => F[x] \cap F[y] = {}
  <2> SUFFICES ASSUME NEW x \in FileEnvs, NEW y \in FileEnvs, x # y,
                      NEW d \in FramesHad(x), d \in FramesHad(y)
               PROVE  FALSE
    OBVIOUS
  <2>1. PICK o \in owners : o[1] = x /\ FrameEntry[o] # 0 /\ d = FrameEntry[o]
    BY DEF FramesHad
  <2>2. PICK q \in owners : q[1] = y /\ d = FrameEntry[q]
    BY DEF FramesHad
  <2> QED BY <1>1, <2>1, <2>2
<1>6. SumFunction(spent) = Cardinality(All)
  <2>1. \A e \in FileEnvs : spent[e] = Cardinality(F[e])
    BY <1>3
  <2>2. IsFiniteSet(FileEnvs) /\ IsFiniteSet(Dfn)
    BY FilesFinite
  <2> HIDE DEF spent, F
  <2> QED BY <1>4, <1>5, <2>1, <2>2, SumOfSizes
<1>7. IsFiniteSet(Free) /\ Cardinality(Free) = Len(list) /\ Free \subseteq Dfn
  <2>1. Len(list) \in Nat /\ DOMAIN list = 1 .. Len(list) /\ \A i \in 1 .. Len(list) : list[i] \in Dfn
    BY <1>1
  <2>2. IsFiniteSet(1 .. Len(list)) /\ Cardinality(1 .. Len(list)) = Len(list)
    <3> DEFINE n == Len(list)
    <3>1. n \in Nat
      BY <2>1
    <3> HIDE DEF n
    <3>2. IsFiniteSet(1 .. n) /\ Cardinality(1 .. n) = IF 1 > n THEN 0 ELSE n - 1 + 1
      BY <3>1, FS_Interval
    <3>3. Cardinality(1 .. n) = n
      BY <3>1, <3>2
    <3> QED BY <3>2, <3>3 DEF n
  <2> HIDE DEF list
  <2>3. IsFiniteSet(Free) /\ Cardinality(Free) = Cardinality(1 .. Len(list))
    BY <1>1, <2>1, <2>2, SameSize
  <2> QED BY <2>1, <2>2, <2>3
<1>8. All \subseteq Dfn
  BY <1>4
<1>9. Free \cap All = {}
  <2> SUFFICES ASSUME NEW i \in 1 .. Len(list), NEW e \in FileEnvs, list[i] \in FramesHad(e)
               PROVE  FALSE
    OBVIOUS
  <2>1. PICK o \in owners : list[i] = FrameEntry[o]
    BY DEF FramesHad
  <2> QED BY <1>1, <2>1
<1>10. Free \cup All = Dfn
  <2> SUFFICES ASSUME NEW d \in Dfn PROVE d \in Free \cup All
    BY <1>7, <1>8
  <2>1. CASE \E i \in 1 .. Len(list) : list[i] = d
    BY <2>1
  <2>2. CASE \E o \in owners : FrameEntry[o] = d
    <3>1. PICK o \in owners : FrameEntry[o] = d
      BY <2>2
    <3>2. o[1] \in FileEnvs /\ d # 0
      BY Owners, FileSizes
    <3>3. d \in FramesHad(o[1])
      BY <3>1, <3>2 DEF FramesHad
    <3>4. d \in F[o[1]]
      BY <3>2, <3>3
    <3> HIDE DEF F
    <3> QED BY <3>2, <3>4
  <2> QED BY <1>1, <2>1, <2>2
<1>11. Cardinality(Dfn) = Len(list) + Cardinality(All)
  <2> HIDE DEF All, Free
  <2>1. IsFiniteSet(All)
    BY <1>8, FilesFinite, FS_Subset
  <2>2. Cardinality(Free \cup All) = Cardinality(Free) + Cardinality(All) - Cardinality(Free \cap All)
    BY <1>7, <2>1, FS_Union
  <2>3. /\ Cardinality(Free) \in Nat /\ Cardinality(All) \in Nat
        /\ Cardinality(Free \cap All) = 0
    BY <1>7, <1>9, <2>1, FS_EmptySet, FS_CardinalityType
  <2>4. Cardinality(Free \cup All) = Cardinality(Free) + Cardinality(All)
    BY <2>2, <2>3
  <2>5. Cardinality(Dfn) = Cardinality(Free) + Cardinality(All)
    BY <1>10, <2>4
  <2> QED BY <1>7, <2>5
<1> HIDE DEF All, F
<1> QED BY <1>6, <1>11 DEF CountsMatchFile, pf_calculate_free_frames
-----------------------------------------------------------------------------
THEOREM FileInvHolds == FileSpec => []FileInv
<1>1. PageFileInit => FileInv
  BY FileInit
<1>2. FileInv /\ [PageFileNext]_pageFile => FileInv'
  BY FileStep
<1> QED BY <1>1, <1>2, PTL DEF FileSpec

(***************************************************************************)
(* A page that is read from the file is the page that was written to it,   *)
(* whatever pf_add_env_page(), pf_update_env_page(), pf_free_env() and the *)
(* table functions did for it and for others since.                        *)
(***************************************************************************)
THEOREM PageFileKeepsPages == FileSpec => []FileKeepsPages
<1>1. FileInv => FileKeepsPages
  BY PagesAreKept
<1> QED BY <1>1, FileInvHolds, PTL

(***************************************************************************)
(* allocate_disk_frame() and free_disk_frame() lose no frame of the disk   *)
(* and hand none out twice, what pf_calculate_free_frames() and            *)
(* pf_calculate_allocated_pages() report adds up, and pf_free_env() gives  *)
(* back every page of the kernel heap, also after calls that failed.       *)
(***************************************************************************)
THEOREM PageFileLosesNothing == FileSpec => []FileAccounted
<1>1. FileInv => FileAccounted
  <2> SUFFICES ASSUME FileInv PROVE FileAccounted
    OBVIOUS
  <2>1. DiskFramesOwnedOnce
    BY OwnedOnce
  <2>2. CountsMatchFile
    BY FileCounted
  <2> QED BY <2>1, <2>2 DEF FileAccounted, FileInv
<1> QED BY <1>1, FileInvHolds, PTL
=============================================================================
