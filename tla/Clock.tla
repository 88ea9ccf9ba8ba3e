-------------------------------- MODULE Clock --------------------------------
(***************************************************************************)
(* The clock of kern/cpu/kclock.c and the interrupt controller of          *)
(* kern/cpu/picirq.c under the traps of kern/trap/trap.c: trap() stops the *)
(* timer, env_run() resumes it with the count that was left, and the       *)
(* scheduler gives the next environment a whole quantum.                   *)
(*                                                                         *)
(* The 8254 is external: a control word stops counter 0, which keeps its   *)
(* value until a count is written, and at the end of a count it raises     *)
(* IRQ 0 and starts again.  Times are in its ticks.                        *)
(***************************************************************************)
EXTENDS Integers, FiniteSets

CONSTANTS
  TIMER_FREQ,    \* ticks in a second
  Quantums,      \* the arguments of schedRR
  Remaining,     \* the counts at which user code is looked at
  MaxTraps       \* bound on the traps of a quantum

ASSUME ClockAssumption ==
  /\ TIMER_FREQ \in Nat \ {0} /\ Quantums \subseteq Nat
  /\ Remaining \subseteq Nat /\ MaxTraps \in Nat

VARIABLES
  irq_mask_8259A,   \* the masked interrupt lines
  didinit,          \* pic_init() has run
  timer,            \* [counting, load, cnt]: counter 0 and the count it starts from
  quantum,          \* quantums[0], or NoQuantum
  cpu,              \* "kernel", "user", or "panic"
  interrupts,       \* FL_IF of the running environment
  irq0,             \* the timer has raised IRQ 0
  used, traps       \* ticks of user code and traps since the quantum was set

clock == <<irq_mask_8259A, didinit, timer, quantum, cpu, interrupts, irq0, used, traps>>

NoQuantum == -1
IRQ == 0 .. 15
IRQ_SLAVE == 2

(***************************************************************************)
(* A quantum in ms as a count.  QUANTUM_LIMIT is the largest number of ms  *)
(* for which 1000 / q interrupts a second were thought to fit 16 bits.     *)
(***************************************************************************)
TIMER_DIV(x) == (TIMER_FREQ + x \div 2) \div x
QUANTUM_LIMIT == (1000 * 2^16) \div TIMER_FREQ
IS_VALID_QUANTUM(q) == q < QUANTUM_LIMIT
even(n) == n + (n % 2)

(***************************************************************************)
(* kclock_write_cnt0_LSB_first() writes 16 bits; the timer takes 0 for     *)
(* 2^16.                                                                   *)
(***************************************************************************)
sixteen_bits(n) == IF n % 2^16 = 0 THEN 2^16 ELSE n % 2^16
write_cnt0(n, go) == timer' = [counting |-> go, load |-> sixteen_bits(n), cnt |-> sixteen_bits(n)]
count_of(q) == even(TIMER_DIV(1000 \div q))

irq_setmask_8259A(mask) == irq_mask_8259A' = mask

(***************************************************************************)
(* Before pic_init() nothing is masked in the controller; irq_mask_8259A   *)
(* has only the slave's line open.                                         *)
(***************************************************************************)
ClockInit ==
  /\ irq_mask_8259A = IRQ \ {IRQ_SLAVE}
  /\ didinit = FALSE
  /\ timer = [counting |-> FALSE, load |-> 0, cnt |-> 0]
  /\ quantum = NoQuantum
  /\ cpu = "kernel"
  /\ interrupts = TRUE
  /\ irq0 = FALSE
  /\ used = 0 /\ traps = 0

pic_init ==
  /\ ~didinit
  /\ didinit' = TRUE
  /\ irq_setmask_8259A(irq_mask_8259A)
  /\ UNCHANGED <<timer, quantum, cpu, interrupts, irq0, used, traps>>

(***************************************************************************)
(* kclock_set_quantum() loads the count and then masks everything.         *)
(***************************************************************************)
set_quantum(q) ==
  /\ write_cnt0(count_of(q), FALSE)
  /\ irq_setmask_8259A(IRQ)
  /\ used' = 0 /\ traps' = 0

(***************************************************************************)
(* The prompt's schedRR: the argument goes into a uint8, and 0 is divided  *)
(* by.  sched_init() is the first call.                                    *)
(***************************************************************************)
sched_init_RR(n) ==
  /\ cpu = "kernel" /\ didinit
  /\ LET q == n % 256
     IN IF q # 0 /\ IS_VALID_QUANTUM(q)
        THEN quantum' = q /\ set_quantum(q) /\ UNCHANGED <<cpu, irq0>>
        ELSE /\ cpu' = "panic" /\ quantum' = q
             /\ UNCHANGED <<irq_mask_8259A, timer, irq0, used, traps>>
  /\ UNCHANGED <<didinit, interrupts>>

(***************************************************************************)
(* The end of env_run(): kclock_resume().  A count that is nearly over is  *)
(* stretched, so that the interrupt does not come before the return.       *)
(***************************************************************************)
stretched_whole(cnt) == IF cnt < 20 THEN 20 ELSE count_of(quantum)
stretched(cnt) == even(IF cnt < 20 THEN 20 ELSE cnt)

open_timer(mask) == mask \ {0}

env_run ==
  /\ cpu = "kernel" /\ quantum # NoQuantum
  /\ cpu' = "user"
  /\ write_cnt0(stretched(timer.cnt), TRUE)
  /\ irq_setmask_8259A(open_timer(irq_mask_8259A))
  /\ UNCHANGED <<didinit, quantum, interrupts, irq0, used, traps>>

(***************************************************************************)
(* User code runs until some ticks are left, or none: then IRQ 0 is        *)
(* raised and the count starts again.                                      *)
(***************************************************************************)
run(left) ==
  /\ cpu = "user" /\ timer.counting /\ ~irq0 /\ left < timer.cnt
  /\ timer' = [timer EXCEPT !.cnt = IF left = 0 THEN timer.load ELSE left]
  /\ used' = used + timer.cnt - left
  /\ irq0' = (left = 0)
  /\ UNCHANGED <<irq_mask_8259A, didinit, quantum, cpu, interrupts, traps>>

(***************************************************************************)
(* trap() begins with kclock_stop(): the control word and all lines        *)
(* masked.  A system call or a fault returns to the environment, or ends   *)
(* in the scheduler.                                                       *)
(***************************************************************************)
kclock_stop ==
  /\ timer' = [timer EXCEPT !.counting = FALSE]
  /\ irq_setmask_8259A(IRQ)

trap ==
  /\ cpu = "user" /\ traps < MaxTraps
  /\ cpu' = "kernel"
  /\ kclock_stop
  /\ traps' = traps + 1
  /\ UNCHANGED <<didinit, quantum, interrupts, irq0, used>>

reschedule ==
  /\ cpu = "kernel" /\ quantum # NoQuantum /\ traps > 0
  /\ set_quantum(quantum)
  /\ interrupts' \in BOOLEAN      \* of the next environment
  /\ UNCHANGED <<didinit, quantum, cpu, irq0>>

(***************************************************************************)
(* sys_disable_interrupt() and sys_enable_interrupt().                     *)
(***************************************************************************)
set_interrupts(on) ==
  /\ cpu = "kernel" /\ traps > 0
  /\ interrupts' = on
  /\ UNCHANGED <<irq_mask_8259A, didinit, timer, quantum, cpu, irq0, used, traps>>

(***************************************************************************)
(* The clock interrupt: trap() and clock_interrupt_handler(), which calls  *)
(* the scheduler.                                                          *)
(***************************************************************************)
clock_interrupt ==
  /\ cpu = "user" /\ irq0 /\ interrupts /\ 0 \notin irq_mask_8259A
  /\ cpu' = "kernel" /\ irq0' = FALSE
  /\ set_quantum(quantum)
  /\ interrupts' \in BOOLEAN
  /\ UNCHANGED <<didinit, quantum>>

ClockNext ==
  \/ pic_init \/ env_run \/ trap \/ reschedule \/ clock_interrupt
  \/ \E n \in Quantums : sched_init_RR(n)
  \/ \E left \in Remaining : run(left)
  \/ \E on \in BOOLEAN : set_interrupts(on)
-----------------------------------------------------------------------------
ClockTypeOK ==
  /\ irq_mask_8259A \subseteq IRQ /\ didinit \in BOOLEAN
  /\ timer \in [counting : BOOLEAN, load : 0 .. 2^16, cnt : 0 .. 2^16]
  /\ quantum \in {NoQuantum} \cup 0 .. 255
  /\ cpu \in {"kernel", "user", "panic"} /\ interrupts \in BOOLEAN /\ irq0 \in BOOLEAN
  /\ used \in Nat /\ traps \in 0 .. MaxTraps

(***************************************************************************)
(* The kernel is not interrupted and costs its caller nothing: whenever it *)
(* runs after pic_init() the timer's line is masked and its counter stands *)
(* still. So over all its system calls and faults an environment gets the  *)
(* whole of its quantum, and at most 20 ticks more for each of them.       *)
(***************************************************************************)
QuantumAccounted ==
  LET whole == sixteen_bits(count_of(quantum))
  IN /\ cpu = "kernel" /\ didinit => 0 \in irq_mask_8259A /\ ~timer.counting
     /\ cpu \in {"kernel", "user"} /\ quantum # NoQuantum /\ ~irq0 =>
          whole <= used + timer.cnt /\ used + timer.cnt <= whole + 20 * (traps + 1)

(***************************************************************************)
(* "Quantum should be between 1 ms and %d ms" (QUANTUM_LIMIT - 1): what    *)
(* passes the check of kclock_set_quantum() gives a slice of that length   *)
(* at least.                                                               *)
(***************************************************************************)
QuantumAsAsked ==
  cpu # "panic" /\ quantum # NoQuantum /\ used = 0 =>
    (timer.cnt + 1) * 1000 >= quantum * TIMER_FREQ
==============================================================================
