-------------------------- MODULE SemaphorePrograms --------------------------
(***************************************************************************)
(* The programs user/tst_semaphore_2master.c and tst_semaphore_2slave.c on *)
(* top of the kernel: the master creates a semaphore with the capacity of  *)
(* a shop and one to wait on, starts the customers and waits for each; a   *)
(* customer enters the shop, leaves it and signals the master.  With       *)
(* capacity 1 the customers run the critical section of                    *)
(* tst_semaphore_1slave.c.  The clock interrupts anywhere.                 *)
(***************************************************************************)
EXTENDS Semaphores, FiniteSets

CONSTANTS master, shopCapacity, shop, depend

ASSUME ProgramAssumption ==
  /\ IsFiniteSet(Env)
  /\ master \in Env
  /\ shopCapacity \in 0 .. MaxValue
  /\ shop \in Name /\ depend \in Name /\ shop # depend

VARIABLES pc,      \* the next system call of every environment
          served   \* the loop counter i of the master

pvars == <<vars, pc, served>>

Customers == Env \ {master}
totalNumOfCusts == Cardinality(Customers)

ProgramInit ==
  /\ Init
  /\ pc = [e \in Env |-> IF e = master THEN "create_shop" ELSE "enter"]
  /\ served = 0

(***************************************************************************)
(* The current environment is at the given call; then it is at the next.   *)
(***************************************************************************)
AtOneOf(labels) == curenv # NULL /\ pc[curenv] \in labels

At(label) == AtOneOf({label})

Goto(label) == pc' = [pc EXCEPT ![curenv] = label]

(***************************************************************************)
(* "run tst_semaphore_2master" at the prompt.                              *)
(***************************************************************************)
run_master ==
  /\ command_run_program(master)
  /\ UNCHANGED <<semaphores, pc, served>>

create_semaphores ==
  /\ \/ At("create_shop") /\ createSemaphore(shop, shopCapacity) /\ Goto("create_depend")
     \/ At("create_depend") /\ createSemaphore(depend, 0) /\ Goto("create_customer")
  /\ UNCHANGED served

create_customer ==
  /\ At("create_customer")
  /\ \E e \in Customers : sys_create_env(e)
  /\ Goto("run_customer")
  /\ UNCHANGED <<semaphores, served>>

run_customer ==
  /\ At("run_customer")
  /\ \E e \in Customers : sys_run_env(e)
  /\ \/ served + 1 < totalNumOfCusts /\ served' = served + 1 /\ Goto("create_customer")
     \/ served + 1 = totalNumOfCusts /\ served' = 0 /\ Goto("wait_customer")
  /\ UNCHANGED semaphores

(***************************************************************************)
(* waitSemaphore() moves the program on at once: the caller executes its   *)
(* next instruction when the scheduler runs it again.                      *)
(***************************************************************************)
wait_customer_one_short ==
  /\ At("wait_customer")
  /\ waitSemaphore(master, depend)
  /\ \/ served + 2 < totalNumOfCusts /\ served' = served + 1 /\ UNCHANGED pc
     \/ served + 2 = totalNumOfCusts /\ served' = 0 /\ Goto("check")

wait_customer ==
  /\ At("wait_customer")
  /\ waitSemaphore(master, depend)
  /\ \/ served + 1 < totalNumOfCusts /\ served' = served + 1 /\ UNCHANGED pc
     \/ served + 1 = totalNumOfCusts /\ served' = 0 /\ Goto("check")

enter_shop ==
  /\ At("enter")
  /\ waitSemaphore(master, shop)
  /\ Goto("inside")
  /\ UNCHANGED served

leave_shop ==
  /\ At("inside")
  /\ signalSemaphore(master, shop)
  /\ Goto("outside")
  /\ UNCHANGED served

signal_master ==
  /\ At("outside")
  /\ signalSemaphore(master, depend)
  /\ Goto("return")
  /\ UNCHANGED served

(***************************************************************************)
(* The master reads both values and reports success or an error.           *)
(***************************************************************************)
value_of(name) == semaphores[get_semaphore_object_ID(master, name)].value

check_values ==
  /\ At("check")
  /\ Goto(IF value_of(depend) = 0 /\ value_of(shop) = shopCapacity
          THEN "return" ELSE "error")
  /\ UNCHANGED <<vars, served>>

(***************************************************************************)
(* Back in libmain(): the statistics are printed with interrupts disabled, *)
(* then the program exits.                                                 *)
(***************************************************************************)
libmain ==
  /\ \/ AtOneOf({"return", "error"}) /\ sys_disable_interrupt /\ Goto("statistics")
     \/ At("statistics") /\ sys_enable_interrupt /\ Goto("exit")
     \/ At("exit") /\ sys_exit_env /\ Goto("done")
  /\ UNCHANGED <<semaphores, served>>

clock ==
  /\ clock_interrupt_handler
  /\ UNCHANGED <<semaphores, pc, served>>

(***************************************************************************)
(* Every environment finished and the kernel is back at its prompt.        *)
(***************************************************************************)
AllDone == AtPrompt /\ \A e \in Env : pc[e] = "done"

Stop == AllDone /\ UNCHANGED pvars

Program ==
  \/ create_semaphores \/ create_customer \/ run_customer \/ wait_customer
  \/ enter_shop \/ leave_shop \/ signal_master \/ check_values \/ libmain

ProgramNext == run_master \/ Program \/ clock \/ Stop

(***************************************************************************)
(* The CPU executes the current program between two clock interrupts.      *)
(***************************************************************************)
ProgramSpec ==
  /\ ProgramInit /\ [][ProgramNext]_pvars
  /\ WF_pvars(run_master) /\ WF_pvars(Program)
-----------------------------------------------------------------------------
(***************************************************************************)
(* Never more customers in the shop than it holds: those past              *)
(* waitSemaphore() that are not blocked in it, however the clock and the   *)
(* hand-over of a permit interleave.                                       *)
(***************************************************************************)
CapacityRespected ==
  Cardinality({e \in Customers : pc[e] = "inside" /\ env_status[e] # "BLOCKED"})
    <= shopCapacity

(***************************************************************************)
(* The master passes its waits only after every customer has signalled,    *)
(* and the values that it reads then are the ones that it congratulates    *)
(* for.                                                                    *)
(***************************************************************************)
MasterWaitsForAll ==
  /\ pc[master] \in {"check", "return", "statistics", "exit", "done"}
       /\ env_status[master] # "BLOCKED"
     => \A e \in Customers : pc[e] \in {"return", "statistics", "exit", "done"}
  /\ pc[master] # "error"

(***************************************************************************)
(* The run ends: no customer stays blocked and the kernel is back at its   *)
(* prompt with every environment in the EXIT queue.                        *)
(***************************************************************************)
EverybodyExits == <>(AllDone /\ \A e \in Env : in_queue(env_exit_queue, e))
=============================================================================
