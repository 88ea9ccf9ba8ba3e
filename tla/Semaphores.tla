----------------------------- MODULE Semaphores -----------------------------
(***************************************************************************)
(* The semaphores of kern/conc/semaphore_manager.c, composed with the      *)
(* scheduler.  An environment that waits leaves the scheduler's queues for *)
(* the queue of the semaphore, and comes back when another one signals.    *)
(***************************************************************************)
EXTENDS Scheduler

CONSTANTS Name,            \* semaphore names
          MAX_SEMAPHORES,  \* length of the semaphores[] array
          MaxValue         \* largest value of a semaphore (2^31 - 1 in C)

ASSUME SemaphoreAssumption ==
  /\ MAX_SEMAPHORES \in Nat
  /\ MaxValue \in Nat

VARIABLE semaphores        \* the array, one record per slot

vars == <<env_status, env_new_queue, env_ready_queue, env_exit_queue, curenv,
          scheduler_status, if_cleared, lost, semaphores>>

(***************************************************************************)
(* get_semaphore_object_ID() returns this for a name that does not exist,  *)
(* and waitSemaphore() and signalSemaphore() use it as an index: they work *)
(* on the memory 13 records before the array.  kmalloc() puts the array    *)
(* right behind shares[], and the words that serve as value and env_queue  *)
(* are bytes of the name of the unused shares[84], all zero: the index     *)
(* behaves as one more semaphore, of value 0, shared by all missing names. *)
(***************************************************************************)
E_SEMAPHORE_NOT_EXISTS == -13

Slot == 0 .. MAX_SEMAPHORES - 1
Index == Slot \cup {E_SEMAPHORE_NOT_EXISTS}

Semaphore == [empty : BOOLEAN, ownerID : Env \cup {NULL}, name : Name \cup {NULL},
              value : Int, env_queue : Seq(Env)]

(***************************************************************************)
(* create_semaphores_array().                                              *)
(***************************************************************************)
EmptySemaphore == [empty |-> TRUE, ownerID |-> NULL, name |-> NULL,
                   value |-> 0, env_queue |-> <<>>]

TypeOK ==
  /\ SchedTypeOK
  /\ semaphores \in [Index -> Semaphore]

Init ==
  /\ SchedInit
  /\ semaphores = [s \in Index |-> EmptySemaphore]

(***************************************************************************)
(* get_semaphore_object_ID(): the first slot in use with owner and name.   *)
(***************************************************************************)
Matches(owner, name) ==
  {s \in Slot : /\ ~semaphores[s].empty
                /\ semaphores[s].ownerID = owner
                /\ semaphores[s].name = name}

get_semaphore_object_ID(owner, name) ==
  IF Matches(owner, name) = {}
  THEN E_SEMAPHORE_NOT_EXISTS
  ELSE CHOOSE s \in Matches(owner, name) :
         \A t \in Matches(owner, name) : s <= t

(***************************************************************************)
(* allocate_semaphore_object() finds the first empty slot.                 *)
(***************************************************************************)
IsFirstEmpty(s) ==
  /\ semaphores[s].empty
  /\ \A t \in Slot : t < s => ~semaphores[t].empty

(***************************************************************************)
(* sys_createSemaphore() -> createSemaphore().  The id of an existing      *)
(* semaphore is compared with E_SEMAPHORE_EXISTS, which                    *)
(* get_semaphore_object_ID() never returns, so that a name that is taken   *)
(* is created again in the next empty slot.                                *)
(***************************************************************************)
createSemaphore(name, initialValue) ==
  /\ curenv # NULL
  /\ \E s \in Slot :
       /\ IsFirstEmpty(s)
       /\ semaphores' = [semaphores EXCEPT ![s] =
            [empty |-> FALSE, ownerID |-> curenv, name |-> name,
             value |-> initialValue, env_queue |-> @.env_queue]]
  /\ UNCHANGED schedVars

(***************************************************************************)
(* createSemaphore() with every slot in use: krealloc() is not implemented *)
(* and panics, and the caller exits.                                       *)
(***************************************************************************)
createSemaphore_full ==
  /\ \A s \in Slot : ~semaphores[s].empty
  /\ sys_exit_env
  /\ UNCHANGED semaphores

(***************************************************************************)
(* The caller of waitSemaphore() blocks, and signalSemaphore() wakes, when *)
(* the new value says so.                                                  *)
(***************************************************************************)
MustBlock_late(value) == value < -1
MustBlock(value) == value < 0

MustWake_strict(value) == value < 0
MustWake(value) == value <= 0

(***************************************************************************)
(* sys_waitSemaphore() -> waitSemaphore().  The caller gives up the CPU in *)
(* either case: blocked, or to the back of the ready queue.                *)
(***************************************************************************)
waitSemaphore(owner, name) ==
  LET sem == get_semaphore_object_ID(owner, name)
      res == semaphores[sem].value - 1
  IN /\ curenv # NULL
     /\ \/ /\ MustBlock(res)
           /\ semaphores' = [semaphores EXCEPT ![sem].value = res,
                               ![sem].env_queue = enqueue(@, curenv)]
           /\ fos_scheduler(NULL, env_ready_queue,
                            [env_status EXCEPT ![curenv] = "BLOCKED"])
        \/ /\ ~MustBlock(res)
           /\ semaphores' = [semaphores EXCEPT ![sem].value = res]
           /\ fos_scheduler(curenv, env_ready_queue, env_status)
     /\ UNCHANGED <<env_new_queue, env_exit_queue, if_cleared, lost>>

(***************************************************************************)
(* sys_signalSemaphore() -> signalSemaphore(): the front waiter, if any,   *)
(* becomes ready; the caller keeps the CPU.                                *)
(***************************************************************************)
signalSemaphore(owner, name) ==
  LET sem == get_semaphore_object_ID(owner, name)
      res == semaphores[sem].value + 1
      queue == semaphores[sem].env_queue
  IN /\ curenv # NULL
     /\ res <= MaxValue
     /\ \/ /\ MustWake(res)
           /\ semaphores' = [semaphores EXCEPT ![sem].value = res,
                               ![sem].env_queue = dequeue(@)]
           /\ env_status' = [env_status EXCEPT ![dequeued(queue)] = "READY"]
           /\ env_ready_queue' = enqueue(env_ready_queue, dequeued(queue))
        \/ /\ ~MustWake(res)
           /\ semaphores' = [semaphores EXCEPT ![sem].value = res]
           /\ UNCHANGED <<env_status, env_ready_queue>>
     /\ UNCHANGED <<env_new_queue, env_exit_queue, curenv, scheduler_status,
                    if_cleared, lost>>

(***************************************************************************)
(* sys_getSemaphoreValue() of a name that does not exist: its assert       *)
(* panics and the caller exits.  Otherwise it only reads.                  *)
(***************************************************************************)
sys_getSemaphoreValue(owner, name) ==
  /\ get_semaphore_object_ID(owner, name) = E_SEMAPHORE_NOT_EXISTS
  /\ sys_exit_env
  /\ UNCHANGED semaphores

Next ==
  \/ SchedNext /\ UNCHANGED semaphores
  \/ \E name \in Name, v \in 0 .. MaxValue : createSemaphore(name, v)
  \/ createSemaphore_full
  \/ \E owner \in Env, name \in Name :
       \/ waitSemaphore(owner, name)
       \/ signalSemaphore(owner, name)
       \/ sys_getSemaphoreValue(owner, name)

Spec == Init /\ [][Next]_vars
-----------------------------------------------------------------------------
(***************************************************************************)
(* The places where the kernel keeps an environment.                       *)
(***************************************************************************)
Waiters == {e \in Env : \E s \in Index : in_queue(semaphores[s].env_queue, e)}

Places == <<{curenv} \ {NULL}, ToSet(env_new_queue), ToSet(env_ready_queue),
            ToSet(env_exit_queue), Waiters, lost>>

(***************************************************************************)
(* Every environment that was created is in exactly one place: on the CPU, *)
(* in the NEW, READY or EXIT queue, in the queue of one semaphore, or lost *)
(* to a kernel panic; no queue holds it twice.  The LIST links live in     *)
(* struct Env itself, so an environment that entered a second queue would  *)
(* corrupt the first one.                                                  *)
(***************************************************************************)
InOnePlace ==
  /\ NoDuplicates(env_new_queue)
  /\ NoDuplicates(env_ready_queue)
  /\ NoDuplicates(env_exit_queue)
  /\ \A s \in Index : NoDuplicates(semaphores[s].env_queue)
  /\ \A s, t \in Index : s # t =>
       ToSet(semaphores[s].env_queue) \cap ToSet(semaphores[t].env_queue) = {}
  /\ \A i, j \in 1 .. 6 : i # j => Places[i] \cap Places[j] = {}
  /\ \A e \in Env : env_status[e] # "FREE" <=> \E i \in 1 .. 6 : e \in Places[i]

(***************************************************************************)
(* The status of an environment says where it is: trap() asserts that the  *)
(* current one is RUNNABLE, _panic() exits it only when it is, and         *)
(* envid2env() trusts FREE.  A blocked environment is queued at a          *)
(* semaphore and nowhere else, or no signal could ever wake it.            *)
(***************************************************************************)
StatusTellsPlace ==
  /\ curenv # NULL => env_status[curenv] = "RUNNABLE"
  /\ \A e \in Env :
       /\ in_queue(env_new_queue, e) => env_status[e] = "NEW"
       /\ in_queue(env_ready_queue, e) => env_status[e] \in {"READY", "RUNNABLE"}
       /\ env_status[e] = "EXIT" <=> in_queue(env_exit_queue, e)
       /\ env_status[e] = "BLOCKED" <=> e \in Waiters

(***************************************************************************)
(* A negative value counts the waiting environments and a value that is    *)
(* not negative means that none waits: no wake-up is lost, and             *)
(* signalSemaphore() never dequeues from an empty queue (it would write    *)
(* through the NULL that dequeue() returns).                               *)
(***************************************************************************)
ValueCountsWaiters ==
  \A s \in Index :
    Len(semaphores[s].env_queue) = IF semaphores[s].value < 0
                                   THEN -semaphores[s].value ELSE 0

(***************************************************************************)
(* The kernel sits at its prompt exactly when no environment runs, and     *)
(* then none is ready either: sched_init_RR() may drop the ready queue     *)
(* there, and the CPU never idles beside a ready environment.              *)
(***************************************************************************)
PromptIsIdle ==
  /\ scheduler_status = "SCH_STOPPED" <=> curenv = NULL
  /\ curenv = NULL => env_ready_queue = <<>>

(***************************************************************************)
(* The semaphore array seen by the programs: the value counts permits when *)
(* it is positive, and the line is the queue from its last element.  The   *)
(* phantom semaphore exists from the start.                                *)
(***************************************************************************)
Abstract == INSTANCE CountingSemaphore
  WITH Process <- Env, Sem <- Index, Permits <- 0 .. MaxValue,
       exists <- {s \in Slot : ~semaphores[s].empty} \cup {E_SEMAPHORE_NOT_EXISTS},
       available <- [s \in Index |-> IF semaphores[s].value > 0
                                     THEN semaphores[s].value ELSE 0],
       waiting <- [s \in Index |-> Reverse(semaphores[s].env_queue)]

(***************************************************************************)
(* semaphore_manager.c together with the scheduler implements the counting *)
(* semaphore: a permit is never handed over twice or to somebody who came  *)
(* later, whatever else exits, is killed or is preempted meanwhile.        *)
(***************************************************************************)
ImplementsCountingSemaphore == Abstract!Spec
-----------------------------------------------------------------------------
(***************************************************************************)
(* No two semaphores in use have the same owner and the same name.         *)
(***************************************************************************)
UniqueSemaphores ==
  \A s, t \in Slot :
    /\ ~semaphores[s].empty /\ ~semaphores[t].empty
    /\ semaphores[s].ownerID = semaphores[t].ownerID
    /\ semaphores[s].name = semaphores[t].name
    => s = t

(***************************************************************************)
(* The timer interrupts again and again, and the interrupt controller      *)
(* keeps the request while FL_IF is cleared, so that it is taken when the  *)
(* flag is set at last: strong fairness.  An environment that cleared the  *)
(* flag sets it again or exits: user code clears it only around a few      *)
(* instructions (libmain(), printf(), readline(), getchar(), the sorters). *)
(***************************************************************************)
Fairness ==
  /\ SF_vars(clock_interrupt_handler /\ UNCHANGED semaphores)
  /\ WF_vars(/\ curenv \in if_cleared
             /\ sys_enable_interrupt \/ sys_exit_env
             /\ UNCHANGED semaphores)

FairSpec == Spec /\ Fairness

(***************************************************************************)
(* Round robin starves nobody: a ready environment gets the CPU, unless it *)
(* is killed first.  Environments that arrive, are woken or are preempted  *)
(* meanwhile queue up behind it.                                           *)
(***************************************************************************)
ReadyEventuallyRuns ==
  \A e \in Env : in_queue(env_ready_queue, e) ~> ~in_queue(env_ready_queue, e)
=============================================================================
