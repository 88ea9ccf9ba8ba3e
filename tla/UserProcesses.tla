--------------------------- MODULE UserProcesses ---------------------------
(***************************************************************************)
(* User programs that run at the same time, on what the kernel promises    *)
(* them: the semaphores are those of CountingSemaphore, which Semaphores   *)
(* is shown to implement, and a ready process may be given the processor   *)
(* between any two accesses to shared memory.  A program is a label per    *)
(* process (pc), its local variables (local) and the integers and arrays   *)
(* it shares through smalloc() and sget() (shared).                        *)
(***************************************************************************)
EXTENDS CountingSemaphore, Integers, FiniteSets, SequencesExt

VARIABLES program,    \* the one that runs
          pc, local, shared

semaphores == <<exists, available, waiting>>
uvars == <<program, pc, local, shared, exists, available, waiting>>

(***************************************************************************)
(* The master has created its semaphores with the given values.            *)
(***************************************************************************)
SemaphoresAre(values) ==
  /\ exists = DOMAIN values
  /\ available = [s \in Sem |-> IF s \in DOMAIN values THEN values[s] ELSE 0]
  /\ waiting = [s \in Sem |-> <<>>]

Blocked(p) == \E s \in Sem : p \in Range(waiting[s])

(***************************************************************************)
(* sys_getSemaphoreValue(): negative when processes wait.                  *)
(***************************************************************************)
value(s) == available[s] - Len(waiting[s])

At(p, label) == pc[p] = label /\ ~Blocked(p)
Goto(p, label) == pc' = [pc EXCEPT ![p] = label]

(***************************************************************************)
(* A system call on a semaphore, and an instruction on the memory.         *)
(***************************************************************************)
wait(p, label, s, next) ==
  /\ At(p, label)
  /\ Acquire(s) \/ Queue(s, p)
  /\ Goto(p, next)
  /\ UNCHANGED <<program, local, shared>>

signal(p, label, s, next) ==
  /\ At(p, label)
  /\ Release(s) \/ HandOver(s)
  /\ Goto(p, next)
  /\ UNCHANGED <<program, local, shared>>

step(p, label, next) ==
  /\ At(p, label)
  /\ Goto(p, next)
  /\ UNCHANGED <<program, semaphores>>

(***************************************************************************)
(* x++ on a shared integer is a load and a store in the build (-O0): the   *)
(* process may lose the processor between the two.                         *)
(***************************************************************************)
load(p, label, x, next) ==
  /\ step(p, label, next)
  /\ local' = [local EXCEPT ![p].reg = shared[x]]
  /\ UNCHANGED shared

store_incremented(p, label, x, next) ==
  /\ step(p, label, next)
  /\ shared' = [shared EXCEPT ![x] = local[p].reg + 1]
  /\ UNCHANGED local
============================================================================
