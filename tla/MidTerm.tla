------------------------------ MODULE MidTerm ------------------------------
(***************************************************************************)
(* user/MidTermEx_Master.c and its processes A (x2) and B (+1) on a shared *)
(* X, with or without the semaphore T that puts B behind A; and            *)
(* user/tst_semaphore_1master.c with the critical section of its slaves.   *)
(***************************************************************************)
EXTENDS UserProcesses

CONSTANTS midMaster, processA, processB,
          semMaster, Slaves

(***************************************************************************)
(* The master has answered the question and runs A first; both programs    *)
(* of this name, the one that asks (y or n) and ef_MidTermEx_Master.c (y). *)
(***************************************************************************)
MidTermInit ==
  /\ program = "midterm"
  /\ \E useSem \in {0, 1} :
       /\ SemaphoresAre([s \in IF useSem = 1 THEN {"T"} ELSE {} |-> 0])
       /\ shared = [X |-> 5, useSem |-> useSem, finishedCount |-> 0]
  /\ pc = [p \in {midMaster, processA, processB} |-> IF p = midMaster THEN "run A" ELSE "new"]
  /\ local = [p \in {midMaster, processA, processB} |-> [reg |-> 0]]

run_process(master, label, slave, next) ==
  /\ At(master, label)
  /\ pc' = [pc EXCEPT ![master] = next, ![slave] = "start"]
  /\ UNCHANGED <<program, local, shared, semaphores>>

(***************************************************************************)
(* ProcessA: Y = X * 2, X = Y, with a delay in between.                    *)
(***************************************************************************)
process_A ==
  \/ /\ step(processA, "start", "computed")
     /\ local' = [local EXCEPT ![processA].reg = shared.X * 2]
     /\ UNCHANGED shared
  \/ /\ step(processA, "computed", IF shared.useSem = 1 THEN "signal" ELSE "finish")
     /\ shared' = [shared EXCEPT !.X = local[processA].reg]
     /\ UNCHANGED local
  \/ signal(processA, "signal", "T", "finish")

(***************************************************************************)
(* ProcessB: waits for T if it is used, then Z = X + 1, X = Z.             *)
(***************************************************************************)
process_B ==
  \/ /\ shared.useSem = 1
     /\ wait(processB, "start", "T", "compute")
  \/ /\ step(processB, IF shared.useSem = 1 THEN "compute" ELSE "start", "computed")
     /\ local' = [local EXCEPT ![processB].reg = shared.X + 1]
     /\ UNCHANGED shared
  \/ /\ step(processB, "computed", "finish")
     /\ shared' = [shared EXCEPT !.X = local[processB].reg]
     /\ UNCHANGED local

(***************************************************************************)
(* finishedCount is incremented, and the loop of the master waits for it.  *)
(***************************************************************************)
declare_finishing(p) ==
  \/ load(p, "finish", "finishedCount", "counting")
  \/ store_incremented(p, "counting", "finishedCount", "done")

busy_wait(master, n, next) ==
  /\ shared.finishedCount = n
  /\ step(master, "busy-wait", next)
  /\ UNCHANGED <<local, shared>>

MidTermProcess(p) ==
  \/ p = midMaster /\ (\/ run_process(p, "run A", processA, "run B")
                       \/ run_process(p, "run B", processB, "busy-wait")
                       \/ busy_wait(p, 2, "print X"))
  \/ p = processA /\ process_A
  \/ p = processB /\ process_B
  \/ p \in {processA, processB} /\ declare_finishing(p)

(***************************************************************************)
(* The slaves of tst_semaphore_1master.c look at the value of cs1 inside   *)
(* their critical section, the master at both values after its waits.      *)
(***************************************************************************)
CriticalSectionInit ==
  /\ program = "sem1"
  /\ SemaphoresAre([s \in {"cs1", "depend1"} |-> IF s = "cs1" THEN 1 ELSE 0])
  /\ pc = [p \in {semMaster} \cup Slaves |-> IF p = semMaster THEN "wait 1" ELSE "start"]
  /\ local = [p \in {semMaster} \cup Slaves |-> [reg |-> 0]]
  /\ shared = [finishedCount |-> 0]

check_value(p, label, ok, next) ==
  /\ step(p, label, IF ok THEN next ELSE "panic")
  /\ UNCHANGED <<local, shared>>

critical_section(p) ==
  \/ wait(p, "start", "cs1", "inside")
  \/ check_value(p, "inside", value("cs1") <= 0, "sleep")
  \/ signal(p, "sleep", "cs1", "after")
  \/ signal(p, "after", "depend1", "done")

wait_for_slaves ==
  \/ wait(semMaster, "wait 1", "depend1", "wait 2")
  \/ wait(semMaster, "wait 2", "depend1", "wait 3")
  \/ wait(semMaster, "wait 3", "depend1", "check")
  \/ check_value(semMaster, "check", value("depend1") = 0 /\ value("cs1") = 1, "congratulations")

CriticalSectionProcess(p) ==
  \/ p \in Slaves /\ critical_section(p)
  \/ p = semMaster /\ wait_for_slaves
-----------------------------------------------------------------------------
(***************************************************************************)
(* What is printed: 11 with the semaphore; without it one of the values    *)
(* that the lost updates allow.  The master prints only when neither       *)
(* process will write X again.                                             *)
(***************************************************************************)
FinalValueOfX ==
  program = "midterm" /\ pc[midMaster] = "print X" =>
    /\ shared.X \in IF shared.useSem = 1 THEN {11} ELSE {6, 10, 11, 12}
    /\ pc[processA] = "done" /\ pc[processB] = "done"

(***************************************************************************)
(* Never two slaves inside, and neither a slave nor the master finds a     *)
(* value that is wrong.                                                    *)
(***************************************************************************)
CriticalSectionHolds ==
  program = "sem1" =>
    /\ Cardinality({p \in Slaves : pc[p] \in {"inside", "sleep"} /\ ~Blocked(p)}) <= 1
    /\ \A p \in DOMAIN pc : pc[p] # "panic"
============================================================================
