----------------------------- MODULE Scheduler -----------------------------
(***************************************************************************)
(* The process table and the round-robin scheduler of FOS: the queues of   *)
(* kern/cpu/sched.c, the life of an environment in                         *)
(* kern/proc/user_environment.c, what _panic() of kern/init.c does to the  *)
(* running environment, the system calls of kern/trap/syscall.c and the    *)
(* commands of kern/cmd/commands.c that create, run, exit and kill         *)
(* environments, and the clock interrupt.                                  *)
(*                                                                         *)
(* The kernel is not preemptible (every IDT entry is an interrupt gate and *)
(* trap() stops the clock), so one trap or one command of the prompt is    *)
(* one atomic step; the interleaving is that of user environments.         *)
(***************************************************************************)
EXTENDS EnvQueues

CONSTANTS Env,    \* the slots of envs[]
          NULL    \* no environment

ASSUME NullAssumption == NULL \notin Env

VARIABLES
  env_status,        \* env_status of every slot
  env_new_queue,     \* created, not yet run
  env_ready_queue,   \* env_ready_queues[0], the only one under RR
  env_exit_queue,    \* exited
  curenv,            \* the environment on the CPU, or NULL
  scheduler_status,  \* SCH_STARTED, or SCH_STOPPED at the command prompt
  if_cleared,        \* the environments whose tf_eflags has FL_IF cleared
  lost               \* history: dropped from every list by a kernel panic

schedVars == <<env_status, env_new_queue, env_ready_queue, env_exit_queue,
               curenv, scheduler_status, if_cleared, lost>>

Status == {"FREE", "READY", "RUNNABLE", "BLOCKED", "NEW", "EXIT", "UNKNOWN"}

SchedTypeOK ==
  /\ env_status \in [Env -> Status]
  /\ env_new_queue \in Seq(Env)
  /\ env_ready_queue \in Seq(Env)
  /\ env_exit_queue \in Seq(Env)
  /\ curenv \in Env \cup {NULL}
  /\ scheduler_status \in {"SCH_STOPPED", "SCH_STARTED"}
  /\ if_cleared \subseteq Env
  /\ lost \subseteq Env

(***************************************************************************)
(* env_init() and sched_init() at boot: every slot is free, every queue is *)
(* empty and the kernel is at its command prompt.                          *)
(***************************************************************************)
SchedInit ==
  /\ env_status = [e \in Env |-> "FREE"]
  /\ env_new_queue = <<>>
  /\ env_ready_queue = <<>>
  /\ env_exit_queue = <<>>
  /\ curenv = NULL
  /\ scheduler_status = "SCH_STOPPED"
  /\ if_cleared = {}
  /\ lost = {}

(***************************************************************************)
(* A command of the prompt runs only while no environment does: the prompt *)
(* is entered at boot and when fos_scheduler() finds no environment.       *)
(***************************************************************************)
AtPrompt == scheduler_status = "SCH_STOPPED"

(***************************************************************************)
(* env_run(): the environment goes on the CPU.                             *)
(***************************************************************************)
env_run_keeps_status(env, status) ==
  /\ curenv' = env
  /\ env_status' = status

env_run(env, status) ==
  /\ curenv' = env
  /\ env_status' = [status EXCEPT ![env] = "RUNNABLE"]

(***************************************************************************)
(* fos_scheduler() under RR, entered with the given curenv, ready queue    *)
(* and statuses: the current environment, if any, goes to the back of the  *)
(* ready queue (its status is not changed), the front one is run; with no  *)
(* environment left the kernel falls back to the command prompt.           *)
(***************************************************************************)
fos_scheduler_enqueues_null(cur, ready, status) ==
  LET queue == enqueue(ready, cur)
  IN /\ env_run(dequeued(queue), status)
     /\ env_ready_queue' = dequeue(queue)
     /\ scheduler_status' = "SCH_STARTED"

fos_scheduler_never_stops(cur, ready, status) ==
  LET queue == IF cur = NULL THEN ready ELSE enqueue(ready, cur)
  IN \/ /\ queue # <<>>
        /\ env_run(dequeued(queue), status)
        /\ env_ready_queue' = dequeue(queue)
        /\ scheduler_status' = "SCH_STARTED"
     \/ /\ queue = <<>>
        /\ curenv' = NULL
        /\ env_status' = status
        /\ UNCHANGED <<env_ready_queue, scheduler_status>>

fos_scheduler(cur, ready, status) ==
  LET queue == IF cur = NULL THEN ready ELSE enqueue(ready, cur)
  IN \/ /\ queue # <<>>
        /\ env_run(dequeued(queue), status)
        /\ env_ready_queue' = dequeue(queue)
        /\ scheduler_status' = "SCH_STARTED"
     \/ /\ queue = <<>>
        /\ curenv' = NULL
        /\ env_status' = status
        /\ env_ready_queue' = queue
        /\ scheduler_status' = "SCH_STOPPED"

(***************************************************************************)
(* env_exit(), entered with the given queues and statuses.  sched_exit_env *)
(* searches the NEW and the READY queue first: the current environment is  *)
(* in neither (InOnePlace), so it is found as curenv, put in the EXIT      *)
(* queue and the scheduler is invoked.                                     *)
(***************************************************************************)
env_exit_keeps_curenv(ready, exit, status) ==
  /\ env_exit_queue' = enqueue(exit, curenv)
  /\ fos_scheduler(curenv, ready, [status EXCEPT ![curenv] = "EXIT"])

env_exit(ready, exit, status) ==
  /\ env_exit_queue' = enqueue(exit, curenv)
  /\ fos_scheduler(NULL, ready, [status EXCEPT ![curenv] = "EXIT"])

(***************************************************************************)
(* _panic(), entered with the given queues and statuses: the environment   *)
(* that was running exits; a panic at the prompt invokes the scheduler.    *)
(***************************************************************************)
panic(ready, exit, status) ==
  \/ /\ curenv # NULL
     /\ env_exit(ready, exit, status)
  \/ /\ curenv = NULL
     /\ env_exit_queue' = exit
     /\ fos_scheduler(NULL, ready, status)
-----------------------------------------------------------------------------
(***************************************************************************)
(* env_create() and sched_new_env() when the whole environment could be    *)
(* built: a free slot enters the NEW queue, its interrupts enabled.        *)
(***************************************************************************)
env_create(e) ==
  /\ env_status[e] = "FREE"
  /\ if_cleared' = if_cleared \ {e}
  /\ UNCHANGED lost

(***************************************************************************)
(* sys_create_env() by the running environment.                            *)
(***************************************************************************)
sys_create_env(e) ==
  /\ curenv # NULL
  /\ env_create(e)
  /\ env_status' = [env_status EXCEPT ![e] = "NEW"]
  /\ env_new_queue' = enqueue(env_new_queue, e)
  /\ UNCHANGED <<env_ready_queue, env_exit_queue, curenv, scheduler_status>>

(***************************************************************************)
(* The "load" command: CreateEnv() and sched_new_env().                    *)
(***************************************************************************)
command_load_env(e) ==
  /\ AtPrompt
  /\ env_create(e)
  /\ env_status' = [env_status EXCEPT ![e] = "NEW"]
  /\ env_new_queue' = enqueue(env_new_queue, e)
  /\ UNCHANGED <<env_ready_queue, env_exit_queue, curenv, scheduler_status>>

(***************************************************************************)
(* The "run" command: CreateEnv(), sched_new_env() and sched_run_env(),    *)
(* which takes the environment out of the NEW queue again, makes it ready  *)
(* and, the scheduler being stopped, invokes it.                           *)
(***************************************************************************)
command_run_program(e) ==
  /\ AtPrompt
  /\ env_create(e)
  /\ fos_scheduler(curenv, enqueue(env_ready_queue, e),
                   [env_status EXCEPT ![e] = "READY"])
  /\ UNCHANGED <<env_new_queue, env_exit_queue>>

(***************************************************************************)
(* env_create() panics after complete_environment_initialization() took    *)
(* the slot off the free list (the page file is out of space): the slot is *)
(* in no queue, and the environment that made the call exits.              *)
(***************************************************************************)
env_create_panics(e) ==
  /\ env_status[e] = "FREE"
  /\ lost' = lost \cup {e}
  /\ if_cleared' = if_cleared \ {e}
  /\ panic(env_ready_queue, env_exit_queue, [env_status EXCEPT ![e] = "NEW"])
  /\ UNCHANGED env_new_queue

(***************************************************************************)
(* sys_run_env(): sched_run_env() of an environment of the NEW queue, with *)
(* the scheduler already started.  Any other id changes nothing.           *)
(***************************************************************************)
sys_run_env(e) ==
  /\ curenv # NULL
  /\ in_queue(env_new_queue, e)
  /\ env_new_queue' = remove_from_queue(env_new_queue, e)
  /\ env_status' = [env_status EXCEPT ![e] = "READY"]
  /\ env_ready_queue' = enqueue(env_ready_queue, e)
  /\ UNCHANGED <<env_exit_queue, curenv, scheduler_status, if_cleared, lost>>

(***************************************************************************)
(* The "runall" command: sched_run_all() walks the NEW queue from its head *)
(* and enqueues each environment as ready, then invokes the scheduler.     *)
(***************************************************************************)
command_run_all ==
  /\ AtPrompt
  /\ env_new_queue' = <<>>
  /\ fos_scheduler(curenv, Reverse(env_new_queue) \o env_ready_queue,
                   [e \in Env |-> IF in_queue(env_new_queue, e)
                                  THEN "READY" ELSE env_status[e]])
  /\ UNCHANGED <<env_exit_queue, if_cleared, lost>>

(***************************************************************************)
(* sys_exit_env(): env_exit() of the running environment.  The same        *)
(* happens when a trap of the running environment ends in panic().         *)
(***************************************************************************)
sys_exit_env ==
  /\ curenv # NULL
  /\ env_exit(env_ready_queue, env_exit_queue, env_status)
  /\ UNCHANGED <<env_new_queue, if_cleared, lost>>

(***************************************************************************)
(* sched_kill_env() of an environment that is not the current one.  It is  *)
(* taken out of the queue it is found in and handed to env_free(), which   *)
(* panics: the victim is in no list any more, and the panic exits the      *)
(* environment that made the call.                                         *)
(***************************************************************************)
kill_new(e) ==
  /\ in_queue(env_new_queue, e)
  /\ env_new_queue' = remove_from_queue(env_new_queue, e)
  /\ panic(env_ready_queue, env_exit_queue, [env_status EXCEPT ![e] = "UNKNOWN"])
  /\ lost' = lost \cup {e}
  /\ UNCHANGED if_cleared

kill_ready(e) ==
  /\ in_queue(env_ready_queue, e)
  /\ panic(remove_from_queue(env_ready_queue, e), env_exit_queue, env_status)
  /\ lost' = lost \cup {e}
  /\ UNCHANGED <<env_new_queue, if_cleared>>

kill_exit(e) ==
  /\ in_queue(env_exit_queue, e)
  /\ panic(env_ready_queue, remove_from_queue(env_exit_queue, e),
           [env_status EXCEPT ![e] = "UNKNOWN"])
  /\ lost' = lost \cup {e}
  /\ UNCHANGED <<env_new_queue, if_cleared>>

sched_kill_env(e) == kill_new(e) \/ kill_ready(e) \/ kill_exit(e)

(***************************************************************************)
(* sched_kill_env() of the current environment: assert(env_id ==           *)
(* ENV_RUNNABLE) compares the id with a status and fails, and the panic    *)
(* puts the environment in the EXIT queue instead of freeing it.           *)
(***************************************************************************)
kill_curenv(e) ==
  /\ e = curenv
  /\ panic(env_ready_queue, env_exit_queue, env_status)
  /\ UNCHANGED <<env_new_queue, if_cleared, lost>>

(***************************************************************************)
(* sys_destroy_env().  A blocked or a lost environment is in none of the   *)
(* queues sched_kill_env() searches: the call returns 0 and does nothing.  *)
(***************************************************************************)
sys_destroy_env(e) ==
  /\ curenv # NULL
  /\ \/ sched_kill_env(e)
     \/ kill_curenv(e)

(***************************************************************************)
(* The "kill" command.  An id found in no queue dereferences the NULL      *)
(* curenv: the kernel faults, panics and is back at the prompt, with no    *)
(* queue changed.                                                          *)
(***************************************************************************)
command_kill_program(e) ==
  /\ AtPrompt
  /\ sched_kill_env(e)

(***************************************************************************)
(* The "killall" command: sched_kill_all() frees the environments queue by *)
(* queue, and env_free() of the first one panics.  At the prompt the ready *)
(* queue is empty (PromptIsIdle).                                          *)
(***************************************************************************)
command_kill_all ==
  /\ AtPrompt
  /\ \/ /\ env_new_queue # <<>>
        /\ kill_new(Head(env_new_queue))
     \/ /\ env_new_queue = <<>>
        /\ env_exit_queue # <<>>
        /\ kill_exit(Head(env_exit_queue))

(***************************************************************************)
(* The "schedRR" command: sched_init_RR() builds a new, empty ready queue. *)
(***************************************************************************)
command_sch_RR ==
  /\ AtPrompt
  /\ env_ready_queue' = <<>>
  /\ scheduler_status' = "SCH_STOPPED"
  /\ UNCHANGED <<env_status, env_new_queue, env_exit_queue, curenv,
                 if_cleared, lost>>

(***************************************************************************)
(* The clock interrupt of a user environment whose FL_IF is set.           *)
(***************************************************************************)
clock_interrupt_handler ==
  /\ curenv # NULL
  /\ curenv \notin if_cleared
  /\ fos_scheduler(curenv, env_ready_queue, env_status)
  /\ UNCHANGED <<env_new_queue, env_exit_queue, if_cleared, lost>>

(***************************************************************************)
(* sys_disable_interrupt() and sys_enable_interrupt().                     *)
(***************************************************************************)
sys_disable_interrupt ==
  /\ curenv # NULL
  /\ if_cleared' = if_cleared \cup {curenv}
  /\ UNCHANGED <<env_status, env_new_queue, env_ready_queue, env_exit_queue,
                 curenv, scheduler_status, lost>>

sys_enable_interrupt ==
  /\ curenv # NULL
  /\ if_cleared' = if_cleared \ {curenv}
  /\ UNCHANGED <<env_status, env_new_queue, env_ready_queue, env_exit_queue,
                 curenv, scheduler_status, lost>>

(***************************************************************************)
(* What the scheduler and the prompt do between two semaphore operations.  *)
(***************************************************************************)
SchedNext ==
  \/ \E e \in Env :
       \/ sys_create_env(e)
       \/ command_load_env(e)
       \/ command_run_program(e)
       \/ env_create_panics(e)
       \/ sys_run_env(e)
       \/ sys_destroy_env(e)
       \/ command_kill_program(e)
  \/ command_run_all
  \/ command_kill_all
  \/ command_sch_RR
  \/ sys_exit_env
  \/ clock_interrupt_handler
  \/ sys_disable_interrupt
  \/ sys_enable_interrupt
=============================================================================
