----------------------------- MODULE EnvQueues -----------------------------
(***************************************************************************)
(* The environment queues of kern/cpu/sched.c, built on the doubly linked  *)
(* LIST macros of inc/queue.h.  A queue is the sequence of its elements    *)
(* from lh_first to lh_last: LIST_INSERT_HEAD puts an element at position  *)
(* 1 and dequeue() takes LIST_LAST, so that a queue is first-in first-out. *)
(***************************************************************************)
EXTENDS Integers, Sequences, SequencesExt

(***************************************************************************)
(* enqueue() of a non-NULL environment: LIST_INSERT_HEAD.                  *)
(***************************************************************************)
enqueue_tail(queue, env) == Append(queue, env)
enqueue(queue, env) == Cons(env, queue)

(***************************************************************************)
(* dequeue() of a queue that is not empty returns LIST_LAST ...            *)
(***************************************************************************)
dequeued(queue) == Last(queue)

(***************************************************************************)
(* ... and leaves the queue without it.                                    *)
(***************************************************************************)
dequeue(queue) == Front(queue)

(***************************************************************************)
(* remove_from_queue() / LIST_REMOVE of an environment that the queue      *)
(* holds: its neighbours are linked to each other.                         *)
(***************************************************************************)
remove_from_queue_last(queue, env) == Front(queue)
remove_from_queue(queue, env) ==
  RemoveAt(queue, CHOOSE i \in DOMAIN queue : queue[i] = env)

(***************************************************************************)
(* find_env_in_queue() finds the environment.                              *)
(***************************************************************************)
in_queue(queue, env) == env \in ToSet(queue)

(***************************************************************************)
(* No environment is linked twice into the queue.                          *)
(***************************************************************************)
NoDuplicates(queue) ==
  \A i, j \in DOMAIN queue : queue[i] = queue[j] => i = j
=============================================================================
