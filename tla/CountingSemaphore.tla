-------------------------- MODULE CountingSemaphore --------------------------
(***************************************************************************)
(* What the semaphores promise to the programs that use them: permits that *)
(* are taken and given back, and a first-come first-served line of those   *)
(* that found none.  A permit given back while somebody waits goes to the  *)
(* first in line and to nobody else.                                       *)
(***************************************************************************)
EXTENDS Naturals, Sequences

CONSTANTS Process, Sem,
          Permits     \* with how many permits a semaphore may be created

VARIABLES exists,     \* the semaphores created so far
          available,  \* permits nobody holds
          waiting     \* the line, the longest waiting process first

Init ==
  /\ exists \subseteq Sem
  /\ available = [s \in Sem |-> 0]
  /\ waiting = [s \in Sem |-> <<>>]

Create(s, permits) ==
  /\ s \notin exists
  /\ exists' = exists \cup {s}
  /\ available' = [available EXCEPT ![s] = permits]
  /\ UNCHANGED waiting

(***************************************************************************)
(* A process takes a permit, or stands at the end of the line.  It stands  *)
(* in no other line.                                                       *)
(***************************************************************************)
Acquire(s) ==
  /\ s \in exists
  /\ available[s] > 0
  /\ available' = [available EXCEPT ![s] = @ - 1]
  /\ UNCHANGED <<exists, waiting>>

Queue(s, p) ==
  /\ s \in exists
  /\ available[s] = 0
  /\ \A t \in Sem : \A i \in DOMAIN waiting[t] : waiting[t][i] # p
  /\ waiting' = [waiting EXCEPT ![s] = Append(@, p)]
  /\ UNCHANGED <<exists, available>>

(***************************************************************************)
(* A permit is given back, or handed over to the first in line.            *)
(***************************************************************************)
Release(s) ==
  /\ s \in exists
  /\ waiting[s] = <<>>
  /\ available' = [available EXCEPT ![s] = @ + 1]
  /\ UNCHANGED <<exists, waiting>>

HandOver(s) ==
  /\ s \in exists
  /\ waiting[s] # <<>>
  /\ waiting' = [waiting EXCEPT ![s] = Tail(@)]
  /\ UNCHANGED <<exists, available>>

Next ==
  \E s \in Sem :
    \/ \E permits \in Permits : Create(s, permits)
    \/ Acquire(s)
    \/ \E p \in Process : Queue(s, p)
    \/ Release(s)
    \/ HandOver(s)

Spec == Init /\ [][Next]_<<exists, available, waiting>>
=============================================================================
