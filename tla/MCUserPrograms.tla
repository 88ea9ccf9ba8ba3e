-------------------------- MODULE MCUserPrograms --------------------------
(***************************************************************************)
(* Two clerks and two customers who compete for both flights, one clerk    *)
(* with three customers; arrays of up to five elements.                    *)
(***************************************************************************)
EXTENDS UserPrograms

CONSTANTS k1, k2, u1, u2, u3

Office(clerks, customers, types, tickets) ==
  [clerks |-> clerks, customers |-> customers, flightType |-> types, tickets |-> tickets]

Offices ==
  {Office({k1, k2}, {u1, u2}, <<3, 3>>, <<1, 1>>),
   Office({k1, k2}, {u1, u2}, <<3, 2>>, <<1, 2>>),
   Office({k1, k2}, {u1, u2}, <<1, 3>>, <<1, 1>>),
   Office({k1}, {u1, u2, u3}, <<3, 1, 2>>, <<1, 2>>)}

FinishedNames == <<"cust_finished0", "cust_finished1", "cust_finished2">>

Semaphore == {"T", "cs1", "depend1"} \cup UNION {DOMAIN AirSemaphores(o) : o \in Offices}
===========================================================================
