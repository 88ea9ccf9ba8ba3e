--------------------------- MODULE AirReservation ---------------------------
(***************************************************************************)
(* The reservation office of user/tst_air.c: customers take a number, wait *)
(* for a free clerk, queue up and wait for their answer; clerks serve the  *)
(* queue and book one flight or both; the master waits for the customers   *)
(* and checks the bookings and the semaphores.                             *)
(***************************************************************************)
EXTENDS UserProcesses, TLC

CONSTANTS airMaster,
          offices,     \* the clerks, the customers, the flights that customers
                       \* 0, 1, ... ask for and the tickets of both flights
          finishedNames    \* the names cust_finished0, cust_finished1, ...

officeNames ==
  {"flight1CS", "flight2CS", "custCounterCS", "custQueueCS", "clerk", "cust_ready", "custTerminated"}

ASSUME AirAssumption ==
  /\ finishedNames \in Seq(Sem) /\ IsInjective(finishedNames)
  /\ officeNames \subseteq Sem /\ officeNames \cap Range(finishedNames) = {}
  /\ \A o \in offices :
       /\ IsFiniteSet(o.clerks) /\ IsFiniteSet(o.customers)
       /\ o.clerks \cap o.customers = {} /\ airMaster \notin o.clerks \cup o.customers
       /\ Cardinality(o.customers) <= Len(finishedNames)
       /\ o.flightType \in [1 .. Cardinality(o.customers) -> 1 .. 3]
       /\ o.tickets \in [1 .. 2 -> Nat]

(***************************************************************************)
(* The office is part of the shared memory: the master wrote it there.     *)
(***************************************************************************)
Clerks == shared.office.clerks
AirCustomers == shared.office.customers
numOfCustomers(o) == Cardinality(o.customers)
Ids == 0 .. numOfCustomers(shared.office) - 1
Wants(id, f) == shared.office.flightType[id + 1] \in {f, 3}
Unwritten == -1              \* what smalloc() left in the memory

cust_finished(id) == finishedNames[id + 1]

(***************************************************************************)
(* tst_air.c up to the first sys_waitSemaphore().                          *)
(***************************************************************************)
AirSemaphores(o) ==
  [s \in officeNames \cup {cust_finished(id) : id \in 0 .. numOfCustomers(o) - 1} |->
     CASE s \in {"flight1CS", "flight2CS", "custCounterCS", "custQueueCS"} -> 1
       [] s = "clerk" -> Cardinality(o.clerks)
       [] OTHER -> 0]

AirInit ==
  /\ program = "air"
  /\ \E o \in offices :
       LET processes == {airMaster} \cup o.clerks \cup o.customers
           ids == 0 .. numOfCustomers(o) - 1
       IN /\ SemaphoresAre(AirSemaphores(o))
          /\ pc = [p \in processes |-> IF p = airMaster THEN "wait"
                                       ELSE IF p \in o.clerks THEN "next" ELSE "arrive"]
          /\ local = [p \in processes |-> [reg |-> 0, custId |-> Unwritten]]
          /\ shared = [office |-> o, custCounter |-> 0, flightCounter |-> o.tickets,
                       booked |-> [id \in ids |-> 0], bookedArr |-> <<<<>>, <<>>>>,
                       cust_ready_queue |-> [i \in ids |-> Unwritten],
                       queue_in |-> 0, queue_out |-> 0]

(***************************************************************************)
(* The customer, tst_air_customer.c.                                       *)
(***************************************************************************)
take_number(p) ==
  \/ wait(p, "arrive", "custCounterCS", "count")
  \/ /\ step(p, "count", "counted")
     /\ local' = [local EXCEPT ![p].custId = shared.custCounter]
     /\ UNCHANGED shared
  \/ /\ step(p, "counted", "leave_counter")
     /\ shared' = [shared EXCEPT !.custCounter = local[p].custId + 1]
     /\ UNCHANGED local
  \/ signal(p, "leave_counter", "custCounterCS", "call_clerk")

call_clerk_unlocked(p) ==
  \/ wait(p, "call_clerk", "clerk", "put")
  \/ /\ step(p, "put", "put_down")
     /\ local' = [local EXCEPT ![p].reg = shared.queue_in]
     /\ shared' = [shared EXCEPT !.cust_ready_queue[shared.queue_in] = local[p].custId]
  \/ store_incremented(p, "put_down", "queue_in", "ready")

call_clerk(p) ==
  \/ wait(p, "call_clerk", "clerk", "queue_up")
  \/ wait(p, "queue_up", "custQueueCS", "put")
  \/ /\ step(p, "put", "put_down")
     /\ local' = [local EXCEPT ![p].reg = shared.queue_in]
     /\ shared' = [shared EXCEPT !.cust_ready_queue[shared.queue_in] = local[p].custId]
  \/ store_incremented(p, "put_down", "queue_in", "leave_queue")
  \/ signal(p, "leave_queue", "custQueueCS", "ready")

wait_for_answer(p) ==
  \/ signal(p, "ready", "cust_ready", "finish")
  \/ wait(p, "finish", cust_finished(local[p].custId), "report")
  \/ /\ step(p, "report", "terminate")
     /\ local' = [local EXCEPT ![p].reg = shared.booked[local[p].custId]]
     /\ UNCHANGED shared
  \/ signal(p, "terminate", "custTerminated", "done")

customer(p) == take_number(p) \/ call_clerk(p) \/ wait_for_answer(p)

(***************************************************************************)
(* The clerk, tst_air_clerk.c.                                             *)
(***************************************************************************)
dequeue_customer(p) ==
  \/ wait(p, "next", "cust_ready", "dequeue")
  \/ wait(p, "dequeue", "custQueueCS", "get")
  \/ /\ step(p, "get", "got")
     /\ local' = [local EXCEPT ![p] =
                    [reg |-> shared.queue_out,
                     custId |-> shared.cust_ready_queue[shared.queue_out]]]
     /\ UNCHANGED shared
  \/ store_incremented(p, "got", "queue_out", "leave_queue")
  \/ signal(p, "leave_queue", "custQueueCS",
            IF Wants(local[p].custId, 1) THEN "lock_1" ELSE "lock_2")

(***************************************************************************)
(* The critical sections of the wanted flights: 1 is entered before 2 and  *)
(* left after it.                                                          *)
(***************************************************************************)
lock_flights_by_customer(p) ==
  LET id == local[p].custId
  IN \/ wait(p, "lock_1", IF id = 0 /\ Wants(id, 2) THEN "flight2CS" ELSE "flight1CS",
             IF Wants(id, 2) THEN "lock_2" ELSE "read")
     \/ wait(p, "lock_2", IF id = 0 /\ Wants(id, 1) THEN "flight1CS" ELSE "flight2CS",
             "read")

lock_flights_never(p) ==
  \/ At(p, "lock_1") /\ Goto(p, "read") /\ UNCHANGED <<program, local, shared, semaphores>>
  \/ At(p, "lock_2") /\ Goto(p, "read") /\ UNCHANGED <<program, local, shared, semaphores>>

lock_flights(p) ==
  \/ wait(p, "lock_1", "flight1CS", IF Wants(local[p].custId, 2) THEN "lock_2" ELSE "read")
  \/ wait(p, "lock_2", "flight2CS", "read")

unlock_flights(p) ==
  \/ signal(p, "unlock_2", "flight2CS",
            IF Wants(local[p].custId, 1) THEN "unlock_1" ELSE "answer")
  \/ signal(p, "unlock_1", "flight1CS", "answer")

(***************************************************************************)
(* One ticket of every wanted flight, or none: the counters are read and   *)
(* tested, then written.                                                   *)
(***************************************************************************)
book_flights(p) ==
  LET id == local[p].custId
      wanted == {f \in 1 .. 2 : Wants(id, f)}
  IN \/ /\ step(p, "read", "write")
        /\ local' = [local EXCEPT ![p].reg = shared.flightCounter]
        /\ UNCHANGED shared
     \/ /\ step(p, "write", IF 2 \in wanted THEN "unlock_2" ELSE "unlock_1")
        /\ shared' = IF \A f \in wanted : local[p].reg[f] > 0
                     THEN [shared EXCEPT
                             !.booked[id] = 1,
                             !.flightCounter = [f \in 1 .. 2 |->
                               IF f \in wanted THEN local[p].reg[f] - 1 ELSE @[f]],
                             !.bookedArr = [f \in 1 .. 2 |->
                               IF f \in wanted THEN Append(@[f], id) ELSE @[f]]]
                     ELSE shared
        /\ local' = [local EXCEPT ![p].reg = 0]

answer_customer_keeps_clerk(p) ==
  signal(p, "answer", cust_finished(local[p].custId), "next")

answer_customer(p) ==
  \/ signal(p, "answer", cust_finished(local[p].custId), "free")
  \/ signal(p, "free", "clerk", "next")

clerk(p) ==
  \/ dequeue_customer(p) \/ lock_flights(p) \/ book_flights(p)
  \/ unlock_flights(p) \/ answer_customer(p)

(***************************************************************************)
(* The master waits once for every customer.                               *)
(***************************************************************************)
wait_for_customers ==
  /\ At(airMaster, "wait")
  /\ Acquire("custTerminated") \/ Queue("custTerminated", airMaster)
  /\ local' = [local EXCEPT ![airMaster].reg = @ + 1]
  /\ Goto(airMaster, IF local'[airMaster].reg = numOfCustomers(shared.office) THEN "check" ELSE "wait")
  /\ UNCHANGED <<program, shared>>

(***************************************************************************)
(* After a sleep of 1500, which is there to let the clerks come to rest    *)
(* (they are blocked when it ends), it looks for every booking with find() *)
(* and asserts the values of the semaphores.                               *)
(***************************************************************************)
check_results ==
  /\ \A c \in Clerks : Blocked(c)
  /\ step(airMaster, "check",
          IF /\ \A id \in Ids, f \in 1 .. 2 :
                  Wants(id, f) => id \in Range(shared.bookedArr[f])
             /\ \A s \in exists :
                  value(s) = IF s = "cust_ready" THEN -Cardinality(Clerks)
                             ELSE AirSemaphores(shared.office)[s]
          THEN "congratulations" ELSE "panic")
  /\ UNCHANGED <<local, shared>>

AirProcess(p) ==
  IF p = airMaster THEN wait_for_customers \/ check_results
  ELSE IF p \in Clerks THEN clerk(p) ELSE customer(p)
-----------------------------------------------------------------------------
(***************************************************************************)
(* Nobody flies on a ticket that was sold twice: whatever clerks are in    *)
(* the middle of, tickets and bookings of a flight add up, and no customer *)
(* is booked twice on a flight or on one he did not ask for.               *)
(***************************************************************************)
NoOverbooking ==
  program = "air" =>
    \A f \in 1 .. 2 :
      LET arr == shared.bookedArr[f]
      IN /\ shared.flightCounter[f] >= 0
         /\ shared.flightCounter[f] + Len(arr) = shared.office.tickets[f]
         /\ IsInjective(arr)
         /\ \A id \in Range(arr) : Wants(id, f) /\ shared.booked[id] = 1

(***************************************************************************)
(* Clerks take from the queue only what a customer has put there, every    *)
(* entry once, and no two customers draw the same number. The answer that  *)
(* a customer waits for is the answer to his own request: he hears "not    *)
(* booked" only when a flight that he asked for is sold out.               *)
(***************************************************************************)
EveryCallAnsweredOnce ==
  program = "air" =>
    /\ shared.queue_out <= shared.queue_in
    /\ \A p \in Clerks : pc[p] \notin {"next", "dequeue", "get"} => local[p].custId # Unwritten
    /\ \A p, q \in AirCustomers :
         p # q /\ local[p].custId = local[q].custId => local[p].custId = Unwritten
    /\ \A p, q \in Clerks :
         p # q /\ {pc[p], pc[q]} \cap {"next", "dequeue", "get"} = {}
           => local[p].custId # local[q].custId
    /\ \A p \in AirCustomers :
         pc[p] \in {"terminate", "done"} /\ local[p].reg = 0
           => \E f \in 1 .. 2 : Wants(local[p].custId, f) /\ shared.flightCounter[f] = 0

(***************************************************************************)
(* With tickets for everybody the checks of the master succeed, those of   *)
(* all its semaphores included; with fewer, the booking check fails.       *)
(***************************************************************************)
TicketsSuffice ==
  \A f \in 1 .. 2 : Cardinality({id \in Ids : Wants(id, f)}) <= shared.office.tickets[f]

ReservationChecks ==
  program = "air" =>
    /\ TicketsSuffice => pc[airMaster] # "panic"
    /\ ~TicketsSuffice => pc[airMaster] # "congratulations"
=============================================================================
