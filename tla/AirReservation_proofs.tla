----------------------- MODULE AirReservation_proofs -----------------------
(***************************************************************************)
(* Proofs about the reservation office, for any number of clerks, of       *)
(* customers and of tickets: no ticket is sold twice, and every call is    *)
(* answered once and rightly.                                              *)
(***************************************************************************)
EXTENDS AirReservation, SequenceTheorems, FiniteSetTheorems, TLAPS

AirNext == \E p \in DOMAIN pc : AirProcess(p)
AirSpec == AirInit /\ [][AirNext]_uvars
-----------------------------------------------------------------------------
(***************************************************************************)
(* The inductive invariant.  First the types.                              *)
(***************************************************************************)
AirProcesses == {airMaster} \cup Clerks \cup AirCustomers

CustomerLabels ==
  {"arrive", "count", "counted", "leave_counter", "call_clerk", "queue_up", "put", "put_down",
   "leave_queue", "ready", "finish", "report", "terminate", "done"}
ClerkLabels ==
  {"next", "dequeue", "get", "got", "leave_queue", "lock_1", "lock_2", "read", "write",
   "unlock_2", "unlock_1", "answer", "free"}
MasterLabels == {"wait", "check", "congratulations", "panic"}

Office ==
  [office : offices, custCounter : Nat, flightCounter : [1 .. 2 -> Nat], booked : [Ids -> 0 .. 1],
   bookedArr : [1 .. 2 -> Seq(Ids)], cust_ready_queue : [Ids -> Ids \cup {Unwritten}],
   queue_in : Nat, queue_out : Nat]

AirTypeOK ==
  /\ program = "air"
  /\ shared \in Office
  /\ DOMAIN pc = AirProcesses
  /\ \A p \in Clerks : pc[p] \in ClerkLabels
  /\ \A p \in AirCustomers : pc[p] \in CustomerLabels
  /\ pc[airMaster] \in MasterLabels
  /\ local \in [AirProcesses -> [reg : Nat \cup [1 .. 2 -> Nat], custId : Ids \cup {Unwritten}]]
  /\ local[airMaster].reg \in Nat
  /\ available \in [Sem -> Nat]
  /\ waiting \in [Sem -> Seq(AirProcesses)]

(***************************************************************************)
(* Whoever stands in a line has called wait for it, once.                  *)
(***************************************************************************)
Line(s) == Range(waiting[s])

WaitsFor(p, s) ==
  \/ p = airMaster /\ pc[p] \in {"wait", "check"} /\ s = "custTerminated"
  \/ p \in Clerks /\ pc[p] = "dequeue" /\ s = "cust_ready"
  \/ p \in Clerks /\ pc[p] = "get" /\ s = "custQueueCS"
  \/ p \in Clerks /\ pc[p] = "lock_2" /\ s = "flight1CS" /\ Wants(local[p].custId, 1)
  \/ p \in Clerks /\ pc[p] = "read" /\ s = "flight1CS" /\ ~Wants(local[p].custId, 2)
  \/ p \in Clerks /\ pc[p] = "read" /\ s = "flight2CS" /\ Wants(local[p].custId, 2)
  \/ p \in AirCustomers /\ pc[p] = "count" /\ s = "custCounterCS"
  \/ p \in AirCustomers /\ pc[p] = "queue_up" /\ s = "clerk"
  \/ p \in AirCustomers /\ pc[p] = "put" /\ s = "custQueueCS"
  \/ p \in AirCustomers /\ pc[p] = "report" /\ s = cust_finished(local[p].custId)

Lines ==
  \A s \in Sem : IsInjective(waiting[s]) /\ (waiting[s] # <<>> => available[s] = 0)

Waiting == \A s \in Sem : \A p \in Line(s) : WaitsFor(p, s)

(***************************************************************************)
(* A semaphore of 1: nobody is in the critical section, or all but one     *)
(* of those who are in it are still in the line.                           *)
(***************************************************************************)
LockedBy(permits, line, inside) ==
  /\ permits \in {0, 1}
  /\ permits = 1 => inside = {} /\ line = {}
  /\ permits = 0 => \E p \in inside : line = inside \ {p}

Locked(s, inside) == LockedBy(available[s], Line(s), inside)

AtCounter == {p \in AirCustomers : pc[p] \in {"count", "counted", "leave_counter"}}
AtQueue ==
  {p \in AirCustomers : pc[p] \in {"put", "put_down", "leave_queue"}}
    \cup {p \in Clerks : pc[p] \in {"get", "got", "leave_queue"}}
AtFlight1 ==
  {p \in Clerks : pc[p] \in {"lock_2", "read", "write", "unlock_2", "unlock_1"}
                    /\ Wants(local[p].custId, 1)}
AtFlight2 ==
  {p \in Clerks : pc[p] \in {"read", "write", "unlock_2"} /\ Wants(local[p].custId, 2)}

Locks ==
  /\ Locked("custCounterCS", AtCounter) /\ Locked("custQueueCS", AtQueue)
  /\ Locked("flight1CS", AtFlight1) /\ Locked("flight2CS", AtFlight2)

(***************************************************************************)
(* The counters count customers, and cust_ready the customers who have     *)
(* called and whom no clerk has come for.                                  *)
(***************************************************************************)
Counted == {p \in AirCustomers : pc[p] \notin {"arrive", "count", "counted"}}
Queued ==
  {p \in AirCustomers : pc[p] \in {"leave_queue", "ready", "finish", "report", "terminate", "done"}}
Called == {p \in AirCustomers : pc[p] \in {"finish", "report", "terminate", "done"}}
Fetching == {p \in Clerks : pc[p] \in {"dequeue", "get", "got"}}
Coming == Fetching \ Line("cust_ready")

Counts ==
  /\ shared.custCounter = Cardinality(Counted)
  /\ shared.queue_in = Cardinality(Queued)
  /\ available["cust_ready"] + shared.queue_out + Cardinality(Coming) = Cardinality(Called)

(***************************************************************************)
(* The numbers of the customers.                                           *)
(***************************************************************************)
Numbered ==
  /\ \A p \in AirCustomers :
       /\ pc[p] \in {"arrive", "count"} => local[p].custId = Unwritten
       /\ pc[p] = "counted" => local[p].custId = shared.custCounter
       /\ p \in Counted => local[p].custId \in 0 .. shared.custCounter - 1
  /\ \A p, q \in AirCustomers :
       p # q /\ local[p].custId = local[q].custId => local[p].custId = Unwritten

(***************************************************************************)
(* The entries of the queue that are written, the last one perhaps before  *)
(* queue_in has been moved, are numbers of different customers.            *)
(***************************************************************************)
Filled ==
  {j \in Ids : j < shared.queue_in
                 \/ (j = shared.queue_in /\ \E p \in AirCustomers : pc[p] = "put_down")}

QueueHolds ==
  /\ \A p \in AirCustomers : pc[p] = "put_down" =>
       local[p].reg = shared.queue_in /\ shared.cust_ready_queue[shared.queue_in] = local[p].custId
  /\ \A j \in Filled :
       shared.cust_ready_queue[j] \in Ids /\ shared.cust_ready_queue[j] < shared.custCounter
  /\ \A i, j \in Filled : shared.cust_ready_queue[i] = shared.cust_ready_queue[j] => i = j
  /\ \A j \in Filled, p \in AirCustomers :
       pc[p] # "put_down" /\ p \notin Queued => shared.cust_ready_queue[j] # local[p].custId

(***************************************************************************)
(* What clerks have taken from it.                                         *)
(***************************************************************************)
Taken(id) == \E j \in 0 .. shared.queue_out - 1 : shared.cust_ready_queue[j] = id
HasCustomer(p) == pc[p] \notin {"next", "dequeue", "get"}

Serving ==
  /\ \A p \in Clerks : pc[p] = "got" =>
       local[p].reg = shared.queue_out /\ local[p].custId = shared.cust_ready_queue[shared.queue_out]
  /\ \A p \in Clerks : HasCustomer(p) /\ pc[p] # "got" => Taken(local[p].custId)
  /\ \A p \in Clerks : HasCustomer(p) => local[p].custId \in Ids
  /\ \A p, q \in Clerks :
       p # q /\ HasCustomer(p) /\ HasCustomer(q) => local[p].custId # local[q].custId

(***************************************************************************)
(* Tickets and bookings.                                                   *)
(***************************************************************************)
Bookings ==
  /\ \A f \in 1 .. 2 :
       /\ shared.flightCounter[f] + Len(shared.bookedArr[f]) = shared.office.tickets[f]
       /\ IsInjective(shared.bookedArr[f])
       /\ \A id \in Range(shared.bookedArr[f]) : Wants(id, f) /\ shared.booked[id] = 1
  /\ \A id \in Ids : shared.booked[id] = 1 => Taken(id)
  /\ \A p \in Clerks :
       /\ pc[p] \in {"got", "leave_queue", "lock_1", "lock_2", "read", "write"}
            => shared.booked[local[p].custId] = 0
       /\ pc[p] \in {"lock_1", "unlock_1"} => Wants(local[p].custId, 1)
       /\ pc[p] \in {"lock_2", "unlock_2"} => Wants(local[p].custId, 2)
       /\ pc[p] = "write" =>
            /\ local[p].reg \in [1 .. 2 -> Nat]
            /\ \A f \in 1 .. 2 : Wants(local[p].custId, f) => local[p].reg[f] = shared.flightCounter[f]

(***************************************************************************)
(* An answer is given when the customer is booked or a flight that he      *)
(* wants is sold out.                                                      *)
(***************************************************************************)
SoldOut(id) == \E f \in 1 .. 2 : Wants(id, f) /\ shared.flightCounter[f] = 0
Decided(id) == shared.booked[id] = 1 \/ SoldOut(id)

Answers ==
  /\ \A p \in Clerks : pc[p] \in {"unlock_2", "unlock_1", "answer"} => Decided(local[p].custId)
  /\ \A p \in AirCustomers :
       pc[p] \in {"terminate", "done"} /\ local[p].reg = 0 => SoldOut(local[p].custId)

AnswersSent ==
  /\ \A id \in Ids : available[cust_finished(id)] > 0 => Decided(id)
  /\ \A p \in AirCustomers :
       pc[p] = "report" /\ p \notin Line(cust_finished(local[p].custId))
         => Decided(local[p].custId)

AirInv ==
  /\ AirTypeOK /\ Lines /\ Waiting /\ Locks /\ Counts /\ Numbered /\ QueueHolds /\ Serving
  /\ Bookings /\ Answers /\ AnswersSent
-----------------------------------------------------------------------------
(***************************************************************************)
(* The semaphores of the office have different names.                      *)
(***************************************************************************)
LEMMA Offices ==
  ASSUME AirTypeOK
  PROVE  /\ IsFiniteSet(Clerks) /\ IsFiniteSet(AirCustomers)
         /\ Clerks \cap AirCustomers = {} /\ airMaster \notin Clerks \cup AirCustomers
         /\ shared.office.flightType \in [1 .. Cardinality(AirCustomers) -> 1 .. 3]
         /\ shared.office.tickets \in [1 .. 2 -> Nat]
         /\ Cardinality(AirCustomers) \in Nat
         /\ Cardinality(AirCustomers) <= Len(finishedNames)
         /\ Ids = 0 .. Cardinality(AirCustomers) - 1
<1>1. shared.office \in offices
  BY DEF AirTypeOK, Office
<1>2. IsFiniteSet(AirCustomers)
  BY <1>1, AirAssumption DEF AirCustomers
<1>3. Cardinality(AirCustomers) \in Nat
  BY <1>2, FS_CardinalityType
<1> QED BY <1>1, <1>2, <1>3, AirAssumption DEF Clerks, AirCustomers, Ids, numOfCustomers

LEMMA Finished ==
  ASSUME AirTypeOK
  PROVE  /\ \A id \in Ids : cust_finished(id) \in Sem \ officeNames
         /\ \A i, j \in Ids : cust_finished(i) = cust_finished(j) => i = j
<1>1. /\ finishedNames \in Seq(Sem) /\ \A i, j \in DOMAIN finishedNames : finishedNames[i] = finishedNames[j] => i = j
      /\ \A i \in DOMAIN finishedNames : finishedNames[i] \notin officeNames
  BY AirAssumption DEF IsInjective, Range
<1>2. \A id \in Ids : id \in Nat /\ id + 1 \in DOMAIN finishedNames
  BY Offices, <1>1
<1>3. \A i \in DOMAIN finishedNames : finishedNames[i] \in Sem
  BY <1>1
<1>4. \A i, j \in Ids : finishedNames[i + 1] = finishedNames[j + 1] => i = j
  <2> SUFFICES ASSUME NEW i \in Ids, NEW j \in Ids, finishedNames[i + 1] = finishedNames[j + 1]
               PROVE  i = j
    OBVIOUS
  <2>1. i + 1 = j + 1
    BY <1>1, <1>2
  <2> QED BY <2>1, <1>2
<1> QED BY <1>1, <1>2, <1>3, <1>4 DEF cust_finished

(* Every customer wants a flight. *)
LEMMA WantsOne ==
  ASSUME AirTypeOK, NEW id \in Ids
  PROVE  Wants(id, 1) \/ Wants(id, 2)
<1>1. id + 1 \in 1 .. Cardinality(AirCustomers)
  BY Offices
<1>2. shared.office.flightType[id + 1] \in 1 .. 3
  BY <1>1, Offices
<1> QED BY <1>2 DEF Wants
-----------------------------------------------------------------------------
(***************************************************************************)
(* What a call of a semaphore does to its line and to its permits.         *)
(***************************************************************************)
OtherLines(s) == \A t \in Sem \ {s} : Line(t)' = Line(t) /\ available'[t] = available[t]

Waited(s, p) ==
  /\ OtherLines(s)
  /\ \/ available[s] > 0 /\ available'[s] = available[s] - 1 /\ Line(s)' = Line(s)
     \/ available[s] = 0 /\ available'[s] = 0 /\ Line(s)' = Line(s) \cup {p}

Signalled(s) ==
  /\ OtherLines(s)
  /\ \/ Line(s) = {} /\ Line(s)' = {} /\ available'[s] = available[s] + 1
     \/ \E h \in Line(s) : Line(s)' = Line(s) \ {h} /\ available'[s] = available[s]

LinesTyped == available \in [Sem -> Nat] /\ waiting \in [Sem -> Seq(AirProcesses)]

LEMMA Waits ==
  ASSUME LinesTyped, Lines, NEW s \in Sem, NEW p \in AirProcesses, AirProcesses' = AirProcesses,
         \A t \in Sem : p \notin Line(t), Acquire(s) \/ Queue(s, p)
  PROVE  LinesTyped' /\ Lines' /\ Waited(s, p)
<1>1. CASE Acquire(s)
  <2>1. /\ available[s] > 0 /\ available' = [available EXCEPT ![s] = @ - 1] /\ waiting' = waiting
    BY <1>1 DEF Acquire
  <2>2. \A t \in Sem : Line(t)' = Line(t)
    BY <2>1 DEF Line
  <2>3. LinesTyped'
    BY <2>1 DEF LinesTyped
  <2>4. Lines'
    BY <2>1 DEF Lines, LinesTyped
  <2> QED BY <2>1, <2>2, <2>3, <2>4 DEF Waited, OtherLines, LinesTyped
<1>2. CASE Queue(s, p)
  <2>1. /\ available[s] = 0 /\ available' = available
        /\ waiting' = [waiting EXCEPT ![s] = Append(@, p)]
    BY <1>2 DEF Queue
  <2>2. waiting[s] \in Seq(AirProcesses)
    BY DEF LinesTyped
  <2>3. /\ Append(waiting[s], p) \in Seq(AirProcesses)
        /\ Range(Append(waiting[s], p)) = Range(waiting[s]) \cup {p}
    <3>1. Append(waiting[s], p) \in Seq(AirProcesses)
      BY <2>2
    <3>2. /\ DOMAIN waiting[s] = 1 .. Len(waiting[s]) /\ Len(waiting[s]) \in Nat
          /\ DOMAIN Append(waiting[s], p) = 1 .. Len(waiting[s]) + 1
          /\ \A i \in 1 .. Len(waiting[s]) : Append(waiting[s], p)[i] = waiting[s][i]
          /\ Append(waiting[s], p)[Len(waiting[s]) + 1] = p
      BY <2>2
    <3>3. 1 .. Len(waiting[s]) + 1 = (1 .. Len(waiting[s])) \cup {Len(waiting[s]) + 1}
      BY <3>2
    <3> QED BY <3>1, <3>2, <3>3 DEF Range
  <2>4. IsInjective(Append(waiting[s], p))
    <3>1. /\ Len(Append(waiting[s], p)) = Len(waiting[s]) + 1 /\ Len(waiting[s]) \in Nat
          /\ DOMAIN waiting[s] = 1 .. Len(waiting[s])
          /\ \A i \in 1 .. Len(waiting[s]) : Append(waiting[s], p)[i] = waiting[s][i]
          /\ Append(waiting[s], p)[Len(waiting[s]) + 1] = p
          /\ DOMAIN Append(waiting[s], p) = 1 .. Len(waiting[s]) + 1
      BY <2>2
    <3>2. \A i \in 1 .. Len(waiting[s]) : waiting[s][i] # p
      BY <3>1 DEF Line, Range
    <3>3. \A i, j \in 1 .. Len(waiting[s]) : waiting[s][i] = waiting[s][j] => i = j
      BY <3>1 DEF Lines, IsInjective
    <3> QED BY <3>1, <3>2, <3>3 DEF IsInjective
  <2>5. LinesTyped'
    BY <2>1, <2>3 DEF LinesTyped
  <2>6. Lines'
    BY <2>1, <2>4 DEF Lines, LinesTyped
  <2>7. Line(s)' = Line(s) \cup {p} /\ \A t \in Sem \ {s} : Line(t)' = Line(t)
    BY <2>1, <2>3 DEF Line, LinesTyped
  <2> QED BY <2>1, <2>5, <2>6, <2>7 DEF Waited, OtherLines
<1> QED BY <1>1, <1>2

LEMMA Signals ==
  ASSUME LinesTyped, Lines, NEW s \in Sem, AirProcesses' = AirProcesses,
         Release(s) \/ HandOver(s)
  PROVE  LinesTyped' /\ Lines' /\ Signalled(s)
<1>1. CASE Release(s)
  <2>1. /\ waiting[s] = <<>> /\ available' = [available EXCEPT ![s] = @ + 1] /\ waiting' = waiting
    BY <1>1 DEF Release
  <2>2. \A t \in Sem : Line(t)' = Line(t)
    BY <2>1 DEF Line
  <2>3. Line(s) = {}
    BY <2>1 DEF Line, Range
  <2>4. LinesTyped'
    BY <2>1 DEF LinesTyped
  <2>5. Lines'
    BY <2>1 DEF Lines, LinesTyped
  <2> QED BY <2>1, <2>2, <2>3, <2>4, <2>5 DEF Signalled, OtherLines, LinesTyped
<1>2. CASE HandOver(s)
  <2>1. /\ waiting[s] # <<>> /\ available' = available
        /\ waiting' = [waiting EXCEPT ![s] = Tail(@)]
    BY <1>2 DEF HandOver
  <2>2. waiting[s] \in Seq(AirProcesses)
    BY DEF LinesTyped
  <2>3. /\ Tail(waiting[s]) \in Seq(AirProcesses)
        /\ Len(waiting[s]) \in Nat \ {0} /\ DOMAIN waiting[s] = 1 .. Len(waiting[s])
        /\ Len(Tail(waiting[s])) = Len(waiting[s]) - 1
        /\ DOMAIN Tail(waiting[s]) = 1 .. Len(waiting[s]) - 1
        /\ \A i \in 1 .. Len(waiting[s]) - 1 : Tail(waiting[s])[i] = waiting[s][i + 1]
    BY <2>1, <2>2
  <2>4. \A i, j \in 1 .. Len(waiting[s]) : waiting[s][i] = waiting[s][j] => i = j
    BY <2>3 DEF Lines, IsInjective
  <2>5. IsInjective(Tail(waiting[s]))
    BY <2>3, <2>4 DEF IsInjective
  <2>6. Range(Tail(waiting[s])) = Range(waiting[s]) \ {waiting[s][1]}
    <3>1. ASSUME NEW x \in Range(waiting[s]) \ {waiting[s][1]}
          PROVE  x \in Range(Tail(waiting[s]))
      <4>1. PICK i \in 1 .. Len(waiting[s]) : waiting[s][i] = x
        BY <3>1, <2>3 DEF Range
      <4>2. i - 1 \in 1 .. Len(waiting[s]) - 1 /\ (i - 1) + 1 = i
        BY <3>1, <4>1, <2>3
      <4>3. Tail(waiting[s])[i - 1] = x
        BY <4>1, <4>2, <2>3
      <4> QED BY <4>2, <4>3, <2>3 DEF Range
    <3>2. ASSUME NEW x \in Range(Tail(waiting[s]))
          PROVE  x \in Range(waiting[s]) \ {waiting[s][1]}
      <4>1. PICK i \in 1 .. Len(waiting[s]) - 1 : Tail(waiting[s])[i] = x
        BY <3>2, <2>3 DEF Range
      <4>2. i + 1 \in 1 .. Len(waiting[s]) /\ i + 1 # 1 /\ waiting[s][i + 1] = x
        BY <4>1, <2>3
      <4> QED BY <4>2, <2>3, <2>4 DEF Range
    <3> QED BY <3>1, <3>2
  <2>7. waiting[s][1] \in Line(s)
    BY <2>3 DEF Line, Range
  <2>8. LinesTyped'
    BY <2>1, <2>3 DEF LinesTyped
  <2>9. Lines'
    BY <2>1, <2>5 DEF Lines, LinesTyped
  <2>10. Line(s)' = Line(s) \ {waiting[s][1]} /\ \A t \in Sem \ {s} : Line(t)' = Line(t)
    BY <2>1, <2>6 DEF Line, LinesTyped
  <2> QED BY <2>1, <2>7, <2>8, <2>9, <2>10 DEF Signalled, OtherLines
<1> QED BY <1>1, <1>2
(***************************************************************************)
(* A critical section is entered by wait and left by signal.               *)
(***************************************************************************)
LEMMA LockEntered ==
  ASSUME NEW a, NEW line, NEW inside, NEW b, NEW newLine, NEW p, p \notin inside,
         LockedBy(a, line, inside),
         \/ a > 0 /\ b = a - 1 /\ newLine = line
         \/ a = 0 /\ b = 0 /\ newLine = line \cup {p}
  PROVE  LockedBy(b, newLine, inside \cup {p})
<1>1. CASE a = 1
  <2>1. b = 0 /\ newLine = {} /\ inside = {}
    BY <1>1 DEF LockedBy
  <2>2. newLine = (inside \cup {p}) \ {p}
    BY <2>1
  <2> QED BY <2>1, <2>2 DEF LockedBy
<1>2. CASE a = 0
  <2>1. b = 0 /\ newLine = line \cup {p}
    BY <1>2
  <2>2. PICK h \in inside : line = inside \ {h}
    BY <1>2 DEF LockedBy
  <2>3. newLine = (inside \cup {p}) \ {h}
    BY <2>1, <2>2
  <2> QED BY <2>1, <2>2, <2>3 DEF LockedBy
<1> QED BY <1>1, <1>2 DEF LockedBy

LEMMA LockLeft ==
  ASSUME NEW a, NEW line, NEW inside, NEW b, NEW newLine, NEW p \in inside, p \notin line,
         LockedBy(a, line, inside),
         \/ line = {} /\ newLine = {} /\ b = a + 1
         \/ \E h \in line : newLine = line \ {h} /\ b = a
  PROVE  LockedBy(b, newLine, inside \ {p})
<1>1. a = 0
  BY DEF LockedBy
<1>2. line = inside \ {p}
  BY <1>1 DEF LockedBy
<1>3. CASE line = {} /\ newLine = {} /\ b = a + 1
  BY <1>1, <1>2, <1>3 DEF LockedBy
<1>4. CASE \E h \in line : newLine = line \ {h} /\ b = a
  BY <1>1, <1>2, <1>4 DEF LockedBy
<1> QED BY <1>3, <1>4

(* Nobody but its owner is in a critical section and not in the line. *)
LEMMA LockOwner ==
  ASSUME NEW a, NEW line, NEW inside, LockedBy(a, line, inside),
         NEW p \in inside, NEW q \in inside, p \notin line, q \notin line
  PROVE  p = q
BY DEF LockedBy
-----------------------------------------------------------------------------
(***************************************************************************)
(* A step of a process: the others stay where they are.                    *)
(***************************************************************************)
StepOf(p, label, next) ==
  /\ p \in AirProcesses /\ pc[p] = label
  /\ \A s \in Sem : p \notin Line(s)
  /\ pc' = [pc EXCEPT ![p] = next]
  /\ shared'.office = shared.office
  /\ \A q \in AirProcesses \ {p} : local'[q] = local[q]
  /\ program' = program

LEMMA SameOffice ==
  ASSUME shared'.office = shared.office
  PROVE  /\ Clerks' = Clerks /\ AirCustomers' = AirCustomers /\ AirProcesses' = AirProcesses
         /\ Ids' = Ids
         /\ \A id, f : Wants(id, f)' = Wants(id, f)
BY DEF Clerks, AirCustomers, AirProcesses, Ids, Wants

LEMMA Others ==
  ASSUME AirTypeOK, NEW p, NEW label, NEW next, StepOf(p, label, next)
  PROVE  /\ pc'[p] = next /\ DOMAIN pc' = AirProcesses
         /\ \A q \in AirProcesses \ {p} : pc'[q] = pc[q]
         /\ AtCounter' \ {p} = AtCounter \ {p} /\ AtQueue' \ {p} = AtQueue \ {p}
         /\ AtFlight1' \ {p} = AtFlight1 \ {p} /\ AtFlight2' \ {p} = AtFlight2 \ {p}
         /\ Counted' \ {p} = Counted \ {p} /\ Queued' \ {p} = Queued \ {p}
         /\ Called' \ {p} = Called \ {p} /\ Fetching' \ {p} = Fetching \ {p}
         /\ \A q \in AirProcesses \ {p}, s \in Sem : WaitsFor(q, s)' = WaitsFor(q, s)
<1>1. /\ Clerks' = Clerks /\ AirCustomers' = AirCustomers
      /\ \A id, f : Wants(id, f)' = Wants(id, f)
  BY SameOffice DEF StepOf
<1>2. /\ pc'[p] = next /\ DOMAIN pc' = AirProcesses
      /\ \A q \in AirProcesses \ {p} : pc'[q] = pc[q] /\ local'[q] = local[q]
  BY DEF StepOf, AirTypeOK
<1>3. Clerks \subseteq AirProcesses /\ AirCustomers \subseteq AirProcesses
  BY DEF AirProcesses
<1>4. AtCounter' \ {p} = AtCounter \ {p}
  BY <1>1, <1>2, <1>3 DEF AtCounter
<1>5. AtQueue' \ {p} = AtQueue \ {p}
  BY <1>1, <1>2, <1>3 DEF AtQueue
<1>6. AtFlight1' \ {p} = AtFlight1 \ {p}
  BY <1>1, <1>2, <1>3 DEF AtFlight1
<1>7. AtFlight2' \ {p} = AtFlight2 \ {p}
  BY <1>1, <1>2, <1>3 DEF AtFlight2
<1>8. Counted' \ {p} = Counted \ {p}
  BY <1>1, <1>2, <1>3 DEF Counted
<1>9. Queued' \ {p} = Queued \ {p}
  BY <1>1, <1>2, <1>3 DEF Queued
<1>10. Called' \ {p} = Called \ {p}
  BY <1>1, <1>2, <1>3 DEF Called
<1>12. Fetching' \ {p} = Fetching \ {p}
  BY <1>1, <1>2, <1>3 DEF Fetching
<1>11. \A q \in AirProcesses \ {p}, s \in Sem : WaitsFor(q, s)' = WaitsFor(q, s)
  <2> SUFFICES ASSUME NEW q \in AirProcesses \ {p}, NEW s \in Sem
               PROVE  WaitsFor(q, s)' = WaitsFor(q, s)
    OBVIOUS
  <2>1. pc'[q] = pc[q] /\ local'[q] = local[q]
    BY <1>2
  <2>2. (cust_finished(local[q].custId))' = cust_finished(local[q].custId)
    BY <2>1 DEF cust_finished
  <2> QED BY <1>1, <2>1, <2>2 DEF WaitsFor
<1> QED BY <1>2, <1>4, <1>5, <1>6, <1>7, <1>8, <1>9, <1>10, <1>11, <1>12

(***************************************************************************)
(* The lines after a step.                                                 *)
(***************************************************************************)
LEMMA WaitingKept ==
  ASSUME AirTypeOK, Waiting, NEW p, NEW label, NEW next, StepOf(p, label, next),
         \A t \in Sem : Line(t)' \subseteq Line(t) \cup {p},
         \A t \in Sem : p \in Line(t)' => WaitsFor(p, t)'
  PROVE  Waiting'
<1>1. \A q \in AirProcesses \ {p}, s \in Sem : WaitsFor(q, s)' = WaitsFor(q, s)
  BY Others
<1>2. \A t \in Sem : Line(t) \subseteq AirProcesses
  BY DEF AirTypeOK, Line, Range
<1> QED BY <1>1, <1>2 DEF Waiting
-----------------------------------------------------------------------------
(***************************************************************************)
(* The calls of semaphores, by the labels before and after them.           *)
(***************************************************************************)
CustomerWaits(p, a, b, s) ==
  \/ a = "arrive" /\ b = "count" /\ s = "custCounterCS"
  \/ a = "call_clerk" /\ b = "queue_up" /\ s = "clerk"
  \/ a = "queue_up" /\ b = "put" /\ s = "custQueueCS"
  \/ a = "finish" /\ b = "report" /\ s = cust_finished(local[p].custId)

ClerkWaits(p, a, b, s) ==
  \/ a = "next" /\ b = "dequeue" /\ s = "cust_ready"
  \/ a = "dequeue" /\ b = "get" /\ s = "custQueueCS"
  \/ a = "lock_1" /\ b = "lock_2" /\ s = "flight1CS" /\ Wants(local[p].custId, 2)
  \/ a = "lock_1" /\ b = "read" /\ s = "flight1CS" /\ ~Wants(local[p].custId, 2)
  \/ a = "lock_2" /\ b = "read" /\ s = "flight2CS"

CustomerSignals(p, a, b, s) ==
  \/ a = "leave_counter" /\ b = "call_clerk" /\ s = "custCounterCS"
  \/ a = "leave_queue" /\ b = "ready" /\ s = "custQueueCS"
  \/ a = "ready" /\ b = "finish" /\ s = "cust_ready"
  \/ a = "terminate" /\ b = "done" /\ s = "custTerminated"

ClerkSignals(p, a, b, s) ==
  \/ a = "leave_queue" /\ b = "lock_1" /\ s = "custQueueCS" /\ Wants(local[p].custId, 1)
  \/ a = "leave_queue" /\ b = "lock_2" /\ s = "custQueueCS" /\ ~Wants(local[p].custId, 1)
  \/ a = "unlock_2" /\ b = "unlock_1" /\ s = "flight2CS" /\ Wants(local[p].custId, 1)
  \/ a = "unlock_2" /\ b = "answer" /\ s = "flight2CS" /\ ~Wants(local[p].custId, 1)
  \/ a = "unlock_1" /\ b = "answer" /\ s = "flight1CS"
  \/ a = "answer" /\ b = "free" /\ s = cust_finished(local[p].custId)
  \/ a = "free" /\ b = "next" /\ s = "clerk"

Calls(p, a, b, s) ==
  \/ p \in AirCustomers /\ (CustomerWaits(p, a, b, s) \/ CustomerSignals(p, a, b, s))
  \/ p \in Clerks /\ (ClerkWaits(p, a, b, s) \/ ClerkSignals(p, a, b, s))

(***************************************************************************)
(* None of them touches what the customers' numbers, the queue and the     *)
(* bookings depend on.                                                     *)
(***************************************************************************)
Quiet(p, a, b, s) == (Calls(p, a, b, s) /\ local' = local) \/ p = airMaster

LEMMA SameData ==
  ASSUME shared' = shared
  PROVE  /\ Clerks' = Clerks /\ AirCustomers' = AirCustomers /\ AirProcesses' = AirProcesses
         /\ Ids' = Ids
         /\ \A id, f : Wants(id, f)' = Wants(id, f)
         /\ \A id : Taken(id)' = Taken(id) /\ SoldOut(id)' = SoldOut(id) /\ Decided(id)' = Decided(id)
BY DEF Clerks, AirCustomers, AirProcesses, Ids, Wants, Taken, SoldOut, Decided

LEMMA QuietNumbers ==
  ASSUME AirInv, NEW p, NEW a, NEW b, NEW s, StepOf(p, a, b), shared' = shared, Quiet(p, a, b, s)
  PROVE  Numbered' /\ QueueHolds'
<1>1. /\ Clerks' = Clerks /\ AirCustomers' = AirCustomers /\ Ids' = Ids
  BY SameData
<1>2. /\ pc'[p] = b /\ pc[p] = a /\ \A q \in AirProcesses \ {p} : pc'[q] = pc[q] /\ local'[q] = local[q]
  BY Others DEF AirInv, StepOf
<1>3. AirCustomers \subseteq AirProcesses
  BY DEF AirProcesses
<1>4. p \in AirCustomers =>
        /\ local' = local
        /\ b = "count" <=> a = "arrive"
        /\ a # "count" /\ a # "counted" /\ b # "arrive" /\ b # "counted"
        /\ a # "put_down" /\ b # "put_down"
        /\ p \in Counted <=> b # "count"
        /\ p \in Counted' <=> b # "count"
        /\ p \in Queued <=> p \in Queued'
  BY <1>1, <1>2, Offices DEF AirInv, Quiet, Calls, CustomerWaits, CustomerSignals, Counted, Queued
<1>5. Queued' = Queued /\ Counted' = Counted
  <2>1. Queued' \ {p} = Queued \ {p} /\ Counted' \ {p} = Counted \ {p}
    BY Others DEF AirInv
  <2>2. p \notin AirCustomers => p \notin Queued /\ p \notin Queued' /\ p \notin Counted /\ p \notin Counted'
    BY <1>1 DEF Queued, Counted
  <2>3. Queued' = Queued
    <3>1. p \in Queued <=> p \in Queued'
      BY <2>2, <1>4
    <3> QED BY <2>1, <3>1
  <2>4. Counted' = Counted
    <3>1. p \in Counted <=> p \in Counted'
      BY <2>2, <1>4
    <3> QED BY <2>1, <3>1
  <2> QED BY <2>3, <2>4
<1>6. \A q \in AirCustomers : local'[q] = local[q]
  BY <1>2, <1>3, <1>4
<1>7. Numbered'
  <2>1. shared' = shared /\ Numbered
    BY DEF AirInv
  <2>2. ASSUME NEW q \in AirCustomers
        PROVE  /\ pc'[q] \in {"arrive", "count"} => pc[q] \in {"arrive", "count"}
               /\ pc'[q] = "counted" => pc[q] = "counted"
    BY <1>2, <1>3, <1>4
  <2> QED BY <1>1, <1>5, <1>6, <2>1, <2>2 DEF Numbered
<1>8. \A q \in AirCustomers : pc'[q] = "put_down" <=> pc[q] = "put_down"
  BY <1>2, <1>3, <1>4
<1>9. Filled' = Filled
  BY <1>1, <1>8 DEF Filled
<1>10. QueueHolds'
  <2>1. shared' = shared /\ QueueHolds
    BY DEF AirInv
  <2>2. \A q \in AirCustomers : (local[q].reg)' = local[q].reg /\ (local[q].custId)' = local[q].custId
    BY <1>6
  <2>3. QueueHolds!1'
    BY <1>1, <1>8, <2>1, <2>2 DEF QueueHolds
  <2>4. QueueHolds!2' /\ QueueHolds!3'
    <3>1. shared'.cust_ready_queue = shared.cust_ready_queue /\ shared'.custCounter = shared.custCounter
      BY <2>1
    <3>2. QueueHolds!2 /\ QueueHolds!3
      BY <2>1 DEF QueueHolds
    <3> QED BY <1>1, <1>9, <3>1, <3>2, Zenon
  <2>5. QueueHolds!4'
    <3> SUFFICES ASSUME NEW j \in Filled', NEW q \in AirCustomers', pc'[q] # "put_down", q \notin Queued'
                 PROVE  shared'.cust_ready_queue[j] # local'[q].custId
      OBVIOUS
    <3>1. j \in Filled /\ q \in AirCustomers /\ pc[q] # "put_down" /\ q \notin Queued
      BY <1>1, <1>5, <1>8, <1>9
    <3>2. shared.cust_ready_queue[j] # local[q].custId
      BY <2>1, <3>1 DEF QueueHolds
    <3> QED BY <2>1, <2>2, <3>1, <3>2
  <2> QED BY <2>3, <2>4, <2>5 DEF QueueHolds
<1> QED BY <1>7, <1>10

LEMMA QuietClerks ==
  ASSUME AirInv, NEW p, NEW a, NEW b, NEW s, StepOf(p, a, b), shared' = shared, Quiet(p, a, b, s)
  PROVE  Serving' /\ Bookings' /\ Answers'
<1>1. /\ Clerks' = Clerks /\ AirCustomers' = AirCustomers /\ Ids' = Ids
      /\ \A id, f : Wants(id, f)' = Wants(id, f)
      /\ \A id : Taken(id)' = Taken(id) /\ SoldOut(id)' = SoldOut(id) /\ Decided(id)' = Decided(id)
  BY SameData
<1>2. /\ pc'[p] = b /\ pc[p] = a /\ \A q \in AirProcesses \ {p} : pc'[q] = pc[q] /\ local'[q] = local[q]
  BY Others DEF AirInv, StepOf
<1>3. Clerks \subseteq AirProcesses /\ AirCustomers \subseteq AirProcesses
  BY DEF AirProcesses
<1>4. p \in Clerks =>
        /\ local' = local
        /\ b # "got" /\ b # "write"
        /\ b \notin {"next", "dequeue", "get"} => a \notin {"next", "dequeue", "get", "got"}
        /\ b \in {"leave_queue", "lock_1", "lock_2", "read"}
             => a \in {"leave_queue", "lock_1", "lock_2", "read"}
        /\ b \in {"unlock_2", "unlock_1", "answer"} => a \in {"unlock_2", "unlock_1", "answer"}
        /\ b \in {"lock_1", "unlock_1"} => Wants(local[p].custId, 1)
        /\ b = "lock_2" => Wants(local[p].custId, 2)
        /\ b # "unlock_2"
  <2> SUFFICES ASSUME p \in Clerks PROVE <1>4!2
    OBVIOUS
  <2>1. local' = local /\ (ClerkWaits(p, a, b, s) \/ ClerkSignals(p, a, b, s))
    BY Offices DEF AirInv, Quiet, Calls
  <2>2. a = "leave_queue" => Wants(local[p].custId, 1) \/ Wants(local[p].custId, 2)
    <3>1. a = "leave_queue" => local[p].custId \in Ids
      BY <1>2 DEF AirInv, Serving, HasCustomer
    <3> QED BY <3>1, WantsOne DEF AirInv
  <2> QED BY <2>1, <2>2 DEF ClerkWaits, ClerkSignals
<1>5. p \in AirCustomers =>
        /\ local' = local
        /\ b \in {"terminate", "done"} => a \in {"terminate", "done"}
  BY Offices DEF AirInv, Quiet, Calls, CustomerWaits, CustomerSignals
<1>6. \A q \in Clerks \cup AirCustomers : local'[q] = local[q]
  BY <1>2, <1>3, <1>4, <1>5
<1>7. \A q \in Clerks : HasCustomer(q)' => HasCustomer(q)
  BY <1>2, <1>3, <1>4 DEF HasCustomer
<1>8. Serving'
  <2>1. \A q \in Clerks : pc'[q] = "got" => pc[q] = "got"
    BY <1>2, <1>3, <1>4
  <2>2. \A q \in Clerks : HasCustomer(q)' /\ pc'[q] # "got" => HasCustomer(q) /\ pc[q] # "got"
    BY <1>2, <1>3, <1>4 DEF HasCustomer
  <2> QED BY <1>1, <1>6, <1>7, <2>1, <2>2 DEF AirInv, Serving
<1>9. Bookings'
  <2>1. \A q \in Clerks : pc'[q] \in {"got", "leave_queue", "lock_1", "lock_2", "read", "write"}
                            => pc[q] \in {"got", "leave_queue", "lock_1", "lock_2", "read", "write"}
    BY <1>2, <1>3, <1>4
  <2>2. \A q \in Clerks : /\ pc'[q] \in {"lock_1", "unlock_1"} => Wants(local[q].custId, 1)
                          /\ pc'[q] \in {"lock_2", "unlock_2"} => Wants(local[q].custId, 2)
                          /\ pc'[q] = "write" => pc[q] = "write"
    BY <1>2, <1>3, <1>4 DEF AirInv, Bookings
  <2>3. shared' = shared /\ Bookings
    BY DEF AirInv
  <2>4. \A q \in Clerks : (local[q].reg)' = local[q].reg /\ (local[q].custId)' = local[q].custId
    BY <1>6
  <2>5. Bookings!1'
    BY <1>1, <2>3 DEF Bookings
  <2>6. Bookings!2'
    BY <1>1, <2>3 DEF Bookings
  <2>7. Bookings!3'
    <3> SUFFICES ASSUME NEW q \in Clerks' PROVE Bookings!3!(q)'
      OBVIOUS
    <3>1. q \in Clerks /\ Bookings!3!(q)
      BY <1>1, <2>3 DEF Bookings
    <3> QED BY <1>1, <2>1, <2>2, <2>3, <2>4, <3>1
  <2> QED BY <2>5, <2>6, <2>7 DEF Bookings
<1>10. Answers'
  <2>1. \A q \in Clerks : pc'[q] \in {"unlock_2", "unlock_1", "answer"}
                            => pc[q] \in {"unlock_2", "unlock_1", "answer"}
    BY <1>2, <1>3, <1>4
  <2>2. \A q \in AirCustomers : pc'[q] \in {"terminate", "done"} => pc[q] \in {"terminate", "done"}
    BY <1>2, <1>3, <1>5
  <2> QED BY <1>1, <1>6, <2>1, <2>2 DEF AirInv, Answers
<1> QED BY <1>8, <1>9, <1>10
-----------------------------------------------------------------------------
(***************************************************************************)
(* What a call does to the critical sections.                              *)
(***************************************************************************)
WaitCall(p, a, b, s) ==
  \/ p \in AirCustomers /\ CustomerWaits(p, a, b, s)
  \/ p \in Clerks /\ ClerkWaits(p, a, b, s)

SignalCall(p, a, b, s) ==
  \/ p \in AirCustomers /\ CustomerSignals(p, a, b, s)
  \/ p \in Clerks /\ ClerkSignals(p, a, b, s)

Enters(p, s, t, inside, after) ==
  \/ s = t /\ p \notin inside /\ after = inside \cup {p}
  \/ s # t /\ after = inside

Leaves(p, s, t, inside, after) ==
  \/ s = t /\ p \in inside /\ after = inside \ {p}
  \/ s # t /\ after = inside

LEMMA CustomerNumbers ==
  ASSUME AirInv
  PROVE  \A p \in Counted : local[p].custId \in Ids
<1>1. Counted \subseteq AirCustomers /\ AirCustomers \subseteq AirProcesses
  BY DEF Counted, AirProcesses
<1>2. \A p \in Counted : local[p].custId \in Ids \cup {Unwritten}
  BY <1>1 DEF AirInv, AirTypeOK
<1>3. \A p \in Counted : local[p].custId # Unwritten
  BY <1>1 DEF AirInv, Numbered, Unwritten
<1> QED BY <1>2, <1>3

LEMMA CalledSemaphore ==
  ASSUME AirInv, NEW p, NEW a, NEW b, NEW s, StepOf(p, a, b),
         WaitCall(p, a, b, s) \/ SignalCall(p, a, b, s)
  PROVE  /\ s \in Sem
         /\ s \in officeNames \/ (local[p].custId \in Ids /\ s = cust_finished(local[p].custId))
         /\ s \notin officeNames => \/ p \in AirCustomers /\ a = "finish" /\ b = "report"
                                    \/ p \in Clerks /\ a = "answer" /\ b = "free"
<1>1. officeNames \subseteq Sem
  BY AirAssumption
<1>2. pc[p] = a
  BY DEF StepOf
<1>3. p \in AirCustomers /\ a = "finish" => local[p].custId \in Ids
  <2>1. p \in AirCustomers /\ a = "finish" => p \in Counted
    BY <1>2 DEF Counted
  <2> QED BY <2>1, CustomerNumbers
<1>4. p \in Clerks /\ a = "answer" => local[p].custId \in Ids
  BY <1>2 DEF AirInv, Serving, HasCustomer
<1>5. \A id \in Ids : cust_finished(id) \in Sem
  BY Finished DEF AirInv
<1>6. CASE WaitCall(p, a, b, s)
  BY <1>1, <1>3, <1>5, <1>6 DEF WaitCall, CustomerWaits, ClerkWaits, officeNames
<1>7. CASE SignalCall(p, a, b, s)
  BY <1>1, <1>4, <1>5, <1>7 DEF SignalCall, CustomerSignals, ClerkSignals, officeNames
<1> QED BY <1>6, <1>7

LEMMA WaitRegions ==
  ASSUME AirInv, NEW p, NEW a, NEW b, NEW s, StepOf(p, a, b), local' = local, shared' = shared,
         WaitCall(p, a, b, s)
  PROVE  /\ Enters(p, s, "custCounterCS", AtCounter, AtCounter')
         /\ Enters(p, s, "custQueueCS", AtQueue, AtQueue')
         /\ Enters(p, s, "flight1CS", AtFlight1, AtFlight1')
         /\ Enters(p, s, "flight2CS", AtFlight2, AtFlight2')
<1>1. /\ Clerks' = Clerks /\ AirCustomers' = AirCustomers /\ \A id, f : Wants(id, f)' = Wants(id, f)
  BY SameData
<1>2. /\ pc'[p] = b /\ pc[p] = a /\ local' = local
      /\ AtCounter' \ {p} = AtCounter \ {p} /\ AtQueue' \ {p} = AtQueue \ {p}
      /\ AtFlight1' \ {p} = AtFlight1 \ {p} /\ AtFlight2' \ {p} = AtFlight2 \ {p}
  BY Others DEF AirInv, StepOf
<1>3. \/ p \in AirCustomers /\ p \notin Clerks /\ CustomerWaits(p, a, b, s)
      \/ p \in Clerks /\ p \notin AirCustomers /\ ClerkWaits(p, a, b, s)
  BY Offices DEF AirInv, WaitCall
<1>4. /\ s = cust_finished(local[p].custId) /\ p \in AirCustomers /\ a = "finish" =>
           /\ s # "custCounterCS" /\ s # "custQueueCS" /\ s # "flight1CS" /\ s # "flight2CS"
           /\ s # "clerk" /\ s # "cust_ready" /\ s # "custTerminated"
  <2>1. p \in AirCustomers /\ a = "finish" => local[p].custId \in Ids
    <3>1. p \in AirCustomers /\ a = "finish" => p \in Counted
      BY <1>2 DEF Counted
    <3> QED BY <3>1, CustomerNumbers
  <2>2. \A id \in Ids : cust_finished(id) \notin officeNames
    BY Finished DEF AirInv
  <2> QED BY <2>1, <2>2 DEF officeNames
<1>5. p \in Clerks => /\ a = "lock_1" => Wants(local[p].custId, 1)
                      /\ a = "lock_2" => Wants(local[p].custId, 2)
  BY <1>2 DEF AirInv, Bookings
<1>6. Enters(p, s, "custCounterCS", AtCounter, AtCounter')
  <2>1. /\ s = "custCounterCS" => p \notin AtCounter /\ p \in AtCounter'
        /\ s # "custCounterCS" => (p \in AtCounter <=> p \in AtCounter')
    <3>1. CASE p \in AirCustomers /\ p \notin Clerks /\ CustomerWaits(p, a, b, s)
      BY <1>1, <1>2, <1>4, <3>1 DEF CustomerWaits, AtCounter
    <3>2. CASE p \in Clerks /\ p \notin AirCustomers /\ ClerkWaits(p, a, b, s)
      BY <1>1, <1>2, <1>4, <1>5, <3>2 DEF ClerkWaits, AtCounter
    <3> QED BY <1>3, <3>1, <3>2
  <2> QED BY <1>2, <2>1 DEF Enters
<1>7. Enters(p, s, "custQueueCS", AtQueue, AtQueue')
  <2>1. /\ s = "custQueueCS" => p \notin AtQueue /\ p \in AtQueue'
        /\ s # "custQueueCS" => (p \in AtQueue <=> p \in AtQueue')
    <3>1. CASE p \in AirCustomers /\ p \notin Clerks /\ CustomerWaits(p, a, b, s)
      BY <1>1, <1>2, <1>4, <3>1 DEF CustomerWaits, AtQueue
    <3>2. CASE p \in Clerks /\ p \notin AirCustomers /\ ClerkWaits(p, a, b, s)
      BY <1>1, <1>2, <1>4, <1>5, <3>2 DEF ClerkWaits, AtQueue
    <3> QED BY <1>3, <3>1, <3>2
  <2> QED BY <1>2, <2>1 DEF Enters
<1>8. Enters(p, s, "flight1CS", AtFlight1, AtFlight1')
  <2>1. /\ s = "flight1CS" => p \notin AtFlight1 /\ p \in AtFlight1'
        /\ s # "flight1CS" => (p \in AtFlight1 <=> p \in AtFlight1')
    <3>1. CASE p \in AirCustomers /\ p \notin Clerks /\ CustomerWaits(p, a, b, s)
      BY <1>1, <1>2, <1>4, <3>1 DEF CustomerWaits, AtFlight1
    <3>2. CASE p \in Clerks /\ p \notin AirCustomers /\ ClerkWaits(p, a, b, s)
      BY <1>1, <1>2, <1>4, <1>5, <3>2 DEF ClerkWaits, AtFlight1
    <3> QED BY <1>3, <3>1, <3>2
  <2> QED BY <1>2, <2>1 DEF Enters
<1>9. Enters(p, s, "flight2CS", AtFlight2, AtFlight2')
  <2>1. /\ s = "flight2CS" => p \notin AtFlight2 /\ p \in AtFlight2'
        /\ s # "flight2CS" => (p \in AtFlight2 <=> p \in AtFlight2')
    <3>1. CASE p \in AirCustomers /\ p \notin Clerks /\ CustomerWaits(p, a, b, s)
      BY <1>1, <1>2, <1>4, <3>1 DEF CustomerWaits, AtFlight2
    <3>2. CASE p \in Clerks /\ p \notin AirCustomers /\ ClerkWaits(p, a, b, s)
      BY <1>1, <1>2, <1>4, <1>5, <3>2 DEF ClerkWaits, AtFlight2
    <3> QED BY <1>3, <3>1, <3>2
  <2> QED BY <1>2, <2>1 DEF Enters
<1> QED BY <1>6, <1>7, <1>8, <1>9

LEMMA SignalRegions ==
  ASSUME AirInv, NEW p, NEW a, NEW b, NEW s, StepOf(p, a, b), local' = local, shared' = shared,
         SignalCall(p, a, b, s)
  PROVE  /\ Leaves(p, s, "custCounterCS", AtCounter, AtCounter')
         /\ Leaves(p, s, "custQueueCS", AtQueue, AtQueue')
         /\ Leaves(p, s, "flight1CS", AtFlight1, AtFlight1')
         /\ Leaves(p, s, "flight2CS", AtFlight2, AtFlight2')
<1>1. /\ Clerks' = Clerks /\ AirCustomers' = AirCustomers /\ \A id, f : Wants(id, f)' = Wants(id, f)
  BY SameData
<1>2. /\ pc'[p] = b /\ pc[p] = a /\ local' = local
      /\ AtCounter' \ {p} = AtCounter \ {p} /\ AtQueue' \ {p} = AtQueue \ {p}
      /\ AtFlight1' \ {p} = AtFlight1 \ {p} /\ AtFlight2' \ {p} = AtFlight2 \ {p}
  BY Others DEF AirInv, StepOf
<1>3. \/ p \in AirCustomers /\ p \notin Clerks /\ CustomerSignals(p, a, b, s)
      \/ p \in Clerks /\ p \notin AirCustomers /\ ClerkSignals(p, a, b, s)
  BY Offices DEF AirInv, SignalCall
<1>4. /\ s = cust_finished(local[p].custId) /\ p \in Clerks /\ a = "answer" =>
           /\ s # "custCounterCS" /\ s # "custQueueCS" /\ s # "flight1CS" /\ s # "flight2CS"
           /\ s # "clerk" /\ s # "cust_ready" /\ s # "custTerminated"
  <2>1. p \in Clerks /\ a = "answer" => local[p].custId \in Ids
    BY <1>2 DEF AirInv, Serving, HasCustomer
  <2>2. \A id \in Ids : cust_finished(id) \notin officeNames
    BY Finished DEF AirInv
  <2> QED BY <2>1, <2>2 DEF officeNames
<1>5. p \in Clerks => /\ a = "unlock_1" => Wants(local[p].custId, 1)
                      /\ a = "unlock_2" => Wants(local[p].custId, 2)
  BY <1>2 DEF AirInv, Bookings
<1>6. Leaves(p, s, "custCounterCS", AtCounter, AtCounter')
  <2>1. /\ s = "custCounterCS" => p \in AtCounter /\ p \notin AtCounter'
        /\ s # "custCounterCS" => (p \in AtCounter <=> p \in AtCounter')
    <3>1. CASE p \in AirCustomers /\ p \notin Clerks /\ CustomerSignals(p, a, b, s)
      BY <1>1, <1>2, <1>4, <3>1 DEF CustomerSignals, AtCounter
    <3>2. CASE p \in Clerks /\ p \notin AirCustomers /\ ClerkSignals(p, a, b, s)
      BY <1>1, <1>2, <1>4, <1>5, <3>2 DEF ClerkSignals, AtCounter
    <3> QED BY <1>3, <3>1, <3>2
  <2> QED BY <1>2, <2>1 DEF Leaves
<1>7. Leaves(p, s, "custQueueCS", AtQueue, AtQueue')
  <2>1. /\ s = "custQueueCS" => p \in AtQueue /\ p \notin AtQueue'
        /\ s # "custQueueCS" => (p \in AtQueue <=> p \in AtQueue')
    <3>1. CASE p \in AirCustomers /\ p \notin Clerks /\ CustomerSignals(p, a, b, s)
      BY <1>1, <1>2, <1>4, <3>1 DEF CustomerSignals, AtQueue
    <3>2. CASE p \in Clerks /\ p \notin AirCustomers /\ ClerkSignals(p, a, b, s)
      BY <1>1, <1>2, <1>4, <1>5, <3>2 DEF ClerkSignals, AtQueue
    <3> QED BY <1>3, <3>1, <3>2
  <2> QED BY <1>2, <2>1 DEF Leaves
<1>8. Leaves(p, s, "flight1CS", AtFlight1, AtFlight1')
  <2>1. /\ s = "flight1CS" => p \in AtFlight1 /\ p \notin AtFlight1'
        /\ s # "flight1CS" => (p \in AtFlight1 <=> p \in AtFlight1')
    <3>1. CASE p \in AirCustomers /\ p \notin Clerks /\ CustomerSignals(p, a, b, s)
      BY <1>1, <1>2, <1>4, <3>1 DEF CustomerSignals, AtFlight1
    <3>2. CASE p \in Clerks /\ p \notin AirCustomers /\ ClerkSignals(p, a, b, s)
      BY <1>1, <1>2, <1>4, <1>5, <3>2 DEF ClerkSignals, AtFlight1
    <3> QED BY <1>3, <3>1, <3>2
  <2> QED BY <1>2, <2>1 DEF Leaves
<1>9. Leaves(p, s, "flight2CS", AtFlight2, AtFlight2')
  <2>1. /\ s = "flight2CS" => p \in AtFlight2 /\ p \notin AtFlight2'
        /\ s # "flight2CS" => (p \in AtFlight2 <=> p \in AtFlight2')
    <3>1. CASE p \in AirCustomers /\ p \notin Clerks /\ CustomerSignals(p, a, b, s)
      BY <1>1, <1>2, <1>4, <3>1 DEF CustomerSignals, AtFlight2
    <3>2. CASE p \in Clerks /\ p \notin AirCustomers /\ ClerkSignals(p, a, b, s)
      BY <1>1, <1>2, <1>4, <1>5, <3>2 DEF ClerkSignals, AtFlight2
    <3> QED BY <1>3, <3>1, <3>2
  <2> QED BY <1>2, <2>1 DEF Leaves
<1> QED BY <1>6, <1>7, <1>8, <1>9

-----------------------------------------------------------------------------
(***************************************************************************)
(* Sizes.                                                                  *)
(***************************************************************************)
LEMMA Sizes ==
  ASSUME AirTypeOK
  PROVE  /\ \A S \in SUBSET AirCustomers : /\ IsFiniteSet(S) /\ Cardinality(S) \in Nat
                                           /\ Cardinality(S) <= Cardinality(AirCustomers)
         /\ \A S \in SUBSET Clerks : IsFiniteSet(S) /\ Cardinality(S) \in Nat
<1>1. \A S \in SUBSET AirCustomers : /\ IsFiniteSet(S) /\ Cardinality(S) \in Nat
                                     /\ Cardinality(S) <= Cardinality(AirCustomers)
  BY Offices, FS_Subset, FS_CardinalityType
<1>2. \A S \in SUBSET Clerks : IsFiniteSet(S) /\ Cardinality(S) \in Nat
  BY Offices, FS_Subset, FS_CardinalityType
<1> QED BY <1>1, <1>2

LEMMA LargerByOne ==
  ASSUME NEW S, IsFiniteSet(S), NEW p, p \notin S
  PROVE  Cardinality(S \cup {p}) = Cardinality(S) + 1 /\ Cardinality(S) \in Nat
BY FS_AddElement, FS_CardinalityType

LEMMA SmallerByOne ==
  ASSUME NEW S, IsFiniteSet(S), NEW p \in S
  PROVE  Cardinality(S) = Cardinality(S \ {p}) + 1 /\ Cardinality(S \ {p}) \in Nat
<1>1. IsFiniteSet(S \ {p}) /\ S = (S \ {p}) \cup {p} /\ p \notin S \ {p}
  BY FS_Subset
<1> QED BY <1>1, LargerByOne

LEMMA LockWaited ==
  ASSUME NEW p, NEW s \in Sem, NEW t \in Sem, NEW inside, NEW after, Waited(s, p),
         Enters(p, s, t, inside, after), Locked(t, inside)
  PROVE  LockedBy(available'[t], Line(t)', after)
<1>1. CASE s = t
  <2>1. p \notin inside /\ after = inside \cup {p}
    BY <1>1 DEF Enters
  <2>2. \/ available[t] > 0 /\ available'[t] = available[t] - 1 /\ Line(t)' = Line(t)
        \/ available[t] = 0 /\ available'[t] = 0 /\ Line(t)' = Line(t) \cup {p}
    BY <1>1 DEF Waited
  <2>3. LockedBy(available[t], Line(t), inside)
    BY DEF Locked
  <2> HIDE DEF Line
  <2>4. LockedBy(available'[t], Line(t)', inside \cup {p})
    BY <2>1, <2>2, <2>3, LockEntered
  <2> QED BY <2>1, <2>4
<1>2. CASE s # t
  BY <1>2 DEF Enters, Waited, OtherLines, Locked
<1> QED BY <1>1, <1>2

LEMMA LockSignalled ==
  ASSUME NEW p, NEW s \in Sem, NEW t \in Sem, NEW inside, NEW after, Signalled(s),
         Leaves(p, s, t, inside, after), Locked(t, inside), p \notin Line(t)
  PROVE  LockedBy(available'[t], Line(t)', after)
<1>1. CASE s = t
  <2>1. p \in inside /\ after = inside \ {p}
    BY <1>1 DEF Leaves
  <2>2. \/ Line(t) = {} /\ Line(t)' = {} /\ available'[t] = available[t] + 1
        \/ \E h \in Line(t) : Line(t)' = Line(t) \ {h} /\ available'[t] = available[t]
    BY <1>1 DEF Signalled
  <2>3. LockedBy(available[t], Line(t), inside)
    BY DEF Locked
  <2>4. LockedBy(available'[t], Line(t)', inside \ {p})
    BY <2>1, <2>2, <2>3, LockLeft
  <2> QED BY <2>1, <2>4
<1>2. CASE s # t
  BY <1>2 DEF Leaves, Signalled, OtherLines, Locked
<1> QED BY <1>1, <1>2

LEMMA SemaphoreNames ==
  ASSUME AirInv
  PROVE  {"custCounterCS", "custQueueCS", "flight1CS", "flight2CS", "cust_ready"} \subseteq Sem
BY AirAssumption DEF officeNames
-----------------------------------------------------------------------------
(***************************************************************************)
(* A call of sys_waitSemaphore() keeps the invariant.                      *)
(***************************************************************************)
WaitStep(p, a, b, s) ==
  /\ StepOf(p, a, b) /\ local' = local /\ shared' = shared
  /\ WaitCall(p, a, b, s)
  /\ Acquire(s) \/ Queue(s, p)

LEMMA WaitLines ==
  ASSUME AirInv, NEW p, NEW a, NEW b, NEW s, WaitStep(p, a, b, s)
  PROVE  /\ s \in Sem /\ LinesTyped' /\ Lines' /\ Waited(s, p)
         /\ \A t \in Sem : p \notin Line(t)
         /\ p \in AirProcesses /\ pc[p] = a /\ pc'[p] = b
         /\ \/ p \in AirCustomers /\ p \notin Clerks /\ CustomerWaits(p, a, b, s)
            \/ p \in Clerks /\ p \notin AirCustomers /\ ClerkWaits(p, a, b, s)
<1>1. StepOf(p, a, b) /\ shared' = shared /\ WaitCall(p, a, b, s)
  BY DEF WaitStep
<1>2. s \in Sem
  BY <1>1, CalledSemaphore
<1>3. /\ LinesTyped /\ Lines /\ AirTypeOK
  BY DEF AirInv, AirTypeOK, LinesTyped
<1>4. /\ p \in AirProcesses /\ pc[p] = a /\ \A t \in Sem : p \notin Line(t)
  BY <1>1 DEF StepOf
<1>5. AirProcesses' = AirProcesses
  BY <1>1, SameData
<1>6. Acquire(s) \/ Queue(s, p)
  BY DEF WaitStep
<1>7. LinesTyped' /\ Lines' /\ Waited(s, p)
  BY <1>2, <1>3, <1>4, <1>5, <1>6, Waits
<1>8. pc'[p] = b
  BY <1>1, <1>3, Others
<1>9. \/ p \in AirCustomers /\ p \notin Clerks /\ CustomerWaits(p, a, b, s)
      \/ p \in Clerks /\ p \notin AirCustomers /\ ClerkWaits(p, a, b, s)
  BY <1>1, <1>3, Offices DEF WaitCall
<1> QED BY <1>2, <1>4, <1>7, <1>8, <1>9

LEMMA WaitTypes ==
  ASSUME AirInv, NEW p, NEW a, NEW b, NEW s, WaitStep(p, a, b, s)
  PROVE  AirTypeOK'
<1>1. /\ StepOf(p, a, b) /\ local' = local /\ shared' = shared /\ AirTypeOK
  BY DEF WaitStep, AirInv
<1>2. /\ Clerks' = Clerks /\ AirCustomers' = AirCustomers /\ AirProcesses' = AirProcesses /\ Ids' = Ids
  BY <1>1, SameData
<1>3. /\ DOMAIN pc' = AirProcesses /\ pc'[p] = b /\ \A q \in AirProcesses \ {p} : pc'[q] = pc[q]
  BY <1>1, Others
<1>4. /\ p \in AirCustomers => b \in CustomerLabels
      /\ p \in Clerks => b \in ClerkLabels
      /\ p # airMaster
  BY <1>1, WaitLines, Offices DEF CustomerWaits, ClerkWaits, CustomerLabels, ClerkLabels
<1>5. Clerks \cup AirCustomers \cup {airMaster} = AirProcesses
  BY DEF AirProcesses
<1>6. /\ \A q \in Clerks' : pc'[q] \in ClerkLabels
      /\ \A q \in AirCustomers' : pc'[q] \in CustomerLabels
      /\ pc'[airMaster] \in MasterLabels
  BY <1>1, <1>2, <1>3, <1>4, <1>5 DEF AirTypeOK
<1>7. Office' = Office
  BY <1>2 DEF Office
<1>8. LinesTyped'
  BY WaitLines
<1>9. program' = "air"
  BY <1>1 DEF StepOf, AirTypeOK
<1> QED BY <1>1, <1>2, <1>3, <1>6, <1>7, <1>8, <1>9 DEF AirTypeOK, LinesTyped

LEMMA WaitWaiting ==
  ASSUME AirInv, NEW p, NEW a, NEW b, NEW s, WaitStep(p, a, b, s)
  PROVE  Waiting'
<1>1. /\ StepOf(p, a, b) /\ local' = local /\ shared' = shared /\ AirTypeOK /\ Waiting
  BY DEF WaitStep, AirInv
<1>2. /\ Clerks' = Clerks /\ AirCustomers' = AirCustomers /\ \A id, f : Wants(id, f)' = Wants(id, f)
  BY <1>1, SameData
<1>3. /\ s \in Sem /\ Waited(s, p) /\ pc[p] = a /\ pc'[p] = b /\ \A t \in Sem : p \notin Line(t)
  BY WaitLines
<1>4. \A t \in Sem : Line(t)' \subseteq Line(t) \cup {p}
  BY <1>3 DEF Waited, OtherLines
<1>5. \A t \in Sem : p \in Line(t)' => t = s
  BY <1>3 DEF Waited, OtherLines
<1>6. WaitsFor(p, s)'
  <2>1. p \in Clerks => /\ a = "lock_1" => Wants(local[p].custId, 1)
                        /\ a = "lock_2" => Wants(local[p].custId, 2)
    BY <1>3 DEF AirInv, Bookings
  <2>2. \A id : cust_finished(id)' = cust_finished(id)
    BY DEF cust_finished
  <2>3. CASE p \in AirCustomers /\ CustomerWaits(p, a, b, s)
    BY <1>1, <1>2, <1>3, <2>3 DEF CustomerWaits, WaitsFor, cust_finished
  <2>4. CASE p \in Clerks /\ ClerkWaits(p, a, b, s)
    BY <1>1, <1>2, <1>3, <2>1, <2>4 DEF ClerkWaits, WaitsFor
  <2> QED BY <2>3, <2>4, WaitLines
<1> QED BY <1>1, <1>4, <1>5, <1>6, WaitingKept

LEMMA WaitLocks ==
  ASSUME AirInv, NEW p, NEW a, NEW b, NEW s, WaitStep(p, a, b, s)
  PROVE  Locks'
<1>1. /\ Enters(p, s, "custCounterCS", AtCounter, AtCounter')
      /\ Enters(p, s, "custQueueCS", AtQueue, AtQueue')
      /\ Enters(p, s, "flight1CS", AtFlight1, AtFlight1')
      /\ Enters(p, s, "flight2CS", AtFlight2, AtFlight2')
  BY WaitRegions DEF WaitStep
<1>2. Locks /\ s \in Sem /\ Waited(s, p)
  BY WaitLines DEF AirInv
<1>3. LockedBy(available'["custCounterCS"], Line("custCounterCS")', AtCounter')
  BY <1>1, <1>2, SemaphoreNames, LockWaited DEF Locks
<1>4. LockedBy(available'["custQueueCS"], Line("custQueueCS")', AtQueue')
  BY <1>1, <1>2, SemaphoreNames, LockWaited DEF Locks
<1>5. LockedBy(available'["flight1CS"], Line("flight1CS")', AtFlight1')
  BY <1>1, <1>2, SemaphoreNames, LockWaited DEF Locks
<1>6. LockedBy(available'["flight2CS"], Line("flight2CS")', AtFlight2')
  BY <1>1, <1>2, SemaphoreNames, LockWaited DEF Locks
<1> QED BY <1>3, <1>4, <1>5, <1>6 DEF Locks, Locked

LEMMA WaitCounts ==
  ASSUME AirInv, NEW p, NEW a, NEW b, NEW s, WaitStep(p, a, b, s)
  PROVE  Counts'
<1>1. /\ StepOf(p, a, b) /\ local' = local /\ shared' = shared /\ AirTypeOK /\ Counts
  BY DEF WaitStep, AirInv
<1>2. /\ Clerks' = Clerks /\ AirCustomers' = AirCustomers
  BY <1>1, SameData
<1>3. /\ s \in Sem /\ Waited(s, p) /\ pc[p] = a /\ pc'[p] = b /\ \A t \in Sem : p \notin Line(t)
      /\ \/ p \in AirCustomers /\ p \notin Clerks /\ CustomerWaits(p, a, b, s)
         \/ p \in Clerks /\ p \notin AirCustomers /\ ClerkWaits(p, a, b, s)
  BY WaitLines
<1>4. Counted' \ {p} = Counted \ {p} /\ Queued' \ {p} = Queued \ {p} /\ Called' \ {p} = Called \ {p}
  BY <1>1, Others
<1>5. /\ p \in Counted' <=> p \in Counted
      /\ p \in Queued' <=> p \in Queued
      /\ p \in Called' <=> p \in Called
  BY <1>2, <1>3 DEF Counted, Queued, Called, CustomerWaits
<1>6. Counted' = Counted /\ Queued' = Queued /\ Called' = Called
  BY <1>4, <1>5
<1>7. /\ Fetching' \ {p} = Fetching \ {p} /\ Fetching \subseteq Clerks /\ "cust_ready" \in Sem
  BY <1>1, Others, SemaphoreNames DEF Fetching
<1>8. /\ Coming \subseteq Clerks /\ IsFiniteSet(Coming)
      /\ p \notin Line("cust_ready") /\ available["cust_ready"] \in Nat
      /\ Coming = Fetching \ Line("cust_ready") /\ Coming' = Fetching' \ Line("cust_ready")'
  BY <1>1, <1>3, <1>7, Sizes DEF Coming, Fetching, AirTypeOK
<1>9. available'["cust_ready"] + Cardinality(Coming') = available["cust_ready"] + Cardinality(Coming)
  <2>1. CASE s = "cust_ready"
    <3>1. s = cust_finished(local[p].custId) => ~(p \in AirCustomers /\ a = "finish")
      <4>1. p \in AirCustomers /\ a = "finish" => local[p].custId \in Ids
        BY <1>3, CustomerNumbers DEF Counted
      <4> QED BY <4>1, <1>1, <2>1, Finished DEF officeNames
    <3>2. p \in Clerks /\ a = "next" /\ b = "dequeue"
      BY <1>3, <2>1, <3>1 DEF CustomerWaits, ClerkWaits
    <3>3. p \in Fetching' /\ p \notin Fetching
      BY <1>2, <1>3, <3>2 DEF Fetching
    <3>4. CASE /\ available[s] > 0 /\ available'[s] = available[s] - 1 /\ Line(s)' = Line(s)
      <4>1. Coming' = Coming \cup {p} /\ p \notin Coming
        BY <1>7, <1>8, <2>1, <3>3, <3>4
      <4>2. Cardinality(Coming') = Cardinality(Coming) + 1 /\ Cardinality(Coming) \in Nat
        BY <1>8, <4>1, LargerByOne
      <4> QED BY <1>8, <2>1, <3>4, <4>2
    <3>5. CASE available[s] = 0 /\ available'[s] = 0 /\ Line(s)' = Line(s) \cup {p}
      <4>1. Coming' = Coming
        BY <1>7, <1>8, <2>1, <3>3, <3>5
      <4> QED BY <2>1, <3>5, <4>1
    <3> QED BY <1>3, <3>4, <3>5 DEF Waited
  <2>2. CASE s # "cust_ready"
    <3>1. Line("cust_ready")' = Line("cust_ready") /\ available'["cust_ready"] = available["cust_ready"]
      BY <1>3, <1>7, <2>2 DEF Waited, OtherLines
    <3>2. p \in Fetching' <=> p \in Fetching
      BY <1>2, <1>3, <2>2 DEF Fetching, CustomerWaits, ClerkWaits
    <3>3. Fetching' = Fetching
      BY <1>7, <3>2
    <3>4. Coming' = Coming
      BY <1>8, <3>1, <3>3
    <3> QED BY <3>1, <3>4
  <2> QED BY <2>1, <2>2
<1>10. shared.queue_out \in Nat /\ Cardinality(Coming) \in Nat /\ Cardinality(Coming') \in Nat
       /\ available'["cust_ready"] \in Nat
  <2>1. shared.queue_out \in Nat /\ Cardinality(Coming) \in Nat
    BY <1>1, <1>8, Sizes DEF AirTypeOK, Office
  <2>2. AirTypeOK'
    BY WaitTypes
  <2>3. Coming' \in SUBSET Clerks'
    BY <1>8, <1>7 DEF Fetching
  <2>4. available'["cust_ready"] \in Nat
    BY <1>7, <2>2 DEF AirTypeOK
  <2>5. Cardinality(Coming') \in Nat
    BY <1>1, <1>2, <2>3, Sizes
  <2> QED BY <2>1, <2>4, <2>5
<1> QED BY <1>1, <1>6, <1>8, <1>9, <1>10 DEF Counts

LEMMA WaitAnswers ==
  ASSUME AirInv, NEW p, NEW a, NEW b, NEW s, WaitStep(p, a, b, s)
  PROVE  AnswersSent'
<1>1. /\ StepOf(p, a, b) /\ local' = local /\ shared' = shared /\ AirTypeOK /\ AnswersSent
  BY DEF WaitStep, AirInv
<1>2. /\ Clerks' = Clerks /\ AirCustomers' = AirCustomers /\ Ids' = Ids
      /\ \A id : Decided(id)' = Decided(id)
  BY <1>1, SameData
<1>3. /\ s \in Sem /\ Waited(s, p) /\ pc[p] = a /\ pc'[p] = b
      /\ \/ p \in AirCustomers /\ p \notin Clerks /\ CustomerWaits(p, a, b, s)
         \/ p \in Clerks /\ p \notin AirCustomers /\ ClerkWaits(p, a, b, s)
  BY WaitLines
<1>4. \A id \in Ids : cust_finished(id) \in Sem /\ cust_finished(id)' = cust_finished(id)
  BY <1>1, Finished DEF cust_finished
<1>5. \A t \in Sem : /\ available[t] \in Nat /\ Line(t) \subseteq Line(t)'
                     /\ available'[t] > 0 => available[t] > 0
  BY <1>1, <1>3 DEF Waited, OtherLines, AirTypeOK
<1>6. ASSUME NEW id \in Ids', available'[cust_finished(id)] > 0
      PROVE  Decided(id)'
  <2>1. available[cust_finished(id)] > 0
    BY <1>2, <1>4, <1>5, <1>6
  <2> QED BY <1>1, <1>2, <1>6, <2>1 DEF AnswersSent
<1>7. ASSUME NEW q \in AirCustomers', pc'[q] = "report", q \notin Line(cust_finished(local[q].custId))'
      PROVE  Decided(local[q].custId)'
  <2>1. q \in AirCustomers /\ q \in AirProcesses
    BY <1>2 DEF AirProcesses
  <2>2. local[q].custId \in Ids
    <3>1. pc[q] \in {"report", "finish"}
      <4>1. q # p => pc[q] = "report"
        BY <1>1, <1>7, <2>1, Others
      <4>2. q = p => a = "finish"
        BY <1>3, <1>7, <2>1 DEF CustomerWaits
      <4> QED BY <4>1, <4>2, <1>3
    <3> QED BY <2>1, <3>1, CustomerNumbers DEF Counted
  <2>3. q \notin Line(cust_finished(local[q].custId))'
    BY <1>7
  <2>4. cust_finished(local[q].custId) \in Sem
    BY <1>4, <2>2
  <2>5. /\ cust_finished(local[q].custId)' = cust_finished(local[q].custId)
        /\ Line(cust_finished(local[q].custId))'
              = Range(waiting'[cust_finished(local[q].custId)])
    BY <1>1 DEF cust_finished, Line
  <2>6. CASE q # p
    <3>1. pc[q] = "report"
      BY <1>1, <1>7, <2>1, <2>6, Others
    <3>2. q \notin Line(cust_finished(local[q].custId))
      BY <1>5, <2>3, <2>4, <2>5 DEF Line
    <3>3. Decided(local[q].custId)
      BY <1>1, <2>1, <3>1, <3>2 DEF AnswersSent
    <3> QED BY <1>1, <1>2, <3>3
  <2>7. CASE q = p
    <3>1. a = "finish" /\ s = cust_finished(local[q].custId)
      BY <1>3, <1>7, <2>1, <2>7 DEF CustomerWaits
    <3>2. p \notin Line(s)'
      BY <2>3, <2>5, <2>7, <3>1 DEF Line
    <3>3. available[s] > 0
      BY <1>3, <3>2 DEF Waited
    <3>4. Decided(local[q].custId)
      BY <1>1, <2>2, <3>1, <3>3 DEF AnswersSent
    <3> QED BY <1>1, <1>2, <3>4
  <2> QED BY <2>6, <2>7
<1> QED BY <1>6, <1>7 DEF AnswersSent

LEMMA WaitKeeps ==
  ASSUME AirInv, NEW p, NEW a, NEW b, NEW s, WaitStep(p, a, b, s)
  PROVE  AirInv'
<1>1. /\ StepOf(p, a, b) /\ local' = local /\ shared' = shared /\ Quiet(p, a, b, s)
  BY DEF WaitStep, WaitCall, Quiet, Calls
<1>2. Numbered' /\ QueueHolds' /\ Serving' /\ Bookings' /\ Answers'
  BY <1>1, QuietNumbers, QuietClerks
<1> QED BY <1>2, WaitLines, WaitTypes, WaitWaiting, WaitLocks, WaitCounts, WaitAnswers DEF AirInv
-----------------------------------------------------------------------------
(***************************************************************************)
(* A call of sys_signalSemaphore() keeps the invariant.                    *)
(***************************************************************************)
SignalStep(p, a, b, s) ==
  /\ StepOf(p, a, b) /\ local' = local /\ shared' = shared
  /\ SignalCall(p, a, b, s)
  /\ Release(s) \/ HandOver(s)

LEMMA SignalLines ==
  ASSUME AirInv, NEW p, NEW a, NEW b, NEW s, SignalStep(p, a, b, s)
  PROVE  /\ s \in Sem /\ LinesTyped' /\ Lines' /\ Signalled(s)
         /\ \A t \in Sem : p \notin Line(t)
         /\ p \in AirProcesses /\ pc[p] = a /\ pc'[p] = b
         /\ \/ p \in AirCustomers /\ p \notin Clerks /\ CustomerSignals(p, a, b, s)
            \/ p \in Clerks /\ p \notin AirCustomers /\ ClerkSignals(p, a, b, s)
<1>1. StepOf(p, a, b) /\ shared' = shared /\ SignalCall(p, a, b, s)
  BY DEF SignalStep
<1>2. s \in Sem
  BY <1>1, CalledSemaphore
<1>3. /\ LinesTyped /\ Lines /\ AirTypeOK
  BY DEF AirInv, AirTypeOK, LinesTyped
<1>4. /\ p \in AirProcesses /\ pc[p] = a /\ \A t \in Sem : p \notin Line(t)
  BY <1>1 DEF StepOf
<1>5. AirProcesses' = AirProcesses
  BY <1>1, SameData
<1>6. Release(s) \/ HandOver(s)
  BY DEF SignalStep
<1>7. LinesTyped' /\ Lines' /\ Signalled(s)
  BY <1>2, <1>3, <1>5, <1>6, Signals
<1>8. pc'[p] = b
  BY <1>1, <1>3, Others
<1>9. \/ p \in AirCustomers /\ p \notin Clerks /\ CustomerSignals(p, a, b, s)
      \/ p \in Clerks /\ p \notin AirCustomers /\ ClerkSignals(p, a, b, s)
  BY <1>1, <1>3, Offices DEF SignalCall
<1> QED BY <1>2, <1>4, <1>7, <1>8, <1>9

LEMMA SignalTypes ==
  ASSUME AirInv, NEW p, NEW a, NEW b, NEW s, SignalStep(p, a, b, s)
  PROVE  AirTypeOK'
<1>1. /\ StepOf(p, a, b) /\ local' = local /\ shared' = shared /\ AirTypeOK
  BY DEF SignalStep, AirInv
<1>2. /\ Clerks' = Clerks /\ AirCustomers' = AirCustomers /\ AirProcesses' = AirProcesses /\ Ids' = Ids
  BY <1>1, SameData
<1>3. /\ DOMAIN pc' = AirProcesses /\ pc'[p] = b /\ \A q \in AirProcesses \ {p} : pc'[q] = pc[q]
  BY <1>1, Others
<1>4. /\ p \in AirCustomers => b \in CustomerLabels
      /\ p \in Clerks => b \in ClerkLabels
      /\ p # airMaster
  BY <1>1, SignalLines, Offices DEF CustomerSignals, ClerkSignals, CustomerLabels, ClerkLabels
<1>5. Clerks \cup AirCustomers \cup {airMaster} = AirProcesses
  BY DEF AirProcesses
<1>6. /\ \A q \in Clerks' : pc'[q] \in ClerkLabels
      /\ \A q \in AirCustomers' : pc'[q] \in CustomerLabels
      /\ pc'[airMaster] \in MasterLabels
  BY <1>1, <1>2, <1>3, <1>4, <1>5 DEF AirTypeOK
<1>7. Office' = Office
  BY <1>2 DEF Office
<1>8. LinesTyped'
  BY SignalLines
<1>9. program' = "air"
  BY <1>1 DEF StepOf, AirTypeOK
<1> QED BY <1>1, <1>2, <1>3, <1>6, <1>7, <1>8, <1>9 DEF AirTypeOK, LinesTyped

LEMMA SignalWaiting ==
  ASSUME AirInv, NEW p, NEW a, NEW b, NEW s, SignalStep(p, a, b, s)
  PROVE  Waiting'
<1>1. StepOf(p, a, b) /\ AirTypeOK /\ Waiting
  BY DEF SignalStep, AirInv
<1>2. s \in Sem /\ Signalled(s) /\ \A t \in Sem : p \notin Line(t)
  BY SignalLines
<1>3. \A t \in Sem : Line(t)' \subseteq Line(t)
  BY <1>2 DEF Signalled, OtherLines
<1>4. /\ \A t \in Sem : Line(t)' \subseteq Line(t) \cup {p}
      /\ \A t \in Sem : p \in Line(t)' => WaitsFor(p, t)'
  BY <1>2, <1>3
<1> QED BY <1>1, <1>4, WaitingKept

LEMMA SignalLocks ==
  ASSUME AirInv, NEW p, NEW a, NEW b, NEW s, SignalStep(p, a, b, s)
  PROVE  Locks'
<1>1. /\ Leaves(p, s, "custCounterCS", AtCounter, AtCounter')
      /\ Leaves(p, s, "custQueueCS", AtQueue, AtQueue')
      /\ Leaves(p, s, "flight1CS", AtFlight1, AtFlight1')
      /\ Leaves(p, s, "flight2CS", AtFlight2, AtFlight2')
  BY SignalRegions DEF SignalStep
<1>2. Locks /\ s \in Sem /\ Signalled(s) /\ \A t \in Sem : p \notin Line(t)
  BY SignalLines DEF AirInv
<1>3. LockedBy(available'["custCounterCS"], Line("custCounterCS")', AtCounter')
  BY <1>1, <1>2, SemaphoreNames, LockSignalled DEF Locks
<1>4. LockedBy(available'["custQueueCS"], Line("custQueueCS")', AtQueue')
  BY <1>1, <1>2, SemaphoreNames, LockSignalled DEF Locks
<1>5. LockedBy(available'["flight1CS"], Line("flight1CS")', AtFlight1')
  BY <1>1, <1>2, SemaphoreNames, LockSignalled DEF Locks
<1>6. LockedBy(available'["flight2CS"], Line("flight2CS")', AtFlight2')
  BY <1>1, <1>2, SemaphoreNames, LockSignalled DEF Locks
<1> QED BY <1>3, <1>4, <1>5, <1>6 DEF Locks, Locked

(* Only clerks wait for cust_ready. *)
LEMMA ReadyLine ==
  ASSUME AirInv
  PROVE  Line("cust_ready") \subseteq Fetching
<1> SUFFICES ASSUME NEW q \in Line("cust_ready") PROVE q \in Fetching
  OBVIOUS
<1>1. WaitsFor(q, "cust_ready")
  BY SemaphoreNames DEF AirInv, Waiting
<1>2. ~(q \in AirCustomers /\ pc[q] = "report" /\ "cust_ready" = cust_finished(local[q].custId))
  <2>1. q \in AirCustomers /\ pc[q] = "report" => local[q].custId \in Ids
    BY CustomerNumbers DEF Counted
  <2>2. "cust_ready" \in officeNames
    BY DEF officeNames
  <2> QED BY <2>1, <2>2, Finished DEF AirInv
<1>3. q \in Clerks /\ pc[q] = "dequeue"
  BY <1>1, <1>2 DEF WaitsFor
<1> QED BY <1>3 DEF Fetching

LEMMA SignalCounts ==
  ASSUME AirInv, NEW p, NEW a, NEW b, NEW s, SignalStep(p, a, b, s)
  PROVE  Counts'
<1>1. /\ StepOf(p, a, b) /\ local' = local /\ shared' = shared /\ AirTypeOK /\ Counts
  BY DEF SignalStep, AirInv
<1>2. /\ Clerks' = Clerks /\ AirCustomers' = AirCustomers
  BY <1>1, SameData
<1>3. /\ s \in Sem /\ Signalled(s) /\ pc[p] = a /\ pc'[p] = b /\ \A t \in Sem : p \notin Line(t)
      /\ \/ p \in AirCustomers /\ p \notin Clerks /\ CustomerSignals(p, a, b, s)
         \/ p \in Clerks /\ p \notin AirCustomers /\ ClerkSignals(p, a, b, s)
  BY SignalLines
<1>4. Counted' \ {p} = Counted \ {p} /\ Queued' \ {p} = Queued \ {p} /\ Called' \ {p} = Called \ {p}
  BY <1>1, Others
<1>5. /\ p \in Counted' <=> p \in Counted
      /\ p \in Queued' <=> p \in Queued
      /\ p \in Fetching' <=> p \in Fetching
  BY <1>2, <1>3 DEF Counted, Queued, Fetching, CustomerSignals, ClerkSignals
<1>6. Counted' = Counted /\ Queued' = Queued
  BY <1>4, <1>5
<1>7. Fetching' = Fetching /\ Fetching \subseteq Clerks /\ "cust_ready" \in Sem
  BY <1>1, <1>5, Others, SemaphoreNames DEF Fetching
<1>8. /\ Coming \subseteq Clerks /\ IsFiniteSet(Coming) /\ Cardinality(Coming) \in Nat
      /\ Called \subseteq AirCustomers /\ IsFiniteSet(Called) /\ Cardinality(Called) \in Nat
      /\ available["cust_ready"] \in Nat /\ shared.queue_out \in Nat
      /\ Coming = Fetching \ Line("cust_ready") /\ Coming' = Fetching' \ Line("cust_ready")'
  BY <1>1, <1>7, Sizes DEF Coming, Called, AirTypeOK, Office
<1>9. available'["cust_ready"] + shared.queue_out + Cardinality(Coming') = Cardinality(Called')
  <2>1. CASE s = "cust_ready"
    <3>1. s = cust_finished(local[p].custId) => ~(p \in Clerks /\ a = "answer")
      <4>1. p \in Clerks /\ a = "answer" => local[p].custId \in Ids
        BY <1>3 DEF AirInv, Serving, HasCustomer
      <4> QED BY <4>1, <1>1, <2>1, Finished DEF officeNames
    <3>2. p \in AirCustomers /\ a = "ready" /\ b = "finish"
      BY <1>3, <2>1, <3>1 DEF CustomerSignals, ClerkSignals
    <3>3. p \in Called' /\ p \notin Called
      BY <1>2, <1>3, <3>2 DEF Called
    <3>4. Cardinality(Called') = Cardinality(Called) + 1
      <4>1. Called' = Called \cup {p}
        BY <1>4, <3>3
      <4> QED BY <1>8, <3>3, <4>1, LargerByOne
    <3>5. CASE Line(s) = {} /\ Line(s)' = {} /\ available'[s] = available[s] + 1
      <4>1. Coming' = Coming
        BY <1>7, <1>8, <2>1, <3>5
      <4>2. available["cust_ready"] + shared.queue_out + Cardinality(Coming) = Cardinality(Called)
        BY <1>1 DEF Counts
      <4>3. available'["cust_ready"] = available["cust_ready"] + 1
        BY <2>1, <3>5
      <4> DEFINE permits == available["cust_ready"]
                 served == shared.queue_out
                 coming == Cardinality(Coming)
                 called == Cardinality(Called)
      <4>4. /\ permits \in Nat /\ served \in Nat /\ coming \in Nat /\ called \in Nat
            /\ permits + served + coming = called
        BY <1>8, <4>2
      <4>5. (permits + 1) + served + coming = called + 1
        <5> HIDE DEF permits, served, coming, called
        <5> QED BY <4>4
      <4> QED BY <3>4, <4>1, <4>3, <4>5
    <3>6. CASE \E h \in Line(s) : Line(s)' = Line(s) \ {h} /\ available'[s] = available[s]
      <4>1. PICK h \in Line(s) : Line(s)' = Line(s) \ {h} /\ available'[s] = available[s]
        BY <3>6
      <4>2. h \in Fetching
        BY <2>1, <4>1, ReadyLine
      <4>3. Coming' = Coming \cup {h} /\ h \notin Coming
        BY <1>7, <1>8, <2>1, <4>1, <4>2
      <4>4. Cardinality(Coming') = Cardinality(Coming) + 1
        BY <1>8, <4>3, LargerByOne
      <4> QED BY <1>1, <1>8, <2>1, <3>4, <4>1, <4>4 DEF Counts
    <3> QED BY <1>3, <3>5, <3>6 DEF Signalled
  <2>2. CASE s # "cust_ready"
    <3>1. Line("cust_ready")' = Line("cust_ready") /\ available'["cust_ready"] = available["cust_ready"]
      BY <1>3, <1>7, <2>2 DEF Signalled, OtherLines
    <3>2. Coming' = Coming
      BY <1>7, <1>8, <3>1
    <3>3. p \in Called' <=> p \in Called
      BY <1>2, <1>3, <2>2 DEF Called, CustomerSignals, ClerkSignals
    <3>4. Called' = Called
      BY <1>4, <3>3
    <3> QED BY <1>1, <3>1, <3>2, <3>4 DEF Counts
  <2> QED BY <2>1, <2>2
<1> QED BY <1>1, <1>6, <1>9 DEF Counts

LEMMA SignalAnswers ==
  ASSUME AirInv, NEW p, NEW a, NEW b, NEW s, SignalStep(p, a, b, s)
  PROVE  AnswersSent'
<1>1. /\ StepOf(p, a, b) /\ local' = local /\ shared' = shared /\ AirTypeOK /\ AnswersSent
  BY DEF SignalStep, AirInv
<1>2. /\ Clerks' = Clerks /\ AirCustomers' = AirCustomers /\ Ids' = Ids
      /\ \A id : Decided(id)' = Decided(id)
  BY <1>1, SameData
<1>3. /\ s \in Sem /\ Signalled(s) /\ pc[p] = a /\ pc'[p] = b
      /\ \/ p \in AirCustomers /\ p \notin Clerks /\ CustomerSignals(p, a, b, s)
         \/ p \in Clerks /\ p \notin AirCustomers /\ ClerkSignals(p, a, b, s)
  BY SignalLines
<1>4. \A id \in Ids : cust_finished(id) \in Sem \ officeNames /\ cust_finished(id)' = cust_finished(id)
  BY <1>1, Finished DEF cust_finished
<1>5. \A t \in Sem \ {s} : available'[t] = available[t] /\ Line(t)' = Line(t)
  BY <1>3 DEF Signalled, OtherLines
<1>6. \A id \in Ids : s = cust_finished(id) => Decided(id)
  <2> SUFFICES ASSUME NEW id \in Ids, s = cust_finished(id) PROVE Decided(id)
    OBVIOUS
  <2>1. s \notin officeNames
    BY <1>4
  <2>2. p \in Clerks /\ a = "answer" /\ s = cust_finished(local[p].custId)
    BY <1>3, <2>1 DEF officeNames, CustomerSignals, ClerkSignals
  <2>3. local[p].custId \in Ids
    BY <1>3, <2>2 DEF AirInv, Serving, HasCustomer
  <2>4. id = local[p].custId
    BY <1>1, <2>2, <2>3, Finished
  <2>5. Decided(local[p].custId)
    BY <1>3, <2>2 DEF AirInv, Answers
  <2> QED BY <2>4, <2>5
<1>7. ASSUME NEW id \in Ids', available'[cust_finished(id)] > 0
      PROVE  Decided(id)'
  <2>1. id \in Ids /\ cust_finished(id) \in Sem
    BY <1>2, <1>4
  <2>2. s # cust_finished(id) => available[cust_finished(id)] > 0
    BY <1>5, <1>7, <2>1
  <2>3. Decided(id)
    BY <1>1, <1>6, <2>1, <2>2 DEF AnswersSent
  <2> QED BY <1>2, <2>3
<1>8. ASSUME NEW q \in AirCustomers', pc'[q] = "report", q \notin Line(cust_finished(local[q].custId))'
      PROVE  Decided(local[q].custId)'
  <2>1. q \in AirCustomers /\ q \in AirProcesses
    BY <1>2 DEF AirProcesses
  <2>2. q # p /\ pc[q] = "report"
    <3>1. q # p
      BY <1>3, <1>8, <2>1 DEF CustomerSignals
    <3> QED BY <1>1, <1>8, <2>1, <3>1, Others
  <2>3. local[q].custId \in Ids
    BY <2>1, <2>2, CustomerNumbers DEF Counted
  <2>4. cust_finished(local[q].custId) \in Sem
    BY <1>4, <2>3
  <2>5. q \notin Line(cust_finished(local[q].custId))'
    BY <1>8
  <2>6. /\ cust_finished(local[q].custId)' = cust_finished(local[q].custId)
        /\ Line(cust_finished(local[q].custId))'
              = Range(waiting'[cust_finished(local[q].custId)])
    BY <1>1 DEF cust_finished, Line
  <2>7. s # cust_finished(local[q].custId) => q \notin Line(cust_finished(local[q].custId))
    BY <1>5, <2>4, <2>5, <2>6 DEF Line
  <2>8. Decided(local[q].custId)
    BY <1>1, <1>6, <2>1, <2>2, <2>3, <2>7 DEF AnswersSent
  <2> QED BY <1>1, <1>2, <2>8
<1> QED BY <1>7, <1>8 DEF AnswersSent

LEMMA SignalKeeps ==
  ASSUME AirInv, NEW p, NEW a, NEW b, NEW s, SignalStep(p, a, b, s)
  PROVE  AirInv'
<1>1. /\ StepOf(p, a, b) /\ local' = local /\ shared' = shared /\ Quiet(p, a, b, s)
  BY DEF SignalStep, SignalCall, Quiet, Calls
<1>2. Numbered' /\ QueueHolds' /\ Serving' /\ Bookings' /\ Answers'
  BY <1>1, QuietNumbers, QuietClerks
<1> QED BY <1>2, SignalLines, SignalTypes, SignalWaiting, SignalLocks, SignalCounts, SignalAnswers
        DEF AirInv
-----------------------------------------------------------------------------
(***************************************************************************)
(* Instructions on the shared memory: who executes one is in no line, and  *)
(* is alone in his critical section.                                       *)
(***************************************************************************)
CustomerMoves(a, b) ==
  \/ a = "count" /\ b = "counted"
  \/ a = "counted" /\ b = "leave_counter"
  \/ a = "put" /\ b = "put_down"
  \/ a = "put_down" /\ b = "leave_queue"
  \/ a = "report" /\ b = "terminate"

ClerkMoves(p, a, b) ==
  \/ a = "get" /\ b = "got"
  \/ a = "got" /\ b = "leave_queue"
  \/ a = "read" /\ b = "write"
  \/ a = "write" /\ b = "unlock_2" /\ Wants(local[p].custId, 2)
  \/ a = "write" /\ b = "unlock_1" /\ ~Wants(local[p].custId, 2)

MoveStep(p, a, b) ==
  /\ StepOf(p, a, b)
  /\ \/ p \in AirCustomers /\ CustomerMoves(a, b)
     \/ p \in Clerks /\ ClerkMoves(p, a, b)
  /\ a # "count" /\ a # "get" => local'[p].custId = local[p].custId
  /\ available' = available /\ waiting' = waiting

LEMMA Alone ==
  ASSUME AirInv, NEW p, \A s \in Sem : p \notin Line(s)
  PROVE  /\ p \in AtCounter => \A q \in AirCustomers \ {p} : pc[q] \notin {"counted", "leave_counter"}
         /\ p \in AtQueue =>
              /\ \A q \in AirCustomers \ {p} : pc[q] \notin {"put_down", "leave_queue"}
              /\ \A q \in Clerks \ {p} : pc[q] \notin {"got", "leave_queue"}
         /\ p \in AtFlight1 =>
              \A q \in AtFlight1 \ {p} : pc[q] \notin {"write", "unlock_2", "unlock_1"}
         /\ p \in AtFlight2 => \A q \in AtFlight2 \ {p} : pc[q] \notin {"write", "unlock_2"}
<1>1. /\ Locks /\ Waiting
      /\ {"custCounterCS", "custQueueCS", "flight1CS", "flight2CS", "cust_ready"} \subseteq Sem
  BY SemaphoreNames DEF AirInv
<1>2. \A q, s : /\ s \in Sem /\ q \in Line(s) /\ (q \in AirCustomers \/ q \in Clerks)
                => pc[q] \in {"dequeue", "get", "lock_2", "read", "count", "queue_up", "put", "report"}
  BY <1>1, Offices DEF AirInv, Waiting, WaitsFor
<1>3. p \in AtCounter => \A q \in AtCounter \ {p} : q \in Line("custCounterCS")
  BY <1>1, LockOwner DEF Locks, Locked
<1>4. p \in AtQueue => \A q \in AtQueue \ {p} : q \in Line("custQueueCS")
  BY <1>1, LockOwner DEF Locks, Locked
<1>5. p \in AtFlight1 => \A q \in AtFlight1 \ {p} : q \in Line("flight1CS")
  BY <1>1, LockOwner DEF Locks, Locked
<1>6. p \in AtFlight2 => \A q \in AtFlight2 \ {p} : q \in Line("flight2CS")
  BY <1>1, LockOwner DEF Locks, Locked
<1>7. AtFlight1 \subseteq Clerks /\ AtFlight2 \subseteq Clerks
  BY DEF AtFlight1, AtFlight2
<1>8. p \in AtCounter => \A q \in AirCustomers \ {p} : pc[q] \notin {"counted", "leave_counter"}
  BY <1>1, <1>2, <1>3 DEF AtCounter
<1>9. p \in AtQueue => /\ \A q \in AirCustomers \ {p} : pc[q] \notin {"put_down", "leave_queue"}
                       /\ \A q \in Clerks \ {p} : pc[q] \notin {"got", "leave_queue"}
  BY <1>1, <1>2, <1>4 DEF AtQueue
<1>10. p \in AtFlight1 => \A q \in AtFlight1 \ {p} : pc[q] \notin {"write", "unlock_2", "unlock_1"}
  BY <1>1, <1>2, <1>5, <1>7
<1>11. p \in AtFlight2 => \A q \in AtFlight2 \ {p} : pc[q] \notin {"write", "unlock_2"}
  BY <1>1, <1>2, <1>6, <1>7
<1> QED BY <1>8, <1>9, <1>10, <1>11

LEMMA MoveLabels ==
  ASSUME AirInv, NEW p, NEW a, NEW b, MoveStep(p, a, b)
  PROVE  /\ Clerks' = Clerks /\ AirCustomers' = AirCustomers /\ AirProcesses' = AirProcesses
         /\ Ids' = Ids /\ \A id, f : Wants(id, f)' = Wants(id, f)
         /\ pc[p] = a /\ pc'[p] = b
         /\ \A q \in AirProcesses \ {p} : pc'[q] = pc[q] /\ local'[q] = local[q]
         /\ \A q \in (Clerks \cup AirCustomers) \ {p} : pc'[q] = pc[q] /\ local'[q] = local[q]
         /\ \/ p \in AirCustomers /\ p \notin Clerks /\ CustomerMoves(a, b)
            \/ p \in Clerks /\ p \notin AirCustomers /\ ClerkMoves(p, a, b)
         /\ \A s \in Sem : p \notin Line(s)
         /\ \A s \in Sem : Line(s)' = Line(s)
<1>1. StepOf(p, a, b) /\ AirTypeOK /\ shared'.office = shared.office
  BY DEF MoveStep, AirInv, StepOf
<1>2. /\ Clerks' = Clerks /\ AirCustomers' = AirCustomers /\ AirProcesses' = AirProcesses
      /\ Ids' = Ids /\ \A id, f : Wants(id, f)' = Wants(id, f)
  BY <1>1, SameOffice
<1>3. /\ pc[p] = a /\ pc'[p] = b /\ \A q \in AirProcesses \ {p} : pc'[q] = pc[q] /\ local'[q] = local[q]
      /\ \A s \in Sem : p \notin Line(s)
  BY <1>1, Others DEF StepOf
<1>4. Clerks \cup AirCustomers \subseteq AirProcesses
  BY DEF AirProcesses
<1>5. \A s \in Sem : Line(s)' = Line(s)
  BY DEF MoveStep, Line
<1>6. \/ p \in AirCustomers /\ p \notin Clerks /\ CustomerMoves(a, b)
      \/ p \in Clerks /\ p \notin AirCustomers /\ ClerkMoves(p, a, b)
  BY <1>1, Offices DEF MoveStep
<1> QED BY <1>2, <1>3, <1>4, <1>5, <1>6

LEMMA MoveLocks ==
  ASSUME AirInv, NEW p, NEW a, NEW b, MoveStep(p, a, b)
  PROVE  Lines' /\ Waiting' /\ Locks'
<1>1. StepOf(p, a, b) /\ AirTypeOK /\ Waiting /\ Lines /\ Locks /\ available' = available /\ waiting' = waiting
  BY DEF MoveStep, AirInv
<1>2. /\ Clerks' = Clerks /\ AirCustomers' = AirCustomers
      /\ \A id, f : Wants(id, f)' = Wants(id, f)
      /\ pc[p] = a /\ pc'[p] = b
      /\ \/ p \in AirCustomers /\ p \notin Clerks /\ CustomerMoves(a, b)
         \/ p \in Clerks /\ p \notin AirCustomers /\ ClerkMoves(p, a, b)
      /\ \A s \in Sem : p \notin Line(s)
      /\ \A s \in Sem : Line(s)' = Line(s)
  BY MoveLabels
<1>3. Lines'
  BY <1>1 DEF Lines
<1>4. Waiting'
  BY <1>1, <1>2, WaitingKept
<1>5. /\ AtCounter' \ {p} = AtCounter \ {p} /\ AtQueue' \ {p} = AtQueue \ {p}
      /\ AtFlight1' \ {p} = AtFlight1 \ {p} /\ AtFlight2' \ {p} = AtFlight2 \ {p}
  BY <1>1, Others
<1>6. a # "count" /\ a # "get" => local'[p].custId = local[p].custId
  BY DEF MoveStep
<1>7. p \in AtCounter' <=> p \in AtCounter
  BY <1>2 DEF AtCounter, CustomerMoves
<1>8. p \in AtQueue' <=> p \in AtQueue
  BY <1>2 DEF AtQueue, CustomerMoves, ClerkMoves
<1>9. p \in AtFlight1' <=> p \in AtFlight1
  BY <1>2, <1>6 DEF AtFlight1, ClerkMoves
<1>10. p \in AtFlight2' <=> p \in AtFlight2
  BY <1>2, <1>6 DEF AtFlight2, ClerkMoves
<1>11. AtCounter' = AtCounter /\ AtQueue' = AtQueue /\ AtFlight1' = AtFlight1 /\ AtFlight2' = AtFlight2
  BY <1>5, <1>7, <1>8, <1>9, <1>10
<1>12. Locks'
  BY <1>1, <1>2, <1>11, SemaphoreNames DEF Locks, Locked
<1> QED BY <1>3, <1>4, <1>12

Locals == [reg : Nat \cup [1 .. 2 -> Nat], custId : Ids \cup {Unwritten}]

LEMMA MoveTypes ==
  ASSUME AirInv, NEW p, NEW a, NEW b, MoveStep(p, a, b), shared' \in Office,
         local' \in [AirProcesses -> Locals]
  PROVE  AirTypeOK'
<1>1. StepOf(p, a, b) /\ AirTypeOK /\ available' = available /\ waiting' = waiting
  BY DEF MoveStep, AirInv
<1>2. /\ Clerks' = Clerks /\ AirCustomers' = AirCustomers /\ AirProcesses' = AirProcesses
      /\ Ids' = Ids /\ pc'[p] = b
      /\ \/ p \in AirCustomers /\ p \notin Clerks /\ CustomerMoves(a, b)
         \/ p \in Clerks /\ p \notin AirCustomers /\ ClerkMoves(p, a, b)
  BY MoveLabels
<1>3. DOMAIN pc' = AirProcesses /\ \A q \in AirProcesses \ {p} : pc'[q] = pc[q] /\ local'[q] = local[q]
  BY <1>1, Others, MoveLabels
<1>4. /\ p \in AirCustomers => b \in CustomerLabels
      /\ p \in Clerks => b \in ClerkLabels
      /\ p # airMaster /\ airMaster \in AirProcesses
  BY <1>1, <1>2, Offices DEF CustomerMoves, ClerkMoves, CustomerLabels, ClerkLabels, AirProcesses
<1>5. Clerks \cup AirCustomers \subseteq AirProcesses
  BY DEF AirProcesses
<1>6. /\ \A q \in Clerks' : pc'[q] \in ClerkLabels
      /\ \A q \in AirCustomers' : pc'[q] \in CustomerLabels
      /\ pc'[airMaster] \in MasterLabels /\ local'[airMaster].reg \in Nat
  BY <1>1, <1>2, <1>3, <1>4, <1>5 DEF AirTypeOK
<1>7. Office' = Office /\ Locals' = Locals
  BY <1>2 DEF Office, Locals
<1>8. program' = "air"
  BY <1>1 DEF StepOf, AirTypeOK
<1> QED BY <1>1, <1>2, <1>3, <1>6, <1>7, <1>8 DEF AirTypeOK, Locals

(***************************************************************************)
(* What the counters say about where customers and clerks are.             *)
(***************************************************************************)
LEMMA QueueOrder ==
  ASSUME AirInv
  PROVE  /\ shared.queue_out \in Nat /\ shared.queue_in \in Nat /\ shared.custCounter \in Nat
         /\ shared.queue_out <= shared.queue_in
         /\ shared.queue_in <= Cardinality(AirCustomers)
         /\ shared.custCounter <= Cardinality(AirCustomers)
         /\ Coming # {} => shared.queue_out < shared.queue_in
         /\ AirCustomers \ Queued # {} => shared.queue_in \in Ids
         /\ AirCustomers \ Counted # {} => shared.custCounter \in Ids
<1>1. /\ AirTypeOK /\ Counts /\ shared.queue_out \in Nat /\ shared.queue_in \in Nat /\ shared.custCounter \in Nat
      /\ available["cust_ready"] \in Nat
  BY SemaphoreNames DEF AirInv, AirTypeOK, Office
<1>2. /\ Called \subseteq Queued /\ Queued \subseteq AirCustomers /\ Counted \subseteq AirCustomers
      /\ Coming \subseteq Clerks
  BY DEF Called, Queued, Counted, Coming, Fetching
<1>3. /\ IsFiniteSet(Queued) /\ IsFiniteSet(Counted) /\ IsFiniteSet(Coming) /\ IsFiniteSet(AirCustomers)
      /\ Cardinality(Queued) <= Cardinality(AirCustomers)
      /\ Cardinality(Counted) <= Cardinality(AirCustomers)
      /\ Cardinality(Coming) \in Nat /\ Cardinality(Called) \in Nat /\ Cardinality(Queued) \in Nat
      /\ Cardinality(Counted) \in Nat /\ Cardinality(AirCustomers) \in Nat
  BY <1>1, <1>2, Sizes
<1>4. Cardinality(Called) <= Cardinality(Queued)
  BY <1>2, <1>3, FS_Subset
<1>5. Coming # {} => Cardinality(Coming) # 0
  BY <1>3, FS_EmptySet
<1>6. ASSUME NEW S, S \subseteq AirCustomers, AirCustomers \ S # {}, IsFiniteSet(S)
      PROVE  Cardinality(S) < Cardinality(AirCustomers)
  <2>1. S # AirCustomers
    BY <1>6
  <2>2. Cardinality(S) <= Cardinality(AirCustomers) /\ Cardinality(S) # Cardinality(AirCustomers)
    BY <1>3, <1>6, <2>1, FS_Subset
  <2> QED BY <1>3, <1>6, <2>2, FS_CardinalityType
<1>7. Ids = 0 .. Cardinality(AirCustomers) - 1
  BY <1>1, Offices
<1>8. /\ shared.queue_out <= shared.queue_in /\ shared.queue_in <= Cardinality(AirCustomers)
      /\ shared.custCounter <= Cardinality(AirCustomers)
      /\ Coming # {} => shared.queue_out < shared.queue_in
  BY <1>1, <1>3, <1>4, <1>5 DEF Counts
<1>9. AirCustomers \ Queued # {} => shared.queue_in \in Ids
  BY <1>1, <1>2, <1>3, <1>6, <1>7 DEF Counts
<1>10. AirCustomers \ Counted # {} => shared.custCounter \in Ids
  BY <1>1, <1>2, <1>3, <1>6, <1>7 DEF Counts
<1> QED BY <1>1, <1>8, <1>9, <1>10

(***************************************************************************)
(* The counts after a step that moves no counter.                          *)
(***************************************************************************)
LEMMA CountsKept ==
  ASSUME AirInv, NEW p, NEW a, NEW b, MoveStep(p, a, b),
         a \notin {"counted", "put_down", "got"},
         shared'.custCounter = shared.custCounter, shared'.queue_in = shared.queue_in,
         shared'.queue_out = shared.queue_out
  PROVE  Counts' /\ Counted' = Counted /\ Queued' = Queued
<1>1. StepOf(p, a, b) /\ AirTypeOK /\ Counts /\ available' = available /\ waiting' = waiting
  BY DEF MoveStep, AirInv
<1>2. /\ Clerks' = Clerks /\ AirCustomers' = AirCustomers /\ pc[p] = a /\ pc'[p] = b
      /\ \/ p \in AirCustomers /\ p \notin Clerks /\ CustomerMoves(a, b)
         \/ p \in Clerks /\ p \notin AirCustomers /\ ClerkMoves(p, a, b)
  BY MoveLabels
<1>3. /\ Counted' \ {p} = Counted \ {p} /\ Queued' \ {p} = Queued \ {p}
      /\ Called' \ {p} = Called \ {p} /\ Fetching' \ {p} = Fetching \ {p}
  BY <1>1, Others
<1>4. a \notin {"counted", "put_down", "got"}
  OBVIOUS
<1>5. p \in Counted' <=> p \in Counted
  BY <1>2, <1>4 DEF Counted, CustomerMoves
<1>6. p \in Queued' <=> p \in Queued
  BY <1>2, <1>4 DEF Queued, CustomerMoves
<1>7. p \in Called' <=> p \in Called
  BY <1>2, <1>4 DEF Called, CustomerMoves
<1>8. p \in Fetching' <=> p \in Fetching
  BY <1>2, <1>4 DEF Fetching, ClerkMoves
<1>9. Counted' = Counted /\ Queued' = Queued /\ Called' = Called /\ Fetching' = Fetching
  <2>1. Counted' = Counted
    <3>1. Counted' \ {p} = Counted \ {p}
      BY <1>3
    <3> QED BY <3>1, <1>5
  <2>2. Queued' = Queued
    <3>1. Queued' \ {p} = Queued \ {p}
      BY <1>3
    <3> QED BY <3>1, <1>6
  <2>3. Called' = Called
    <3>1. Called' \ {p} = Called \ {p}
      BY <1>3
    <3> QED BY <3>1, <1>7
  <2>4. Fetching' = Fetching
    <3>1. Fetching' \ {p} = Fetching \ {p}
      BY <1>3
    <3> QED BY <3>1, <1>8
  <2> QED BY <2>1, <2>2, <2>3, <2>4
<1>10. Coming' = Coming
  BY <1>1, <1>9 DEF Coming, Line
<1> QED BY <1>1, <1>9, <1>10 DEF Counts
-----------------------------------------------------------------------------
(***************************************************************************)
(* A customer does not touch what the clerks work on, and a clerk does not *)
(* touch the numbers and the entries of the queue.                         *)
(***************************************************************************)
LEMMA ClerksKept ==
  ASSUME AirInv, NEW p, NEW a, NEW b, MoveStep(p, a, b), p \in AirCustomers,
         shared'.booked = shared.booked, shared'.bookedArr = shared.bookedArr,
         shared'.flightCounter = shared.flightCounter, shared'.queue_out = shared.queue_out,
         \A j \in 0 .. shared.queue_out - 1 : shared'.cust_ready_queue[j] = shared.cust_ready_queue[j],
         (\E q \in Clerks : pc[q] = "got") =>
           shared'.cust_ready_queue[shared.queue_out] = shared.cust_ready_queue[shared.queue_out]
  PROVE  /\ Serving' /\ Bookings'
         /\ \A q \in Clerks : pc'[q] = pc[q] /\ local'[q] = local[q]
         /\ \A id : Taken(id)' = Taken(id) /\ SoldOut(id)' = SoldOut(id) /\ Decided(id)' = Decided(id)
<1>1. /\ Clerks' = Clerks /\ AirCustomers' = AirCustomers /\ Ids' = Ids
      /\ \A id, f : Wants(id, f)' = Wants(id, f)
      /\ \A q \in Clerks : pc'[q] = pc[q] /\ local'[q] = local[q]
      /\ shared'.office = shared.office
  BY MoveLabels DEF MoveStep, StepOf
<1>2. \A id : Taken(id)' = Taken(id)
  BY DEF Taken
<1>3. \A id : SoldOut(id)' = SoldOut(id)
  BY <1>1 DEF SoldOut
<1>4. \A id : Decided(id)' = Decided(id)
  BY <1>3 DEF Decided
<1>5. \A q \in Clerks : HasCustomer(q)' = HasCustomer(q)
  BY <1>1 DEF HasCustomer
<1>6. Serving'
  <2>1. Serving /\ shared'.queue_out = shared.queue_out
    BY DEF AirInv
  <2>2. ASSUME NEW q \in Clerks', pc'[q] = "got"
        PROVE  /\ local'[q].reg = shared'.queue_out
               /\ local'[q].custId = shared'.cust_ready_queue[shared'.queue_out]
    <3>1. q \in Clerks /\ pc[q] = "got" /\ local'[q] = local[q]
      BY <1>1, <2>2
    <3>2. shared'.cust_ready_queue[shared.queue_out] = shared.cust_ready_queue[shared.queue_out]
      BY <3>1
    <3> QED BY <2>1, <3>1, <3>2 DEF Serving
  <2>3. /\ \A q \in Clerks' : HasCustomer(q)' /\ pc'[q] # "got" => Taken(local[q].custId)'
        /\ \A q \in Clerks' : HasCustomer(q)' => local'[q].custId \in Ids'
    BY <1>1, <1>2, <1>5, <2>1 DEF Serving
  <2>4. \A q, r \in Clerks' :
          q # r /\ HasCustomer(q)' /\ HasCustomer(r)' => local'[q].custId # local'[r].custId
    BY <1>1, <1>5, <2>1 DEF Serving
  <2> QED BY <1>1, <2>2, <2>3, <2>4 DEF Serving
<1>7. Bookings'
  <2>1. /\ Bookings /\ shared'.booked = shared.booked /\ shared'.bookedArr = shared.bookedArr
        /\ shared'.flightCounter = shared.flightCounter
    BY DEF AirInv
  <2>2. Bookings!1'
    <3> SUFFICES ASSUME NEW f \in 1 .. 2 PROVE Bookings!1!(f)'
      OBVIOUS
    <3>1. Bookings!1!(f)
      BY <2>1 DEF Bookings
    <3>2. /\ shared'.flightCounter[f] = shared.flightCounter[f]
          /\ shared'.bookedArr[f] = shared.bookedArr[f]
          /\ shared'.office.tickets[f] = shared.office.tickets[f]
          /\ \A id : Wants(id, f)' <=> Wants(id, f)
      BY <1>1, <2>1
    <3> QED BY <2>1, <3>1, <3>2
  <2>3. Bookings!2'
    BY <1>1, <1>2, <2>1 DEF Bookings
  <2>4. Bookings!3'
    <3> SUFFICES ASSUME NEW q \in Clerks' PROVE Bookings!3!(q)'
      OBVIOUS
    <3>1. q \in Clerks /\ Bookings!3!(q) /\ pc'[q] = pc[q] /\ local'[q] = local[q]
      BY <1>1, <2>1 DEF Bookings
    <3> QED BY <1>1, <2>1, <3>1
  <2> QED BY <2>2, <2>3, <2>4 DEF Bookings
<1> QED BY <1>1, <1>2, <1>3, <1>4, <1>6, <1>7

LEMMA CustomersKept ==
  ASSUME AirInv, NEW p, NEW a, NEW b, MoveStep(p, a, b), p \in Clerks,
         shared'.custCounter = shared.custCounter, shared'.queue_in = shared.queue_in,
         shared'.cust_ready_queue = shared.cust_ready_queue
  PROVE  /\ Numbered' /\ QueueHolds' /\ Counted' = Counted /\ Queued' = Queued /\ Called' = Called
         /\ \A q \in AirCustomers : pc'[q] = pc[q] /\ local'[q] = local[q]
<1>1. /\ Clerks' = Clerks /\ AirCustomers' = AirCustomers /\ Ids' = Ids
      /\ \A q \in AirCustomers : pc'[q] = pc[q] /\ local'[q] = local[q]
  BY MoveLabels
<1>2. Counted' = Counted /\ Queued' = Queued /\ Called' = Called
  BY <1>1 DEF Counted, Queued, Called
<1>3. Filled' = Filled
  BY <1>1 DEF Filled
<1>4. Numbered'
  BY <1>1, <1>2 DEF AirInv, Numbered
<1>5. QueueHolds'
  <2>1. QueueHolds
    BY DEF AirInv
  <2>2. QueueHolds!1'
    BY <1>1, <2>1 DEF QueueHolds
  <2>3. QueueHolds!2'
    BY <1>1, <1>3, <2>1 DEF QueueHolds
  <2>4. QueueHolds!3'
    <3>1. QueueHolds!3
      BY <2>1 DEF QueueHolds
    <3> QED BY <1>3, <3>1, Zenon
  <2>5. QueueHolds!4'
    <3>1. QueueHolds!4
      BY <2>1 DEF QueueHolds
    <3> SUFFICES ASSUME NEW j \in Filled', NEW q \in AirCustomers', pc'[q] # "put_down", q \notin Queued'
                 PROVE  shared'.cust_ready_queue[j] # local'[q].custId
      OBVIOUS
    <3>2. j \in Filled /\ q \in AirCustomers /\ pc[q] # "put_down" /\ q \notin Queued /\ local'[q] = local[q]
      BY <1>1, <1>2, <1>3
    <3> QED BY <3>1, <3>2
  <2> QED BY <2>2, <2>3, <2>4, <2>5 DEF QueueHolds
<1> QED BY <1>1, <1>2, <1>4, <1>5

LEMMA AnswersKept ==
  ASSUME AirInv, NEW p, NEW a, NEW b, MoveStep(p, a, b), \A id \in Ids : Decided(id) => Decided(id)'
  PROVE  AnswersSent'
<1>1. AnswersSent /\ available' = available /\ waiting' = waiting /\ AirTypeOK
  BY DEF AirInv, MoveStep
<1>2. /\ AirCustomers' = AirCustomers /\ Ids' = Ids /\ pc'[p] = b
      /\ \A q \in AirCustomers \ {p} : pc'[q] = pc[q] /\ local'[q] = local[q]
      /\ b # "report"
  BY MoveLabels DEF CustomerMoves, ClerkMoves
<1>3. ASSUME NEW id \in Ids', available'[cust_finished(id)] > 0
      PROVE  Decided(id)'
  BY <1>1, <1>2, <1>3 DEF AnswersSent
<1>4. ASSUME NEW q \in AirCustomers', pc'[q] = "report", q \notin Line(cust_finished(local[q].custId))'
      PROVE  Decided(local[q].custId)'
  <2>1. q \in AirCustomers /\ q # p /\ pc[q] = "report" /\ local'[q] = local[q]
    BY <1>2, <1>4
  <2>2. local[q].custId \in Ids
    BY <2>1, CustomerNumbers DEF Counted
  <2>3. Line(cust_finished(local[q].custId))' = Line(cust_finished(local[q].custId))
    BY <1>1, <2>1 DEF Line, cust_finished
  <2>4. Decided(local[q].custId)
    BY <1>1, <1>4, <2>1, <2>3 DEF AnswersSent
  <2>5. ASSUME NEW id \in Ids, id = local[q].custId PROVE Decided(local[q].custId)'
    <3>1. Decided(id)'
      BY <2>4, <2>5
    <3> QED BY <2>1, <2>5, <3>1 DEF Decided, SoldOut, Wants
  <2> QED BY <2>2, <2>5
<1> QED BY <1>3, <1>4 DEF AnswersSent
-----------------------------------------------------------------------------
(***************************************************************************)
(* The moves of the customers.  The first three draw a number.             *)
(***************************************************************************)
LEMMA DrawsNumber ==
  ASSUME AirInv, NEW p \in AirCustomers, MoveStep(p, "count", "counted"),
         local' = [local EXCEPT ![p].custId = shared.custCounter], shared' = shared
  PROVE  AirInv'
<1>1. /\ Clerks' = Clerks /\ AirCustomers' = AirCustomers /\ Ids' = Ids
      /\ pc[p] = "count" /\ pc'[p] = "counted" /\ p \in AirProcesses
      /\ \A q \in (Clerks \cup AirCustomers) \ {p} : pc'[q] = pc[q] /\ local'[q] = local[q]
      /\ \A s \in Sem : p \notin Line(s)
  BY MoveLabels DEF AirProcesses
<1>2. AirTypeOK /\ Numbered /\ QueueHolds /\ Answers /\ shared \in Office /\ local \in [AirProcesses -> Locals]
  BY DEF AirInv, AirTypeOK, Locals
<1>3. shared.custCounter \in Ids
  BY <1>1, QueueOrder DEF Counted
<1>4. local'[p].custId = shared.custCounter /\ local'[p].reg = local[p].reg
  BY <1>1, <1>2 DEF Locals
<1>5. AirTypeOK'
  <2>1. local' \in [AirProcesses -> Locals]
    BY <1>1, <1>2, <1>3 DEF Locals
  <2> QED BY <1>2, <2>1, MoveTypes
<1>6. Counts' /\ Counted' = Counted /\ Queued' = Queued
  BY CountsKept
<1>7. /\ Serving' /\ Bookings'
      /\ \A id : SoldOut(id)' = SoldOut(id) /\ Decided(id)' = Decided(id)
      /\ \A q \in Clerks : pc'[q] = pc[q] /\ local'[q] = local[q]
  BY ClerksKept
<1>8. \A q \in AirCustomers \ {p} : pc[q] \notin {"counted", "leave_counter"}
  BY <1>1, Alone DEF AtCounter
<1>9. \A q \in AirCustomers \ {p} : local[q].custId # shared.custCounter
  <2> SUFFICES ASSUME NEW q \in AirCustomers \ {p} PROVE local[q].custId # shared.custCounter
    OBVIOUS
  <2>1. CASE q \in Counted
    BY <1>2, <1>3, <2>1, QueueOrder DEF Numbered
  <2>2. CASE q \notin Counted
    <3>1. pc[q] \in {"arrive", "count"}
      BY <1>8, <2>2 DEF Counted
    <3>2. local[q].custId = Unwritten
      BY <1>2, <3>1 DEF Numbered
    <3> QED BY <3>2, QueueOrder DEF Unwritten
  <2> QED BY <2>1, <2>2
<1>10. Numbered'
  <2>1. Numbered!1'
    BY <1>1, <1>2, <1>4, <1>6 DEF Numbered, Counted
  <2>2. Numbered!2'
    <3> SUFFICES ASSUME NEW q \in AirCustomers, NEW r \in AirCustomers, q # r,
                        local'[q].custId = local'[r].custId
                 PROVE  local'[q].custId = Unwritten
      BY <1>1
    <3>1. q # p /\ r # p
      BY <1>1, <1>4, <1>9
    <3> QED BY <1>1, <1>2, <3>1 DEF Numbered
  <2> QED BY <2>1, <2>2 DEF Numbered
<1>11. QueueHolds'
  <2>1. Filled' = Filled
    BY <1>1 DEF Filled
  <2>2. QueueHolds!1'
    BY <1>1, <1>2 DEF QueueHolds
  <2>3. QueueHolds!2' /\ QueueHolds!3'
    <3>1. QueueHolds!2 /\ QueueHolds!3
      BY <1>2 DEF QueueHolds
    <3> QED BY <1>1, <2>1, <3>1, Zenon
  <2>4. QueueHolds!4'
    <3> SUFFICES ASSUME NEW j \in Filled, NEW q \in AirCustomers, pc'[q] # "put_down", q \notin Queued
                 PROVE  shared.cust_ready_queue[j] # local'[q].custId
      BY <1>1, <1>6, <2>1
    <3>1. CASE q = p
      BY <1>2, <1>4, <3>1, QueueOrder DEF QueueHolds
    <3>2. CASE q # p
      BY <1>1, <1>2, <3>2 DEF QueueHolds
    <3> QED BY <3>1, <3>2
  <2> QED BY <2>2, <2>3, <2>4 DEF QueueHolds
<1>12. Answers'
  <2>1. \A q \in AirCustomers : pc'[q] \in {"terminate", "done"} => q # p
    BY <1>1
  <2> QED BY <1>1, <1>2, <1>7, <2>1 DEF Answers
<1>13. AnswersSent'
  BY <1>7, AnswersKept
<1> QED BY <1>5, <1>6, <1>7, <1>10, <1>11, <1>12, <1>13, MoveLocks DEF AirInv

(***************************************************************************)
(* The fields of the shared record after one of its counters has moved.    *)
(***************************************************************************)
LEMMA CounterSet ==
  ASSUME NEW x \in Office, NEW n \in Nat, NEW y, y = [x EXCEPT !.custCounter = n]
  PROVE  /\ y \in Office /\ y.custCounter = n
         /\ y.queue_in = x.queue_in /\ y.queue_out = x.queue_out
         /\ y.cust_ready_queue = x.cust_ready_queue /\ y.booked = x.booked
         /\ y.bookedArr = x.bookedArr /\ y.flightCounter = x.flightCounter /\ y.office = x.office
  BY DEF Office

LEMMA QueueInSet ==
  ASSUME NEW x \in Office, NEW n \in Nat, NEW y, y = [x EXCEPT !.queue_in = n]
  PROVE  /\ y \in Office /\ y.custCounter = x.custCounter
         /\ y.queue_in = n /\ y.queue_out = x.queue_out
         /\ y.cust_ready_queue = x.cust_ready_queue /\ y.booked = x.booked
         /\ y.bookedArr = x.bookedArr /\ y.flightCounter = x.flightCounter /\ y.office = x.office
  BY DEF Office

LEMMA QueueOutSet ==
  ASSUME NEW x \in Office, NEW n \in Nat, NEW y, y = [x EXCEPT !.queue_out = n]
  PROVE  /\ y \in Office /\ y.custCounter = x.custCounter
         /\ y.queue_in = x.queue_in /\ y.queue_out = n
         /\ y.cust_ready_queue = x.cust_ready_queue /\ y.booked = x.booked
         /\ y.bookedArr = x.bookedArr /\ y.flightCounter = x.flightCounter /\ y.office = x.office
  BY DEF Office

LEMMA TicketsSet ==
  ASSUME NEW s \in Office, NEW x \in [Ids -> 0 .. 1], NEW y \in [1 .. 2 -> Nat],
         NEW z \in [1 .. 2 -> Seq(Ids)]
  PROVE  [s EXCEPT !.booked = x, !.flightCounter = y, !.bookedArr = z] \in Office
  BY DEF Office

LEMMA MovesCounter ==
  ASSUME AirInv, NEW p \in AirCustomers, MoveStep(p, "counted", "leave_counter"),
         shared' = [shared EXCEPT !.custCounter = local[p].custId + 1], local' = local
  PROVE  AirInv'
<1>1. /\ Clerks' = Clerks /\ AirCustomers' = AirCustomers /\ Ids' = Ids
      /\ pc[p] = "counted" /\ pc'[p] = "leave_counter" /\ p \in AirProcesses
      /\ \A q \in (Clerks \cup AirCustomers) \ {p} : pc'[q] = pc[q]
      /\ \A s \in Sem : p \notin Line(s)
  BY MoveLabels DEF AirProcesses
<1>2. AirTypeOK /\ Numbered /\ QueueHolds /\ Answers /\ Counts /\ shared \in Office /\ local \in [AirProcesses -> Locals]
  BY DEF AirInv, AirTypeOK, Locals
<1>3. /\ local[p].custId = shared.custCounter /\ shared.custCounter \in Ids /\ shared.custCounter \in Nat
  BY <1>1, <1>2, QueueOrder DEF Numbered, Counted
<1>4. /\ shared' \in Office /\ shared'.custCounter = shared.custCounter + 1
      /\ shared'.queue_in = shared.queue_in /\ shared'.queue_out = shared.queue_out
      /\ shared'.cust_ready_queue = shared.cust_ready_queue
      /\ shared'.booked = shared.booked /\ shared'.bookedArr = shared.bookedArr
      /\ shared'.flightCounter = shared.flightCounter
  <2>1. shared' = [shared EXCEPT !.custCounter = shared.custCounter + 1] /\ shared.custCounter + 1 \in Nat
    BY <1>3
  <2> QED BY <1>2, <2>1, CounterSet
<1>5. AirTypeOK'
  BY <1>2, <1>4, MoveTypes
<1>6. Counted' = Counted \cup {p} /\ p \notin Counted /\ Queued' = Queued /\ Called' = Called /\ Coming' = Coming
  <2>1. p \notin Counted /\ Counted' = Counted \cup {p}
    BY <1>1 DEF Counted
  <2>2. Queued' = Queued
    BY <1>1 DEF Queued
  <2>3. Called' = Called
    BY <1>1 DEF Called
  <2>4. Fetching' = Fetching
    <3>1. p \notin Clerks
      BY <1>2, Offices
    <3> QED BY <1>1, <3>1 DEF Fetching
  <2>5. Coming' = Coming
    BY <2>4 DEF Coming, Line, MoveStep
  <2> QED BY <2>1, <2>2, <2>3, <2>5
<1>7. Counts'
  <2>1. Cardinality(Counted') = Cardinality(Counted) + 1
    <3>1. IsFiniteSet(Counted)
      BY <1>2, Sizes DEF Counted
    <3> QED BY <1>6, <3>1, LargerByOne
  <2>2. available' = available
    BY DEF MoveStep
  <2> QED BY <1>2, <1>4, <1>6, <2>1, <2>2 DEF Counts
<1>8. /\ Serving' /\ Bookings'
      /\ \A id : SoldOut(id)' = SoldOut(id) /\ Decided(id)' = Decided(id)
      /\ \A q \in Clerks : pc'[q] = pc[q] /\ local'[q] = local[q]
  BY <1>4, ClerksKept
<1>9. \A q \in AirCustomers \ {p} : pc[q] \notin {"counted", "leave_counter"}
  BY <1>1, Alone DEF AtCounter
<1>10. Numbered'
  <2>1. Numbered!1'
    <3> SUFFICES ASSUME NEW q \in AirCustomers' PROVE Numbered!1!(q)'
      OBVIOUS
    <3>1. CASE q = p
      BY <1>1, <1>3, <1>4, <3>1
    <3>2. CASE q # p
      BY <1>1, <1>2, <1>3, <1>4, <1>6, <1>9, <3>2 DEF Numbered
    <3> QED BY <3>1, <3>2
  <2>2. Numbered!2'
    BY <1>1, <1>2 DEF Numbered
  <2> QED BY <2>1, <2>2 DEF Numbered
<1>11. QueueHolds'
  <2>1. Filled' = Filled
    BY <1>1, <1>4 DEF Filled
  <2>2. QueueHolds!1'
    BY <1>1, <1>2, <1>4 DEF QueueHolds
  <2>3. QueueHolds!2'
    <3> SUFFICES ASSUME NEW j \in Filled
                 PROVE  shared.cust_ready_queue[j] \in Ids /\ shared.cust_ready_queue[j] < shared.custCounter + 1
      BY <1>1, <1>4, <2>1
    <3>1. shared.cust_ready_queue[j] \in Ids /\ shared.cust_ready_queue[j] < shared.custCounter
      BY <1>2 DEF QueueHolds
    <3>2. shared.cust_ready_queue[j] \in Int
      BY <1>2, <3>1, Offices
    <3> QED BY <1>3, <3>1, <3>2
  <2>4. QueueHolds!3'
    <3>1. \A i, j \in Filled :
            shared.cust_ready_queue[i] = shared.cust_ready_queue[j] => i = j
      BY <1>2 DEF QueueHolds
    <3>2. ASSUME NEW i \in Filled', NEW j \in Filled',
                 shared'.cust_ready_queue[i] = shared'.cust_ready_queue[j]
          PROVE  i = j
      BY <1>4, <2>1, <3>1, <3>2
    <3> QED BY <3>2
  <2>5. QueueHolds!4'
    <3> SUFFICES ASSUME NEW j \in Filled, NEW q \in AirCustomers, pc'[q] # "put_down", q \notin Queued
                 PROVE  shared.cust_ready_queue[j] # local[q].custId
      BY <1>1, <1>4, <1>6, <2>1
    <3> QED BY <1>1, <1>2 DEF QueueHolds
  <2> QED BY <2>2, <2>3, <2>4, <2>5 DEF QueueHolds
<1>12. Answers'
  <2>1. \A q \in AirCustomers : pc'[q] \in {"terminate", "done"} => q # p
    BY <1>1
  <2> QED BY <1>1, <1>2, <1>8, <2>1 DEF Answers
<1>13. AnswersSent'
  BY <1>8, AnswersKept
<1> QED BY <1>5, <1>7, <1>8, <1>10, <1>11, <1>12, <1>13, MoveLocks DEF AirInv

(***************************************************************************)
(* The next two put the number into the queue.                             *)
(***************************************************************************)
LEMMA PutsNumber ==
  ASSUME AirInv, NEW p \in AirCustomers, MoveStep(p, "put", "put_down"),
         local' = [local EXCEPT ![p].reg = shared.queue_in],
         shared' = [shared EXCEPT !.cust_ready_queue[shared.queue_in] = local[p].custId]
  PROVE  AirInv'
<1>1. /\ Clerks' = Clerks /\ AirCustomers' = AirCustomers /\ Ids' = Ids
      /\ pc[p] = "put" /\ pc'[p] = "put_down" /\ p \in AirProcesses
      /\ \A q \in (Clerks \cup AirCustomers) \ {p} : pc'[q] = pc[q] /\ local'[q] = local[q]
      /\ \A s \in Sem : p \notin Line(s)
  BY MoveLabels DEF AirProcesses
<1>2. AirTypeOK /\ Numbered /\ QueueHolds /\ Answers /\ shared \in Office /\ local \in [AirProcesses -> Locals]
  BY DEF AirInv, AirTypeOK, Locals
<1>3. /\ shared.queue_in \in Ids /\ shared.queue_in \in Nat
      /\ shared.queue_out \in Nat /\ shared.queue_out <= shared.queue_in
  BY <1>1, QueueOrder DEF Queued
<1>4. p \in Counted /\ local[p].custId \in Ids /\ local[p].custId \in 0 .. shared.custCounter - 1
  <2>1. p \in Counted
    BY <1>1 DEF Counted
  <2> QED BY <1>2, <2>1, CustomerNumbers DEF Numbered
<1>5. /\ local'[p].reg = shared.queue_in /\ local'[p].custId = local[p].custId
      /\ local' \in [AirProcesses -> Locals]
  BY <1>1, <1>2, <1>3 DEF Locals
<1>6. /\ shared'.custCounter = shared.custCounter
      /\ shared'.queue_in = shared.queue_in /\ shared'.queue_out = shared.queue_out
      /\ shared'.cust_ready_queue = [shared.cust_ready_queue EXCEPT ![shared.queue_in] = local[p].custId]
      /\ shared'.booked = shared.booked /\ shared'.bookedArr = shared.bookedArr
      /\ shared'.flightCounter = shared.flightCounter
      /\ shared.cust_ready_queue \in [Ids -> Ids \cup {Unwritten}]
  BY <1>2 DEF Office
<1>7. /\ shared' \in Office
      /\ shared'.cust_ready_queue[shared.queue_in] = local[p].custId
      /\ \A j \in Ids \ {shared.queue_in} : shared'.cust_ready_queue[j] = shared.cust_ready_queue[j]
  BY <1>2, <1>3, <1>4, <1>6 DEF Office
<1>8. AirTypeOK'
  BY <1>5, <1>7, MoveTypes
<1>9. Counts' /\ Counted' = Counted /\ Queued' = Queued
  BY <1>6, CountsKept
<1>10. /\ \A q \in AirCustomers \ {p} : pc[q] \notin {"put_down", "leave_queue"}
       /\ \A q \in Clerks : pc[q] # "got"
  BY <1>1, Alone, Offices DEF AtQueue, AirInv
<1>11. \A j \in 0 .. shared.queue_out - 1 : shared'.cust_ready_queue[j] = shared.cust_ready_queue[j]
  <2>1. \A j \in 0 .. shared.queue_out - 1 : j \in Ids \ {shared.queue_in}
    BY <1>2, <1>3, Offices
  <2> QED BY <1>7, <2>1
<1>12. /\ Serving' /\ Bookings'
       /\ \A id : SoldOut(id)' = SoldOut(id) /\ Decided(id)' = Decided(id)
       /\ \A q \in Clerks : pc'[q] = pc[q] /\ local'[q] = local[q]
  BY <1>6, <1>10, <1>11, ClerksKept
<1>13. Numbered'
  <2>1. \A q \in AirCustomers : local'[q].custId = local[q].custId
    BY <1>1, <1>5
  <2>2. \A q \in AirCustomers : pc'[q] \in {"arrive", "count", "counted"} => pc[q] = pc'[q]
    BY <1>1
  <2> QED BY <1>1, <1>2, <1>6, <1>9, <2>1, <2>2 DEF Numbered
<1>14. QueueHolds'
  <2>1. Filled' = {j \in Ids : j < shared.queue_in} \cup {shared.queue_in}
    BY <1>1, <1>3, <1>6 DEF Filled
  <2>2. {j \in Ids : j < shared.queue_in} \subseteq Filled
    BY DEF Filled
  <2>3. \A j \in {j \in Ids : j < shared.queue_in} :
          /\ j \in Filled /\ shared'.cust_ready_queue[j] = shared.cust_ready_queue[j]
          /\ shared.cust_ready_queue[j] \in Ids /\ shared.cust_ready_queue[j] < shared.custCounter
    BY <1>2, <1>3, <1>7, <2>2 DEF QueueHolds
  <2>4. \A j \in {j \in Ids : j < shared.queue_in} : shared.cust_ready_queue[j] # local[p].custId
    <3>1. p \notin Queued
      BY <1>1 DEF Queued
    <3> QED BY <1>1, <1>2, <2>2, <3>1 DEF QueueHolds
  <2>5. QueueHolds!1'
    BY <1>1, <1>5, <1>6, <1>7, <1>10 DEF QueueHolds
  <2>6. QueueHolds!2'
    <3>1. local[p].custId < shared.custCounter
      BY <1>4, QueueOrder
    <3> QED BY <1>1, <1>4, <1>6, <1>7, <2>1, <2>3, <3>1
  <2>7. QueueHolds!3'
    <3>1. QueueHolds!3
      BY <1>2 DEF QueueHolds
    <3> SUFFICES ASSUME NEW i \in Filled', NEW j \in Filled',
                        shared'.cust_ready_queue[i] = shared'.cust_ready_queue[j]
                 PROVE  i = j
      OBVIOUS
    <3>2. CASE i = shared.queue_in
      BY <1>7, <2>1, <2>3, <2>4, <3>2
    <3>3. CASE j = shared.queue_in
      BY <1>7, <2>1, <2>3, <2>4, <3>3
    <3>4. CASE i # shared.queue_in /\ j # shared.queue_in
      BY <2>1, <2>3, <3>1, <3>4
    <3> QED BY <3>2, <3>3, <3>4
  <2>8. QueueHolds!4'
    <3> SUFFICES ASSUME NEW j \in Filled', NEW q \in AirCustomers, pc'[q] # "put_down", q \notin Queued
                 PROVE  shared'.cust_ready_queue[j] # local'[q].custId
      BY <1>1, <1>9
    <3>1. q # p /\ local'[q] = local[q] /\ pc[q] # "put_down"
      BY <1>1
    <3>2. CASE j = shared.queue_in
      <4>1. local[p].custId # Unwritten
        BY <1>2, <1>4, Offices DEF Unwritten
      <4> QED BY <1>2, <1>7, <3>1, <3>2, <4>1 DEF Numbered
    <3>3. CASE j # shared.queue_in
      BY <1>2, <2>1, <2>3, <3>1, <3>3 DEF QueueHolds
    <3> QED BY <3>2, <3>3
  <2> QED BY <2>5, <2>6, <2>7, <2>8 DEF QueueHolds
<1>15. Answers'
  <2>1. \A q \in AirCustomers : pc'[q] \in {"terminate", "done"} => q # p
    BY <1>1
  <2> QED BY <1>1, <1>2, <1>12, <2>1 DEF Answers
<1>16. AnswersSent'
  BY <1>12, AnswersKept
<1> QED BY <1>8, <1>9, <1>12, <1>13, <1>14, <1>15, <1>16, MoveLocks DEF AirInv

LEMMA MovesQueueIn ==
  ASSUME AirInv, NEW p \in AirCustomers, MoveStep(p, "put_down", "leave_queue"),
         shared' = [shared EXCEPT !.queue_in = local[p].reg + 1], local' = local
  PROVE  AirInv'
<1>1. /\ Clerks' = Clerks /\ AirCustomers' = AirCustomers /\ Ids' = Ids
      /\ pc[p] = "put_down" /\ pc'[p] = "leave_queue" /\ p \in AirProcesses
      /\ \A q \in (Clerks \cup AirCustomers) \ {p} : pc'[q] = pc[q]
      /\ \A s \in Sem : p \notin Line(s)
  BY MoveLabels DEF AirProcesses
<1>2. AirTypeOK /\ Numbered /\ QueueHolds /\ Answers /\ Counts /\ shared \in Office /\ local \in [AirProcesses -> Locals]
  BY DEF AirInv, AirTypeOK, Locals
<1>3. /\ local[p].reg = shared.queue_in /\ shared.queue_in \in Ids /\ shared.queue_in \in Nat
  BY <1>1, <1>2, QueueOrder DEF QueueHolds, Queued
<1>4. /\ shared' \in Office /\ shared'.custCounter = shared.custCounter
      /\ shared'.queue_in = shared.queue_in + 1 /\ shared'.queue_out = shared.queue_out
      /\ shared'.cust_ready_queue = shared.cust_ready_queue
      /\ shared'.booked = shared.booked /\ shared'.bookedArr = shared.bookedArr
      /\ shared'.flightCounter = shared.flightCounter
  <2>1. shared' = [shared EXCEPT !.queue_in = shared.queue_in + 1] /\ shared.queue_in + 1 \in Nat
    BY <1>3
  <2> QED BY <1>2, <2>1, QueueInSet
<1>5. AirTypeOK'
  BY <1>2, <1>4, MoveTypes
<1>6. Queued' = Queued \cup {p} /\ p \notin Queued /\ Counted' = Counted /\ Called' = Called /\ Coming' = Coming
  <2>1. p \notin Queued /\ Queued' = Queued \cup {p}
    BY <1>1 DEF Queued
  <2>2. Counted' = Counted
    BY <1>1 DEF Counted
  <2>3. Called' = Called
    BY <1>1 DEF Called
  <2>4. Fetching' = Fetching
    <3>1. p \notin Clerks
      BY <1>2, Offices
    <3> QED BY <1>1, <3>1 DEF Fetching
  <2>5. Coming' = Coming
    BY <2>4 DEF Coming, Line, MoveStep
  <2> QED BY <2>1, <2>2, <2>3, <2>5
<1>7. Counts'
  <2>1. Cardinality(Queued') = Cardinality(Queued) + 1
    <3>1. IsFiniteSet(Queued)
      BY <1>2, Sizes DEF Queued
    <3> QED BY <1>6, <3>1, LargerByOne
  <2>2. available' = available
    BY DEF MoveStep
  <2> QED BY <1>2, <1>4, <1>6, <2>1, <2>2 DEF Counts
<1>8. /\ Serving' /\ Bookings'
      /\ \A id : SoldOut(id)' = SoldOut(id) /\ Decided(id)' = Decided(id)
      /\ \A q \in Clerks : pc'[q] = pc[q] /\ local'[q] = local[q]
  BY <1>4, ClerksKept
<1>9. \A q \in AirCustomers \ {p} : pc[q] \notin {"put_down", "leave_queue"}
  BY <1>1, Alone DEF AtQueue
<1>10. Numbered'
  BY <1>1, <1>2, <1>4, <1>6 DEF Numbered
<1>11. QueueHolds'
  <2>1. Filled' = Filled
    <3>1. \A q \in AirCustomers' : pc'[q] # "put_down"
      BY <1>1, <1>9
    <3>2. \A j \in Ids : j < shared.queue_in + 1 <=> j < shared.queue_in \/ j = shared.queue_in
      BY <1>2, <1>3, Offices
    <3>3. \E q \in AirCustomers : pc[q] = "put_down"
      BY <1>1
    <3> QED BY <1>1, <1>4, <3>1, <3>2, <3>3 DEF Filled
  <2>2. QueueHolds!1'
    BY <1>1, <1>9
  <2>3. QueueHolds!2'
    <3>1. QueueHolds!2
      BY <1>2 DEF QueueHolds
    <3> QED BY <1>1, <1>4, <2>1, <3>1
  <2>4. QueueHolds!3'
    <3>1. \A i, j \in Filled :
            shared.cust_ready_queue[i] = shared.cust_ready_queue[j] => i = j
      BY <1>2 DEF QueueHolds
    <3>2. ASSUME NEW i \in Filled', NEW j \in Filled',
                 shared'.cust_ready_queue[i] = shared'.cust_ready_queue[j]
          PROVE  i = j
      BY <1>4, <2>1, <3>1, <3>2
    <3> QED BY <3>2
  <2>5. QueueHolds!4'
    <3> SUFFICES ASSUME NEW j \in Filled, NEW q \in AirCustomers, q # p, pc'[q] # "put_down", q \notin Queued
                 PROVE  shared.cust_ready_queue[j] # local[q].custId
      BY <1>1, <1>4, <1>6, <2>1
    <3> QED BY <1>1, <1>2 DEF QueueHolds
  <2> QED BY <2>2, <2>3, <2>4, <2>5 DEF QueueHolds
<1>12. Answers'
  <2>1. \A q \in AirCustomers : pc'[q] \in {"terminate", "done"} => q # p
    BY <1>1
  <2> QED BY <1>1, <1>2, <1>8, <2>1 DEF Answers
<1>13. AnswersSent'
  BY <1>8, AnswersKept
<1> QED BY <1>5, <1>7, <1>8, <1>10, <1>11, <1>12, <1>13, MoveLocks DEF AirInv

LEMMA ReadsAnswer ==
  ASSUME AirInv, NEW p \in AirCustomers, MoveStep(p, "report", "terminate"),
         local' = [local EXCEPT ![p].reg = shared.booked[local[p].custId]], shared' = shared
  PROVE  AirInv'
<1>1. /\ Clerks' = Clerks /\ AirCustomers' = AirCustomers /\ Ids' = Ids
      /\ pc[p] = "report" /\ pc'[p] = "terminate" /\ p \in AirProcesses
      /\ \A q \in (Clerks \cup AirCustomers) \ {p} : pc'[q] = pc[q] /\ local'[q] = local[q]
      /\ \A s \in Sem : p \notin Line(s)
  BY MoveLabels DEF AirProcesses
<1>2. /\ AirTypeOK /\ Numbered /\ QueueHolds /\ Answers /\ AnswersSent
      /\ shared \in Office /\ local \in [AirProcesses -> Locals]
  BY DEF AirInv, AirTypeOK, Locals
<1>3. local[p].custId \in Ids
  BY <1>1, CustomerNumbers DEF Counted
<1>4. /\ local'[p].custId = local[p].custId /\ local'[p].reg = shared.booked[local[p].custId]
      /\ local' \in [AirProcesses -> Locals]
  BY <1>1, <1>2, <1>3 DEF Locals, Office
<1>5. AirTypeOK'
  BY <1>2, <1>4, MoveTypes
<1>6. Counts' /\ Counted' = Counted /\ Queued' = Queued
  BY CountsKept
<1>7. /\ Serving' /\ Bookings'
      /\ \A id : SoldOut(id)' = SoldOut(id) /\ Decided(id)' = Decided(id)
      /\ \A q \in Clerks : pc'[q] = pc[q] /\ local'[q] = local[q]
  BY ClerksKept
<1>8. \A q \in AirCustomers : /\ local'[q].custId = local[q].custId
                              /\ pc'[q] # pc[q] => q = p
  BY <1>1, <1>4
<1>9. Numbered'
  BY <1>1, <1>2, <1>6, <1>8 DEF Numbered
<1>10. QueueHolds'
  <2>1. Filled' = Filled
    BY <1>1 DEF Filled
  <2>2. QueueHolds!1'
    BY <1>1, <1>2 DEF QueueHolds
  <2>3. QueueHolds!2' /\ QueueHolds!3'
    <3>1. QueueHolds!2 /\ QueueHolds!3
      BY <1>2 DEF QueueHolds
    <3> QED BY <1>1, <2>1, <3>1, Zenon
  <2>4. QueueHolds!4'
    <3> SUFFICES ASSUME NEW j \in Filled, NEW q \in AirCustomers, pc'[q] # "put_down", q \notin Queued
                 PROVE  shared.cust_ready_queue[j] # local'[q].custId
      BY <1>1, <1>6, <2>1
    <3>1. pc[q] # "put_down"
      BY <1>1, <1>8
    <3> QED BY <1>2, <1>8, <3>1 DEF QueueHolds
  <2> QED BY <2>2, <2>3, <2>4 DEF QueueHolds
<1>11. Answers'
  <2>1. local'[p].reg = 0 => SoldOut(local[p].custId)
    <3>1. cust_finished(local[p].custId) \in Sem
      BY <1>2, <1>3, Finished
    <3>2. Decided(local[p].custId)
      BY <1>1, <1>2, <3>1 DEF AnswersSent
    <3> QED BY <1>4, <3>2 DEF Decided
  <2>2. Answers!1'
    BY <1>1, <1>2, <1>7 DEF Answers
  <2>3. Answers!2'
    <3> SUFFICES ASSUME NEW q \in AirCustomers', pc'[q] \in {"terminate", "done"}, local'[q].reg = 0
                 PROVE  SoldOut(local[q].custId)'
      OBVIOUS
    <3>1. q \in AirCustomers /\ SoldOut(local[q].custId)
      BY <1>1, <1>2, <2>1 DEF Answers
    <3>2. local'[q].custId = local[q].custId /\ shared' = shared
      BY <1>8, <3>1
    <3> QED BY <3>1, <3>2 DEF SoldOut, Wants
  <2> QED BY <2>2, <2>3 DEF Answers
<1>12. AnswersSent'
  BY <1>7, AnswersKept
<1> QED BY <1>5, <1>6, <1>7, <1>9, <1>10, <1>11, <1>12, MoveLocks DEF AirInv
-----------------------------------------------------------------------------
(***************************************************************************)
(* The moves of the clerks.  The first two take an entry of the queue.     *)
(***************************************************************************)
LEMMA TakesEntry ==
  ASSUME AirInv, NEW p \in Clerks, MoveStep(p, "get", "got"),
         local' = [local EXCEPT ![p] = [reg |-> shared.queue_out,
                                        custId |-> shared.cust_ready_queue[shared.queue_out]]],
         shared' = shared
  PROVE  AirInv'
<1>1. /\ Clerks' = Clerks /\ AirCustomers' = AirCustomers /\ Ids' = Ids
      /\ \A id, f : Wants(id, f)' = Wants(id, f)
      /\ pc[p] = "get" /\ pc'[p] = "got" /\ p \in AirProcesses /\ p \notin AirCustomers
      /\ \A q \in (Clerks \cup AirCustomers) \ {p} : pc'[q] = pc[q] /\ local'[q] = local[q]
      /\ \A s \in Sem : p \notin Line(s)
  BY MoveLabels DEF AirProcesses, ClerkMoves, CustomerMoves
<1>2. /\ AirTypeOK /\ QueueHolds /\ Serving /\ Bookings /\ Answers
      /\ shared \in Office /\ local \in [AirProcesses -> Locals]
  BY DEF AirInv, AirTypeOK, Locals
<1>3. \A id : Taken(id)' = Taken(id) /\ SoldOut(id)' = SoldOut(id) /\ Decided(id)' = Decided(id)
  BY SameData
<1>4. /\ shared.queue_out \in Nat /\ shared.queue_in \in Nat /\ shared.queue_out < shared.queue_in
      /\ shared.queue_out \in Filled /\ shared.cust_ready_queue[shared.queue_out] \in Ids
      /\ \A j \in 0 .. shared.queue_out - 1 : j \in Filled
  <2>1. Coming # {}
    <3>1. p \notin Line("cust_ready")
      BY <1>1, SemaphoreNames
    <3> QED BY <1>1, <3>1 DEF Coming, Fetching
  <2>2. /\ shared.queue_out \in Nat /\ shared.queue_in \in Nat /\ shared.queue_out < shared.queue_in
        /\ shared.queue_in <= Cardinality(AirCustomers)
    BY <2>1, QueueOrder
  <2>3. \A j \in 0 .. shared.queue_out : j \in Ids /\ j < shared.queue_in
    BY <1>2, <2>2, Offices
  <2>4. \A j \in 0 .. shared.queue_out : j \in Filled
    BY <2>3 DEF Filled
  <2>5. shared.queue_out \in 0 .. shared.queue_out /\ 0 .. shared.queue_out - 1 \subseteq 0 .. shared.queue_out
    BY <2>2
  <2>6. shared.queue_out \in Filled
    BY <2>4, <2>5
  <2> QED BY <1>2, <2>2, <2>4, <2>5, <2>6 DEF QueueHolds
<1>5. ~Taken(shared.cust_ready_queue[shared.queue_out])
  <2> SUFFICES ASSUME NEW j \in 0 .. shared.queue_out - 1,
                      shared.cust_ready_queue[j] = shared.cust_ready_queue[shared.queue_out]
               PROVE  FALSE
    BY DEF Taken
  <2>1. j = shared.queue_out
    BY <1>2, <1>4 DEF QueueHolds
  <2> QED BY <1>4, <2>1
<1>6. /\ local'[p].reg = shared.queue_out
      /\ local'[p].custId = shared.cust_ready_queue[shared.queue_out]
      /\ local' \in [AirProcesses -> Locals]
  BY <1>1, <1>2, <1>4 DEF Locals
<1>7. AirTypeOK'
  BY <1>2, <1>6, MoveTypes
<1>8. Counts'
  BY CountsKept
<1>9. Numbered' /\ QueueHolds' /\ \A q \in AirCustomers : pc'[q] = pc[q] /\ local'[q] = local[q]
  BY CustomersKept
<1>10. \A q \in Clerks \ {p} : pc[q] # "got"
  BY <1>1, Alone DEF AtQueue
<1>11. \A q \in Clerks \ {p} : (HasCustomer(q)' <=> HasCustomer(q)) /\ (HasCustomer(q) => Taken(local[q].custId))
  BY <1>1, <1>2, <1>10 DEF HasCustomer, Serving
<1>12. Serving'
  <2>1. Serving!1'
    BY <1>1, <1>6, <1>10
  <2>2. Serving!2'
    <3> SUFFICES ASSUME NEW q \in Clerks', HasCustomer(q)', pc'[q] # "got" PROVE Taken(local[q].custId)'
      OBVIOUS
    <3>1. q \in Clerks \ {p} /\ HasCustomer(q) /\ local'[q] = local[q]
      BY <1>1, <1>11
    <3> QED BY <1>11, <3>1 DEF Taken
  <2>3. Serving!3'
    <3> SUFFICES ASSUME NEW q \in Clerks, HasCustomer(q)' PROVE local'[q].custId \in Ids
      BY <1>1
    <3>1. CASE q = p
      BY <1>4, <1>6, <3>1
    <3>2. CASE q # p
      BY <1>1, <1>2, <1>11, <3>2 DEF Serving
    <3> QED BY <3>1, <3>2
  <2>4. Serving!4'
    <3> SUFFICES ASSUME NEW q \in Clerks, NEW r \in Clerks, q # r, HasCustomer(q)', HasCustomer(r)'
                 PROVE  local'[q].custId # local'[r].custId
      BY <1>1
    <3>1. CASE q # p /\ r # p
      BY <1>1, <1>2, <1>11, <3>1 DEF Serving
    <3>2. CASE q = p
      BY <1>1, <1>5, <1>6, <1>11, <3>2
    <3>3. CASE r = p
      BY <1>1, <1>5, <1>6, <1>11, <3>3
    <3> QED BY <3>1, <3>2, <3>3
  <2> QED BY <2>1, <2>2, <2>3, <2>4 DEF Serving
<1>13. Bookings'
  <2>1. Bookings!1'
    BY <1>1, <1>2 DEF Bookings
  <2>2. Bookings!2'
    BY <1>1, <1>2, <1>3 DEF Bookings
  <2>3. Bookings!3'
    <3> SUFFICES ASSUME NEW q \in Clerks' PROVE Bookings!3!(q)'
      OBVIOUS
    <3>1. CASE q = p
      <4>1. shared.booked[shared.cust_ready_queue[shared.queue_out]] = 0
        BY <1>2, <1>4, <1>5 DEF Bookings, Office
      <4> QED BY <1>1, <1>6, <3>1, <4>1
    <3>2. CASE q # p
      <4>1. q \in Clerks /\ Bookings!3!(q) /\ pc'[q] = pc[q] /\ local'[q] = local[q]
        BY <1>1, <1>2, <3>2 DEF Bookings
      <4> QED BY <1>1, <4>1
    <3> QED BY <3>1, <3>2
  <2> QED BY <2>1, <2>2, <2>3 DEF Bookings
<1>14. Answers'
  <2>1. \A q \in Clerks : pc'[q] \in {"unlock_2", "unlock_1", "answer"} => q # p
    BY <1>1
  <2> QED BY <1>1, <1>2, <1>3, <1>9, <2>1 DEF Answers
<1>15. AnswersSent'
  BY <1>3, AnswersKept
<1> QED BY <1>7, <1>8, <1>9, <1>12, <1>13, <1>14, <1>15, MoveLocks DEF AirInv

LEMMA MovesQueueOut ==
  ASSUME AirInv, NEW p \in Clerks, MoveStep(p, "got", "leave_queue"),
         shared' = [shared EXCEPT !.queue_out = local[p].reg + 1], local' = local
  PROVE  AirInv'
<1>1. /\ Clerks' = Clerks /\ AirCustomers' = AirCustomers /\ Ids' = Ids
      /\ \A id, f : Wants(id, f)' = Wants(id, f)
      /\ pc[p] = "got" /\ pc'[p] = "leave_queue" /\ p \in AirProcesses /\ p \notin AirCustomers
      /\ \A q \in (Clerks \cup AirCustomers) \ {p} : pc'[q] = pc[q]
      /\ \A s \in Sem : p \notin Line(s)
  BY MoveLabels DEF AirProcesses, ClerkMoves, CustomerMoves
<1>2. /\ AirTypeOK /\ Serving /\ Bookings /\ Answers /\ Counts
      /\ shared \in Office /\ local \in [AirProcesses -> Locals]
  BY DEF AirInv, AirTypeOK, Locals
<1>3. /\ local[p].reg = shared.queue_out /\ shared.queue_out \in Nat
      /\ local[p].custId = shared.cust_ready_queue[shared.queue_out]
  BY <1>1, <1>2, QueueOrder DEF Serving
<1>4. /\ shared' \in Office /\ shared'.custCounter = shared.custCounter
      /\ shared'.queue_in = shared.queue_in /\ shared'.queue_out = shared.queue_out + 1
      /\ shared'.cust_ready_queue = shared.cust_ready_queue
      /\ shared'.booked = shared.booked /\ shared'.bookedArr = shared.bookedArr
      /\ shared'.flightCounter = shared.flightCounter /\ shared'.office = shared.office
  <2>1. shared' = [shared EXCEPT !.queue_out = shared.queue_out + 1] /\ shared.queue_out + 1 \in Nat
    BY <1>3
  <2> QED BY <1>2, <2>1, QueueOutSet
<1>5. AirTypeOK'
  BY <1>2, <1>4, MoveTypes
<1>6. Numbered' /\ QueueHolds' /\ Counted' = Counted /\ Queued' = Queued /\ Called' = Called
  BY <1>4, CustomersKept
<1>7. Counts'
  <2>1. Coming' = Coming \ {p} /\ p \in Coming
    <3>1. Fetching' = Fetching \ {p} /\ p \in Fetching
      BY <1>1 DEF Fetching
    <3>2. p \notin Line("cust_ready") /\ Line("cust_ready")' = Line("cust_ready")
      BY <1>1, SemaphoreNames DEF Line, MoveStep
    <3> QED BY <3>1, <3>2 DEF Coming
  <2>2. Cardinality(Coming) = Cardinality(Coming') + 1 /\ Cardinality(Coming') \in Nat
    <3>1. IsFiniteSet(Coming)
      BY <1>2, Sizes DEF Coming, Fetching
    <3> QED BY <2>1, <3>1, SmallerByOne
  <2>3. available' = available /\ available["cust_ready"] \in Nat
    BY <1>2, SemaphoreNames DEF MoveStep, AirTypeOK
  <2> QED BY <1>2, <1>3, <1>4, <1>6, <2>2, <2>3 DEF Counts
<1>8. /\ \A id : Taken(id) => Taken(id)'
      /\ \A id : SoldOut(id)' = SoldOut(id)
      /\ \A id : Decided(id)' = Decided(id)
      /\ Taken(local[p].custId)'
  <2>1. 0 .. shared.queue_out - 1 \subseteq 0 .. shared'.queue_out - 1 /\ shared.queue_out \in 0 .. shared'.queue_out - 1
    BY <1>3, <1>4
  <2>2. \A id : Taken(id) => Taken(id)'
    BY <1>4, <2>1 DEF Taken
  <2>3. \A id : SoldOut(id)' = SoldOut(id)
    BY <1>1, <1>4 DEF SoldOut
  <2>4. \A id : Decided(id)' = Decided(id)
    BY <1>4, <2>3 DEF Decided
  <2>5. Taken(local[p].custId)'
    BY <1>3, <1>4, <2>1 DEF Taken
  <2> QED BY <2>2, <2>3, <2>4, <2>5
<1>9. \A q \in Clerks \ {p} : pc[q] # "got"
  BY <1>1, Alone DEF AtQueue
<1>10. \A q \in Clerks : HasCustomer(q)' <=> HasCustomer(q)
  BY <1>1 DEF HasCustomer
<1>11. Serving'
  <2>1. Serving!1'
    BY <1>1, <1>9
  <2>2. Serving!2'
    <3> SUFFICES ASSUME NEW q \in Clerks', HasCustomer(q)', pc'[q] # "got" PROVE Taken(local[q].custId)'
      OBVIOUS
    <3>1. CASE q = p
      BY <1>8, <3>1
    <3>2. CASE q # p
      <4>1. q \in Clerks /\ HasCustomer(q) /\ pc[q] # "got" /\ local'[q].custId = local[q].custId
        BY <1>1, <1>9, <1>10, <3>2
      <4>2. Taken(local[q].custId)
        BY <1>2, <4>1 DEF Serving
      <4>3. ASSUME NEW id, id = local[q].custId PROVE Taken(local[q].custId)'
        <5>1. Taken(id)'
          BY <1>8, <4>2, <4>3
        <5> QED BY <4>1, <4>3, <5>1 DEF Taken
      <4> QED BY <4>3
    <3> QED BY <3>1, <3>2
  <2>3. Serving!3' /\ Serving!4'
    BY <1>1, <1>2, <1>10 DEF Serving
  <2> QED BY <2>1, <2>2, <2>3 DEF Serving
<1>12. Bookings'
  <2>1. Bookings!1'
    <3> SUFFICES ASSUME NEW f \in 1 .. 2 PROVE Bookings!1!(f)'
      OBVIOUS
    <3>1. Bookings!1!(f)
      BY <1>2 DEF Bookings
    <3>2. /\ shared'.flightCounter[f] = shared.flightCounter[f]
          /\ shared'.bookedArr[f] = shared.bookedArr[f]
          /\ shared'.office.tickets[f] = shared.office.tickets[f]
          /\ \A id : Wants(id, f)' <=> Wants(id, f)
      BY <1>1, <1>4
    <3> QED BY <1>4, <3>1, <3>2
  <2>2. Bookings!2'
    BY <1>1, <1>2, <1>4, <1>8 DEF Bookings
  <2>3. Bookings!3'
    <3> SUFFICES ASSUME NEW q \in Clerks' PROVE Bookings!3!(q)'
      OBVIOUS
    <3>1. q \in Clerks /\ Bookings!3!(q) /\ local' = local
      BY <1>1, <1>2 DEF Bookings
    <3>2. q # p => pc'[q] = pc[q]
      BY <1>1, <3>1
    <3> QED BY <1>1, <1>4, <3>1, <3>2
  <2> QED BY <2>1, <2>2, <2>3 DEF Bookings
<1>13. Answers'
  <2>1. \A q \in Clerks : pc'[q] \in {"unlock_2", "unlock_1", "answer"} => q # p
    BY <1>1
  <2> QED BY <1>1, <1>2, <1>8, <2>1 DEF Answers
<1>14. AnswersSent'
  BY <1>8, AnswersKept
<1> QED BY <1>5, <1>6, <1>7, <1>11, <1>12, <1>13, <1>14, MoveLocks DEF AirInv

(***************************************************************************)
(* The last two sell the tickets.                                          *)
(***************************************************************************)
LEMMA ReadsTickets ==
  ASSUME AirInv, NEW p \in Clerks, MoveStep(p, "read", "write"),
         local' = [local EXCEPT ![p].reg = shared.flightCounter], shared' = shared
  PROVE  AirInv'
<1>1. /\ Clerks' = Clerks /\ AirCustomers' = AirCustomers /\ Ids' = Ids
      /\ \A id, f : Wants(id, f)' = Wants(id, f)
      /\ pc[p] = "read" /\ pc'[p] = "write" /\ p \in AirProcesses /\ p \notin AirCustomers
      /\ \A q \in (Clerks \cup AirCustomers) \ {p} : pc'[q] = pc[q] /\ local'[q] = local[q]
  BY MoveLabels DEF AirProcesses, ClerkMoves, CustomerMoves
<1>2. /\ AirTypeOK /\ Serving /\ Bookings /\ Answers
      /\ shared \in Office /\ local \in [AirProcesses -> Locals]
  BY DEF AirInv, AirTypeOK, Locals
<1>3. \A id : Taken(id)' = Taken(id) /\ SoldOut(id)' = SoldOut(id) /\ Decided(id)' = Decided(id)
  BY SameData
<1>4. /\ local'[p].custId = local[p].custId /\ local'[p].reg = shared.flightCounter
      /\ shared.flightCounter \in [1 .. 2 -> Nat] /\ local' \in [AirProcesses -> Locals]
  BY <1>1, <1>2 DEF Locals, Office
<1>5. AirTypeOK'
  BY <1>2, <1>4, MoveTypes
<1>6. Counts'
  BY CountsKept
<1>7. Numbered' /\ QueueHolds' /\ \A q \in AirCustomers : pc'[q] = pc[q] /\ local'[q] = local[q]
  BY CustomersKept
<1>8. \A q \in Clerks : /\ local'[q].custId = local[q].custId /\ (HasCustomer(q)' <=> HasCustomer(q))
                        /\ pc'[q] = "got" => local'[q] = local[q] /\ pc[q] = "got"
                        /\ pc[q] = "got" => pc'[q] = "got"
  BY <1>1, <1>4 DEF HasCustomer
<1>9. Serving'
  <2>1. Serving!1'
    BY <1>1, <1>2, <1>8 DEF Serving
  <2>2. Serving!2'
    <3> SUFFICES ASSUME NEW q \in Clerks', HasCustomer(q)', pc'[q] # "got" PROVE Taken(local[q].custId)'
      OBVIOUS
    <3>1. q \in Clerks /\ Taken(local[q].custId) /\ local'[q].custId = local[q].custId
      BY <1>1, <1>2, <1>8 DEF Serving
    <3> QED BY <3>1 DEF Taken
  <2>3. Serving!3' /\ Serving!4'
    BY <1>1, <1>2, <1>8 DEF Serving
  <2> QED BY <2>1, <2>2, <2>3 DEF Serving
<1>10. Bookings'
  <2>1. Bookings!1' /\ Bookings!2'
    BY <1>1, <1>2, <1>3 DEF Bookings
  <2>2. Bookings!3'
    <3> SUFFICES ASSUME NEW q \in Clerks' PROVE Bookings!3!(q)'
      OBVIOUS
    <3>1. q \in Clerks /\ Bookings!3!(q)
      BY <1>1, <1>2 DEF Bookings
    <3>2. CASE q = p
      BY <1>1, <1>4, <3>1, <3>2
    <3>3. CASE q # p
      BY <1>1, <3>1, <3>3
    <3> QED BY <3>2, <3>3
  <2> QED BY <2>1, <2>2 DEF Bookings
<1>11. Answers'
  <2>1. \A q \in Clerks : pc'[q] \in {"unlock_2", "unlock_1", "answer"} => q # p
    BY <1>1
  <2> QED BY <1>1, <1>2, <1>3, <1>7, <2>1 DEF Answers
<1>12. AnswersSent'
  BY <1>3, AnswersKept
<1> QED BY <1>5, <1>6, <1>7, <1>9, <1>10, <1>11, <1>12, MoveLocks DEF AirInv

(***************************************************************************)
(* What booking makes of the tickets and the bookings, and what it leaves. *)
(***************************************************************************)
Wanted(id) == {f \in 1 .. 2 : Wants(id, f)}

Booked(p) ==
  LET id == local[p].custId
  IN [shared EXCEPT
        !.booked[id] = 1,
        !.flightCounter = [f \in 1 .. 2 |-> IF f \in Wanted(id) THEN local[p].reg[f] - 1 ELSE @[f]],
        !.bookedArr = [f \in 1 .. 2 |-> IF f \in Wanted(id) THEN Append(@[f], id) ELSE @[f]]]

LEMMA AppendedOnce ==
  ASSUME NEW S, NEW seq \in Seq(S), NEW x \in S, IsInjective(seq), x \notin Range(seq)
  PROVE  /\ Append(seq, x) \in Seq(S) /\ Len(Append(seq, x)) = Len(seq) + 1 /\ Len(seq) \in Nat
         /\ IsInjective(Append(seq, x)) /\ Range(Append(seq, x)) = Range(seq) \cup {x}
<1>1. /\ Append(seq, x) \in Seq(S) /\ Len(seq) \in Nat /\ DOMAIN seq = 1 .. Len(seq)
      /\ Len(Append(seq, x)) = Len(seq) + 1
      /\ DOMAIN Append(seq, x) = 1 .. Len(seq) + 1
      /\ \A i \in 1 .. Len(seq) : Append(seq, x)[i] = seq[i]
      /\ Append(seq, x)[Len(seq) + 1] = x
  OBVIOUS
<1>2. 1 .. Len(seq) + 1 = (1 .. Len(seq)) \cup {Len(seq) + 1}
  BY <1>1
<1>3. Range(Append(seq, x)) = Range(seq) \cup {x}
  BY <1>1, <1>2 DEF Range
<1>4. \A i \in 1 .. Len(seq) : seq[i] # x
  BY <1>1 DEF Range
<1>5. \A i, j \in 1 .. Len(seq) : seq[i] = seq[j] => i = j
  BY <1>1 DEF IsInjective
<1>6. IsInjective(Append(seq, x))
  BY <1>1, <1>2, <1>4, <1>5 DEF IsInjective
<1> QED BY <1>1, <1>3, <1>6

LEMMA Sells ==
  ASSUME AirInv, NEW p \in Clerks, NEW b, MoveStep(p, "write", b),
         \A f \in Wanted(local[p].custId) : local[p].reg[f] > 0, shared' = Booked(p)
  PROVE  /\ shared' \in Office
         /\ shared'.custCounter = shared.custCounter /\ shared'.queue_in = shared.queue_in
         /\ shared'.queue_out = shared.queue_out
         /\ shared'.cust_ready_queue = shared.cust_ready_queue
         /\ shared'.booked[local[p].custId] = 1
         /\ \A i \in Ids : i # local[p].custId => shared'.booked[i] = shared.booked[i]
         /\ \A f \in 1 .. 2 : Wants(local[p].custId, f) =>
              /\ shared.flightCounter[f] > 0 /\ shared.flightCounter[f] \in Nat
              /\ shared'.flightCounter[f] = shared.flightCounter[f] - 1
              /\ shared'.bookedArr[f] = Append(shared.bookedArr[f], local[p].custId)
         /\ \A f \in 1 .. 2 : ~Wants(local[p].custId, f) =>
              /\ shared'.flightCounter[f] = shared.flightCounter[f]
              /\ shared'.bookedArr[f] = shared.bookedArr[f]
<1>1. pc[p] = "write"
  BY MoveLabels
<1>2. shared \in Office /\ Bookings /\ local[p].custId \in Ids
  BY <1>1 DEF AirInv, AirTypeOK, Serving, HasCustomer
<1>3. /\ local[p].reg \in [1 .. 2 -> Nat]
      /\ \A f \in 1 .. 2 : Wants(local[p].custId, f) => local[p].reg[f] = shared.flightCounter[f]
  BY <1>1, <1>2 DEF Bookings
<1> DEFINE id == local[p].custId
           reg == local[p].reg
<1>4. /\ shared' = [shared EXCEPT
                      !.booked[id] = 1,
                      !.flightCounter = [f \in 1 .. 2 |-> IF f \in Wanted(id) THEN reg[f] - 1 ELSE @[f]],
                      !.bookedArr = [f \in 1 .. 2 |-> IF f \in Wanted(id) THEN Append(@[f], id) ELSE @[f]]]
      /\ \A f \in Wanted(id) : reg[f] > 0
      /\ id \in Ids /\ reg \in [1 .. 2 -> Nat]
      /\ \A f \in 1 .. 2 : Wants(id, f) => reg[f] = shared.flightCounter[f]
  BY <1>2, <1>3 DEF Booked
<1> HIDE DEF id, reg
<1>5. /\ shared.booked \in [Ids -> 0 .. 1] /\ shared.flightCounter \in [1 .. 2 -> Nat]
      /\ shared.bookedArr \in [1 .. 2 -> Seq(Ids)]
  BY <1>2 DEF Office
<1>6. /\ shared'.booked = [shared.booked EXCEPT ![id] = 1]
      /\ shared'.flightCounter =
           [f \in 1 .. 2 |-> IF f \in Wanted(id) THEN reg[f] - 1 ELSE shared.flightCounter[f]]
      /\ shared'.bookedArr =
           [f \in 1 .. 2 |-> IF f \in Wanted(id) THEN Append(shared.bookedArr[f], id)
                             ELSE shared.bookedArr[f]]
      /\ shared'.office = shared.office
      /\ shared'.custCounter = shared.custCounter /\ shared'.queue_in = shared.queue_in
      /\ shared'.queue_out = shared.queue_out
      /\ shared'.cust_ready_queue = shared.cust_ready_queue
  BY <1>2, <1>4 DEF Office
<1>7. shared'.booked \in [Ids -> 0 .. 1]
  BY <1>4, <1>5, <1>6
<1>8. shared'.flightCounter \in [1 .. 2 -> Nat]
  <2>1. \A f \in 1 .. 2 : (IF f \in Wanted(id) THEN reg[f] - 1 ELSE shared.flightCounter[f]) \in Nat
    BY <1>4, <1>5
  <2> QED BY <1>6, <2>1
<1>9. shared'.bookedArr \in [1 .. 2 -> Seq(Ids)]
  <2>1. \A f \in 1 .. 2 : (IF f \in Wanted(id) THEN Append(shared.bookedArr[f], id)
                           ELSE shared.bookedArr[f]) \in Seq(Ids)
    BY <1>4, <1>5
  <2> QED BY <1>6, <2>1
<1>10. shared' \in Office
  <2>1. shared' = [shared EXCEPT !.booked = shared'.booked, !.flightCounter = shared'.flightCounter,
                                 !.bookedArr = shared'.bookedArr]
    BY <1>2, <1>4, <1>6 DEF Office
  <2> DEFINE x == shared'.booked
             y == shared'.flightCounter
             z == shared'.bookedArr
  <2>2. x \in [Ids -> 0 .. 1] /\ y \in [1 .. 2 -> Nat] /\ z \in [1 .. 2 -> Seq(Ids)]
    BY <1>7, <1>8, <1>9
  <2>3. shared' = [shared EXCEPT !.booked = x, !.flightCounter = y, !.bookedArr = z]
    BY <2>1
  <2> HIDE DEF x, y, z
  <2>4. [shared EXCEPT !.booked = x, !.flightCounter = y, !.bookedArr = z] \in Office
    BY <1>2, <2>2, TicketsSet
  <2> QED BY <2>3, <2>4
<1>11. /\ shared'.booked[id] = 1
       /\ \A i \in Ids : i # id => shared'.booked[i] = shared.booked[i]
  BY <1>4, <1>5, <1>6
<1>12. \A f \in 1 .. 2 : Wants(id, f) =>
         /\ shared.flightCounter[f] > 0 /\ shared.flightCounter[f] \in Nat
         /\ shared'.flightCounter[f] = shared.flightCounter[f] - 1
         /\ shared'.bookedArr[f] = Append(shared.bookedArr[f], id)
  <2> SUFFICES ASSUME NEW f \in 1 .. 2, Wants(id, f)
               PROVE  /\ shared.flightCounter[f] > 0 /\ shared.flightCounter[f] \in Nat
                      /\ shared'.flightCounter[f] = shared.flightCounter[f] - 1
                      /\ shared'.bookedArr[f] = Append(shared.bookedArr[f], id)
    OBVIOUS
  <2>1. f \in Wanted(id) /\ reg[f] = shared.flightCounter[f] /\ reg[f] > 0
    BY <1>4 DEF Wanted
  <2> QED BY <1>5, <1>6, <2>1
<1>13. \A f \in 1 .. 2 : ~Wants(id, f) =>
         /\ shared'.flightCounter[f] = shared.flightCounter[f]
         /\ shared'.bookedArr[f] = shared.bookedArr[f]
  <2> SUFFICES ASSUME NEW f \in 1 .. 2, ~Wants(id, f)
               PROVE  /\ shared'.flightCounter[f] = shared.flightCounter[f]
                      /\ shared'.bookedArr[f] = shared.bookedArr[f]
    OBVIOUS
  <2>1. f \notin Wanted(id)
    BY DEF Wanted
  <2> QED BY <1>6, <2>1
<1> QED BY <1>6, <1>10, <1>11, <1>12, <1>13 DEF id

(***************************************************************************)
(* The clerk has given the customer his tickets or has refused them.       *)
(***************************************************************************)
BookedOrRefused(p) ==
  /\ shared' \in Office
  /\ shared'.custCounter = shared.custCounter /\ shared'.queue_in = shared.queue_in
  /\ shared'.queue_out = shared.queue_out /\ shared'.cust_ready_queue = shared.cust_ready_queue
  /\ \A i \in Ids : i # local[p].custId => shared'.booked[i] = shared.booked[i]
  /\ \A f \in 1 .. 2 : ~Wants(local[p].custId, f) => shared'.flightCounter[f] = shared.flightCounter[f]
  /\ \A i \in Ids : /\ SoldOut(i) => SoldOut(i)'
                    /\ Decided(i) => Decided(i)'
                    /\ Taken(i)' <=> Taken(i)
                    /\ i = local[p].custId => Decided(i)'
  /\ Bookings!1' /\ Bookings!2'

LEMMA GivesTickets ==
  ASSUME AirInv, NEW p \in Clerks, NEW b, MoveStep(p, "write", b),
         \A f \in Wanted(local[p].custId) : local[p].reg[f] > 0, shared' = Booked(p)
  PROVE  BookedOrRefused(p)
<1> DEFINE id == local[p].custId
<1>1. /\ pc[p] = "write" /\ Ids' = Ids /\ \A i, f : Wants(i, f)' = Wants(i, f)
      /\ shared'.office = shared.office
  BY MoveLabels DEF MoveStep, StepOf
<1>2. /\ AirTypeOK /\ shared \in Office /\ Bookings /\ id \in Ids /\ Taken(id) /\ shared.booked[id] = 0
  BY <1>1 DEF AirInv, AirTypeOK, Serving, HasCustomer, Bookings
<1>3. /\ shared' \in Office
      /\ shared'.custCounter = shared.custCounter /\ shared'.queue_in = shared.queue_in
      /\ shared'.queue_out = shared.queue_out
      /\ shared'.cust_ready_queue = shared.cust_ready_queue
      /\ shared'.booked[id] = 1
      /\ \A i \in Ids : i # id => shared'.booked[i] = shared.booked[i]
      /\ \A f \in 1 .. 2 : Wants(id, f) =>
           /\ shared.flightCounter[f] > 0 /\ shared.flightCounter[f] \in Nat
           /\ shared'.flightCounter[f] = shared.flightCounter[f] - 1
           /\ shared'.bookedArr[f] = Append(shared.bookedArr[f], id)
      /\ \A f \in 1 .. 2 : ~Wants(id, f) =>
           /\ shared'.flightCounter[f] = shared.flightCounter[f]
           /\ shared'.bookedArr[f] = shared.bookedArr[f]
  BY Sells
<1> HIDE DEF id
<1>4. \A i : Taken(i)' <=> Taken(i)
  BY <1>3 DEF Taken
<1>5. \A i \in Ids : SoldOut(i) => SoldOut(i)'
  <2> SUFFICES ASSUME NEW i \in Ids, NEW f \in 1 .. 2, Wants(i, f), shared.flightCounter[f] = 0
               PROVE  SoldOut(i)'
    BY DEF SoldOut
  <2>1. ~Wants(id, f)
    BY <1>3
  <2>2. shared'.flightCounter[f] = 0 /\ Wants(i, f)'
    BY <1>1, <1>3, <2>1
  <2> QED BY <2>2 DEF SoldOut
<1>6. \A i \in Ids : (Decided(i) => Decided(i)') /\ (i = id => Decided(i)')
  <2>1. \A i \in Ids : shared.booked[i] = 1 => shared'.booked[i] = 1
    BY <1>3
  <2> QED BY <1>3, <1>5, <2>1 DEF Decided
<1>7. Bookings!1'
  <2> SUFFICES ASSUME NEW f \in 1 .. 2 PROVE Bookings!1!(f)'
    OBVIOUS
  <2>1. /\ Bookings!1!(f) /\ shared.bookedArr[f] \in Seq(Ids) /\ \A i : Wants(i, f)' <=> Wants(i, f)
        /\ shared.flightCounter[f] \in Nat /\ shared'.office = shared.office
        /\ Range(shared.bookedArr[f]) \subseteq Ids
    BY <1>1, <1>2 DEF Bookings, Office, Range
  <2>2. id \notin Range(shared.bookedArr[f])
    BY <1>2, <2>1
  <2>3. CASE Wants(id, f)
    <3> DEFINE arr == shared.bookedArr[f]
               new == shared'.bookedArr[f]
    <3>4. arr \in Seq(Ids) /\ IsInjective(arr) /\ id \in Ids /\ id \notin Range(arr) /\ new = Append(arr, id)
      BY <1>2, <1>3, <2>1, <2>2, <2>3
    <3>5. /\ Len(new) = Len(arr) + 1 /\ Len(arr) \in Nat /\ IsInjective(new)
          /\ Range(new) = Range(arr) \cup {id}
      <4> HIDE DEF arr, new
      <4> QED BY <3>4, AppendedOnce
    <3>1. /\ Len(shared'.bookedArr[f]) = Len(shared.bookedArr[f]) + 1 /\ Len(shared.bookedArr[f]) \in Nat
          /\ IsInjective(shared'.bookedArr[f])
          /\ Range(shared'.bookedArr[f]) = Range(shared.bookedArr[f]) \cup {id}
      BY <3>5
    <3>2. shared'.flightCounter[f] + Len(shared'.bookedArr[f]) = shared'.office.tickets[f]
      <4>1. shared'.flightCounter[f] = shared.flightCounter[f] - 1 /\ shared.flightCounter[f] \in Nat
        BY <1>3, <2>3
      <4>2. shared.flightCounter[f] + Len(shared.bookedArr[f]) = shared.office.tickets[f]
        BY <2>1
      <4>3. shared'.office.tickets[f] = shared.office.tickets[f]
        BY <2>1
      <4> DEFINE a == shared.flightCounter[f]
                 a1 == shared'.flightCounter[f]
                 l == Len(shared.bookedArr[f])
                 l1 == Len(shared'.bookedArr[f])
                 k == shared.office.tickets[f]
                 k1 == shared'.office.tickets[f]
      <4>4. a1 = a - 1 /\ a \in Nat /\ a + l = k /\ k1 = k /\ l1 = l + 1 /\ l \in Nat
        BY <3>1, <4>1, <4>2, <4>3
      <4>5. a1 + l1 = k1
        <5> HIDE DEF a, a1, l, l1, k, k1
        <5> QED BY <4>4
      <4> QED BY <4>5
    <3>3. \A i \in Range(shared'.bookedArr[f]) : Wants(i, f) /\ shared'.booked[i] = 1
      BY <1>3, <2>1, <2>2, <2>3, <3>1
    <3> QED BY <2>1, <3>1, <3>2, <3>3
  <2>4. CASE ~Wants(id, f)
    <3>1. /\ shared'.bookedArr[f] = shared.bookedArr[f]
          /\ shared'.flightCounter[f] = shared.flightCounter[f]
      BY <1>3, <2>4
    <3>2. \A i \in Range(shared.bookedArr[f]) : Wants(i, f) /\ shared'.booked[i] = 1
      BY <1>3, <2>1, <2>2
    <3> QED BY <2>1, <3>1, <3>2
  <2> QED BY <2>3, <2>4
<1>8. Bookings!2'
  <2>1. \A i \in Ids : shared'.booked[i] = 1 => Taken(i)
    BY <1>2, <1>3 DEF Bookings
  <2> QED BY <1>1, <1>4, <2>1
<1> QED BY <1>3, <1>4, <1>5, <1>6, <1>7, <1>8 DEF BookedOrRefused, id

LEMMA RefusesTickets ==
  ASSUME AirInv, NEW p \in Clerks, NEW b, MoveStep(p, "write", b),
         ~ \A f \in Wanted(local[p].custId) : local[p].reg[f] > 0, shared' = shared
  PROVE  BookedOrRefused(p)
<1>1. pc[p] = "write"
  BY MoveLabels
<1>2. shared \in Office /\ Bookings
  BY DEF AirInv, AirTypeOK
<1>3. /\ Ids' = Ids /\ \A i, f : Wants(i, f)' = Wants(i, f)
      /\ \A i : Taken(i)' = Taken(i) /\ SoldOut(i)' = SoldOut(i) /\ Decided(i)' = Decided(i)
  BY SameData
<1>4. /\ local[p].reg \in [1 .. 2 -> Nat]
      /\ \A f \in 1 .. 2 : Wants(local[p].custId, f) => local[p].reg[f] = shared.flightCounter[f]
  BY <1>1, <1>2 DEF Bookings
<1>5. PICK f \in 1 .. 2 : Wants(local[p].custId, f) /\ ~(local[p].reg[f] > 0)
  BY DEF Wanted
<1>6. shared.flightCounter[f] = 0
  BY <1>4, <1>5
<1>7. SoldOut(local[p].custId)
  BY <1>5, <1>6 DEF SoldOut
<1>8. \A i \in Ids : i = local[p].custId => Decided(i)'
  BY <1>3, <1>7 DEF Decided
<1>9. Bookings!1'
  <2> SUFFICES ASSUME NEW g \in 1 .. 2 PROVE Bookings!1!(g)'
    OBVIOUS
  <2>1. Bookings!1!(g) /\ \A i : Wants(i, g)' <=> Wants(i, g)
    BY <1>2, <1>3 DEF Bookings
  <2> QED BY <2>1
<1>10. Bookings!2'
  BY <1>2, <1>3 DEF Bookings
<1>11. shared' \in Office
  BY <1>2
<1> QED BY <1>3, <1>8, <1>9, <1>10, <1>11 DEF BookedOrRefused

LEMMA Books ==
  ASSUME AirInv, NEW p \in Clerks, NEW b, MoveStep(p, "write", b), BookedOrRefused(p),
         local' = [local EXCEPT ![p].reg = 0]
  PROVE  AirInv'
<1>1. /\ Clerks' = Clerks /\ AirCustomers' = AirCustomers /\ Ids' = Ids
      /\ \A i, f : Wants(i, f)' = Wants(i, f)
      /\ pc[p] = "write" /\ pc'[p] = b /\ p \in AirProcesses /\ p \notin AirCustomers
      /\ \A q \in (Clerks \cup AirCustomers) \ {p} : pc'[q] = pc[q] /\ local'[q] = local[q]
      /\ \A s \in Sem : p \notin Line(s)
      /\ \/ b = "unlock_2" /\ Wants(local[p].custId, 2)
         \/ b = "unlock_1" /\ ~Wants(local[p].custId, 2)
  BY MoveLabels DEF AirProcesses, ClerkMoves, CustomerMoves
<1>2. /\ AirTypeOK /\ Serving /\ Bookings /\ Answers
      /\ shared \in Office /\ local \in [AirProcesses -> Locals]
  BY DEF AirInv, AirTypeOK, Locals
<1>3. /\ shared' \in Office
      /\ shared'.custCounter = shared.custCounter /\ shared'.queue_in = shared.queue_in
      /\ shared'.queue_out = shared.queue_out /\ shared'.cust_ready_queue = shared.cust_ready_queue
      /\ \A i \in Ids : i # local[p].custId => shared'.booked[i] = shared.booked[i]
      /\ \A f \in 1 .. 2 : ~Wants(local[p].custId, f) => shared'.flightCounter[f] = shared.flightCounter[f]
      /\ \A i \in Ids : /\ SoldOut(i) => SoldOut(i)'
                        /\ Decided(i) => Decided(i)'
                        /\ Taken(i)' <=> Taken(i)
                        /\ i = local[p].custId => Decided(i)'
      /\ Bookings!1' /\ Bookings!2'
  BY DEF BookedOrRefused
<1>4. /\ local'[p].custId = local[p].custId /\ local'[p].reg = 0
      /\ local' \in [AirProcesses -> Locals] /\ local[p].custId \in Ids /\ HasCustomer(p)
  BY <1>1, <1>2 DEF Locals, Serving, HasCustomer
<1>5. AirTypeOK'
  BY <1>2, <1>3, <1>4, MoveTypes
<1>6. Counts'
  BY <1>3, CountsKept
<1>7. Numbered' /\ QueueHolds' /\ \A q \in AirCustomers : pc'[q] = pc[q] /\ local'[q] = local[q]
  BY <1>3, CustomersKept
<1>8. \A q \in Clerks : /\ local'[q].custId = local[q].custId /\ (HasCustomer(q)' <=> HasCustomer(q))
                        /\ pc'[q] = "got" => local'[q] = local[q] /\ pc[q] = "got"
                        /\ pc[q] = "got" => pc'[q] = "got"
  BY <1>1, <1>4 DEF HasCustomer
<1>9. Serving'
  <2>1. Serving!1'
    BY <1>1, <1>2, <1>3, <1>8 DEF Serving
  <2>2. Serving!2'
    <3> SUFFICES ASSUME NEW q \in Clerks', HasCustomer(q)', pc'[q] # "got" PROVE Taken(local[q].custId)'
      OBVIOUS
    <3>1. q \in Clerks /\ Taken(local[q].custId) /\ local'[q].custId = local[q].custId
      BY <1>1, <1>2, <1>8 DEF Serving
    <3> QED BY <1>3, <3>1 DEF Taken
  <2>3. Serving!3' /\ Serving!4'
    BY <1>1, <1>2, <1>8 DEF Serving
  <2> QED BY <2>1, <2>2, <2>3 DEF Serving
<1>10. Bookings!3'
  <2> SUFFICES ASSUME NEW q \in Clerks' PROVE Bookings!3!(q)'
    OBVIOUS
  <2>1. q \in Clerks /\ Bookings!3!(q)
    BY <1>1, <1>2 DEF Bookings
  <2>2. CASE q = p
    <3>1. Wants(local[p].custId, 1) \/ Wants(local[p].custId, 2)
      BY <1>2, <1>4, WantsOne
    <3> QED BY <1>1, <1>4, <2>2, <3>1
  <2>3. CASE q # p
    <3>1. pc'[q] = pc[q] /\ local'[q] = local[q]
      BY <1>1, <2>1, <2>3
    <3>2. pc[q] \in {"got", "leave_queue", "lock_1", "lock_2", "read", "write"}
            => shared'.booked[local[q].custId] = 0
      <4>1. ASSUME pc[q] \in {"got", "leave_queue", "lock_1", "lock_2", "read", "write"}
            PROVE  shared'.booked[local[q].custId] = 0
        <5>1. HasCustomer(q)
          BY <4>1 DEF HasCustomer
        <5>2. local[q].custId \in Ids /\ local[q].custId # local[p].custId
          BY <1>2, <1>4, <2>1, <2>3, <5>1 DEF Serving
        <5> QED BY <1>3, <2>1, <4>1, <5>2
      <4> QED BY <4>1
    <3>3. pc[q] = "write" =>
            \A f \in 1 .. 2 : Wants(local[q].custId, f) => local[q].reg[f] = shared'.flightCounter[f]
      <4> SUFFICES ASSUME pc[q] = "write", NEW f \in 1 .. 2, Wants(local[q].custId, f)
                   PROVE  local[q].reg[f] = shared'.flightCounter[f]
        OBVIOUS
      <4>1. ~Wants(local[p].custId, f)
        <5>1. CASE f = 1
          <6>1. q \in AtFlight1
            BY <2>1, <5>1 DEF AtFlight1
          <6>2. p \notin AtFlight1
            BY <1>1, <2>3, <6>1, Alone
          <6> QED BY <1>1, <5>1, <6>2 DEF AtFlight1
        <5>2. CASE f = 2
          <6>1. q \in AtFlight2
            BY <2>1, <5>2 DEF AtFlight2
          <6>2. p \notin AtFlight2
            BY <1>1, <2>3, <6>1, Alone
          <6> QED BY <1>1, <5>2, <6>2 DEF AtFlight2
        <5> QED BY <5>1, <5>2
      <4> QED BY <1>3, <2>1, <4>1
    <3> QED BY <1>1, <2>1, <3>1, <3>2, <3>3
  <2> QED BY <2>2, <2>3
<1>11. Bookings'
  BY <1>3, <1>10 DEF Bookings
<1>12. Answers'
  <2>1. Answers!1'
    <3> SUFFICES ASSUME NEW q \in Clerks', pc'[q] \in {"unlock_2", "unlock_1", "answer"}
                 PROVE  Decided(local[q].custId)'
      OBVIOUS
    <3>1. q \in Clerks /\ local'[q].custId = local[q].custId /\ local[q].custId \in Ids
      BY <1>1, <1>2, <1>8 DEF Serving, HasCustomer
    <3>2. q # p => Decided(local[q].custId)
      BY <1>1, <1>2, <3>1 DEF Answers
    <3>3. ASSUME NEW id, id = local[q].custId PROVE Decided(local[q].custId)'
      <4>1. Decided(id)'
        BY <1>3, <3>1, <3>2, <3>3
      <4> QED BY <3>1, <3>3, <4>1 DEF Decided, SoldOut, Wants
    <3> QED BY <3>3
  <2>2. Answers!2'
    <3> SUFFICES ASSUME NEW q \in AirCustomers', pc'[q] \in {"terminate", "done"}, local'[q].reg = 0
                 PROVE  SoldOut(local[q].custId)'
      OBVIOUS
    <3>1. q \in AirCustomers /\ local'[q] = local[q] /\ SoldOut(local[q].custId) /\ pc'[q] = pc[q]
      BY <1>1, <1>2, <1>7 DEF Answers
    <3>2. local[q].custId \in Ids
      BY <3>1, CustomerNumbers DEF Counted
    <3>3. ASSUME NEW id, id = local[q].custId PROVE SoldOut(local[q].custId)'
      <4>1. SoldOut(id)'
        BY <1>3, <3>1, <3>2, <3>3
      <4> QED BY <3>1, <3>3, <4>1 DEF SoldOut, Wants
    <3> QED BY <3>3
  <2> QED BY <2>1, <2>2 DEF Answers
<1>13. AnswersSent'
  BY <1>3, AnswersKept
<1> QED BY <1>5, <1>6, <1>7, <1>9, <1>11, <1>12, <1>13, MoveLocks DEF AirInv
-----------------------------------------------------------------------------
(***************************************************************************)
(* The master touches its own line and its own counter only.               *)
(***************************************************************************)
LEMMA MasterKeeps ==
  ASSUME AirInv, NEW a, NEW b, StepOf(airMaster, a, b), b \in MasterLabels, shared' = shared,
         local' \in [AirProcesses -> Locals], local'[airMaster].reg \in Nat,
         LinesTyped', Lines', OtherLines("custTerminated"),
         Line("custTerminated")' \subseteq Line("custTerminated") \cup {airMaster},
         airMaster \in Line("custTerminated")' => WaitsFor(airMaster, "custTerminated")'
  PROVE  AirInv'
<1>1. /\ Clerks' = Clerks /\ AirCustomers' = AirCustomers /\ AirProcesses' = AirProcesses /\ Ids' = Ids
      /\ \A id, f : Wants(id, f)' = Wants(id, f)
      /\ \A id : Decided(id)' = Decided(id)
  BY SameData
<1>2. /\ AirTypeOK /\ Waiting /\ Locks /\ Counts /\ AnswersSent /\ StepOf(airMaster, a, b)
  BY DEF AirInv
<1>3. /\ pc'[airMaster] = b /\ DOMAIN pc' = AirProcesses
      /\ \A q \in AirProcesses \ {airMaster} : pc'[q] = pc[q] /\ local'[q] = local[q]
      /\ airMaster \notin Clerks \cup AirCustomers /\ "custTerminated" \in Sem
      /\ \A s \in Sem : airMaster \notin Line(s)
  BY <1>2, Others, Offices, AirAssumption DEF StepOf, officeNames
<1>4. \A q \in Clerks \cup AirCustomers : pc'[q] = pc[q] /\ local'[q] = local[q]
  BY <1>3 DEF AirProcesses
<1>5. AirTypeOK'
  <2>1. Office' = Office /\ Locals' = Locals
    BY <1>1 DEF Office, Locals
  <2>2. program' = "air"
    BY <1>2 DEF StepOf, AirTypeOK
  <2> QED BY <1>1, <1>2, <1>3, <1>4, <2>1, <2>2 DEF AirTypeOK, LinesTyped, Locals
<1>6. \A t \in Sem \ {"custTerminated"} : Line(t)' = Line(t) /\ available'[t] = available[t]
  BY DEF OtherLines
<1>7. Waiting'
  <2>1. \A t \in Sem : Line(t)' \subseteq Line(t) \cup {airMaster}
    BY <1>6
  <2>2. \A t \in Sem : airMaster \in Line(t)' => t = "custTerminated"
    BY <1>3, <1>6
  <2>3. \A t \in Sem : airMaster \in Line(t)' => WaitsFor(airMaster, t)'
    <3> SUFFICES ASSUME NEW t \in Sem, airMaster \in Line(t)' PROVE WaitsFor(airMaster, t)'
      OBVIOUS
    <3>1. t = "custTerminated"
      BY <2>2
    <3>2. airMaster \in Line("custTerminated")'
      BY <3>1 DEF Line
    <3>3. WaitsFor(airMaster, "custTerminated")'
      BY <3>2
    <3> QED BY <3>1, <3>3
  <2> QED BY <1>2, <2>1, <2>3, WaitingKept
<1>8. Locks'
  <2>1. AtCounter' = AtCounter /\ AtQueue' = AtQueue
    BY <1>1, <1>4 DEF AtCounter, AtQueue
  <2>2. AtFlight1' = AtFlight1 /\ AtFlight2' = AtFlight2
    BY <1>1, <1>4 DEF AtFlight1, AtFlight2
  <2>3. {"custCounterCS", "custQueueCS", "flight1CS", "flight2CS"} \subseteq Sem \ {"custTerminated"}
    BY SemaphoreNames
  <2> QED BY <1>2, <1>6, <2>1, <2>2, <2>3 DEF Locks, Locked
<1>9. Counts'
  <2>1. Counted' = Counted /\ Queued' = Queued /\ Called' = Called /\ Fetching' = Fetching
    BY <1>1, <1>4 DEF Counted, Queued, Called, Fetching
  <2>2. Line("cust_ready")' = Line("cust_ready") /\ available'["cust_ready"] = available["cust_ready"]
    BY <1>6, SemaphoreNames
  <2>3. Coming' = Coming
    BY <2>1, <2>2 DEF Coming
  <2> QED BY <1>2, <2>1, <2>2, <2>3 DEF Counts
<1>10. Numbered' /\ QueueHolds' /\ Serving' /\ Bookings' /\ Answers'
  <2>1. Quiet(airMaster, a, b, "custTerminated")
    BY DEF Quiet
  <2> QED BY <1>2, <2>1, QuietNumbers, QuietClerks
<1>11. AnswersSent'
  <2>1. \A id \in Ids : cust_finished(id) \in Sem \ {"custTerminated"} /\ cust_finished(id)' = cust_finished(id)
    BY <1>2, Finished DEF officeNames, cust_finished
  <2>2. ASSUME NEW id \in Ids', available'[cust_finished(id)] > 0
        PROVE  Decided(id)'
    <3>1. id \in Ids /\ available[cust_finished(id)] > 0
      BY <1>1, <1>6, <2>1, <2>2
    <3> QED BY <1>1, <1>2, <3>1 DEF AnswersSent
  <2>3. ASSUME NEW q \in AirCustomers', pc'[q] = "report", q \notin Line(cust_finished(local[q].custId))'
        PROVE  Decided(local[q].custId)'
    <3>1. q \in AirCustomers /\ pc[q] = "report" /\ local'[q] = local[q]
      BY <1>1, <1>4, <2>3
    <3>2. local[q].custId \in Ids
      BY <3>1, CustomerNumbers DEF Counted
    <3>3. cust_finished(local[q].custId) \in Sem \ {"custTerminated"}
      BY <2>1, <3>2
    <3>4. Line(cust_finished(local[q].custId))' = Range(waiting'[cust_finished(local[q].custId)])
      BY <3>1 DEF Line, cust_finished
    <3>5. q \notin Line(cust_finished(local[q].custId))
      BY <1>6, <2>3, <3>3, <3>4 DEF Line
    <3>6. Decided(local[q].custId)
      BY <1>2, <3>1, <3>5 DEF AnswersSent
    <3> QED BY <3>1, <3>6 DEF Decided, SoldOut, Wants
  <2> QED BY <2>2, <2>3 DEF AnswersSent
<1> QED BY <1>5, <1>7, <1>8, <1>9, <1>10, <1>11 DEF AirInv

LEMMA Stepped ==
  ASSUME NEW p \in AirProcesses, NEW a, NEW b, At(p, a), Goto(p, b), program' = program,
         shared'.office = shared.office, \A q \in AirProcesses \ {p} : local'[q] = local[q]
  PROVE  StepOf(p, a, b)
BY DEF At, Blocked, Goto, StepOf, Line

LEMMA MasterSteps ==
  ASSUME AirInv, airMaster \in AirProcesses, wait_for_customers \/ check_results
  PROVE  AirInv'
<1>1. /\ AirTypeOK /\ LinesTyped /\ Lines /\ local \in [AirProcesses -> Locals]
      /\ local[airMaster].reg \in Nat /\ "custTerminated" \in Sem
  BY AirAssumption DEF AirInv, AirTypeOK, LinesTyped, Locals, officeNames
<1>3. CASE wait_for_customers
  <2> DEFINE next == IF local'[airMaster].reg = numOfCustomers(shared.office) THEN "check" ELSE "wait"
  <2>1. /\ At(airMaster, "wait") /\ Goto(airMaster, next) /\ shared' = shared /\ program' = program
        /\ local' = [local EXCEPT ![airMaster].reg = @ + 1]
        /\ Acquire("custTerminated") \/ Queue("custTerminated", airMaster)
    BY <1>3 DEF wait_for_customers
  <2>2. /\ local' \in [AirProcesses -> Locals] /\ local'[airMaster].reg \in Nat
        /\ \A q \in AirProcesses \ {airMaster} : local'[q] = local[q]
    BY <1>1, <2>1 DEF Locals
  <2>3. next \in {"check", "wait"}
    OBVIOUS
  <2> HIDE DEF next
  <2>4. StepOf(airMaster, "wait", next)
    BY <2>1, <2>2, Stepped
  <2>5. AirProcesses' = AirProcesses
    BY <2>1, SameData
  <2>6. LinesTyped' /\ Lines' /\ Waited("custTerminated", airMaster)
    BY <1>1, <2>1, <2>4, <2>5, Waits DEF StepOf
  <2>7. WaitsFor(airMaster, "custTerminated")'
    BY <1>1, <2>3, <2>4, Others DEF WaitsFor
  <2>8. /\ OtherLines("custTerminated")
        /\ Line("custTerminated")' \subseteq Line("custTerminated") \cup {airMaster}
    BY <2>6 DEF Waited
  <2>9. next \in MasterLabels
    BY <2>3 DEF MasterLabels
  <2> QED BY <2>1, <2>2, <2>4, <2>6, <2>7, <2>8, <2>9, MasterKeeps
<1>4. CASE check_results
  <2>1. PICK next \in {"congratulations", "panic"} : step(airMaster, "check", next)
    BY <1>4 DEF check_results
  <2>2. /\ At(airMaster, "check") /\ Goto(airMaster, next) /\ program' = program
        /\ available' = available /\ waiting' = waiting
    BY <2>1 DEF step, semaphores
  <2>3. shared' = shared /\ local' = local
    BY <1>4 DEF check_results
  <2>4. StepOf(airMaster, "check", next)
    BY <2>2, <2>3, Stepped
  <2>5. \A t \in Sem : Line(t)' = Line(t)
    BY <2>2 DEF Line
  <2>6. LinesTyped' /\ Lines' /\ OtherLines("custTerminated")
    <3>1. AirProcesses' = AirProcesses
      BY <2>3, SameData
    <3> QED BY <1>1, <2>2, <2>5, <3>1 DEF LinesTyped, Lines, OtherLines
  <2>7. airMaster \notin Line("custTerminated")'
    BY <1>1, <2>4, <2>5 DEF StepOf
  <2>8. next \in MasterLabels
    BY DEF MasterLabels
  <2> QED BY <1>1, <2>3, <2>4, <2>5, <2>6, <2>7, <2>8, MasterKeeps
<1> QED BY <1>3, <1>4
-----------------------------------------------------------------------------
(***************************************************************************)
(* Every step of a customer and of a clerk is one of these.                *)
(***************************************************************************)
LEMMA IsWait ==
  ASSUME NEW p \in AirProcesses, NEW a, NEW b, NEW s, wait(p, a, s, b), WaitCall(p, a, b, s)
  PROVE  WaitStep(p, a, b, s)
<1>1. /\ At(p, a) /\ Goto(p, b) /\ program' = program /\ local' = local /\ shared' = shared
      /\ Acquire(s) \/ Queue(s, p)
  BY DEF wait
<1>2. StepOf(p, a, b)
  BY <1>1, Stepped
<1> QED BY <1>1, <1>2 DEF WaitStep

LEMMA IsSignal ==
  ASSUME NEW p \in AirProcesses, NEW a, NEW b, NEW s, signal(p, a, s, b), SignalCall(p, a, b, s)
  PROVE  SignalStep(p, a, b, s)
<1>1. /\ At(p, a) /\ Goto(p, b) /\ program' = program /\ local' = local /\ shared' = shared
      /\ Release(s) \/ HandOver(s)
  BY DEF signal
<1>2. StepOf(p, a, b)
  BY <1>1, Stepped
<1> QED BY <1>1, <1>2 DEF SignalStep

LEMMA IsMove ==
  ASSUME AirInv, NEW p \in AirProcesses, NEW a, NEW b, step(p, a, b), shared'.office = shared.office,
         \/ p \in AirCustomers /\ CustomerMoves(a, b)
         \/ p \in Clerks /\ ClerkMoves(p, a, b),
         NEW x, local' = [local EXCEPT ![p] = x],
         a # "count" /\ a # "get" => x.custId = local[p].custId
  PROVE  MoveStep(p, a, b)
<1>1. /\ At(p, a) /\ Goto(p, b) /\ program' = program /\ available' = available /\ waiting' = waiting
  BY DEF step, semaphores
<1>2. /\ \A q \in AirProcesses \ {p} : local'[q] = local[q]
      /\ local'[p] = x
  BY DEF AirInv, AirTypeOK
<1>3. StepOf(p, a, b)
  BY <1>1, <1>2, Stepped
<1>4. a # "count" /\ a # "get" => local'[p].custId = local[p].custId
  BY <1>2
<1> QED BY <1>1, <1>3, <1>4 DEF MoveStep

LEMMA CustomerSteps ==
  ASSUME AirInv, NEW p \in AirCustomers, p \in AirProcesses, customer(p)
  PROVE  AirInv'
<1>1. /\ local \in [AirProcesses -> Locals] /\ shared \in Office
  BY DEF AirInv, AirTypeOK, Locals
<1>2. \A a, b, s : CustomerWaits(p, a, b, s) /\ wait(p, a, s, b) => AirInv'
  <2> SUFFICES ASSUME NEW a, NEW b, NEW s, CustomerWaits(p, a, b, s), wait(p, a, s, b) PROVE AirInv'
    OBVIOUS
  <2>1. WaitCall(p, a, b, s)
    BY DEF WaitCall
  <2> QED BY <2>1, IsWait, WaitKeeps
<1>3. \A a, b, s : CustomerSignals(p, a, b, s) /\ signal(p, a, s, b) => AirInv'
  <2> SUFFICES ASSUME NEW a, NEW b, NEW s, CustomerSignals(p, a, b, s), signal(p, a, s, b) PROVE AirInv'
    OBVIOUS
  <2>1. SignalCall(p, a, b, s)
    BY DEF SignalCall
  <2> QED BY <2>1, IsSignal, SignalKeeps
<1>4. CASE take_number(p)
  <2>1. CASE wait(p, "arrive", "custCounterCS", "count")
    BY <1>2, <2>1 DEF CustomerWaits
  <2>2. CASE /\ step(p, "count", "counted")
             /\ local' = [local EXCEPT ![p].custId = shared.custCounter]
             /\ UNCHANGED shared
    <3>1. local' = [local EXCEPT ![p] = [local[p] EXCEPT !.custId = shared.custCounter]]
      BY <2>2
    <3>2. CustomerMoves("count", "counted") /\ shared' = shared
      BY <2>2 DEF CustomerMoves
    <3>3. MoveStep(p, "count", "counted")
      BY <2>2, <3>1, <3>2, IsMove
    <3> QED BY <2>2, <3>3, DrawsNumber
  <2>3. CASE /\ step(p, "counted", "leave_counter")
             /\ shared' = [shared EXCEPT !.custCounter = local[p].custId + 1]
             /\ UNCHANGED local
    <3>1. local' = [local EXCEPT ![p] = local[p]]
      BY <1>1, <2>3
    <3>2. CustomerMoves("counted", "leave_counter") /\ shared'.office = shared.office
      BY <1>1, <2>3 DEF CustomerMoves, Office
    <3>3. MoveStep(p, "counted", "leave_counter")
      BY <2>3, <3>1, <3>2, IsMove
    <3> QED BY <2>3, <3>3, MovesCounter
  <2>4. CASE signal(p, "leave_counter", "custCounterCS", "call_clerk")
    BY <1>3, <2>4 DEF CustomerSignals
  <2> QED BY <1>4, <2>1, <2>2, <2>3, <2>4 DEF take_number
<1>5. CASE call_clerk(p)
  <2>1. CASE wait(p, "call_clerk", "clerk", "queue_up")
    BY <1>2, <2>1 DEF CustomerWaits
  <2>2. CASE wait(p, "queue_up", "custQueueCS", "put")
    BY <1>2, <2>2 DEF CustomerWaits
  <2>3. CASE /\ step(p, "put", "put_down")
             /\ local' = [local EXCEPT ![p].reg = shared.queue_in]
             /\ shared' = [shared EXCEPT !.cust_ready_queue[shared.queue_in] = local[p].custId]
    <3>1. local' = [local EXCEPT ![p] = [local[p] EXCEPT !.reg = shared.queue_in]]
      BY <2>3
    <3>2. CustomerMoves("put", "put_down") /\ shared'.office = shared.office
      BY <1>1, <2>3 DEF CustomerMoves, Office
    <3>3. [local[p] EXCEPT !.reg = shared.queue_in].custId = local[p].custId
      BY <1>1 DEF Locals
    <3>4. MoveStep(p, "put", "put_down")
      BY <2>3, <3>1, <3>2, <3>3, IsMove
    <3> QED BY <2>3, <3>4, PutsNumber
  <2>4. CASE store_incremented(p, "put_down", "queue_in", "leave_queue")
    <3>1. /\ step(p, "put_down", "leave_queue") /\ local' = local
          /\ shared' = [shared EXCEPT !.queue_in = local[p].reg + 1]
      BY <2>4 DEF store_incremented
    <3>2. CustomerMoves("put_down", "leave_queue") /\ shared'.office = shared.office
      BY <1>1, <3>1 DEF CustomerMoves, Office
    <3>3. local' = [local EXCEPT ![p] = local[p]]
      BY <1>1, <3>1
    <3>4. MoveStep(p, "put_down", "leave_queue")
      BY <3>1, <3>2, <3>3, IsMove
    <3> QED BY <3>1, <3>4, MovesQueueIn
  <2>5. CASE signal(p, "leave_queue", "custQueueCS", "ready")
    BY <1>3, <2>5 DEF CustomerSignals
  <2> QED BY <1>5, <2>1, <2>2, <2>3, <2>4, <2>5 DEF call_clerk
<1>6. CASE wait_for_answer(p)
  <2>1. CASE signal(p, "ready", "cust_ready", "finish")
    BY <1>3, <2>1 DEF CustomerSignals
  <2>2. CASE wait(p, "finish", cust_finished(local[p].custId), "report")
    BY <1>2, <2>2 DEF CustomerWaits
  <2>3. CASE /\ step(p, "report", "terminate")
             /\ local' = [local EXCEPT ![p].reg = shared.booked[local[p].custId]]
             /\ UNCHANGED shared
    <3>1. local' = [local EXCEPT ![p] = [local[p] EXCEPT !.reg = shared.booked[local[p].custId]]]
      BY <2>3
    <3>2. CustomerMoves("report", "terminate") /\ shared' = shared
      BY <2>3 DEF CustomerMoves
    <3>3. [local[p] EXCEPT !.reg = shared.booked[local[p].custId]].custId = local[p].custId
      BY <1>1 DEF Locals
    <3>4. MoveStep(p, "report", "terminate")
      BY <2>3, <3>1, <3>2, <3>3, IsMove
    <3> QED BY <2>3, <3>4, ReadsAnswer
  <2>4. CASE signal(p, "terminate", "custTerminated", "done")
    BY <1>3, <2>4 DEF CustomerSignals
  <2> QED BY <1>6, <2>1, <2>2, <2>3, <2>4 DEF wait_for_answer
<1> QED BY <1>4, <1>5, <1>6 DEF customer

LEMMA ClerkSteps ==
  ASSUME AirInv, NEW p \in Clerks, p \in AirProcesses, clerk(p)
  PROVE  AirInv'
<1>1. /\ local \in [AirProcesses -> Locals] /\ shared \in Office
  BY DEF AirInv, AirTypeOK, Locals
<1>2. \A a, b, s : ClerkWaits(p, a, b, s) /\ wait(p, a, s, b) => AirInv'
  <2> SUFFICES ASSUME NEW a, NEW b, NEW s, ClerkWaits(p, a, b, s), wait(p, a, s, b) PROVE AirInv'
    OBVIOUS
  <2>1. WaitCall(p, a, b, s)
    BY DEF WaitCall
  <2> QED BY <2>1, IsWait, WaitKeeps
<1>3. \A a, b, s : ClerkSignals(p, a, b, s) /\ signal(p, a, s, b) => AirInv'
  <2> SUFFICES ASSUME NEW a, NEW b, NEW s, ClerkSignals(p, a, b, s), signal(p, a, s, b) PROVE AirInv'
    OBVIOUS
  <2>1. SignalCall(p, a, b, s)
    BY DEF SignalCall
  <2> QED BY <2>1, IsSignal, SignalKeeps
<1>4. CASE dequeue_customer(p)
  <2>1. CASE wait(p, "next", "cust_ready", "dequeue")
    BY <1>2, <2>1 DEF ClerkWaits
  <2>2. CASE wait(p, "dequeue", "custQueueCS", "get")
    BY <1>2, <2>2 DEF ClerkWaits
  <2>3. CASE /\ step(p, "get", "got")
             /\ local' = [local EXCEPT ![p] =
                            [reg |-> shared.queue_out,
                             custId |-> shared.cust_ready_queue[shared.queue_out]]]
             /\ UNCHANGED shared
    <3>1. ClerkMoves(p, "get", "got") /\ shared' = shared
      BY <2>3 DEF ClerkMoves
    <3>2. MoveStep(p, "get", "got")
      BY <2>3, <3>1, IsMove
    <3> QED BY <2>3, <3>2, TakesEntry
  <2>4. CASE store_incremented(p, "got", "queue_out", "leave_queue")
    <3>1. /\ step(p, "got", "leave_queue") /\ local' = local
          /\ shared' = [shared EXCEPT !.queue_out = local[p].reg + 1]
      BY <2>4 DEF store_incremented
    <3>2. ClerkMoves(p, "got", "leave_queue") /\ shared'.office = shared.office
      BY <1>1, <3>1 DEF ClerkMoves, Office
    <3>3. local' = [local EXCEPT ![p] = local[p]]
      BY <1>1, <3>1
    <3>4. MoveStep(p, "got", "leave_queue")
      BY <3>1, <3>2, <3>3, IsMove
    <3> QED BY <3>1, <3>4, MovesQueueOut
  <2>5. CASE signal(p, "leave_queue", "custQueueCS",
                    IF Wants(local[p].custId, 1) THEN "lock_1" ELSE "lock_2")
    <3>1. CASE Wants(local[p].custId, 1)
      <4>1. signal(p, "leave_queue", "custQueueCS", "lock_1")
        BY <2>5, <3>1
      <4> QED BY <1>3, <3>1, <4>1 DEF ClerkSignals
    <3>2. CASE ~Wants(local[p].custId, 1)
      <4>1. signal(p, "leave_queue", "custQueueCS", "lock_2")
        BY <2>5, <3>2
      <4> QED BY <1>3, <3>2, <4>1 DEF ClerkSignals
    <3> QED BY <3>1, <3>2
  <2> QED BY <1>4, <2>1, <2>2, <2>3, <2>4, <2>5 DEF dequeue_customer
<1>5. CASE lock_flights(p)
  <2>1. CASE wait(p, "lock_1", "flight1CS", IF Wants(local[p].custId, 2) THEN "lock_2" ELSE "read")
    <3>1. CASE Wants(local[p].custId, 2)
      <4>1. wait(p, "lock_1", "flight1CS", "lock_2")
        BY <2>1, <3>1
      <4> QED BY <1>2, <3>1, <4>1 DEF ClerkWaits
    <3>2. CASE ~Wants(local[p].custId, 2)
      <4>1. wait(p, "lock_1", "flight1CS", "read")
        BY <2>1, <3>2
      <4> QED BY <1>2, <3>2, <4>1 DEF ClerkWaits
    <3> QED BY <3>1, <3>2
  <2>2. CASE wait(p, "lock_2", "flight2CS", "read")
    BY <1>2, <2>2 DEF ClerkWaits
  <2> QED BY <1>5, <2>1, <2>2 DEF lock_flights
<1>6. CASE book_flights(p)
  <2>1. CASE /\ step(p, "read", "write")
             /\ local' = [local EXCEPT ![p].reg = shared.flightCounter]
             /\ UNCHANGED shared
    <3>1. local' = [local EXCEPT ![p] = [local[p] EXCEPT !.reg = shared.flightCounter]]
      BY <2>1
    <3>2. ClerkMoves(p, "read", "write") /\ shared' = shared
      BY <2>1 DEF ClerkMoves
    <3>3. [local[p] EXCEPT !.reg = shared.flightCounter].custId = local[p].custId
      BY <1>1 DEF Locals
    <3>4. MoveStep(p, "read", "write")
      BY <2>1, <3>1, <3>2, <3>3, IsMove
    <3> QED BY <2>1, <3>4, ReadsTickets
  <2>2. CASE /\ step(p, "write", IF 2 \in Wanted(local[p].custId) THEN "unlock_2" ELSE "unlock_1")
             /\ shared' = IF \A f \in Wanted(local[p].custId) : local[p].reg[f] > 0
                          THEN Booked(p) ELSE shared
             /\ local' = [local EXCEPT ![p].reg = 0]
    <3> DEFINE next == IF 2 \in Wanted(local[p].custId) THEN "unlock_2" ELSE "unlock_1"
    <3>1. local' = [local EXCEPT ![p] = [local[p] EXCEPT !.reg = 0]]
      BY <2>2
    <3>2. ClerkMoves(p, "write", next)
      BY DEF ClerkMoves, Wanted
    <3>3. shared'.office = shared.office
      BY <1>1, <2>2 DEF Booked, Office
    <3>4. [local[p] EXCEPT !.reg = 0].custId = local[p].custId
      BY <1>1 DEF Locals
    <3>5. step(p, "write", next)
      BY <2>2
    <3> HIDE DEF next
    <3>6. MoveStep(p, "write", next)
      BY <3>1, <3>2, <3>3, <3>4, <3>5, IsMove
    <3>7. CASE \A f \in Wanted(local[p].custId) : local[p].reg[f] > 0
      <4>1. shared' = Booked(p)
        BY <2>2, <3>7
      <4> QED BY <2>2, <3>6, <3>7, <4>1, GivesTickets, Books
    <3>8. CASE ~ \A f \in Wanted(local[p].custId) : local[p].reg[f] > 0
      <4>1. shared' = shared
        BY <2>2, <3>8
      <4> QED BY <2>2, <3>6, <3>8, <4>1, RefusesTickets, Books
    <3> QED BY <3>7, <3>8
  <2> QED BY <1>6, <2>1, <2>2 DEF book_flights, Wanted, Booked
<1>7. CASE unlock_flights(p)
  <2>1. CASE signal(p, "unlock_2", "flight2CS",
                    IF Wants(local[p].custId, 1) THEN "unlock_1" ELSE "answer")
    <3>1. CASE Wants(local[p].custId, 1)
      <4>1. signal(p, "unlock_2", "flight2CS", "unlock_1")
        BY <2>1, <3>1
      <4> QED BY <1>3, <3>1, <4>1 DEF ClerkSignals
    <3>2. CASE ~Wants(local[p].custId, 1)
      <4>1. signal(p, "unlock_2", "flight2CS", "answer")
        BY <2>1, <3>2
      <4> QED BY <1>3, <3>2, <4>1 DEF ClerkSignals
    <3> QED BY <3>1, <3>2
  <2>2. CASE signal(p, "unlock_1", "flight1CS", "answer")
    BY <1>3, <2>2 DEF ClerkSignals
  <2> QED BY <1>7, <2>1, <2>2 DEF unlock_flights
<1>8. CASE answer_customer(p)
  <2>1. CASE signal(p, "answer", cust_finished(local[p].custId), "free")
    BY <1>3, <2>1 DEF ClerkSignals
  <2>2. CASE signal(p, "free", "clerk", "next")
    BY <1>3, <2>2 DEF ClerkSignals
  <2> QED BY <1>8, <2>1, <2>2 DEF answer_customer
<1> QED BY <1>4, <1>5, <1>6, <1>7, <1>8 DEF clerk
-----------------------------------------------------------------------------
LEMMA AirStep ==
  ASSUME AirInv, [AirNext]_uvars
  PROVE  AirInv'
<1>1. CASE AirNext
  <2>1. PICK p \in DOMAIN pc : AirProcess(p)
    BY <1>1 DEF AirNext
  <2>2. p \in AirProcesses
    BY <2>1 DEF AirInv, AirTypeOK
  <2>3. CASE p = airMaster
    <3>1. wait_for_customers \/ check_results
      BY <2>1, <2>3 DEF AirProcess
    <3> QED BY <2>2, <2>3, <3>1, MasterSteps
  <2>4. CASE p # airMaster /\ p \in Clerks
    <3>1. clerk(p)
      BY <2>1, <2>4 DEF AirProcess
    <3> QED BY <2>2, <2>4, <3>1, ClerkSteps
  <2>5. CASE p # airMaster /\ p \notin Clerks
    <3>1. customer(p)
      BY <2>1, <2>5 DEF AirProcess
    <3>2. p \in AirCustomers
      BY <2>2, <2>5 DEF AirProcesses
    <3> QED BY <2>2, <3>1, <3>2, CustomerSteps
  <2> QED BY <2>3, <2>4, <2>5
<1>2. CASE UNCHANGED uvars
  <2>1. /\ program' = program /\ pc' = pc /\ local' = local /\ shared' = shared
        /\ available' = available /\ waiting' = waiting
    BY <1>2 DEF uvars
  <2>2. /\ Clerks' = Clerks /\ AirCustomers' = AirCustomers /\ AirProcesses' = AirProcesses
        /\ Ids' = Ids
    BY <2>1 DEF Clerks, AirCustomers, AirProcesses, Ids
  <2>3. /\ \A s : Line(s)' = Line(s)
        /\ \A id, f : Wants(id, f)' = Wants(id, f)
        /\ \A id : Taken(id)' = Taken(id)
        /\ \A p : HasCustomer(p)' = HasCustomer(p)
    BY <2>1 DEF Line, Wants, Taken, HasCustomer
  <2>4. AirTypeOK'
    <3>1. AirTypeOK
      BY DEF AirInv
    <3>2. Office' = Office
      BY <2>2 DEF Office
    <3> QED BY <2>1, <2>2, <3>1, <3>2 DEF AirTypeOK
  <2>5. Lines' /\ Waiting'
    <3>1. Lines /\ Waiting
      BY DEF AirInv
    <3>2. \A p, s : WaitsFor(p, s)' = WaitsFor(p, s)
      BY <2>1, <2>2, <2>3 DEF WaitsFor, cust_finished
    <3> QED BY <2>1, <2>3, <3>1, <3>2 DEF Lines, Waiting
  <2>6. Locks'
    <3>1. Locks
      BY DEF AirInv
    <3>2. AtCounter' = AtCounter /\ AtQueue' = AtQueue
      BY <2>1, <2>2 DEF AtCounter, AtQueue
    <3>3. AtFlight1' = AtFlight1 /\ AtFlight2' = AtFlight2
      BY <2>1, <2>2, <2>3 DEF AtFlight1, AtFlight2
    <3> QED BY <2>1, <2>3, <3>1, <3>2, <3>3 DEF Locks, Locked
  <2>7. Counted' = Counted /\ Queued' = Queued /\ Called' = Called /\ Coming' = Coming
    BY <2>1, <2>2, <2>3 DEF Counted, Queued, Called, Coming, Fetching
  <2>8. Counts' /\ Numbered'
    <3>1. Counts /\ Numbered
      BY DEF AirInv
    <3> QED BY <2>1, <2>2, <2>7, <3>1 DEF Counts, Numbered
  <2>9. QueueHolds'
    <3>1. QueueHolds
      BY DEF AirInv
    <3>2. Filled' = Filled
      BY <2>1, <2>2 DEF Filled
    <3> QED BY <2>1, <2>2, <2>7, <3>1, <3>2 DEF QueueHolds
  <2>10. Serving' /\ Bookings'
    <3>1. Serving /\ Bookings
      BY DEF AirInv
    <3> QED BY <2>1, <2>2, <2>3, <3>1 DEF Serving, Bookings
  <2>11. Answers' /\ AnswersSent'
    <3>1. Answers /\ AnswersSent
      BY DEF AirInv
    <3>2. \A id : SoldOut(id)' = SoldOut(id) /\ Decided(id)' = Decided(id)
      BY <2>1, <2>3 DEF SoldOut, Decided
    <3> QED BY <2>1, <2>2, <2>3, <3>1, <3>2 DEF Answers, AnswersSent, cust_finished
  <2> QED BY <2>4, <2>5, <2>6, <2>8, <2>9, <2>10, <2>11 DEF AirInv
<1> QED BY <1>1, <1>2

LEMMA FirstPermits ==
  ASSUME NEW o \in offices
  PROVE  /\ Cardinality(o.clerks) \in Nat /\ officeNames \subseteq DOMAIN AirSemaphores(o)
         /\ \A s \in DOMAIN AirSemaphores(o) : AirSemaphores(o)[s] \in Nat
         /\ \A s \in {"custCounterCS", "custQueueCS", "flight1CS", "flight2CS"} : AirSemaphores(o)[s] = 1
         /\ AirSemaphores(o)["cust_ready"] = 0
         /\ \A s \in DOMAIN AirSemaphores(o) \ officeNames : AirSemaphores(o)[s] = 0
<1> DEFINE names == {cust_finished(id) : id \in 0 .. numOfCustomers(o) - 1}
           clerks == Cardinality(o.clerks)
<1>1. clerks \in Nat
  BY AirAssumption, FS_CardinalityType
<1>2. AirSemaphores(o) =
        [s \in officeNames \cup names |->
           CASE s \in {"flight1CS", "flight2CS", "custCounterCS", "custQueueCS"} -> 1
             [] s = "clerk" -> clerks
             [] OTHER -> 0]
  BY DEF AirSemaphores
<1> HIDE DEF names, clerks
<1>3. /\ DOMAIN AirSemaphores(o) = officeNames \cup names
      /\ \A s \in DOMAIN AirSemaphores(o) :
           AirSemaphores(o)[s] = IF s \in {"flight1CS", "flight2CS", "custCounterCS", "custQueueCS"} THEN 1
                                 ELSE IF s = "clerk" THEN clerks ELSE 0
  BY <1>2
<1>4. clerks = Cardinality(o.clerks)
  BY DEF clerks
<1>5. \A s \in DOMAIN AirSemaphores(o) : AirSemaphores(o)[s] \in Nat
  BY <1>1, <1>3
<1>6. \A s \in {"custCounterCS", "custQueueCS", "flight1CS", "flight2CS"} : AirSemaphores(o)[s] = 1
  BY <1>3 DEF officeNames
<1>7. AirSemaphores(o)["cust_ready"] = 0
  BY <1>3 DEF officeNames
<1>8. \A s \in DOMAIN AirSemaphores(o) \ officeNames : AirSemaphores(o)[s] = 0
  BY <1>3 DEF officeNames
<1> QED BY <1>1, <1>3, <1>4, <1>5, <1>6, <1>7, <1>8

LEMMA AirStart ==
  ASSUME AirInit
  PROVE  AirInv
<1>1. PICK o \in offices :
        LET processes == {airMaster} \cup o.clerks \cup o.customers
            ids == 0 .. numOfCustomers(o) - 1
        IN /\ SemaphoresAre(AirSemaphores(o))
           /\ pc = [p \in processes |-> IF p = airMaster THEN "wait"
                                        ELSE IF p \in o.clerks THEN "next" ELSE "arrive"]
           /\ local = [p \in processes |-> [reg |-> 0, custId |-> Unwritten]]
           /\ shared = [office |-> o, custCounter |-> 0, flightCounter |-> o.tickets,
                        booked |-> [id \in ids |-> 0], bookedArr |-> <<<<>>, <<>>>>,
                        cust_ready_queue |-> [i \in ids |-> Unwritten],
                        queue_in |-> 0, queue_out |-> 0]
  BY DEF AirInit
<1>2. /\ Clerks = o.clerks /\ AirCustomers = o.customers
      /\ AirProcesses = {airMaster} \cup o.clerks \cup o.customers
      /\ Ids = 0 .. numOfCustomers(o) - 1
  BY <1>1 DEF Clerks, AirCustomers, AirProcesses, Ids
<1>3. /\ o.clerks \cap o.customers = {} /\ airMaster \notin o.clerks \cup o.customers
      /\ IsFiniteSet(o.clerks) /\ IsFiniteSet(o.customers) /\ o.tickets \in [1 .. 2 -> Nat]
      /\ Cardinality(o.customers) \in Nat
  BY AirAssumption, FS_CardinalityType
<1>4. /\ program = "air"
      /\ pc[airMaster] = "wait" /\ DOMAIN pc = AirProcesses
      /\ \A p \in Clerks : pc[p] = "next"
      /\ \A p \in AirCustomers : pc[p] = "arrive"
      /\ \A p \in AirProcesses : local[p].reg = 0 /\ local[p].custId = Unwritten
      /\ local \in [AirProcesses -> Locals]
  BY <1>1, <1>2, <1>3 DEF AirInit, Locals
<1>5. /\ shared.office = o /\ shared.custCounter = 0 /\ shared.flightCounter = o.tickets
      /\ shared.booked = [id \in Ids |-> 0] /\ shared.bookedArr = <<<<>>, <<>>>>
      /\ shared.cust_ready_queue = [i \in Ids |-> Unwritten]
      /\ shared.queue_in = 0 /\ shared.queue_out = 0
  BY <1>1, <1>2
<1>6. /\ available = [s \in Sem |-> IF s \in DOMAIN AirSemaphores(o) THEN AirSemaphores(o)[s] ELSE 0]
      /\ waiting = [s \in Sem |-> <<>>]
  BY <1>1 DEF SemaphoresAre
<1>7. /\ available \in [Sem -> Nat] /\ available["cust_ready"] = 0
      /\ \A s \in {"custCounterCS", "custQueueCS", "flight1CS", "flight2CS"} : s \in Sem /\ available[s] = 1
      /\ \A s \in Sem \ officeNames : available[s] = 0
  <2>1. officeNames \subseteq Sem
    BY AirAssumption
  <2>2. /\ "cust_ready" \in officeNames
        /\ {"custCounterCS", "custQueueCS", "flight1CS", "flight2CS"} \subseteq officeNames
    BY DEF officeNames
  <2>3. \A s \in Sem : available[s] = IF s \in DOMAIN AirSemaphores(o) THEN AirSemaphores(o)[s] ELSE 0
    BY <1>6
  <2>4. available \in [Sem -> Nat]
    BY <1>6, FirstPermits
  <2>5. available["cust_ready"] = 0
    BY <2>1, <2>2, <2>3, FirstPermits
  <2>6. \A s \in {"custCounterCS", "custQueueCS", "flight1CS", "flight2CS"} : s \in Sem /\ available[s] = 1
    BY <2>1, <2>2, <2>3, FirstPermits
  <2>7. \A s \in Sem \ officeNames : available[s] = 0
    BY <2>3, FirstPermits
  <2> QED BY <2>4, <2>5, <2>6, <2>7
<1>8. \A s \in Sem : waiting[s] = <<>> /\ Line(s) = {}
  BY <1>6 DEF Line, Range
<1>9. AirTypeOK
  <2>1. shared \in Office
    <3>1. /\ <<<<>>, <<>>>> \in [1 .. 2 -> Seq(Ids)]
          /\ [id \in Ids |-> 0] \in [Ids -> 0 .. 1]
          /\ [i \in Ids |-> Unwritten] \in [Ids -> Ids \cup {Unwritten}]
      <4>1. <<>> \in Seq(Ids)
        OBVIOUS
      <4>2. ASSUME NEW S, NEW x \in S PROVE <<x, x>> \in [1 .. 2 -> S]
        OBVIOUS
      <4>3. <<<<>>, <<>>>> \in [1 .. 2 -> Seq(Ids)]
        BY <4>1, <4>2, Zenon
      <4> QED BY <4>3
    <3>2. shared = [office |-> o, custCounter |-> 0, flightCounter |-> o.tickets,
                    booked |-> [id \in Ids |-> 0], bookedArr |-> <<<<>>, <<>>>>,
                    cust_ready_queue |-> [i \in Ids |-> Unwritten],
                    queue_in |-> 0, queue_out |-> 0]
      BY <1>1, <1>2
    <3>3. ASSUME NEW x \in [1 .. 2 -> Seq(Ids)], NEW y \in [Ids -> 0 .. 1],
                 NEW z \in [Ids -> Ids \cup {Unwritten}]
          PROVE  [office |-> o, custCounter |-> 0, flightCounter |-> o.tickets, booked |-> y,
                  bookedArr |-> x, cust_ready_queue |-> z, queue_in |-> 0, queue_out |-> 0] \in Office
      BY <1>3 DEF Office
    <3> QED BY <3>1, <3>2, <3>3
  <2>2. waiting \in [Sem -> Seq(AirProcesses)]
    <3>1. <<>> \in Seq(AirProcesses)
      OBVIOUS
    <3> QED BY <1>6, <3>1
  <2>3. /\ "next" \in ClerkLabels /\ "arrive" \in CustomerLabels /\ "wait" \in MasterLabels
    BY DEF ClerkLabels, CustomerLabels, MasterLabels
  <2>4. local[airMaster].reg \in Nat
    BY <1>4 DEF AirProcesses
  <2> QED BY <1>4, <1>7, <2>1, <2>2, <2>3, <2>4 DEF AirTypeOK, Locals
<1>10. Lines /\ Waiting
  <2>1. IsInjective(<<>>)
    BY DEF IsInjective
  <2> QED BY <1>8, <2>1 DEF Lines, Waiting
<1>11. Locks
  <2>1. AtCounter = {} /\ AtQueue = {}
    BY <1>4 DEF AtCounter, AtQueue
  <2>2. AtFlight1 = {} /\ AtFlight2 = {}
    BY <1>4 DEF AtFlight1, AtFlight2
  <2> QED BY <1>7, <1>8, <2>1, <2>2 DEF Locks, Locked, LockedBy
<1>12. Counted = {} /\ Queued = {} /\ Called = {} /\ Coming = {}
  BY <1>4 DEF Counted, Queued, Called, Coming, Fetching
<1>13. Counts
  <2>1. Cardinality({}) = 0
    BY FS_EmptySet
  <2> QED BY <1>5, <1>7, <1>12, <2>1 DEF Counts
<1>14. Numbered
  <2>1. AirCustomers \subseteq AirProcesses
    BY DEF AirProcesses
  <2> QED BY <1>4, <1>12, <2>1 DEF Numbered
<1>15. QueueHolds
  <2>1. Filled = {}
    BY <1>3, <1>2, <1>4, <1>5 DEF Filled, numOfCustomers
  <2>2. \A p \in AirCustomers : pc[p] # "put_down"
    BY <1>4
  <2> QED BY <2>1, <2>2 DEF QueueHolds
<1>16. Serving
  <2>1. \A p \in Clerks : ~HasCustomer(p) /\ pc[p] # "got"
    BY <1>4 DEF HasCustomer
  <2> QED BY <2>1 DEF Serving
<1>17. Bookings
  <2>1. ASSUME NEW f \in 1 .. 2 PROVE Bookings!1!(f)
    <3>1. shared.bookedArr[f] = <<>> /\ shared.flightCounter[f] = shared.office.tickets[f]
          /\ shared.flightCounter[f] \in Nat
      BY <1>3, <1>5
    <3>2. Len(<<>>) = 0 /\ IsInjective(<<>>) /\ Range(<<>>) = {}
      BY DEF IsInjective, Range
    <3> QED BY <3>1, <3>2
  <2>2. \A id \in Ids : shared.booked[id] = 0
    BY <1>5
  <2>3. \A p \in Clerks : pc[p] = "next"
    BY <1>4
  <2> QED BY <2>1, <2>2, <2>3 DEF Bookings
<1>18. Answers
  BY <1>4 DEF Answers
<1>19. AnswersSent
  <2>1. \A id \in Ids : available[cust_finished(id)] = 0
    BY <1>7, <1>9, Finished
  <2>2. \A p \in AirCustomers : pc[p] # "report"
    BY <1>4
  <2> QED BY <2>1, <2>2 DEF AnswersSent
<1> QED BY <1>9, <1>10, <1>11, <1>13, <1>14, <1>15, <1>16, <1>17, <1>18, <1>19 DEF AirInv
-----------------------------------------------------------------------------
(***************************************************************************)
(* Every state of the office satisfies the invariant.                      *)
(***************************************************************************)
THEOREM AirInvariant == AirSpec => []AirInv
<1>1. AirInit => AirInv
  BY AirStart
<1>2. AirInv /\ [AirNext]_uvars => AirInv'
  BY AirStep
<1> QED BY <1>1, <1>2, PTL DEF AirSpec

(***************************************************************************)
(* No ticket of tst_air.c is sold twice and nobody is booked on a flight   *)
(* twice, or on one he did not ask for, whatever the clerks are in the     *)
(* middle of.                                                              *)
(***************************************************************************)
THEOREM TicketsSoldOnce == AirSpec => []NoOverbooking
<1>1. AirInv => NoOverbooking
  BY DEF AirInv, AirTypeOK, Office, Bookings, NoOverbooking
<1> QED BY <1>1, AirInvariant, PTL

(***************************************************************************)
(* Clerks of tst_air_clerk.c take every entry of the queue once, customers *)
(* of tst_air_customer.c draw different numbers, and "not booked" is heard *)
(* only by a customer one of whose flights is sold out.                    *)
(***************************************************************************)
THEOREM CallsAnsweredOnce == AirSpec => []EveryCallAnsweredOnce
<1>1. ASSUME AirInv PROVE EveryCallAnsweredOnce
  <2>1. shared.queue_out <= shared.queue_in
    BY <1>1, QueueOrder
  <2>2. \A p \in Clerks : HasCustomer(p) => local[p].custId # Unwritten
    <3>1. \A id \in Ids : id # Unwritten
      BY <1>1, Offices DEF AirInv, Unwritten
    <3> QED BY <1>1, <3>1 DEF AirInv, Serving
  <2>3. \A p, q \in Clerks :
          p # q /\ HasCustomer(p) /\ HasCustomer(q) => local[p].custId # local[q].custId
    BY <1>1 DEF AirInv, Serving
  <2>4. \A p, q \in AirCustomers :
          p # q /\ local[p].custId = local[q].custId => local[p].custId = Unwritten
    BY <1>1 DEF AirInv, Numbered
  <2>5. \A p \in AirCustomers :
          pc[p] \in {"terminate", "done"} /\ local[p].reg = 0
            => \E f \in 1 .. 2 : Wants(local[p].custId, f) /\ shared.flightCounter[f] = 0
    BY <1>1 DEF AirInv, Answers, SoldOut
  <2>6. \A p : HasCustomer(p) <=> pc[p] \notin {"next", "dequeue", "get"}
    BY DEF HasCustomer
  <2>7. \A p, q \in Clerks :
          p # q /\ {pc[p], pc[q]} \cap {"next", "dequeue", "get"} = {}
            => local[p].custId # local[q].custId
    <3> SUFFICES ASSUME NEW p \in Clerks, NEW q \in Clerks, p # q,
                        {pc[p], pc[q]} \cap {"next", "dequeue", "get"} = {}
                 PROVE  local[p].custId # local[q].custId
      OBVIOUS
    <3>1. HasCustomer(p) /\ HasCustomer(q)
      BY DEF HasCustomer
    <3> QED BY <2>3, <3>1
  <2> QED BY <2>1, <2>2, <2>4, <2>5, <2>6, <2>7 DEF EveryCallAnsweredOnce
<1> QED BY <1>1, AirInvariant, PTL
=============================================================================
