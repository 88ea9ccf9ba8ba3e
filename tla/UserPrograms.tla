---------------------------- MODULE UserPrograms ----------------------------
(***************************************************************************)
(* The programs of user/ that cooperate through semaphores and shared      *)
(* memory, one of them at a time.                                          *)
(***************************************************************************)
EXTENDS AirReservation, ArrayOperations

UserInit == AirInit \/ MidTermInit \/ CriticalSectionInit \/ ArrayInit

UserProcess(p) ==
  /\ p \in DOMAIN pc
  /\ \/ program = "air" /\ AirProcess(p)
     \/ program = "midterm" /\ MidTermProcess(p)
     \/ program = "sem1" /\ CriticalSectionProcess(p)
     \/ program = "array" /\ ArrayProcess(p)

(***************************************************************************)
(* The master has come to its end.                                         *)
(***************************************************************************)
Ended ==
  pc[CASE program = "air" -> airMaster
       [] program = "midterm" -> midMaster
       [] program = "sem1" -> semMaster
       [] program = "array" -> arrMaster] \in {"congratulations", "panic", "print X"}

UserNext == \E p \in Process : UserProcess(p)

(***************************************************************************)
(* Some ready process always gets the processor.                           *)
(***************************************************************************)
UserSpec ==
  /\ UserInit
  /\ [][UserNext]_uvars
  /\ WF_uvars(UserNext)

CounterSpec == MidTermInit /\ [][UserNext]_uvars /\ WF_uvars(UserNext)
-----------------------------------------------------------------------------
(***************************************************************************)
(* What the master of each program looks at after the others have finished *)
(* is right, however they were interleaved: semaphores and bookings of the *)
(* reservation office, the final X, the values seen in the critical        *)
(* section, and the sorted arrays and statistics.                          *)
(***************************************************************************)
ProgramChecksHold ==
  ReservationChecks /\ FinalValueOfX /\ CriticalSectionHolds /\ SlavesHaveFinished

(***************************************************************************)
(* The programs that wait on semaphores come to their end: nobody waits    *)
(* for somebody who waits for him, and no signal is lost.                  *)
(***************************************************************************)
SemaphoreProgramsEnd == program \in {"air", "sem1"} ~> Ended

(***************************************************************************)
(* "BUSY-WAIT TILL FINISHING BOTH PROCESSES": the master's loop ends after *)
(* both processes have finished.                                           *)
(***************************************************************************)
BusyWaitEnds == program = "midterm" ~> Ended
=============================================================================
