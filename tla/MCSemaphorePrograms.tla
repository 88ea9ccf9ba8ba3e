------------------------ MODULE MCSemaphorePrograms ------------------------
(***************************************************************************)
(* Three customers and a shop for two, or for one: the critical section of *)
(* tst_semaphore_1master.c.                                                *)
(***************************************************************************)
EXTENDS SemaphorePrograms, TLC
=============================================================================
