---------------------------- MODULE MCSemaphores ----------------------------
(***************************************************************************)
(* Small instances of the scheduler and the semaphores for TLC.            *)
(***************************************************************************)
EXTENDS Semaphores, TLC

EnvSymmetry == Permutations(Env)
=============================================================================
