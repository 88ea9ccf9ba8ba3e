--------------------------- MODULE MCSharedMemory ---------------------------
(***************************************************************************)
(* Environments and names are interchangeable.                             *)
(***************************************************************************)
EXTENDS SharedMemory, TLC

Symmetry == Permutations(Env) \cup Permutations(Name)
=============================================================================
