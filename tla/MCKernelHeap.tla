---------------------------- MODULE MCKernelHeap ----------------------------
(***************************************************************************)
(* A heap of five pages in a memory of four frames: blocks of one to three *)
(* pages split and merge, and memory runs out before the heap does.        *)
(***************************************************************************)
EXTENDS KernelHeap
=============================================================================
