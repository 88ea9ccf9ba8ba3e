--------------------------- MODULE MCDemandPaging ---------------------------
(***************************************************************************)
(* The program, the heap and the stack have page tables of their own;      *)
(* pages 0, 4, 5 and 7 are illegal, and 4 and 5 have a table of their own. *)
(***************************************************************************)
EXTENDS DemandPaging
=============================================================================
