------------------------- MODULE MCChunkOperations -------------------------
(***************************************************************************)
(* The chunk operations on an address space of a few pages.                *)
(***************************************************************************)
EXTENDS ChunkOperations

SomePerms == {{"USER"}, {"WRITEABLE"}}
=============================================================================
