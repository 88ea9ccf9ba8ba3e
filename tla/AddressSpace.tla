---------------------------- MODULE AddressSpace ----------------------------
(***************************************************************************)
(* What paging promises to a program: its memory keeps what was written.   *)
(* An access of the program either takes effect or traps and is tried      *)
(* again.  A trap changes no contents, except that a page that had none    *)
(* gets some; a page loses its contents only when the program releases it. *)
(***************************************************************************)
CONSTANTS Process, Address, Releasable, Value, UNDEFINED

VARIABLES mem,       \* the contents of every page
          pending    \* the access that trapped

Init ==
  /\ mem \in [Process -> [Address -> Value \cup {UNDEFINED}]]
  /\ pending = [e \in Process |-> UNDEFINED]

Keeps(e, pages) == \A p \in pages : mem'[e][p] = mem[e][p]

(***************************************************************************)
(* An access to a page traps.                                              *)
(***************************************************************************)
Trap(e, p) ==
  /\ pending[e] \in {UNDEFINED, p}
  /\ pending'[e] = p
  /\ Keeps(e, Address \ {p})
  /\ mem'[e][p] = mem[e][p] \/ mem[e][p] = UNDEFINED

(***************************************************************************)
(* A load leaves the memory as it is, a store changes one page.            *)
(***************************************************************************)
Load(e, p) ==
  /\ pending[e] \in {UNDEFINED, p}
  /\ pending'[e] = UNDEFINED
  /\ mem[e][p] # UNDEFINED
  /\ Keeps(e, Address)

Store(e, p) ==
  /\ pending[e] \in {UNDEFINED, p}
  /\ pending'[e] = UNDEFINED
  /\ mem[e][p] # UNDEFINED /\ mem'[e][p] # UNDEFINED
  /\ Keeps(e, Address \ {p})

(***************************************************************************)
(* The program releases pages.                                             *)
(***************************************************************************)
Release(e) ==
  /\ pending[e] = UNDEFINED /\ pending'[e] = UNDEFINED
  /\ \A p \in Address : \/ mem'[e][p] = mem[e][p]
                        \/ p \in Releasable /\ mem'[e][p] = UNDEFINED

Next ==
  \E e \in Process :
    /\ Release(e) \/ \E p \in Address : Trap(e, p) \/ Load(e, p) \/ Store(e, p)
    /\ \A d \in Process \ {e} : Keeps(d, Address) /\ pending'[d] = pending[d]

Spec == Init /\ [][Next]_<<mem, pending>>
=============================================================================
