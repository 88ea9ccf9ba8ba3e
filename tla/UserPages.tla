------------------------------ MODULE UserPages ------------------------------
(***************************************************************************)
(* Pages that are mapped one by one: the system call __sys_allocate_page() *)
(* of kern/trap/syscall.c, the commands ap, fp and aup of                  *)
(* kern/cmd/commands.c, and what they use of kern/mem/memory_manager.c.    *)
(*                                                                         *)
(* An address is the number of its page.  memory holds what these          *)
(* functions change: the list of free frames, the references of a frame,   *)
(* the page tables (a frame from kmalloc() each) and their entries.        *)
(***************************************************************************)
EXTENDS Integers, Sequences, FiniteSets, SequencesExt

CONSTANTS
  PageEnvs,       \* environments
  KernelDir,      \* ptr_page_directory
  UserPageNos,    \* the pages that are asked for
  USER_TOP_PAGE,  \* the first page above USER_TOP
  WINDOW,         \* the page at USER_LIMIT, where new pages are cleared
  ENTRIES,        \* entries of a page table
  PageFrames,     \* frames
  MaxPageCalls    \* bound on the calls

ASSUME UserPagesAssumption ==
  /\ IsFiniteSet(PageEnvs) /\ IsFiniteSet(UserPageNos)
  /\ UserPageNos \subseteq Nat /\ PageFrames \in Nat /\ ENTRIES \in Nat \ {0}
  /\ USER_TOP_PAGE \in Nat /\ WINDOW \in Nat /\ USER_TOP_PAGE <= WINDOW

VARIABLES
  memory,     \* [free, references, tables, entries]
  contents,   \* of every frame: "zero", or "dirty" once it was written
  ended,      \* the environments whose call panicked
  lost,       \* frames taken by a call that then failed, or by sys_clearFFL
  last,       \* the entry the last sys_allocate_page() made
  pageCalls   \* the number of calls

userPages == <<memory, contents, ended, lost, last, pageCalls>>

Directories == PageEnvs \cup {KernelDir}
AllPages == UserPageNos \cup {WINDOW}
Unmapped == [frame |-> 0, writable |-> FALSE]
NoEntry == [dir |-> KernelDir, va |-> -1]
TableOf(va) == va \div ENTRIES

UserPagesInit ==
  /\ memory = [free |-> [i \in 1 .. PageFrames |-> i],
               references |-> [f \in 1 .. PageFrames |-> 0],
               tables |-> {},
               entries |-> [d \in Directories |-> [va \in AllPages |-> Unmapped]]]
  /\ contents = [f \in 1 .. PageFrames |-> "dirty"]
  /\ ended = {} /\ lost = {} /\ last = NoEntry /\ pageCalls = 0
-----------------------------------------------------------------------------
(***************************************************************************)
(* allocate_frame() takes the first free frame; with none it panics.       *)
(***************************************************************************)
allocated_frame(m) == Head(m.free)
allocate_frame(m) == [m EXCEPT !.free = Tail(@), !.references[Head(m.free)] = 0]

(***************************************************************************)
(* decrement_references() frees the frame with its last reference.         *)
(***************************************************************************)
decrement_references(m, f) ==
  [m EXCEPT !.references[f] = @ - 1,
            !.free = IF m.references[f] = 1 THEN Cons(f, @) ELSE @]

unmap_frame(m, d, va) ==
  LET e == m.entries[d][va]
  IN IF e = Unmapped THEN m
     ELSE [decrement_references(m, e.frame) EXCEPT !.entries[d][va] = Unmapped]

(***************************************************************************)
(* map_frame() first makes the page table, if there is none: it needs a    *)
(* frame, and panics without.  Another frame at the address is unmapped.   *)
(***************************************************************************)
has_table(m, d, va) == \E t \in m.tables : t.dir = d /\ t.number = TableOf(va)

create_page_table(m, d, va) ==
  IF has_table(m, d, va) THEN m
  ELSE [allocate_frame(m) EXCEPT
          !.tables = @ \cup {[dir |-> d, number |-> TableOf(va),
                              frame |-> allocated_frame(m)]},
          !.references[allocated_frame(m)] = 1]

can_map(m, d, va) == has_table(m, d, va) \/ m.free # <<>>

map_frame(m, d, f, va, writable) ==
  LET t == create_page_table(m, d, va)
      u == unmap_frame(t, d, va)
  IN IF t.entries[d][va].frame = f THEN t
     ELSE [u EXCEPT !.references[f] = @ + 1,
                    !.entries[d][va] = [frame |-> f, writable |-> writable]]
-----------------------------------------------------------------------------
(***************************************************************************)
(* The call of environment e panics: it exits, and what it took stays      *)
(* taken.                                                                  *)
(***************************************************************************)
panicked(e, m, taken) ==
  /\ memory' = m
  /\ ended' = ended \cup (IF e = KernelDir THEN {} ELSE {e})
  /\ lost' = lost \cup taken
  /\ UNCHANGED <<contents, last>>

(***************************************************************************)
(* A new page is cleared through the window at USER_LIMIT: mapped there,   *)
(* written, and unmapped with one reference more, which is then taken back *)
(* so that the frame is neither free nor referenced.                       *)
(***************************************************************************)
window_unprotected(m, e, f) == unmap_frame(map_frame(m, e, f, WINDOW, TRUE), e, WINDOW)

window(m, e, f) ==
  LET mapped == map_frame(m, e, f, WINDOW, TRUE)
      kept == unmap_frame([mapped EXCEPT !.references[f] = @ + 1], e, WINDOW)
  IN [kept EXCEPT !.references[f] = @ - 1]

(***************************************************************************)
(* __sys_allocate_page(): the frame is taken before the address and the    *)
(* permissions are checked.                                                *)
(***************************************************************************)
__sys_allocate_page(e, va, writable, aligned, user) ==
  LET f == allocated_frame(memory)
      taken == allocate_frame(memory)
      cleared == window(taken, e, f)
  IN CASE memory.free = <<>> -> panicked(e, memory, {})
       [] memory.free # <<>> /\ (va >= USER_TOP_PAGE \/ ~aligned \/ ~user) ->
            /\ memory' = taken
            /\ lost' = lost \cup {f}
            /\ UNCHANGED <<contents, ended, last>>
       [] OTHER ->
            IF ~can_map(taken, e, WINDOW) THEN panicked(e, taken, {f})
            ELSE IF ~can_map(cleared, e, va) THEN panicked(e, cleared, {f})
            ELSE /\ memory' = map_frame(cleared, e, f, va, writable)
                 /\ contents' = [contents EXCEPT ![f] = "zero"]
                 /\ last' = [dir |-> e, va |-> va]
                 /\ UNCHANGED <<ended, lost>>

sys_allocate_page(e) ==
  /\ e \notin ended
  /\ \E va \in UserPageNos, writable, aligned, user \in BOOLEAN :
       __sys_allocate_page(e, va, writable, aligned, user)

(***************************************************************************)
(* The commands ap (in the kernel's directory) and aup map a frame without *)
(* clearing it; fp unmaps a page of the kernel's directory.                *)
(***************************************************************************)
maps_new_frame(d, va, writable) ==
  LET f == allocated_frame(memory)
      taken == allocate_frame(memory)
  IN IF memory.free = <<>> THEN panicked(KernelDir, memory, {})
     ELSE IF ~can_map(taken, d, va) THEN panicked(KernelDir, taken, {f})
     ELSE /\ memory' = map_frame(taken, d, f, va, writable)
          /\ last' = NoEntry
          /\ UNCHANGED <<contents, ended, lost>>

command_ap == \E va \in UserPageNos : maps_new_frame(KernelDir, va, TRUE)
command_allocuserpage ==
  \E e \in PageEnvs, va \in UserPageNos, rw \in BOOLEAN : maps_new_frame(e, va, rw)

command_fp ==
  /\ \E va \in UserPageNos : memory' = unmap_frame(memory, KernelDir, va)
  /\ last' = NoEntry
  /\ UNCHANGED <<contents, ended, lost>>

(***************************************************************************)
(* sys_clearFFL() takes every free frame, to test what happens without.    *)
(***************************************************************************)
sys_clearFFL ==
  /\ memory' = [memory EXCEPT !.free = <<>>]
  /\ lost' = lost \cup ToSet(memory.free)
  /\ last' = NoEntry
  /\ UNCHANGED <<contents, ended>>

(***************************************************************************)
(* A program writes to a page that it may write.                           *)
(***************************************************************************)
program_writes(e) ==
  /\ e \notin ended
  /\ \E va \in UserPageNos :
       /\ memory.entries[e][va].writable
       /\ contents' = [contents EXCEPT ![memory.entries[e][va].frame] = "dirty"]
  /\ last' = NoEntry
  /\ UNCHANGED <<memory, ended, lost>>

UserPagesNext ==
  /\ pageCalls < MaxPageCalls
  /\ pageCalls' = pageCalls + 1
  /\ \/ \E e \in PageEnvs : sys_allocate_page(e) \/ program_writes(e)
     \/ command_ap \/ command_fp \/ command_allocuserpage \/ sys_clearFFL
-----------------------------------------------------------------------------
MappedAt(f) == {p \in Directories \X AllPages : memory.entries[p[1]][p[2]].frame = f}

(***************************************************************************)
(* The references of a frame are the entries that map it, and one for a    *)
(* frame that is a page table: also after map_frame() replaced a page, and *)
(* after the detour through the window.                                    *)
(***************************************************************************)
ReferencesExact ==
  \A f \in 1 .. PageFrames :
    memory.references[f] = Cardinality(MappedAt(f))
                           + Cardinality({t \in memory.tables : t.frame = f})

(***************************************************************************)
(* No frame is free twice or free and in use, and none disappears but the  *)
(* ones that a failed call or sys_clearFFL() took.                         *)
(***************************************************************************)
FramesTakenOnce ==
  /\ IsInjective(memory.free)
  /\ \A f \in 1 .. PageFrames :
       /\ f \in ToSet(memory.free) => memory.references[f] = 0 /\ f \notin lost
       /\ f \notin ToSet(memory.free) /\ f \notin lost => memory.references[f] > 0

(***************************************************************************)
(* sys_allocate_page() hands out a page of zeroes, mapped only where it    *)
(* was asked for: nothing stays in the window.                             *)
(***************************************************************************)
NewPageIsPrivateAndZero ==
  last # NoEntry =>
    LET f == memory.entries[last.dir][last.va].frame
    IN f # 0 /\ contents[f] = "zero" /\ MappedAt(f) = {<<last.dir, last.va>>}

(***************************************************************************)
(* Frames and their references are right after every sequence of system    *)
(* calls that allocate, map and unmap pages: no frame is freed while a     *)
(* page shows it, none stays behind but those that a failed call took, and *)
(* a new page is nobody else's.                                            *)
(***************************************************************************)
PageFramesAccounted == ReferencesExact /\ FramesTakenOnce /\ NewPageIsPrivateAndZero
=============================================================================
