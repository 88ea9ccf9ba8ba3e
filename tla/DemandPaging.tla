---------------------------- MODULE DemandPaging ----------------------------
(***************************************************************************)
(* Demand paging: fault_handler() of kern/trap/trap.c, placement and CLOCK *)
(* replacement of kern/trap/fault_handler.c, the working set of            *)
(* kern/mem/working_set_manager.c, the page file of                        *)
(* kern/disk/pagefile_manager.c and free_user_mem() of                     *)
(* kern/mem/chunk_operations.c.  A fault or a system call is one step: the *)
(* kernel is not preemptible; any environment may be the next to run.      *)
(*                                                                         *)
(* An address is the number of its page: programs touch one word of a      *)
(* page.  Frames and disk frames are counted; their contents are kept in   *)
(* the entry that points to them.  The memory for the tables of the page   *)
(* file is not counted.                                                    *)
(***************************************************************************)
EXTENDS Integers, FiniteSets, FiniteSetsExt, Sequences, SequencesExt

CONSTANTS Env,
          ProgramPages, HeapPages, StackPages,  \* the pages a program may touch
          MaxPage,          \* the largest page number
          NPTENTRIES,       \* entries of a page table (1024)
          page_WS_max_size,
          Frames,           \* frames of memory
          DiskFrames,       \* frames of the page file
          Value,            \* contents of a page
          ZERO,             \* what the loader wrote
          NONE,             \* no page, no entry
          MaxRepeats        \* bound on num_repeated_fault (an int8)

Page == 0 .. MaxPage

Entry == [data : Value, used : BOOLEAN, modified : BOOLEAN]

ASSUME PagingAssumption ==
  /\ ProgramPages \cup HeapPages \cup StackPages \subseteq Page
  /\ ProgramPages \cap (HeapPages \cup StackPages) = {}
  /\ HeapPages \cap StackPages = {}
  /\ \A p, q \in HeapPages : p .. q \subseteq HeapPages
  /\ IsFiniteSet(Env) /\ StackPages # {} /\ MaxPage \in Nat
  /\ NPTENTRIES \in Nat \ {0} /\ page_WS_max_size \in Nat \ {0}
  /\ Frames \in Nat /\ DiskFrames \in Nat /\ MaxRepeats \in Nat
  /\ ZERO \in Value /\ NONE \notin Value /\ NONE \notin Page /\ NONE \notin Entry

Slot == 0 .. page_WS_max_size - 1

PDX(p) == p \div NPTENTRIES

(***************************************************************************)
(* The fields of struct Env that paging uses: the working set and its      *)
(* hand, the page tables that exist, their entries, and the page file.     *)
(***************************************************************************)
EnvPaging == [ws : [Slot -> Page \cup {NONE}],
              page_last_WS_index : Slot,
              tables : SUBSET {PDX(p) : p \in Page},
              page_table : [Page -> Entry \cup {NONE}],
              page_file : [Page -> Value \cup {NONE}]]

Outcome == {"running", "exited", "illegal access", "no memory",
            "page file full", "repeated fault"}

VARIABLES
  envs,
  outcome,              \* running, or why the environment ended
  access,               \* the page whose fault was handled, until it is touched
  free_frames,          \* length of free_frame_list
  disk_free_frames,     \* length of disk_free_frame_list
  last_fault_va, num_repeated_fault    \* of trap.c

vars == <<envs, outcome, access, free_frames, disk_free_frames, last_fault_va,
          num_repeated_fault>>

TypeOK ==
  /\ envs \in [Env -> EnvPaging]
  /\ outcome \in [Env -> Outcome]
  /\ access \in [Env -> Page \cup {NONE}]
  /\ free_frames \in 0 .. Frames
  /\ disk_free_frames \in 0 .. DiskFrames
  /\ last_fault_va \in Page
  /\ num_repeated_fault \in 0 .. MaxRepeats

(***************************************************************************)
(* Pages in memory, pages in the page file, and the entries in use.        *)
(***************************************************************************)
Mapped(env) == {p \in Page : env.page_table[p] # NONE}
Saved(env) == {p \in Page : env.page_file[p] # NONE}
Used(env) == {i \in Slot : env.ws[i] # NONE}

(***************************************************************************)
(* env_create() loaded every environment: the first pages of the program   *)
(* and the top page of the stack are in the working set, the whole program *)
(* and the stack page are in the page file.  The copy left the program's   *)
(* pages used and not modified, and memset() the stack page modified.  The *)
(* program's pages take the entries in ascending order, the stack page the *)
(* entry after them.                                                       *)
(***************************************************************************)
TopOfStack == Max(StackPages)

Before(p) == Cardinality({q \in ProgramPages : q < p})

LoadedProgramPages ==     \* one is reserved for the stack; the cap of 6 is left out
  {p \in ProgramPages : Before(p) < page_WS_max_size - 1}

SlotOf(p) == IF p = TopOfStack THEN Cardinality(LoadedProgramPages) ELSE Before(p)

Loaded ==
  LET resident == LoadedProgramPages \cup {TopOfStack}
      at(i) == {p \in resident : SlotOf(p) = i}
  IN [ws |-> [i \in Slot |-> IF at(i) = {} THEN NONE ELSE CHOOSE p \in at(i) : TRUE],
      page_last_WS_index |-> Cardinality(resident) % page_WS_max_size,
      tables |-> {PDX(p) : p \in resident},
      page_table |-> [p \in Page |->
        IF p \in resident
        THEN [data |-> ZERO, used |-> TRUE, modified |-> p = TopOfStack] ELSE NONE],
      page_file |-> [p \in Page |-> IF p \in ProgramPages \cup {TopOfStack}
                                    THEN ZERO ELSE NONE]]

Init ==
  /\ envs = [e \in Env |-> Loaded]
  /\ outcome = [e \in Env |-> "running"]
  /\ access = [e \in Env |-> NONE]
  /\ free_frames = Frames - Cardinality(Env) *
                     (Cardinality(Mapped(Loaded)) + Cardinality(Loaded.tables))
  /\ disk_free_frames = DiskFrames - Cardinality(Env) * Cardinality(Saved(Loaded))
  /\ last_fault_va = 0
  /\ num_repeated_fault = 0

(***************************************************************************)
(* panic() in a trap of the environment: it exits.  env_free() is never    *)
(* reached, so that its memory stays as it is.                             *)
(***************************************************************************)
panic(e, why) == outcome' = [outcome EXCEPT ![e] = why]
-----------------------------------------------------------------------------
(***************************************************************************)
(* A sweep of the clock hand, page_fault_handler() lines 155 to 233: from  *)
(* page_last_WS_index around the working set to the first entry whose page *)
(* is not used, or around once to the entry it started from.  The used     *)
(* bits of the entries it passes are cleared.                              *)
(***************************************************************************)
SlotAfter(env, k) == (env.page_last_WS_index + k) % page_WS_max_size

is_used(env, i) == env.page_table[env.ws[i]].used

Unused(env) == {k \in Slot : ~is_used(env, SlotAfter(env, k))}

victim_at_hand(env) == env.page_last_WS_index
victim(env) == SlotAfter(env, IF Unused(env) = {} THEN 0 ELSE Min(Unused(env)))

Passed(env) ==
  {env.ws[SlotAfter(env, k)] : k \in IF Unused(env) = {} THEN Slot
                                     ELSE 0 .. Min(Unused(env)) - 1}

unused_entry(env, p) == IF p \in Passed(env)
                        THEN [env.page_table[p] EXCEPT !.used = FALSE]
                        ELSE env.page_table[p]

clear_used(env) ==
  [env EXCEPT !.page_table = [p \in Page |-> unused_entry(env, p)]]

(***************************************************************************)
(* After the sweep the victim is written to the page file if it is         *)
(* modified (a page of the heap or the stack that is not there yet takes a *)
(* disk frame), its entry is cleared and it is unmapped.                   *)
(***************************************************************************)
NeedsDiskFrame(env, p) == env.page_table[p].modified /\ env.page_file[p] = NONE

pf_update_new_only(env, p) ==
  IF NeedsDiskFrame(env, p) THEN env.page_table[p].data ELSE env.page_file[p]

pf_update_env_page(env, p) ==
  IF env.page_table[p].modified THEN env.page_table[p].data ELSE env.page_file[p]

evict(env) ==
  LET i == victim(env)
      p == env.ws[i]
  IN [env EXCEPT !.ws[i] = NONE,
                 !.page_last_WS_index = i,
                 !.page_table = [q \in Page |-> IF q = p THEN NONE
                                                ELSE unused_entry(env, q)],
                 !.page_file[p] = pf_update_env_page(env, p)]

(***************************************************************************)
(* env_page_ws_set_entry() of the hand's entry, whether or not it is       *)
(* empty, and the hand moves on.                                           *)
(***************************************************************************)
set_entry(env, p, entry) ==
  [env EXCEPT !.ws[env.page_last_WS_index] = p,
              !.page_last_WS_index = IF @ + 1 = page_WS_max_size THEN 0 ELSE @ + 1,
              !.page_table[p] = entry]

(***************************************************************************)
(* The entry of a new page of the heap or the stack: map_frame() with      *)
(* PERM_MODIFIED.                                                          *)
(***************************************************************************)
new_page(data) == [data |-> data, used |-> FALSE, modified |-> TRUE]

(***************************************************************************)
(* placment(), entered with the given paging state and free frames: the    *)
(* page is read from the page file, which leaves it used (the kernel wrote *)
(* it) and not modified; a new page of the heap or the stack keeps what    *)
(* the frame contains and is marked as modified; any other is illegal.     *)
(***************************************************************************)
placement(e, p, env, frames) ==
  \/ /\ frames = 0
     /\ panic(e, "no memory")
     /\ envs' = [envs EXCEPT ![e] = env]
     /\ free_frames' = frames
  \/ /\ frames > 0
     /\ env.page_file[p] # NONE
     /\ envs' = [envs EXCEPT ![e] = set_entry(env, p,
          [data |-> env.page_file[p], used |-> TRUE, modified |-> FALSE])]
     /\ free_frames' = frames - 1
     /\ UNCHANGED outcome
  \/ /\ frames > 0
     /\ env.page_file[p] = NONE
     /\ p \in HeapPages \cup StackPages
     /\ \E garbage \in Value :
          envs' = [envs EXCEPT ![e] = set_entry(env, p, new_page(garbage))]
     /\ free_frames' = frames - 1
     /\ UNCHANGED outcome
  \/ /\ frames > 0
     /\ env.page_file[p] = NONE
     /\ p \notin HeapPages \cup StackPages
     /\ panic(e, "illegal access")
     /\ envs' = [envs EXCEPT ![e] = env]
     /\ free_frames' = frames

(***************************************************************************)
(* page_fault_handler(): placement while the working set has room, and     *)
(* replacement of the victim otherwise.                                    *)
(***************************************************************************)
page_fault_handler(e, p) ==
  LET env == envs[e]
      needs == NeedsDiskFrame(env, env.ws[victim(env)])
  IN \/ /\ Cardinality(Used(env)) < page_WS_max_size
        /\ placement(e, p, env, free_frames)
        /\ UNCHANGED disk_free_frames
     \/ /\ Cardinality(Used(env)) = page_WS_max_size
        /\ needs /\ disk_free_frames = 0
        /\ panic(e, "page file full")
        /\ envs' = [envs EXCEPT ![e] = clear_used(env)]
        /\ UNCHANGED <<free_frames, disk_free_frames>>
     \/ /\ Cardinality(Used(env)) = page_WS_max_size
        /\ needs => disk_free_frames > 0
        /\ placement(e, p, evict(env), free_frames + 1)
        /\ disk_free_frames' = IF needs THEN disk_free_frames - 1 ELSE disk_free_frames

(***************************************************************************)
(* table_fault_handler(): create_page_table(), in a page of the kernel     *)
(* heap.                                                                   *)
(***************************************************************************)
table_fault_handler(e, p) ==
  /\ \/ /\ free_frames = 0
        /\ panic(e, "no memory")
        /\ UNCHANGED <<envs, free_frames>>
     \/ /\ free_frames > 0
        /\ envs' = [envs EXCEPT ![e].tables = @ \cup {PDX(p)}]
        /\ free_frames' = free_frames - 1
        /\ UNCHANGED outcome
  /\ UNCHANGED disk_free_frames

(***************************************************************************)
(* The instruction of a running environment touches a page.  An            *)
(* instruction that faulted is executed again when the fault is handled.   *)
(***************************************************************************)
Touches(e, p) == outcome[e] = "running" /\ access[e] \in {NONE, p}

(***************************************************************************)
(* fault_handler(): a running environment touches a page that is not       *)
(* mapped.  The third repetition of a fault at the same address, whichever *)
(* environment made the others, panics, and so does an address above the   *)
(* stack.                                                                  *)
(***************************************************************************)
repeats(p) == IF last_fault_va = p THEN num_repeated_fault + 1 ELSE 0

fault_handler(e, p) ==
  /\ Touches(e, p)
  /\ p \notin Mapped(envs[e])
  /\ repeats(p) <= MaxRepeats
  /\ num_repeated_fault' = repeats(p)
  /\ last_fault_va' = p
  /\ access' = [access EXCEPT ![e] = p]
  /\ \/ /\ repeats(p) = 3
        /\ panic(e, "repeated fault")
        /\ UNCHANGED <<envs, free_frames, disk_free_frames>>
     \/ /\ repeats(p) # 3 /\ p > TopOfStack
        /\ panic(e, "illegal access")
        /\ UNCHANGED <<envs, free_frames, disk_free_frames>>
     \/ /\ repeats(p) # 3 /\ p <= TopOfStack
        /\ PDX(p) \notin envs[e].tables
        /\ table_fault_handler(e, p)
     \/ /\ repeats(p) # 3 /\ p <= TopOfStack
        /\ PDX(p) \in envs[e].tables
        /\ page_fault_handler(e, p)

(***************************************************************************)
(* The processor reads or writes a page that is mapped.                    *)
(***************************************************************************)
read(e, p) ==
  /\ Touches(e, p)
  /\ p \in Mapped(envs[e])
  /\ envs' = [envs EXCEPT ![e].page_table[p].used = TRUE]
  /\ access' = [access EXCEPT ![e] = NONE]
  /\ UNCHANGED <<outcome, free_frames, disk_free_frames, last_fault_va,
                 num_repeated_fault>>

write(e, p, v) ==
  /\ Touches(e, p)
  /\ p \in Mapped(envs[e])
  /\ envs' = [envs EXCEPT ![e].page_table[p] =
                [data |-> v, used |-> TRUE, modified |-> TRUE]]
  /\ access' = [access EXCEPT ![e] = NONE]
  /\ UNCHANGED <<outcome, free_frames, disk_free_frames, last_fault_va,
                 num_repeated_fault>>

(***************************************************************************)
(* sys_free_user_mem() -> free_user_mem() of a block of the heap: the      *)
(* pages with an entry in the working set are unmapped and the hand is set *)
(* to the last such entry, all pages of the block leave the page file, and *)
(* the tables of the block that have become empty are freed.               *)
(***************************************************************************)
hand_after_free(env, slots) ==
  IF slots = {} THEN env.page_last_WS_index ELSE Max(slots)

clear_last_entry(env, slots) ==
  [i \in Slot |-> IF i \in slots /\ i = Max(slots) THEN NONE ELSE env.ws[i]]
clear_entries(env, slots) ==
  [i \in Slot |-> IF i \in slots THEN NONE ELSE env.ws[i]]

free_disk_frames_unchecked(env, block) == Cardinality(block)
free_disk_frames(env, block) == Cardinality(block \cap Saved(env))

free_user_mem(e, block) ==
  LET env == envs[e]
      slots == {i \in Used(env) : env.ws[i] \in block}
      unmapped == {env.ws[i] : i \in slots}
      kept == {PDX(p) : p \in Mapped(env) \ unmapped}
      emptied == (env.tables \cap {PDX(p) : p \in block}) \ kept
  IN /\ outcome[e] = "running" /\ access[e] = NONE
     /\ envs' = [envs EXCEPT ![e] =
          [ws |-> clear_entries(env, slots),
           page_last_WS_index |-> hand_after_free(env, slots),
           tables |-> env.tables \ emptied,
           page_table |-> [p \in Page |-> IF p \in unmapped THEN NONE
                                          ELSE env.page_table[p]],
           page_file |-> [p \in Page |-> IF p \in block THEN NONE
                                         ELSE env.page_file[p]]]]
     /\ free_frames' = free_frames + Cardinality(slots) + Cardinality(emptied)
     /\ disk_free_frames' = disk_free_frames + free_disk_frames(env, block)
     /\ UNCHANGED <<outcome, access, last_fault_va, num_repeated_fault>>

Block == {sva .. eva : sva, eva \in HeapPages} \ {{}}

env_exit(e) ==
  /\ outcome[e] = "running" /\ access[e] = NONE
  /\ outcome' = [outcome EXCEPT ![e] = "exited"]
  /\ UNCHANGED <<envs, access, free_frames, disk_free_frames, last_fault_va,
                 num_repeated_fault>>

Next ==
  \E e \in Env :
    \/ \E p \in Page : fault_handler(e, p) \/ read(e, p)
    \/ \E p \in Page, v \in Value : write(e, p, v)
    \/ \E block \in Block : free_user_mem(e, block)
    \/ env_exit(e)

Spec == Init /\ [][Next]_vars
-----------------------------------------------------------------------------
(***************************************************************************)
(* Where the contents of a page are.                                       *)
(***************************************************************************)
Contents(env, p) == IF env.page_table[p] # NONE THEN env.page_table[p].data
                    ELSE env.page_file[p]

Memory == INSTANCE AddressSpace
  WITH Process <- Env, Address <- Page, Releasable <- HeapPages,
       UNDEFINED <- NONE, pending <- access,
       mem <- [e \in Env |-> [p \in Page |-> Contents(envs[e], p)]]

(***************************************************************************)
(* Faults, the clock, the page file and panics half way are invisible to a *)
(* program: what it wrote to a page is there whenever it looks, until it   *)
(* frees the page, no fault changes it, and an access that faulted is the  *)
(* next to take effect.                                                    *)
(***************************************************************************)
ImplementsAddressSpace == Memory!Spec

(***************************************************************************)
(* Every entry of the working set is a page in memory, and no page has two *)
(* entries: replacement never unmaps a page that is not there, and a page  *)
(* that was unmapped leaves no entry behind.                               *)
(***************************************************************************)
WorkingSetIsMapped ==
  \A e \in Env :
    LET env == envs[e]
    IN /\ \A i \in Used(env) : env.ws[i] \in Mapped(env)
       /\ \A i, j \in Used(env) : env.ws[i] = env.ws[j] => i = j
       /\ \A p \in Mapped(env) : PDX(p) \in env.tables

(***************************************************************************)
(* No frame of memory or of the page file is lost or counted twice, on any *)
(* path out of a fault, a panic included.                                  *)
(***************************************************************************)
NothingLeaks ==
  LET mapped == {x \in Env \X Page : x[2] \in Mapped(envs[x[1]])}
      tables == UNION {{e} \X envs[e].tables : e \in Env}
      saved == {x \in Env \X Page : x[2] \in Saved(envs[x[1]])}
  IN /\ free_frames + Cardinality(mapped) + Cardinality(tables) = Frames
     /\ disk_free_frames + Cardinality(saved) = DiskFrames

(***************************************************************************)
(* The second chance of CLOCK: a page that was used since the hand passed  *)
(* it is replaced only when every page of the working set was.             *)
(***************************************************************************)
UsedPagesStay ==
  [][\A e \in Env : \A p \in Mapped(envs[e]) \ Mapped(envs'[e]) :
       envs[e].page_table[p].used /\ envs'[e].page_file[p] # NONE
         => \A i \in Slot : is_used(envs[e], i)]_vars
-----------------------------------------------------------------------------
(***************************************************************************)
(* free() releases the pages of the block from main memory.                *)
(***************************************************************************)
FreeReleasesPages ==
  [][\A e \in Env, block \in Block :
       free_user_mem(e, block) => block \cap Mapped(envs'[e]) = {}]_vars

(***************************************************************************)
(* Only a fault that was not handled ends an environment.  An access has   *)
(* at most two faults, for the table and for the page, so that the third   *)
(* repetition of one is never reached.                                     *)
(***************************************************************************)
HandledFaultsDoNotKill == \A e \in Env : outcome[e] # "repeated fault"
=============================================================================
