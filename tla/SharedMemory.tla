---------------------------- MODULE SharedMemory ----------------------------
(***************************************************************************)
(* The user heap of lib/uheap.c (malloc, free, smalloc, sget) on top of    *)
(* the shared objects of kern/mem/shared_memory_manager.c.                 *)
(*                                                                         *)
(* Heap addresses and sizes are counted in pages from USER_HEAP_START.  A  *)
(* program's own memory is private, so that a call of the heap is one step *)
(* up to its last system call; sget() has two that change what it sees,    *)
(* and others may run between them.  The pages of malloc() are placed on   *)
(* demand (module DemandPaging) and are not mapped here.  The pages of a   *)
(* shared object are mapped at once; they are never unmapped, for          *)
(* freeSharedObject(), sfree() and env_free() panic.  Frames are numbered  *)
(* in the order in which they are allocated.                               *)
(***************************************************************************)
EXTENDS DynamicAllocator, FiniteSets

CONSTANTS Env, Name,
          Size,          \* sizes that programs ask for, in pages
          HeapSize,      \* pages of the user heap
          MAX_SHARES,
          Frames,        \* frames of memory
          NONE

HeapPage == 0 .. HeapSize - 1
Frame == 0 .. Frames - 1
ID == 0 .. MAX_SHARES - 1

Share == [ownerID : Env \cup {NONE}, name : Name \cup {NONE}, size : 0 .. HeapSize,
          isWritable : BOOLEAN, references : Nat, frames : Seq(Frame)]
Mapping == [frame : Frame, writable : BOOLEAN]
Object == [va : HeapPage, id : ID]
Request == [ownerID : Env, name : Name, size : 1 .. HeapSize]

ASSUME SharedMemoryAssumption ==
  /\ Size \subseteq Nat \ {0}
  /\ HeapSize \in Nat \ {0} /\ MAX_SHARES \in Nat /\ Frames \in Nat
  /\ IsFiniteSet(Env)
  /\ NONE \notin Env /\ NONE \notin Share /\ NONE \notin Mapping /\ NONE \notin Request

VARIABLES
  FreeMemBlocksList, AllocMemBlocksList,   \* the heap of every environment
  shares,           \* shares[], NONE where empty is 1
  page_table,       \* the frame and the permission of every page of the heap
  allocated,        \* frames that have been allocated
  references,       \* references of every frame
  objects,          \* what smalloc() and sget() returned to the program
  request,          \* the object whose size sget() has asked for
  outcome

heaps == <<FreeMemBlocksList, AllocMemBlocksList>>
memory == <<page_table, allocated, references>>
vars == <<heaps, shares, memory, objects, request, outcome>>

TypeOK ==
  /\ \A e \in Env : \A list \in {FreeMemBlocksList[e], AllocMemBlocksList[e]} :
       PagesOf(list) \subseteq HeapPage
  /\ shares \in [ID -> Share \cup {NONE}]
  /\ page_table \in [Env -> [HeapPage -> Mapping \cup {NONE}]]
  /\ allocated \in 0 .. Frames
  /\ references \in [Frame -> Nat]
  /\ \A e \in Env : objects[e] \subseteq Object
  /\ request \in [Env -> Request \cup {NONE}]
  /\ outcome \in [Env -> {"running", "exited"}]

(***************************************************************************)
(* initialize_dyn_block_system() of the user heap of every environment,    *)
(* and create_shares_array().                                              *)
(***************************************************************************)
initialize_heaps ==
  /\ FreeMemBlocksList = [e \in Env |-> <<[sva |-> 0, size |-> HeapSize]>>]
  /\ AllocMemBlocksList = [e \in Env |-> <<>>]

Init ==
  /\ initialize_heaps
  /\ shares = [i \in ID |-> NONE]
  /\ page_table = [e \in Env |-> [va \in HeapPage |-> NONE]]
  /\ allocated = 0
  /\ references = [f \in Frame |-> 0]
  /\ objects = [e \in Env |-> {}]
  /\ request = [e \in Env |-> NONE]
  /\ outcome = [e \in Env |-> "running"]
-----------------------------------------------------------------------------
Running(e) == outcome[e] = "running" /\ request[e] = NONE

panic(e) == outcome' = [outcome EXCEPT ![e] = "exited"]

(***************************************************************************)
(* alloc_block_FF() on the environment's free list.                        *)
(***************************************************************************)
HasRoom(e, size) == Fits(FreeMemBlocksList[e], size) # {}

FirstFit(e, size) ==
  LET list == FreeMemBlocksList[e] IN taken(list, FF(list, size), size)

alloc_block_FF(e, size) ==
  LET list == FreeMemBlocksList[e]
  IN FreeMemBlocksList' = [FreeMemBlocksList EXCEPT ![e] =
                             take_block(list, FF(list, size), size)]

malloc(e, size) ==
  /\ Running(e)
  /\ HasRoom(e, size)
  /\ alloc_block_FF(e, size)
  /\ AllocMemBlocksList' = [AllocMemBlocksList EXCEPT ![e] =
       insert_sorted_allocList(@, FirstFit(e, size))]
  /\ UNCHANGED <<shares, memory, objects, request, outcome>>

(***************************************************************************)
(* free() of a pointer that malloc() returned.                             *)
(***************************************************************************)
free(e, va) ==
  LET list == AllocMemBlocksList[e]
      found == find_block(list, va)
  IN /\ Running(e)
     /\ found # {}
     /\ AllocMemBlocksList' = [AllocMemBlocksList EXCEPT ![e] = RemoveAt(@, Min(found))]
     /\ FreeMemBlocksList' = [FreeMemBlocksList EXCEPT ![e] =
          insert_sorted_with_merge_freeList(@, list[Min(found)])]
     /\ UNCHANGED <<shares, memory, objects, request, outcome>>

(***************************************************************************)
(* free() of a pointer that smalloc() or sget() returned: the block is in  *)
(* no list, find_block() returns NULL, and reading its size ends the       *)
(* program with an illegal access.                                         *)
(***************************************************************************)
free_shared(e, va) ==
  /\ Running(e)
  /\ \E o \in objects[e] : o.va = va
  /\ find_block(AllocMemBlocksList[e], va) = {}
  /\ panic(e)
  /\ UNCHANGED <<heaps, shares, memory, objects, request>>
-----------------------------------------------------------------------------
(***************************************************************************)
(* get_share_object_ID(): the objects of the owner with the name.          *)
(***************************************************************************)
get_share_object_ID(ownerID, name) ==
  {i \in ID : shares[i] # NONE /\ shares[i].ownerID = ownerID /\ shares[i].name = name}

Exists(ownerID, name) == get_share_object_ID(ownerID, name) # {}

(***************************************************************************)
(* The slots that allocate_share_object() finds empty.                     *)
(***************************************************************************)
EmptyShares == {i \in ID : shares[i] = NONE}

(***************************************************************************)
(* map_frame() of a sequence of frames at consecutive addresses.           *)
(***************************************************************************)
mapped_at(table, va, frames, writable) ==
  [p \in HeapPage |-> IF p - va \in 0 .. Len(frames) - 1
                      THEN [frame |-> frames[p - va + 1], writable |-> writable]
                      ELSE table[p]]

count_references_once(frames) ==
  [f \in Frame |-> IF f \in ToSet(frames) THEN 1 ELSE references[f]]
count_references(frames) ==
  [f \in Frame |-> IF f \in ToSet(frames) THEN references[f] + 1 ELSE references[f]]

map_frames(e, va, frames, writable) ==
  /\ page_table' = [page_table EXCEPT ![e] = mapped_at(@, va, frames, writable)]
  /\ references' = count_references(frames)

allocate_frames(n) == [k \in 1 .. n |-> allocated + k - 1]

(***************************************************************************)
(* smalloc() takes a block of the heap first.  createSharedObject() maps   *)
(* new frames there, for the owner always writable ...                     *)
(***************************************************************************)
smalloc(e, name, size, isWritable) ==
  LET va == FirstFit(e, size).sva
      frames == allocate_frames(size)
      id == Min(EmptyShares)
  IN /\ Running(e)
     /\ HasRoom(e, size)
     /\ alloc_block_FF(e, size)
     /\ ~Exists(e, name) /\ EmptyShares # {}
     /\ allocated + size <= Frames
     /\ map_frames(e, va, frames, TRUE)
     /\ allocated' = allocated + size
     /\ shares' = [shares EXCEPT ![id] =
          [ownerID |-> e, name |-> name, size |-> size, isWritable |-> isWritable,
           references |-> 1, frames |-> frames]]
     /\ objects' = [objects EXCEPT ![e] = @ \cup {[va |-> va, id |-> id]}]
     /\ UNCHANGED <<AllocMemBlocksList, request, outcome>>

(***************************************************************************)
(* ... or returns E_SHARED_MEM_EXISTS or E_NO_SHARE; the block is not      *)
(* given back ...                                                          *)
(***************************************************************************)
smalloc_fails(e, name, size) ==
  /\ Running(e)
  /\ HasRoom(e, size)
  /\ alloc_block_FF(e, size)
  /\ Exists(e, name) \/ EmptyShares = {}
  /\ UNCHANGED <<AllocMemBlocksList, shares, memory, objects, request, outcome>>

(***************************************************************************)
(* ... or memory runs out after n pages, for a page of the object or for   *)
(* one of the kernel's tables: the last frame may be lost before it is     *)
(* mapped, or the first one mapped and not stored.  The slot is taken and  *)
(* has no name yet.                                                        *)
(***************************************************************************)
smalloc_panics(e, name, size) ==
  /\ Running(e)
  /\ HasRoom(e, size)
  /\ alloc_block_FF(e, size)
  /\ ~Exists(e, name) /\ EmptyShares # {}
  /\ \E n \in 0 .. size, lost \in {0, 1} :
       /\ n + lost <= size /\ allocated + n + lost <= Frames
       /\ map_frames(e, FirstFit(e, size).sva, allocate_frames(n), TRUE)
       /\ allocated' = allocated + n + lost
       /\ \E stored \in IF n = 1 /\ lost = 0 THEN {0, 1} ELSE {n} :
            shares' = [shares EXCEPT ![Min(EmptyShares)] =
              [ownerID |-> NONE, name |-> NONE, size |-> 0, isWritable |-> FALSE,
               references |-> 0, frames |-> allocate_frames(stored)]]
  /\ panic(e)
  /\ UNCHANGED <<AllocMemBlocksList, objects, request>>

(***************************************************************************)
(* sget(): getSizeOfSharedObject() of an object that exists.  The size of  *)
(* one that does not is E_SHARED_MEM_NOT_EXISTS, which as an unsigned size *)
(* fits nowhere: NULL is returned.                                         *)
(***************************************************************************)
sget_size(e, ownerID, name) ==
  /\ Running(e)
  /\ Exists(ownerID, name)
  /\ request' = [request EXCEPT ![e] =
       [ownerID |-> ownerID, name |-> name,
        size |-> shares[Min(get_share_object_ID(ownerID, name))].size]]
  /\ UNCHANGED <<heaps, shares, memory, objects, outcome>>

(***************************************************************************)
(* getSharedObject(): the frames of the object are mapped at the address   *)
(* of a block of the size that was asked for.  The object is still there,  *)
(* for objects are never deleted.                                          *)
(***************************************************************************)
permission(share) == share.isWritable

frames_from_storage_first(share) == [k \in 1 .. share.size |-> share.frames[1]]
frames_from_storage(share) == SubSeq(share.frames, 1, share.size)

sget(e) ==
  LET r == request[e]
      id == Min(get_share_object_ID(r.ownerID, r.name))
      va == FirstFit(e, r.size).sva
  IN /\ outcome[e] = "running" /\ r # NONE
     /\ HasRoom(e, r.size)
     /\ alloc_block_FF(e, r.size)
     /\ map_frames(e, va, frames_from_storage(shares[id]), permission(shares[id]))
     /\ shares' = [shares EXCEPT ![id].references = @ + 1]
     /\ objects' = [objects EXCEPT ![e] = @ \cup {[va |-> va, id |-> id]}]
     /\ request' = [request EXCEPT ![e] = NONE]
     /\ UNCHANGED <<AllocMemBlocksList, allocated, outcome>>

sget_no_room(e) ==
  /\ outcome[e] = "running" /\ request[e] # NONE
  /\ ~HasRoom(e, request[e].size)
  /\ request' = [request EXCEPT ![e] = NONE]
  /\ UNCHANGED <<heaps, shares, memory, objects, outcome>>

(***************************************************************************)
(* fault_handler(): a write to a page without the permission ends the      *)
(* program.                                                                *)
(***************************************************************************)
write_read_only(e, va) ==
  /\ Running(e)
  /\ page_table[e][va] # NONE
  /\ ~page_table[e][va].writable
  /\ panic(e)
  /\ UNCHANGED <<heaps, shares, memory, objects, request>>

(***************************************************************************)
(* The program exits, or another one kills it, between two calls or in the *)
(* middle of sget().                                                       *)
(***************************************************************************)
env_exit(e) ==
  /\ outcome[e] = "running"
  /\ outcome' = [outcome EXCEPT ![e] = "exited"]
  /\ UNCHANGED <<heaps, shares, memory, objects, request>>

Next ==
  \E e \in Env :
    \/ \E size \in Size : malloc(e, size)
    \/ \E va \in HeapPage : free(e, va) \/ free_shared(e, va) \/ write_read_only(e, va)
    \/ \E name \in Name, size \in Size :
         \/ \E isWritable \in BOOLEAN : smalloc(e, name, size, isWritable)
         \/ smalloc_fails(e, name, size)
         \/ smalloc_panics(e, name, size)
    \/ \E ownerID \in Env, name \in Name : sget_size(e, ownerID, name)
    \/ sget(e) \/ sget_no_room(e)
    \/ env_exit(e)

Spec == Init /\ [][Next]_vars
-----------------------------------------------------------------------------
PagesOfObject(o) == {o.va + k : k \in 0 .. shares[o.id].size - 1}

(***************************************************************************)
(* No owner has two objects of one name, whoever creates what in which     *)
(* order. Everyone who has an object sees the same frames at the same      *)
(* places of it, no frame belongs to two objects, and no sequence of       *)
(* smalloc() and sget() lets anyone but the owner write a read-only        *)
(* object.                                                                 *)
(***************************************************************************)
MappingsAgree ==
  /\ \A ownerID \in Env, name \in Name :
       Cardinality(get_share_object_ID(ownerID, name)) <= 1
  /\ \A e \in Env : \A o \in objects[e] : \A k \in 0 .. shares[o.id].size - 1 :
       /\ page_table[e][o.va + k] # NONE
       /\ page_table[e][o.va + k].frame = shares[o.id].frames[k + 1]
  /\ \A i, j \in ID \ EmptyShares :
       i # j => ToSet(shares[i].frames) \cap ToSet(shares[j].frames) = {}
  /\ \A e \in Env : \A o \in objects[e] :
       ~shares[o.id].isWritable /\ shares[o.id].ownerID # e
         => \A va \in PagesOfObject(o) : ~page_table[e][va].writable

(***************************************************************************)
(* The references of a frame are the pages mapped to it: it would be freed *)
(* with the last of them.  Those of an object are the pointers handed out. *)
(***************************************************************************)
ReferencesCountMappings ==
  /\ \A f \in Frame :
       references[f] = Cardinality({x \in Env \X HeapPage :
         page_table[x[1]][x[2]] # NONE /\ page_table[x[1]][x[2]].frame = f})
  /\ \A i \in ID \ EmptyShares :
       shares[i].references = Cardinality(UNION {
         {<<e, o>> : o \in {x \in objects[e] : x.id = i}} : e \in Env})

(***************************************************************************)
(* The blocks of a heap that are free, that malloc() handed out and that   *)
(* hold shared objects are disjoint, and every page is in at most one.     *)
(***************************************************************************)
BlocksDisjoint ==
  \A e \in Env :
    LET blocks == [i \in DOMAIN FreeMemBlocksList[e] |-> Pages(FreeMemBlocksList[e][i])]
             \o [i \in DOMAIN AllocMemBlocksList[e] |-> Pages(AllocMemBlocksList[e][i])]
    IN /\ \A i, j \in DOMAIN blocks : i # j => blocks[i] \cap blocks[j] = {}
       /\ \A o \in objects[e] :
            /\ \A i \in DOMAIN blocks : blocks[i] \cap PagesOfObject(o) = {}
            /\ \A q \in objects[e] \ {o} : PagesOfObject(o) \cap PagesOfObject(q) = {}

-----------------------------------------------------------------------------
(***************************************************************************)
(* A smalloc() that returns NULL, for the object exists or there are too   *)
(* many, allocates no memory.                                              *)
(***************************************************************************)
FailedSmallocKeepsHeap ==
  [][\A e \in Env, name \in Name, size \in Size :
       smalloc_fails(e, name, size) => UNCHANGED FreeMemBlocksList]_vars
=============================================================================
