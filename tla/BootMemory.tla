----------------------------- MODULE BootMemory -----------------------------
(***************************************************************************)
(* The boot of the memory: detect_memory(), initialize_kernel_VM() and     *)
(* turn_on_paging() of kern/mem/boot_memory_manager.c, a statement of them *)
(* per step, and initialize_paging() of kern/mem/memory_manager.c.         *)
(*                                                                         *)
(* Kernel addresses are offsets from KERNEL_BASE, which are the physical   *)
(* addresses while the segments' base is -KERNEL_BASE; their unit is the   *)
(* byte.  A page table is the physical page it lies in.  What the code     *)
(* does not write in a new table is left out: the table is not cleared.    *)
(***************************************************************************)
EXTENDS Integers, FiniteSets, Sequences

CONSTANTS
  PAGE_SIZE, NPT,        \* bytes of a page, entries of a page table
  NDIR, KERNEL_DIR,      \* entries of the directory, PDX(KERNEL_BASE)
  Memories,              \* the sizes of memory that the CMOS may report, in bytes
  Kernels,               \* the places where the kernel may end
  PHYS_IO_MEM, PHYS_EXTENDED_MEM,
  KERNEL_STACK_SIZE,     \* the stack is at the start of the kernel
  FRAME_INFO_SIZE,       \* bytes of frames_info for a frame
  DISK_ARRAY_SIZE, ENVS_SIZE

PTSIZE == PAGE_SIZE * NPT
VPT_DIR == KERNEL_DIR - 1
STACK_DIR == KERNEL_DIR - 2
UVPT_DIR == KERNEL_DIR - 3
UENVS_DIR == KERNEL_DIR - 5

(***************************************************************************)
(* The kernel's arrays fill a page table: disk_frames_info has 3 MB and    *)
(* envs nearly 1 MB, so that turn_on_paging() reaches all of the kernel.   *)
(* There is memory where the kernel begins, for it has been loaded there.  *)
(* The directory has entries for the kernel, its arrays and the pages of   *)
(* their tables: 256 MB, of which frames_info takes 3 MB for each GB of    *)
(* memory; as many entries at 0 are below UENVS.                           *)
(***************************************************************************)
ASSUME BootAssumption ==
  /\ PAGE_SIZE \in Nat \ {0} /\ NPT \in Nat \ {0} /\ NDIR \in Nat
  /\ KERNEL_DIR \in 6 .. NDIR - 1 /\ NDIR - KERNEL_DIR <= UENVS_DIR
  /\ Memories \subseteq Nat /\ Kernels \subseteq Nat
  /\ PHYS_IO_MEM \in Nat /\ PHYS_EXTENDED_MEM \in Nat
  /\ KERNEL_STACK_SIZE \in Nat /\ FRAME_INFO_SIZE \in Nat
  /\ DISK_ARRAY_SIZE \in Nat /\ ENVS_SIZE \in Nat \ {0}
  /\ 3 * PAGE_SIZE <= PHYS_IO_MEM /\ PHYS_IO_MEM <= PHYS_EXTENDED_MEM
  /\ \A m \in Memories : PHYS_EXTENDED_MEM <= m
  /\ PHYS_IO_MEM % PAGE_SIZE = 0 /\ PHYS_EXTENDED_MEM % PAGE_SIZE = 0
  /\ KERNEL_STACK_SIZE % PAGE_SIZE = 0 /\ KERNEL_STACK_SIZE <= PTSIZE
  /\ ENVS_SIZE <= PTSIZE /\ DISK_ARRAY_SIZE + ENVS_SIZE >= PTSIZE
  /\ \A k \in Kernels : PHYS_EXTENDED_MEM + KERNEL_STACK_SIZE <= k
  /\ \A m \in Memories, k \in Kernels :
       k + (m \div PAGE_SIZE) * FRAME_INFO_SIZE + DISK_ARRAY_SIZE + ENVS_SIZE
         + (NDIR - KERNEL_DIR + 7) * PAGE_SIZE <= (NDIR - KERNEL_DIR) * PTSIZE

VARIABLES
  boot,               \* the next statement
  end_of_kernel, number_of_frames,
  ptr_free_mem,       \* 0 until the first allocation
  spaces,             \* what boot_allocate_space() returned, in order: [at, size]
  directory,          \* [0 .. NDIR - 1 -> [table, user]] (table 0: no entry)
  entries,            \* <<table, index>> to [frame, user, write], where written
  paging,             \* "off", "low" (old segments), or "on"
  free_frame_list

bootMemory == <<boot, end_of_kernel, number_of_frames, ptr_free_mem, spaces, directory,
                entries, paging, free_frame_list>>

ROUNDUP(n, align) == ((n + align - 1) \div align) * align
NoTable == [table |-> 0, user |-> FALSE]

(***************************************************************************)
(* boot_allocate_space() on [free, spaces, directory, entries].            *)
(***************************************************************************)
boot_allocate_space(mem, size) ==
  LET at == ROUNDUP(IF mem.free = 0 THEN end_of_kernel ELSE mem.free, PAGE_SIZE)
  IN [mem EXCEPT !.free = at + size, !.spaces = Append(@, [at |-> at, size |-> size])]

last_space(mem) == mem.spaces[Len(mem.spaces)].at

(***************************************************************************)
(* boot_get_page_table() with create = 1.                                  *)
(***************************************************************************)
boot_get_page_table(mem, d) ==
  IF mem.directory[d].table # 0 THEN mem
  ELSE LET new == boot_allocate_space(mem, PAGE_SIZE)
       IN [new EXCEPT !.directory[d] = [table |-> last_space(new), user |-> FALSE]]

(***************************************************************************)
(* boot_map_range(): the pages that size bytes reach, from page            *)
(* first of directory entry d on, to the frames from pa on.                *)
(***************************************************************************)
pages_of(size) == ROUNDUP(size, PAGE_SIZE) \div PAGE_SIZE

boot_map_range(mem, d, first, size, pa, perm) ==
  LET dirs == d .. d + ((first + pages_of(size) - 1) \div NPT)
      get[k \in dirs] ==
        boot_get_page_table(IF k = d THEN mem ELSE get[k - 1], k)
      with == get[d + ((first + pages_of(size) - 1) \div NPT)]
      at(k) == <<with.directory[d + ((first + k) \div NPT)].table, (first + k) % NPT>>
      new == [slot \in {at(k) : k \in 0 .. pages_of(size) - 1} |->
                LET k == CHOOSE j \in 0 .. pages_of(size) - 1 : at(j) = slot
                IN [frame |-> pa \div PAGE_SIZE + k, user |-> "U" \in perm, write |-> "W" \in perm]]
  IN IF pages_of(size) = 0 THEN mem
     ELSE [with EXCEPT !.entries =
             [slot \in DOMAIN @ \cup DOMAIN new |->
                IF slot \in DOMAIN new THEN new[slot] ELSE @[slot]]]

Memory == [free |-> ptr_free_mem, spaces |-> spaces, directory |-> directory, entries |-> entries]

(***************************************************************************)
(* A statement of initialize_kernel_VM() and the one after it.             *)
(***************************************************************************)
statement(at, next, mem) ==
  /\ boot = at /\ boot' = next
  /\ ptr_free_mem' = mem.free /\ spaces' = mem.spaces
  /\ directory' = mem.directory /\ entries' = mem.entries
  /\ UNCHANGED <<end_of_kernel, number_of_frames, paging, free_frame_list>>
-----------------------------------------------------------------------------
BootInit ==
  /\ boot = "detect_memory"
  /\ end_of_kernel = 0 /\ number_of_frames = 0
  /\ ptr_free_mem = 0 /\ spaces = <<>>
  /\ directory = [d \in 0 .. NDIR - 1 |-> NoTable]
  /\ entries = [slot \in {} |-> 0]
  /\ paging = "off"
  /\ free_frame_list = {}

(***************************************************************************)
(* detect_memory(): what the CMOS says of the memory above 16 MB, or above *)
(* 1 MB, gives maxpa.  The place of the kernel's end comes from the linker.*)
(***************************************************************************)
detect_memory(maxpa, kernel) ==
  /\ boot = "detect_memory" /\ boot' = "directory"
  /\ number_of_frames' = maxpa \div PAGE_SIZE
  /\ end_of_kernel' = kernel
  /\ UNCHANGED <<ptr_free_mem, spaces, directory, entries, paging, free_frame_list>>

allocate_directory == statement("directory", "stack", boot_allocate_space(Memory, PAGE_SIZE))

map_stack ==
  statement("stack", "tables",
    boot_map_range(Memory, STACK_DIR, NPT - KERNEL_STACK_SIZE \div PAGE_SIZE, KERNEL_STACK_SIZE,
                   PHYS_EXTENDED_MEM, {"W"}))

kernel_tables ==
  LET with[d \in KERNEL_DIR - 1 .. NDIR - 1] ==
        IF d < KERNEL_DIR THEN Memory ELSE boot_get_page_table(with[d - 1], d)
  IN statement("tables", "frames_info", with[NDIR - 1])

allocate_frames_info ==
  statement("frames_info", "disk_frames_info",
            boot_allocate_space(Memory, number_of_frames * FRAME_INFO_SIZE))

allocate_disk_frames_info ==
  statement("disk_frames_info", "listing", boot_allocate_space(Memory, DISK_ARRAY_SIZE))

(***************************************************************************)
(* The directory is a table of itself, for the kernel and for the user.    *)
(***************************************************************************)
setup_listing ==
  LET self == spaces[1].at
  IN statement("listing", "envs",
       [Memory EXCEPT !.directory[VPT_DIR] = [table |-> self, user |-> FALSE],
                      !.directory[UVPT_DIR] = [table |-> self, user |-> TRUE]])

envs_permission == {"U"}

allocate_envs ==
  LET mem == boot_allocate_space(Memory, ENVS_SIZE)
      mapped == boot_map_range(mem, UENVS_DIR, 0, ENVS_SIZE, last_space(mem), envs_permission)
  IN statement("envs", "map_kernel", [mapped EXCEPT !.directory[UENVS_DIR].user = TRUE])

mapped_size_of_kernel == end_of_kernel
mapped_size == ptr_free_mem

map_kernel ==
  statement("map_kernel", "switch", boot_map_range(Memory, KERNEL_DIR, 0, mapped_size, 0, {"W"}))

(***************************************************************************)
(* turn_on_paging(): the directory entries from KERNEL_BASE on are used    *)
(* from address 0 on too, until the segments' base is 0.                   *)
(***************************************************************************)
low_dirs == ptr_free_mem \div PTSIZE

turn_on_paging ==
  /\ boot = "switch" /\ boot' = "segments"
  /\ directory' = [d \in DOMAIN directory |-> IF d < low_dirs THEN directory[KERNEL_DIR + d] ELSE directory[d]]
  /\ paging' = "low"
  /\ UNCHANGED <<end_of_kernel, number_of_frames, ptr_free_mem, spaces, entries, free_frame_list>>

reload_segments ==
  /\ boot = "segments" /\ boot' = "frames"
  /\ directory' = [d \in DOMAIN directory |-> IF d < low_dirs THEN NoTable ELSE directory[d]]
  /\ paging' = "on"
  /\ UNCHANGED <<end_of_kernel, number_of_frames, ptr_free_mem, spaces, entries, free_frame_list>>

(***************************************************************************)
(* initialize_paging().  Frames 0 to 2 stay in use.                        *)
(***************************************************************************)
first_free_of_kernel == ROUNDUP(end_of_kernel, PAGE_SIZE) \div PAGE_SIZE
first_free == ROUNDUP(ptr_free_mem, PAGE_SIZE) \div PAGE_SIZE

initialize_paging ==
  /\ boot = "frames" /\ boot' = "done"
  /\ free_frame_list' = (3 .. PHYS_IO_MEM \div PAGE_SIZE - 1) \cup (first_free .. number_of_frames - 1)
  /\ UNCHANGED <<end_of_kernel, number_of_frames, ptr_free_mem, spaces, directory, entries, paging>>

BootNext ==
  \/ \E maxpa \in Memories, kernel \in Kernels : detect_memory(maxpa, kernel)
  \/ allocate_directory \/ map_stack \/ kernel_tables \/ allocate_frames_info
  \/ allocate_disk_frames_info \/ setup_listing \/ allocate_envs \/ map_kernel
  \/ turn_on_paging \/ reload_segments \/ initialize_paging
-----------------------------------------------------------------------------
(***************************************************************************)
(* What the processor does with page p of the address space.               *)
(***************************************************************************)
Slot(d, i) == <<directory[d].table, i>>
Translates(d, i) == directory[d].table # 0 /\ Slot(d, i) \in DOMAIN entries
Frame(d, i) == entries[Slot(d, i)].frame

(***************************************************************************)
(* The spaces that boot_allocate_space() returns begin at pages of their   *)
(* own: no two of them, and none and the kernel, have a page in common.    *)
(***************************************************************************)
BootSpacesDisjoint ==
  \A i \in DOMAIN spaces :
    /\ spaces[i].at >= end_of_kernel /\ spaces[i].at % PAGE_SIZE = 0
    /\ \A j \in DOMAIN spaces : i < j =>
         ROUNDUP(spaces[i].at + spaces[i].size, PAGE_SIZE) <= spaces[j].at

(***************************************************************************)
(* No frame of the BIOS, the IO hole, the kernel or a boot space is free,  *)
(* and no frame that does not exist.                                       *)
(***************************************************************************)
NoReservedFrameIsFree ==
  \A f \in free_frame_list :
    LET a == f * PAGE_SIZE
    IN /\ f < number_of_frames /\ f > 2
       /\ ~(PHYS_IO_MEM < a + PAGE_SIZE /\ a < PHYS_EXTENDED_MEM)
       /\ ~(PHYS_EXTENDED_MEM < a + PAGE_SIZE /\ a < end_of_kernel)
       /\ \A i \in DOMAIN spaces : ~(spaces[i].at < a + PAGE_SIZE /\ a < spaces[i].at + spaces[i].size)

(***************************************************************************)
(* Memory that boot hands out has one owner: no allocated space overlaps   *)
(* another or the kernel, and initialize_paging() declares none of it      *)
(* free.                                                                   *)
(***************************************************************************)
BootMemoryOwnedOnce == BootSpacesDisjoint /\ NoReservedFrameIsFree

(***************************************************************************)
(* check_boot_pgdir() and more: once paging is on, the kernel, its stack,  *)
(* its tables and every boot space are where they were before, the stack   *)
(* also at KERNEL_STACK_TOP; while the old segments are in use the kernel  *)
(* is at its physical addresses too; and nothing else is left of that.     *)
(***************************************************************************)
KernelStaysMapped ==
  paging # "off" =>
    /\ \A p \in 0 .. pages_of(ptr_free_mem) - 1 :
         /\ KERNEL_DIR + (p \div NPT) < NDIR
         /\ Translates(KERNEL_DIR + (p \div NPT), p % NPT)
         /\ Frame(KERNEL_DIR + (p \div NPT), p % NPT) = p
    /\ \A k \in 1 .. KERNEL_STACK_SIZE \div PAGE_SIZE :
         Frame(STACK_DIR, NPT - k) = (PHYS_EXTENDED_MEM + KERNEL_STACK_SIZE) \div PAGE_SIZE - k
    /\ IF paging = "low"
       THEN \A p \in 0 .. pages_of(end_of_kernel) - 1 :
              Translates(p \div NPT, p % NPT) /\ Frame(p \div NPT, p % NPT) = p
       ELSE \A d \in 0 .. UENVS_DIR - 1 : directory[d] = NoTable

(***************************************************************************)
(* Of what the code maps, a program can reach the array of environments    *)
(* only, and cannot write it.  Through UVPT it reads the directory and the *)
(* table of that array.                                                    *)
(***************************************************************************)
UserReadsOnlyEnvs ==
  boot \in {"map_kernel", "switch", "segments", "frames", "done"} =>
    LET envs_space == spaces[Len(spaces) - 1]     \* the last one is its table
        envs_frames == {envs_space.at \div PAGE_SIZE + k : k \in 0 .. pages_of(ENVS_SIZE) - 1}
        reached(d) == {entries[Slot(d, i)] : i \in {j \in 0 .. NPT - 1 : Translates(d, j)}}
    IN \A d \in {k \in DOMAIN directory : directory[k].user} :
         \/ d = UVPT_DIR /\ directory[d].table = spaces[1].at
         \/ d = UENVS_DIR /\ \A e \in reached(d) : e.user => ~e.write /\ e.frame \in envs_frames

(***************************************************************************)
(* The address space with which the kernel goes on: it finds itself where  *)
(* it was while paging is turned on and the segments are changed, and      *)
(* gives programs nothing but the environments to read.                    *)
(***************************************************************************)
AddressSpaceAfterBoot == KernelStaysMapped /\ UserReadsOnlyEnvs
=============================================================================
