------------------------------ MODULE PageFile ------------------------------
(***************************************************************************)
(* The page file of kern/disk/pagefile_manager.c: the list of free disk    *)
(* frames, the disk page directory and tables of every environment, which  *)
(* come from the kernel heap, and the table directory.  env_create() adds  *)
(* the pages of a program, the replacement updates them, free_user_mem()   *)
(* removes them and env_free() frees the rest.                             *)
(*                                                                         *)
(* A page is a user page; the disk is a function from its frames to what   *)
(* was written.  ide_read() and ide_write() are external and succeed: a    *)
(* failed write panics.                                                    *)
(***************************************************************************)
EXTENDS Integers, Sequences, SequencesExt, FiniteSets

CONSTANTS
  FileEnvs, LastFilePage, PAGES_PER_FILE,
  PAGES_PER_TABLE,      \* entries of a disk page table
  FileValues,           \* what pages hold
  ZeroPage,             \* what ptr_zero_page holds
  KHeapPages            \* pages of the kernel heap

ASSUME PageFileAssumption ==
  /\ IsFiniteSet(FileEnvs) /\ LastFilePage \in Nat
  /\ PAGES_PER_FILE \in Nat \ {0} /\ PAGES_PER_TABLE \in Nat \ {0}
  /\ ZeroPage \in FileValues /\ KHeapPages \in Nat

VARIABLES
  disk_free_frame_list,
  disk,                 \* [1 .. PAGES_PER_FILE - 1 -> FileValues]
  disk_dir,             \* [FileEnvs -> the tables in disk_env_pgdir, or NoDir]
  disk_table,           \* [FileEnvs -> [FilePages -> dfn or 0]]
  table_dir,            \* [FileEnvs -> [DiskTables -> dfn or 0], or NoTableDir]
  kheap_pages,          \* what kmalloc(PAGE_SIZE) may still return
  saved,                \* what each page was last written with, or NotSaved
  kernel                \* "running", or what ended it

pageFile == <<disk_free_frame_list, disk, disk_dir, disk_table, table_dir, kheap_pages, saved, kernel>>

FilePages == 0 .. LastFilePage
Dfn == 1 .. PAGES_PER_FILE - 1
NoDir == {-1}
NotSaved == "not saved"
Unwritten == "unwritten"
disk_PDX(p) == p \div PAGES_PER_TABLE
DiskTables == 0 .. disk_PDX(LastFilePage)
NoTableDir == [t \in DiskTables |-> -1]

(***************************************************************************)
(* initialize_disk_page_file(): frame 0 is never free, 0 is no frame.      *)
(***************************************************************************)
PageFileInit ==
  /\ disk_free_frame_list = Reverse([k \in Dfn |-> k])
  /\ disk = [d \in Dfn |-> Unwritten]
  /\ disk_dir = [e \in FileEnvs |-> NoDir]
  /\ disk_table = [e \in FileEnvs |-> [p \in FilePages |-> 0]]
  /\ table_dir = [e \in FileEnvs |-> NoTableDir]
  /\ kheap_pages = KHeapPages
  /\ saved = [e \in FileEnvs |-> [p \in FilePages |-> NotSaved]]
  /\ kernel = "running"

(***************************************************************************)
(* free_disk_frame(), and the loops that call it for entries 0 to last.    *)
(***************************************************************************)
free_disk_frame(list, dfn) == IF dfn = 0 THEN list ELSE <<dfn>> \o list

free_disk_frames(list, entries, last) ==
  FoldLeft(LAMBDA l, k : free_disk_frame(l, entries[k - 1]), list, [k \in 1 .. last + 1 |-> k])

(***************************************************************************)
(* get_disk_page_directory() and get_disk_page_table() with create: what   *)
(* they take from the kernel heap.  Their E_NO_VM is not looked at: the    *)
(* kernel goes on with a null pointer.                                     *)
(***************************************************************************)
new_tables(e, p) ==
  (IF disk_dir[e] = NoDir THEN 1 ELSE 0)
    + (IF disk_dir[e] = NoDir \/ disk_PDX(p) \notin disk_dir[e] THEN 1 ELSE 0)

get_disk_page_table(e, p) ==
  /\ disk_dir' = [disk_dir EXCEPT ![e] = (IF @ = NoDir THEN {} ELSE @) \cup {disk_PDX(p)}]
  /\ kheap_pages' = kheap_pages - new_tables(e, p)

null_pointer ==
  /\ kernel' = "null pointer"
  /\ UNCHANGED <<disk_free_frame_list, disk, disk_dir, disk_table, table_dir, kheap_pages, saved>>

(***************************************************************************)
(* pf_add_empty_env_page(): with content v, or not written (Unwritten).    *)
(* When the file is full the new table stays, and env_create() panics.     *)
(***************************************************************************)
takes_frame(e, p) == disk_table[e][p] = 0

pf_add_env_page(e, p, v) ==
  LET dfn == IF takes_frame(e, p) THEN Head(disk_free_frame_list) ELSE disk_table[e][p]
  IN IF new_tables(e, p) > kheap_pages THEN null_pointer
     ELSE /\ get_disk_page_table(e, p)
          /\ IF takes_frame(e, p) /\ disk_free_frame_list = <<>>
             THEN UNCHANGED <<disk_free_frame_list, disk, disk_table, saved>>
             ELSE /\ disk_table' = [disk_table EXCEPT ![e][p] = dfn]
                  /\ disk_free_frame_list' = IF takes_frame(e, p) THEN Tail(disk_free_frame_list)
                                             ELSE disk_free_frame_list
                  /\ disk' = IF v = Unwritten THEN disk ELSE [disk EXCEPT ![dfn] = v]
                  /\ saved' = [saved EXCEPT ![e][p] = IF v = Unwritten THEN disk[dfn] ELSE v]
          /\ UNCHANGED <<table_dir, kernel>>

(***************************************************************************)
(* initializeByZero: the page of zeros is written; otherwise the frame     *)
(* keeps what was on the disk, until the page is written.                  *)
(***************************************************************************)
pf_add_empty_env_page(e, p, initializeByZero) ==
  pf_add_env_page(e, p, IF initializeByZero THEN ZeroPage ELSE Unwritten)

(***************************************************************************)
(* pf_update_env_page() of a heap or stack page: a page that is not in the *)
(* file is added, from where it is mapped or empty and then written.  A    *)
(* full page file panics.                                                  *)
(***************************************************************************)
pf_update_env_page(e, p, v) ==
  IF takes_frame(e, p) /\ disk_free_frame_list = <<>> /\ new_tables(e, p) <= kheap_pages
  THEN /\ get_disk_page_table(e, p)
       /\ kernel' = "page file full"
       /\ UNCHANGED <<disk_free_frame_list, disk, disk_table, table_dir, saved>>
  ELSE pf_add_env_page(e, p, v)

(***************************************************************************)
(* pf_remove_env_page().  The table stays, also when it has become empty.  *)
(***************************************************************************)
pf_remove_env_page_keeps_entry(e, p) ==
  /\ disk_dir[e] # NoDir /\ disk_table[e][p] \in Dfn \ ToSet(disk_free_frame_list)
  /\ disk_free_frame_list' = free_disk_frame(disk_free_frame_list, disk_table[e][p])
  /\ UNCHANGED <<disk, disk_dir, disk_table, table_dir, kheap_pages, saved, kernel>>

pf_remove_env_page(e, p) ==
  /\ disk_dir[e] # NoDir /\ disk_PDX(p) \in disk_dir[e]
  /\ disk_table' = [disk_table EXCEPT ![e][p] = 0]
  /\ disk_free_frame_list' = free_disk_frame(disk_free_frame_list, disk_table[e][p])
  /\ saved' = [saved EXCEPT ![e][p] = NotSaved]
  /\ UNCHANGED <<disk, disk_dir, table_dir, kheap_pages, kernel>>

(***************************************************************************)
(* pf_free_env(): every entry of every table, the tables, the directory,   *)
(* and the table directory with its frames.                                *)
(***************************************************************************)
frames_of_tables(e) == IF table_dir[e] = NoTableDir THEN [t \in DiskTables |-> 0] ELSE table_dir[e]
tables_freed_but_one(e) == Cardinality(disk_dir[e])
tables_freed(e) == Cardinality(disk_dir[e]) + 1 + (IF table_dir[e] = NoTableDir THEN 0 ELSE 1)

pf_free_env(e) ==
  /\ disk_dir[e] # NoDir
  /\ disk_free_frame_list' =
       free_disk_frames(free_disk_frames(disk_free_frame_list, disk_table[e], LastFilePage),
                        frames_of_tables(e), disk_PDX(LastFilePage))
  /\ disk_table' = [disk_table EXCEPT ![e] = [p \in FilePages |-> 0]]
  /\ kheap_pages' = kheap_pages + tables_freed(e)
  /\ disk_dir' = [disk_dir EXCEPT ![e] = NoDir]
  /\ table_dir' = [table_dir EXCEPT ![e] = NoTableDir]
  /\ saved' = [saved EXCEPT ![e] = [p \in FilePages |-> NotSaved]]
  /\ UNCHANGED <<disk, kernel>>

(***************************************************************************)
(* __pf_write_env_table(), with get_disk_table_directory(), and            *)
(* __pf_remove_env_table().                                                *)
(***************************************************************************)
pf_write_env_table(e, t, v) ==
  LET new == table_dir[e] = NoTableDir
      dir == IF new THEN [u \in DiskTables |-> 0] ELSE table_dir[e]
      full == dir[t] = 0 /\ disk_free_frame_list = <<>>
      dfn == IF dir[t] = 0 THEN Head(disk_free_frame_list) ELSE dir[t]
  IN IF new /\ kheap_pages = 0 THEN null_pointer
     ELSE /\ kheap_pages' = kheap_pages - (IF new THEN 1 ELSE 0)
          /\ table_dir' = [table_dir EXCEPT ![e] = IF full THEN dir ELSE [dir EXCEPT ![t] = dfn]]
          /\ disk' = IF full THEN disk ELSE [disk EXCEPT ![dfn] = v]
          /\ disk_free_frame_list' = IF dir[t] = 0 /\ ~full THEN Tail(disk_free_frame_list)
                                     ELSE disk_free_frame_list
          /\ UNCHANGED <<disk_dir, disk_table, saved, kernel>>

pf_remove_env_table(e, t) ==
  /\ table_dir[e] # NoTableDir
  /\ disk_free_frame_list' = free_disk_frame(disk_free_frame_list, table_dir[e][t])
  /\ table_dir' = [table_dir EXCEPT ![e][t] = 0]
  /\ UNCHANGED <<disk, disk_dir, disk_table, kheap_pages, saved, kernel>>

PageFileNext ==
  /\ kernel = "running"
  /\ \E e \in FileEnvs :
       \/ \E p \in FilePages :
            \/ \E v \in FileValues : pf_add_env_page(e, p, v) \/ pf_update_env_page(e, p, v)
            \/ \E zero \in BOOLEAN : pf_add_empty_env_page(e, p, zero)
            \/ pf_remove_env_page(e, p)
       \/ pf_free_env(e)
       \/ \E t \in DiskTables : pf_write_env_table(e, t, ZeroPage) \/ pf_remove_env_table(e, t)
-----------------------------------------------------------------------------
(***************************************************************************)
(* pf_read_env_page(), pf_calculate_allocated_pages() and                  *)
(* pf_calculate_free_frames().                                             *)
(***************************************************************************)
pf_read_env_page(e, p) ==
  IF disk_dir[e] = NoDir \/ disk_PDX(p) \notin disk_dir[e] \/ disk_table[e][p] = 0 THEN NotSaved
  ELSE disk[disk_table[e][p]]

pf_calculate_allocated_pages(e) ==
  IF disk_dir[e] = NoDir THEN 0
  ELSE Cardinality({p \in FilePages : disk_PDX(p) \in disk_dir[e] /\ disk_table[e][p] # 0})

pf_calculate_free_frames == Len(disk_free_frame_list)

(***************************************************************************)
(* Every page of every environment reads back what it was last written     *)
(* with, whatever the others did since.                                    *)
(***************************************************************************)
FileKeepsPages == \A e \in FileEnvs, p \in FilePages : pf_read_env_page(e, p) = saved[e][p]

(***************************************************************************)
(* A frame of the file is free once, or in exactly one entry.              *)
(***************************************************************************)
owners ==
  {<<e, "page", p>> : e \in FileEnvs, p \in FilePages}
    \cup {<<e, "table", t>> : e \in FileEnvs, t \in DiskTables}
entry_of(o) == IF o[2] = "page" THEN disk_table[o[1]][o[3]] ELSE frames_of_tables(o[1])[o[3]]

DiskFramesOwnedOnce ==
  \A d \in Dfn :
    Cardinality({i \in DOMAIN disk_free_frame_list : disk_free_frame_list[i] = d})
      + Cardinality({o \in owners : entry_of(o) = d}) = 1

(***************************************************************************)
(* What programs can ask for adds up: the pages that environments have in  *)
(* the file, the frames of their tables and the free frames are all that   *)
(* the file has.                                                           *)
(***************************************************************************)
CountsMatchFile ==
  LET used == [e \in FileEnvs |-> pf_calculate_allocated_pages(e)
                                    + Cardinality({t \in DiskTables : frames_of_tables(e)[t] # 0})]
  IN pf_calculate_free_frames + SumFunction(used) = Cardinality(Dfn)

(***************************************************************************)
(* The pages of the kernel heap that hold directories and tables come back *)
(* with pf_free_env(), also when some calls of the environment failed half *)
(* way.                                                                    *)
(***************************************************************************)
held(e) == (IF disk_dir[e] = NoDir THEN 0 ELSE Cardinality(disk_dir[e]) + 1)
             + (IF table_dir[e] = NoTableDir THEN 0 ELSE 1)

TablesAccounted ==
  /\ kheap_pages + SumFunction([e \in FileEnvs |-> held(e)]) = KHeapPages
  /\ \A e \in FileEnvs, p \in FilePages :
       disk_table[e][p] # 0 => disk_dir[e] # NoDir /\ disk_PDX(p) \in disk_dir[e]

(***************************************************************************)
(* Nothing of the page file leaks, whichever of the two resources ended in *)
(* the middle of a call: disk frames have one owner each and are counted   *)
(* right, and the kernel pages of its tables come back.                    *)
(***************************************************************************)
FileAccounted == DiskFramesOwnedOnce /\ CountsMatchFile /\ TablesAccounted
=============================================================================
