-------------------------- MODULE ChunkOperations --------------------------
(***************************************************************************)
(* The chunk operations of kern/mem/chunk_operations.c on one address      *)
(* space: allocating, moving, copying and sharing ranges of pages, and the *)
(* two calculations.  They are operators on the state of the memory, so    *)
(* that every result can be compared with what it should be.               *)
(*                                                                         *)
(* An address counts units of which a page has PAGE_SIZE.  ROUNDDOWN and   *)
(* ROUNDUP give page numbers.  Frames are interchangeable: the smallest    *)
(* free one is taken.  No decision depends on contents: they are 0 in the  *)
(* states, and CopyCopies looks where contents go that are all different.  *)
(***************************************************************************)
EXTENDS Integers, FiniteSets, FiniteSetsExt, Sequences, SequencesExt

CONSTANTS PAGE_SIZE,
          NPTENTRIES,    \* entries of a page table (1024)
          MaxPage,       \* the largest page number
          Frames,        \* frames of memory
          Size,          \* sizes of ranges, in units
          Count,         \* numbers of pages to move
          Perm           \* permissions that callers ask for

ASSUME ChunkAssumption ==
  /\ PAGE_SIZE \in Nat \ {0} /\ NPTENTRIES \in Nat \ {0}
  /\ MaxPage \in Nat /\ Frames \in Nat
  /\ Size \subseteq Nat \ {0} /\ Count \subseteq Nat \ {0}
  /\ Perm \subseteq SUBSET {"USER", "WRITEABLE"}

Page == 0 .. MaxPage
Frame == 1 .. Frames
NONE == 0                 \* no frame
Address == 0 .. (MaxPage + 1) * PAGE_SIZE - 1
Unit == 0 .. PAGE_SIZE - 1

ROUNDDOWN(a) == a \div PAGE_SIZE
ROUNDUP(a) == (a + PAGE_SIZE - 1) \div PAGE_SIZE
PDX(p) == p \div NPTENTRIES

PagesFrom(sva, size) == ROUNDDOWN(sva) .. ROUNDUP(sva + size) - 1

Entry == [frame : Frame, perm : SUBSET {"USER", "WRITEABLE"}]
NoEntry == [frame |-> NONE, perm |-> {}]

(***************************************************************************)
(* outcome is "ok" while an operation runs; "denied" when it returned -1,  *)
(* "panic" when memory ended, "fault" when the kernel touched a page that  *)
(* is not there or wrote to a read-only one (CR0_WP is set).  The model    *)
(* ends the operation at a fault.                                          *)
(***************************************************************************)
Memory == [page_directory : [{PDX(p) : p \in Page} -> Frame \cup {NONE}],
           page_table : [Page -> Entry \cup {NoEntry}],
           references : [Frame -> Nat],
           free_frame_list : SUBSET Frame,
           contents : [Frame -> [Unit -> Nat]],
           outcome : {"ok", "denied", "panic", "fault"}]

VARIABLE mem

TypeOK == mem \in Memory /\ mem.outcome = "ok"

Init ==
  mem = [page_directory |-> [t \in {PDX(p) : p \in Page} |-> NONE],
         page_table |-> [p \in Page |-> NoEntry],
         references |-> [f \in Frame |-> 0],
         free_frame_list |-> Frame,
         contents |-> [f \in Frame |-> [u \in Unit |-> 0]],
         outcome |-> "ok"]
-----------------------------------------------------------------------------
frame_at(m, p) == m.page_table[p].frame
is_mapped(m, p) == frame_at(m, p) # NONE
has_table(m, p) == m.page_directory[PDX(p)] # NONE

(***************************************************************************)
(* A loop of the kernel over a sequence: a panic ends it.                  *)
(***************************************************************************)
ForEach(op(_, _), m, seq) ==
  FoldLeft(LAMBDA x, i : IF x.outcome = "ok" THEN op(x, i) ELSE x, m, seq)

Offsets(n) == [k \in 1 .. n |-> k - 1]

(***************************************************************************)
(* The first free frame, for a table or for a page; none left is a panic.  *)
(***************************************************************************)
new_frame(m) == Min(m.free_frame_list)

take_frame(m) ==
  IF m.free_frame_list = {} THEN [m EXCEPT !.outcome = "panic"]
  ELSE [m EXCEPT !.free_frame_list = @ \ {new_frame(m)}]

create_page_table(m, p) ==
  LET t == take_frame(m)
  IN IF t.outcome = "panic" THEN t
     ELSE [t EXCEPT !.page_directory[PDX(p)] = new_frame(m)]

with_table(m, p) == IF has_table(m, p) THEN m ELSE create_page_table(m, p)

(***************************************************************************)
(* map_frame() at a page where nothing is mapped: all callers below have   *)
(* looked, and have created the table.                                     *)
(***************************************************************************)
map_frame(m, f, p, perm) ==
  [m EXCEPT !.page_table[p] = [frame |-> f, perm |-> perm],
            !.references[f] = @ + 1]

(***************************************************************************)
(* unmap_frame() frees the frame with its last reference.                  *)
(***************************************************************************)
unmap_frame_never_frees(m, p) ==
  [m EXCEPT !.page_table[p] = NoEntry, !.references[frame_at(m, p)] = @ - 1]
unmap_frame(m, p) ==
  LET f == frame_at(m, p)
      last == m.references[f] = 1
  IN [m EXCEPT !.page_table[p] = NoEntry,
               !.references[f] = @ - 1,
               !.free_frame_list = IF last THEN @ \cup {f} ELSE @]

allocate_page(m, p, perm) ==
  LET t == with_table(m, p)
      u == take_frame(t)
  IN IF t.outcome = "panic" THEN t
     ELSE IF u.outcome = "panic" THEN u
     ELSE map_frame(u, new_frame(t), p, perm)

denied(m) == [m EXCEPT !.outcome = "denied"]
-----------------------------------------------------------------------------
allocate_chunk(m, va, size, perm) ==
  LET pages == PagesFrom(va, size)
  IN IF \E p \in pages : is_mapped(m, p) THEN denied(m)
     ELSE ForEach(LAMBDA x, k : allocate_page(x, ROUNDDOWN(va) + k, perm),
                  m, Offsets(Cardinality(pages)))

(***************************************************************************)
(* cut_paste_pages(): each page is mapped at its destination with its      *)
(* permissions before it is unmapped at its source.                        *)
(***************************************************************************)
cut_page_unmaps_anyway(m, s, d) ==
  LET t == with_table(m, d)
  IN IF t.outcome = "panic" THEN unmap_frame(t, s)
     ELSE unmap_frame(map_frame(t, frame_at(t, s), d, t.page_table[s].perm), s)

cut_page(m, s, d) ==
  LET t == with_table(m, d)
  IN IF t.outcome = "panic" THEN t
     ELSE unmap_frame(map_frame(t, frame_at(t, s), d, t.page_table[s].perm), s)

cut_paste_pages(m, source_va, dest_va, n) ==
  LET s == ROUNDDOWN(source_va)
      d == ROUNDDOWN(dest_va)
  IN IF \E k \in 0 .. n - 1 : is_mapped(m, d + k) THEN denied(m)
     ELSE ForEach(LAMBDA x, k : cut_page(x, s + k, d + k), m, Offsets(n))

(***************************************************************************)
(* copy_paste_chunk(): the destination is checked and completed in steps   *)
(* of a page from an address that is not rounded; then every unit is       *)
(* copied, from the first to the last.                                     *)
(***************************************************************************)
Steps(size) == [k \in 1 .. ROUNDUP(size) |-> (k - 1) * PAGE_SIZE]

is_read_only(m, p) == is_mapped(m, p) /\ "WRITEABLE" \notin m.page_table[p].perm

prepare_page(m, s, d) ==
  LET user == m.page_table[s].perm \cap {"USER"}
  IN IF is_mapped(m, d) THEN [m EXCEPT !.page_table[d].perm = @ \cup user]
     ELSE allocate_page(m, d, user \cup {"WRITEABLE"})

unit_at(m, a) == m.contents[frame_at(m, ROUNDDOWN(a))][a % PAGE_SIZE]

copy_unit_first_page(m, source, dest) ==
  IF /\ is_mapped(m, ROUNDDOWN(source)) /\ is_mapped(m, ROUNDDOWN(dest))
     /\ ~is_read_only(m, ROUNDDOWN(dest))
  THEN [m EXCEPT !.contents[frame_at(m, ROUNDDOWN(dest))][dest % PAGE_SIZE]
                   = unit_at(m, ROUNDDOWN(source) * PAGE_SIZE)]
  ELSE [m EXCEPT !.outcome = "fault"]
copy_unit(m, source, dest) ==
  IF /\ is_mapped(m, ROUNDDOWN(source)) /\ is_mapped(m, ROUNDDOWN(dest))
     /\ ~is_read_only(m, ROUNDDOWN(dest))
  THEN [m EXCEPT !.contents[frame_at(m, ROUNDDOWN(dest))][dest % PAGE_SIZE]
                   = unit_at(m, source)]
  ELSE [m EXCEPT !.outcome = "fault"]

copy_paste_chunk(m, source_va, dest_va, size) ==
  IF \E i \in ToSet(Steps(size)) : is_read_only(m, ROUNDDOWN(dest_va + i))
  THEN denied(m)
  ELSE LET prepared ==
             ForEach(LAMBDA x, i : prepare_page(x, ROUNDDOWN(source_va + i),
                                                   ROUNDDOWN(dest_va + i)),
                     m, Steps(size))
       IN ForEach(LAMBDA x, i : copy_unit(x, source_va + i, dest_va + i),
                  prepared, Offsets(size))

(***************************************************************************)
(* share_chunk(): the frames of the source are mapped at the destination   *)
(* too, one for every page of the destination.                             *)
(***************************************************************************)
share_page(m, s, d, perm) ==
  LET t == with_table(m, d)
  IN IF t.outcome = "panic" THEN t ELSE map_frame(t, frame_at(t, s), d, perm)

share_chunk(m, source_va, dest_va, size, perm) ==
  LET pages == PagesFrom(dest_va, size)
      s == ROUNDDOWN(source_va)
      d == ROUNDDOWN(dest_va)
  IN IF \E p \in pages : is_mapped(m, p) THEN denied(m)
     ELSE ForEach(LAMBDA x, k : share_page(x, s + k, d + k, perm),
                  m, Offsets(Cardinality(pages)))

(***************************************************************************)
(* calculate_allocated_space(): a table is counted when the pointer to it  *)
(* differs from the one of the page before.                                *)
(***************************************************************************)
num_tables(m, sva, eva) ==
  LET pages == ROUNDDOWN(sva) .. ROUNDUP(eva) - 1
      table(p) == IF p \in pages THEN m.page_directory[PDX(p)] ELSE NONE
  IN Cardinality({p \in pages : table(p) # NONE /\ table(p) # table(p - 1)})

num_pages(m, sva, eva) ==
  Cardinality({p \in ROUNDDOWN(sva) .. ROUNDUP(eva) - 1 : is_mapped(m, p)})

(***************************************************************************)
(* calculate_required_frames(): pages that are not mapped, and tables that *)
(* are missing at the first page and at every page with a new PDX.         *)
(***************************************************************************)
required_frames_pages_only(m, sva, size) ==
  Cardinality({p \in PagesFrom(sva, size) : ~is_mapped(m, p)})
calculate_required_frames(m, sva, size) ==
  LET pages == PagesFrom(sva, size)
      svm == ROUNDDOWN(sva)
  IN Cardinality({p \in pages : ~is_mapped(m, p)})
       + (IF has_table(m, svm) THEN 0 ELSE 1)
       + Cardinality({p \in pages \ {svm} : ~has_table(m, p) /\ PDX(p) # PDX(p - 1)})
-----------------------------------------------------------------------------
(***************************************************************************)
(* The ranges lie in the address space, and the pages of the source that   *)
(* the code looks up are mapped (it does not check).                       *)
(***************************************************************************)
InSpace(va, size) == va + size - 1 \in Address

AllMapped(pages) == pages \subseteq Page /\ \A p \in pages : is_mapped(mem, p)

CanCut(source, dest, n) ==
  /\ ROUNDDOWN(dest) + n - 1 \in Page
  /\ AllMapped(ROUNDDOWN(source) .. ROUNDDOWN(source) + n - 1)

CanCopy(source, dest, size) == InSpace(dest, size) /\ AllMapped(PagesFrom(source, size))

CanShare(source, dest, size) ==
  /\ InSpace(dest, size)
  /\ AllMapped(ROUNDDOWN(source)
                 .. ROUNDDOWN(source) + Cardinality(PagesFrom(dest, size)) - 1)

(***************************************************************************)
(* The kernel goes on after every outcome.                                 *)
(***************************************************************************)
Becomes(m) == mem' = [m EXCEPT !.outcome = "ok"]

Allocate(va, size, perm) ==
  InSpace(va, size) /\ Becomes(allocate_chunk(mem, va, size, perm))

Cut(source, dest, n) ==
  CanCut(source, dest, n) /\ Becomes(cut_paste_pages(mem, source, dest, n))

Copy(source, dest, size) ==
  CanCopy(source, dest, size) /\ Becomes(copy_paste_chunk(mem, source, dest, size))

Share(source, dest, size, perm) ==
  CanShare(source, dest, size) /\ Becomes(share_chunk(mem, source, dest, size, perm))

Unmap(p) == is_mapped(mem, p) /\ Becomes(unmap_frame(mem, p))

Next ==
  \/ \E va \in Address, size \in Size, perm \in Perm : Allocate(va, size, perm)
  \/ \E s, d \in Page, n \in Count : Cut(s * PAGE_SIZE, d * PAGE_SIZE, n)
  \/ \E source, dest \in Address, size \in Size :
       \/ Copy(source, dest, size)
       \/ \E perm \in Perm : Share(source, dest, size, perm)
  \/ \E p \in Page : Unmap(p)

Spec == Init /\ [][Next]_mem
-----------------------------------------------------------------------------
Tables(m) == {m.page_directory[t] : t \in DOMAIN m.page_directory} \ {NONE}

MappedTo(m, f) == {p \in Page : frame_at(m, p) = f}

(***************************************************************************)
(* Whatever is allocated, moved, copied, shared and unmapped, and wherever *)
(* memory ends: a frame is free, or one table, or has as many references   *)
(* as pages are mapped to it; and a mapped page has a table.               *)
(***************************************************************************)
FramesAccounted ==
  /\ \A f \in Frame :
       /\ mem.references[f] = Cardinality(MappedTo(mem, f))
       /\ Cardinality({t \in DOMAIN mem.page_directory : mem.page_directory[t] = f})
            + (IF f \in mem.free_frame_list THEN 1 ELSE 0)
            + (IF mem.references[f] > 0 THEN 1 ELSE 0) = 1
  /\ \A p \in Page : is_mapped(mem, p) => has_table(mem, p)

(***************************************************************************)
(* cut_paste_pages() moves pages with their frames and permissions.  When  *)
(* memory ends half way no page is lost: each is either still at its       *)
(* source or already at its destination.                                   *)
(***************************************************************************)
CutMovesPages ==
  \A source, dest \in Address, n \in Count : CanCut(source, dest, n) =>
    LET r == cut_paste_pages(mem, source, dest, n)
        s == ROUNDDOWN(source)
        d == ROUNDDOWN(dest)
        moved(k) == /\ r.page_table[d + k] = mem.page_table[s + k]
                    /\ ~is_mapped(r, s + k)
        stays(k) == r.page_table[s + k] = mem.page_table[s + k] /\ ~is_mapped(r, d + k)
    IN /\ r.outcome = "ok" => \A k \in 0 .. n - 1 : moved(k)
       /\ r.outcome = "panic" => \A k \in 0 .. n - 1 : moved(k) \/ stays(k)
       /\ r.outcome = "denied" => [r EXCEPT !.outcome = "ok"] = mem

(***************************************************************************)
(* copy_paste_chunk() makes the destination equal to the source, unit by   *)
(* unit, when the pages of the destination share no frame and the ranges   *)
(* are disjoint, or overlap so that copying upwards is right; no other     *)
(* frame changes.  When it is denied, because of a read-only page, it has  *)
(* changed nothing; when memory ends, no contents yet.  The size of a page *)
(* is always checked: from the middle of one it reaches into a second.     *)
(***************************************************************************)
FramesOf(m, va, size) == {frame_at(m, p) : p \in PagesFrom(va, size)} \ {NONE}

NoAlias(m, va, size) == \A f \in FramesOf(m, va, size) : m.references[f] = 1

Labelled ==
  [mem EXCEPT !.contents = [f \in Frame |-> [u \in Unit |-> f * PAGE_SIZE + u]]]

CopyCopies ==
  LET before == Labelled
  IN \A source, dest \in Address, size \in Size \cup {PAGE_SIZE} :
       CanCopy(source, dest, size) =>
         LET r == copy_paste_chunk(before, source, dest, size)
             changed == {f \in Frame : r.contents[f] # before.contents[f]}
             disjoint == PagesFrom(source, size) \cap PagesFrom(dest, size) = {}
         IN /\ changed \subseteq FramesOf(r, dest, size)
            /\ r.outcome = "denied" => [r EXCEPT !.outcome = "ok"] = before
            /\ r.outcome = "panic" => changed = {}
            /\ r.outcome = "ok" /\ (dest <= source \/ disjoint) /\ NoAlias(mem, dest, size)
               => \A i \in 0 .. size - 1 :
                    unit_at(r, dest + i) = unit_at(before, source + i)

(***************************************************************************)
(* share_chunk() makes both ranges show the same frames, with the asked    *)
(* permission at the destination and no change at the source; frames are   *)
(* taken for tables only.                                                  *)
(***************************************************************************)
ShareAliases ==
  \A source, dest \in Address, size \in Size, perm \in Perm :
    CanShare(source, dest, size) =>
      LET r == share_chunk(mem, source, dest, size, perm)
          shift == ROUNDDOWN(dest) - ROUNDDOWN(source)
      IN /\ r.outcome = "ok" => \A p \in PagesFrom(dest, size) :
              r.page_table[p] = [frame |-> frame_at(mem, p - shift), perm |-> perm]
         /\ \A p \in Page : is_mapped(mem, p) => r.page_table[p] = mem.page_table[p]
         /\ mem.free_frame_list \ r.free_frame_list = Tables(r) \ Tables(mem)

(***************************************************************************)
(* What copy_paste_chunk() and share_chunk() promise: afterwards the       *)
(* destination shows what the source has, and nothing else has changed,    *)
(* whatever else shares the frames.                                        *)
(***************************************************************************)
DestinationShowsSource == CopyCopies /\ ShareAliases

(***************************************************************************)
(* The two counting functions are exact. calculate_required_frames() is    *)
(* what allocate_chunk() takes for a range where nothing is mapped, tables *)
(* included: it succeeds exactly when so many frames are free.             *)
(* calculate_allocated_space() counts every page and every table of a      *)
(* range once, where tables are missing in between too.                    *)
(***************************************************************************)
CountsExact ==
  /\ \A va \in Address, size \in Size : InSpace(va, size) =>
       LET r == allocate_chunk(mem, va, size, {"WRITEABLE"})
           required == calculate_required_frames(mem, va, size)
           available == Cardinality(mem.free_frame_list)
       IN /\ r.outcome = "ok" => available - Cardinality(r.free_frame_list) = required
          /\ r.outcome = "panic" => required > available
  /\ \A sva, eva \in Address : sva < eva =>
       LET pages == ROUNDDOWN(sva) .. ROUNDUP(eva) - 1
       IN num_tables(mem, sva, eva) + num_pages(mem, sva, eva)
            = Cardinality({mem.page_directory[PDX(p)] : p \in pages} \ {NONE})
                + Cardinality({p \in pages : is_mapped(mem, p)})
-----------------------------------------------------------------------------
(***************************************************************************)
(* copy_paste_chunk() completes every page of the destination before it    *)
(* copies: it never touches a page that is not there.                      *)
(***************************************************************************)
CopyCoversRange ==
  \A source, dest \in Address, size \in Size : CanCopy(source, dest, size) =>
    copy_paste_chunk(mem, source, dest, size).outcome # "fault"
=============================================================================
