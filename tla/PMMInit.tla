------------------------------- MODULE PMMInit -------------------------------
(***************************************************************************)
(* pmm_init of kernel/mm/pmm.c builds the bitmap that PMM starts from: it  *)
(* takes room for the bitmap from the first usable entry of the memory map *)
(* that is large enough, sets every bit and clears those of usable pages.  *)
(* Addresses are in bytes.  The code is sequential: one step per loop.     *)
(*                                                                         *)
(* The memory map comes from the boot loader (IsMemoryMap).                *)
(***************************************************************************)
EXTENDS Integers, Sequences, FiniteSetsExt

CONSTANTS
  PAGE_SIZE,
  MemoryMaps   \* the memory maps there are

VARIABLES
  memmap,            \* the memory map given, a sequence of [usable, base, length]
  entries,           \* the same, as pmm_init changes it
  bitmap_top_index,
  bitmap_size,       \* bytes
  bitmap,            \* the address of the bitmap, 0 at first
  used,              \* the pages whose bit is set
  pc

vars == <<memmap, entries, bitmap_top_index, bitmap_size, bitmap, used, pc>>

Entry == [usable : BOOLEAN, base : Nat, length : Nat]

IsUsable(e) == e.usable
End(e) == e.base + e.length
PagesOf(e) == (e.base \div PAGE_SIZE) .. (End(e) \div PAGE_SIZE) - 1

UsableEntries(map) == {map[k] : k \in {j \in DOMAIN map : IsUsable(map[j])}}

\* What the boot loader promises (external): the usable entries are page
\* aligned, and do not overlap.  The loops below count entries in a uint8_t,
\* and would not end on a map of more than 255.
IsMemoryMap(m) ==
  /\ m \in Seq(Entry) /\ Len(m) < 256
  /\ \A e \in UsableEntries(m) : e.base % PAGE_SIZE = 0 /\ e.length % PAGE_SIZE = 0
  /\ \A k, l \in DOMAIN m :
       k # l /\ IsUsable(m[k]) /\ IsUsable(m[l])
         => End(m[k]) <= m[l].base \/ End(m[l]) <= m[k].base

TypeOK ==
  /\ {memmap, entries} \subseteq Seq(Entry)
  /\ Len(entries) = Len(memmap)
  /\ bitmap_top_index \in Nat
  /\ bitmap_size \in Nat
  /\ bitmap \in Nat
  /\ used \subseteq Nat
  /\ pc \in {"highest", "place", "populate", "done", "panic"}

Init ==
  /\ memmap \in MemoryMaps
  /\ entries = memmap
  /\ bitmap_top_index = 0 /\ bitmap_size = 0 /\ bitmap = 0
  /\ used = {}
  /\ pc = "highest"

-----------------------------------------------------------------------------
(* An operator named like the one after it, with a suffix, is a mutant of  *)
(* it: the same code with a bug.                                           *)

ALIGN_UP(n, a) == ((n + a - 1) \div a) * a

\* The first loop, and the size of the bitmap.
pmm_init_highest ==
  /\ pc = "highest"
  /\ LET highest_addr == Max({0} \union {End(e) : e \in UsableEntries(entries)})
     IN  bitmap_top_index' = highest_addr \div PAGE_SIZE
  /\ bitmap_size' = ALIGN_UP(bitmap_top_index' \div 8, PAGE_SIZE)
  /\ pc' = "place"
  /\ UNCHANGED <<memmap, entries, bitmap, used>>

\* What is left of the entry that holds the bitmap
ShrunkNot(e) == [e EXCEPT !.length = @ - bitmap_size]
Shrunk(e) == [e EXCEPT !.length = @ - bitmap_size, !.base = @ + bitmap_size]

\* The entries that can hold the bitmap
Fits(e) == IsUsable(e) /\ e.length >= bitmap_size

\* The second loop: memset sets the 8 * bitmap_size bits there are.
pmm_init_place ==
  /\ pc = "place"
  /\ LET holes == {k \in DOMAIN entries : Fits(entries[k])}
     IN  IF holes = {}
         THEN pc' = "panic" /\ UNCHANGED <<bitmap, entries, used>>
         ELSE /\ bitmap' = entries[Min(holes)].base
              /\ entries' = [entries EXCEPT ![Min(holes)] = Shrunk(@)]
              /\ used' = 0 .. 8 * bitmap_size - 1
              /\ pc' = "populate"
  /\ UNCHANGED <<memmap, bitmap_top_index, bitmap_size>>

\* The third loop clears the bit of every page of every usable entry.
pmm_init_populate ==
  /\ pc = "populate"
  /\ used' = used \ UNION {PagesOf(e) : e \in UsableEntries(entries)}
  /\ pc' = "done"
  /\ UNCHANGED <<memmap, entries, bitmap_top_index, bitmap_size, bitmap>>

Next == pmm_init_highest \/ pmm_init_place \/ pmm_init_populate

Spec == Init /\ [][Next]_vars

-----------------------------------------------------------------------------
\* Pages of the memory map given that are usable, and pages of the bitmap
UsablePages == UNION {PagesOf(e) : e \in UsableEntries(memmap)}
BitmapPages == (bitmap \div PAGE_SIZE) .. ((bitmap + bitmap_size) \div PAGE_SIZE) - 1

(***************************************************************************)
(* After pmm_init the bitmap lies in usable memory, and a page below the   *)
(* top is free exactly if the memory map calls it usable and the bitmap    *)
(* does not lie in it: the allocator never hands out reserved memory or    *)
(* the bitmap itself, and wastes no page.  (For the pages whose bit lies   *)
(* in the bitmap: bitmap_top_index / 8 is rounded down before it is        *)
(* rounded up to pages, so up to seven pages at the top may have none.)    *)
(***************************************************************************)
FreeIsUsable ==
  pc = "done" =>
    /\ BitmapPages \subseteq UsablePages
    /\ bitmap_top_index <= 8 * bitmap_size + 7
    /\ \A p \in 0 .. Min({bitmap_top_index, 8 * bitmap_size}) - 1 :
         p \notin used <=> p \in UsablePages \ BitmapPages
=============================================================================
