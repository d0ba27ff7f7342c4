---------------------------- MODULE PhysicalMemory ----------------------------
(***************************************************************************)
(* kernel/mm/pmm.c from boot on: pmm_init (PMMInit) sets up the bitmap on  *)
(* some machine, and the threads allocate from it (PMM).  The bits of the  *)
(* bitmap are those that pmm_init leaves; the machines of which Top and    *)
(* Usable are true go on after boot, the others stop there.                *)
(***************************************************************************)
EXTENDS PMM

CONSTANTS PAGE_SIZE, MemoryMaps   \* see PMMInit

VARIABLES memmap, entries, bitmap_top_index, bitmap_size, bitmap_address, used, boot_pc

Boot == INSTANCE PMMInit WITH bitmap <- bitmap_address, pc <- boot_pc

ASSUME PhysicalMemoryAssumption ==
  /\ PAGE_SIZE \in Nat \ {0}
  /\ \A m \in MemoryMaps : Boot!IsMemoryMap(m)

bootvars == <<memmap, entries, bitmap_top_index, bitmap_size, bitmap_address, used, boot_pc>>
allvars == <<vars, bootvars>>

MemoryInit == Boot!Init /\ Init

\* This is the machine the constants describe, and all its pages have a bit
\* (see FreeIsUsable).
Described ==
  /\ bitmap_top_index = Top
  /\ Top <= 8 * bitmap_size
  /\ Boot!UsablePages \ Boot!BitmapPages = Usable

Booted == boot_pc = "done" /\ Described

\* pmm_init: its last loop leaves the bits that PMM works on.
pmm_init ==
  /\ Boot!Next
  /\ bitmap' = IF Booted' THEN [p \in Page |-> p \in used'] ELSE bitmap
  /\ UNCHANGED <<bitmap_prev_index, spin_lock, pc, locals, blocks, halted>>

\* A step of the threads
Step(t) == Booted /\ (Call(t) \/ Inside(t)) /\ UNCHANGED bootvars

MemoryNext == pmm_init \/ \E t \in Threads : Step(t)

MemorySpec == MemoryInit /\ [][MemoryNext]_allvars
MemoryFairSpec ==
  MemorySpec /\ \A t \in Threads : WF_allvars(Booted /\ Inside(t) /\ UNCHANGED bootvars)

\* See PMMInit: the free pages are the usable ones that the bitmap leaves.
FreeIsUsable == Boot!FreeIsUsable
=============================================================================
