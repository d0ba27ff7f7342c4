-------------------------------- MODULE MCPMM --------------------------------
(***************************************************************************)
(* PhysicalMemory for TLC, on a machine of eight pages: page 0 and a hole  *)
(* at page 4 are not usable and page 1 holds the bitmap, so that runs of   *)
(* one, two and three pages exist and get fragmented.  It is one of those  *)
(* that pmm_init is checked on: every sequence of up to MaxEntries entries *)
(* of these lengths and either type, one after the other from page 1.      *)
(***************************************************************************)
EXTENDS PhysicalMemory, FiniteSetsExt

CONSTANTS
  t1, t2,
  Lengths,     \* lengths of entries there are, in pages
  MaxEntries   \* bound of the model: entries of a memory map

MCThreads == {t1, t2}
MCUsable == {2, 3, 5, 6, 7}

MCMemoryMaps ==
  LET base(ls, k) ==
        PAGE_SIZE * (1 + MapThenSumSet(LAMBDA j : ls[j], 1 .. k - 1))
  IN  UNION {{[k \in 1 .. n |-> [usable |-> us[k], base |-> base(ls, k),
                                 length |-> PAGE_SIZE * ls[k]]] :
                us \in [1 .. n -> BOOLEAN], ls \in [1 .. n -> Lengths]} :
             n \in 1 .. MaxEntries}
=============================================================================
