---------------------------- MODULE PageAllocator ----------------------------
(***************************************************************************)
(* What the physical memory manager promises its callers: a block of n     *)
(* consecutive usable pages that nobody else holds, until it is given      *)
(* back.  Which block, and how it is found, is left open.                  *)
(***************************************************************************)
EXTENDS Integers

CONSTANTS
  Usable,     \* the page frames the allocator manages
  MaxRequest  \* bound of the model: no call asks for more pages

VARIABLE blocks   \* the blocks held by callers: records [start, n]

Block == [start : Usable, n : 1 .. MaxRequest]
PagesOf(b) == b.start .. b.start + b.n - 1

Init == blocks = {}

Alloc(b) ==
  /\ PagesOf(b) \subseteq Usable
  /\ \A c \in blocks : PagesOf(b) \cap PagesOf(c) = {}
  /\ blocks' = blocks \union {b}

Free(b) ==
  /\ b \in blocks
  /\ blocks' = blocks \ {b}

Next == \E b \in Block : Alloc(b) \/ Free(b)

Spec == Init /\ [][Next]_blocks
=============================================================================
