-------------------------------- MODULE KHeap --------------------------------
(***************************************************************************)
(* The kernel heap, kernel/mm/kheap.c, over the page allocator (as         *)
(* PageAllocator promises it) and the page table of the kernel             *)
(* (kernel/mm/vmm.c), seen from processes and from interrupt context.      *)
(*                                                                         *)
(* Processes call k_alloc with interrupts on and may be preempted with a   *)
(* lock held.  System calls call k_alloc, and ustar_close and              *)
(* process_delete call k_free, with interrupts off: such a call is one     *)
(* step, and a lock it finds taken is never released.                      *)
(*                                                                         *)
(* vmm_kernel->arena is assigned only NULL, so every k_alloc gets pages of *)
(* its own.  Every page of memory is mapped at its address plus the hhdm   *)
(* offset by vmm_init; that mapping is what mapped is about.               *)
(***************************************************************************)
EXTENDS Integers, FiniteSets

CONSTANTS
  Threads,
  Page,        \* the usable page frames, integers
  MaxRequest   \* bound of the model: no block has more pages

ASSUME KHeapAssumption ==
  /\ Page \subseteq Nat
  /\ MaxRequest \in Nat \ {0}

VARIABLES
  free,       \* pages the page allocator may hand out
  mapped,     \* pages whose entry in the page table of the kernel is present
  tlb,        \* pages whose translation the CPU has cached
  blocks,     \* blocks returned by k_alloc and not freed
  spin_lock,  \* of pmm.c
  vmm_lock,   \* vmm_kernel->lock
  pc,
  block,      \* the block each thread is allocating
  i,          \* local of k_alloc: pages mapped so far
  halted      \* "no", or why the kernel has stopped

memory == <<free, mapped, tlb>>
locks == <<spin_lock, vmm_lock>>
vars == <<memory, blocks, locks, pc, block, i, halted>>

PagesOf(b) == b.start .. b.start + b.n - 1
Block == {b \in [start : Page, n : 1 .. MaxRequest] : PagesOf(b) \subseteq Page}
NoBlock == [start |-> 0, n |-> 0]

TypeOK ==
  /\ free \subseteq Page
  /\ mapped \subseteq Page
  /\ tlb \subseteq Page
  /\ blocks \subseteq Block
  /\ spin_lock \in {0, 1}
  /\ vmm_lock \in {0, 1}
  /\ pc \in [Threads -> {"idle", "pmm", "search", "zero", "lock", "map"}]
  /\ block \in [Threads -> Block \union {NoBlock}]
  /\ i \in [Threads -> 0 .. MaxRequest]
  /\ halted \in {"no", "no memory", "page fault", "hung"}

Init ==
  /\ free = Page
  /\ mapped = Page
  /\ tlb = {}
  /\ blocks = {}
  /\ spin_lock = 0 /\ vmm_lock = 0
  /\ pc = [t \in Threads |-> "idle"]
  /\ block = [t \in Threads |-> NoBlock]
  /\ i = [t \in Threads |-> 0]
  /\ halted = "no"

At(t, label) == halted = "no" /\ pc[t] = label
Goto(t, label) == pc' = [pc EXCEPT ![t] = label]

Stop(why) ==
  /\ halted' = why
  /\ UNCHANGED <<memory, blocks, locks, pc, block, i>>

\* A page can be touched if it is mapped, or was when its translation was
\* cached: vmm_unmap_page does not flush it ("do some TLB stuff here").
Accessible(b) == PagesOf(b) \subseteq mapped \union tlb

-----------------------------------------------------------------------------
(* k_alloc in a process.  An operator named like the one after it, with a  *)
(* suffix, is a mutant of it: the same code with a bug.                    *)

k_alloc(t) ==
  /\ At(t, "idle")
  /\ Goto(t, "pmm")
  /\ UNCHANGED <<memory, blocks, locks, block, i, halted>>

pmm_lock(t) ==
  /\ At(t, "pmm")
  /\ spin_lock = 0
  /\ spin_lock' = 1
  /\ Goto(t, "search")
  /\ UNCHANGED <<memory, blocks, vmm_lock, block, i, halted>>

\* Pages left to the allocator when it hands out b
TakeNone(b) == free
Take(b) == free \ PagesOf(b)

\* pmm_alloc_nozero, with DIV_ROUNDUP(size + headers, PAGE_SIZE) pages.  It
\* panics if it finds no such run (module PMM tells when).
pmm_alloc_nozero(t) ==
  /\ At(t, "search")
  /\ \/ /\ \E b \in Block :
             /\ PagesOf(b) \subseteq free
             /\ free' = Take(b)
             /\ block' = [block EXCEPT ![t] = b]
        /\ spin_lock' = 0
        /\ Goto(t, "zero")
        /\ UNCHANGED <<mapped, tlb, blocks, vmm_lock, i, halted>>
     \/ Stop("no memory")

\* pmm_alloc zeroes the block at its hhdm address, before k_alloc maps it.
zero(t) ==
  /\ At(t, "zero")
  /\ IF Accessible(block[t])
       THEN /\ tlb' = tlb \union PagesOf(block[t])
            /\ Goto(t, "lock")
            /\ i' = [i EXCEPT ![t] = 0]
            /\ UNCHANGED <<free, mapped, blocks, locks, block, halted>>
       ELSE Stop("page fault")

vmm_map_page_lock(t) ==
  /\ At(t, "lock")
  /\ vmm_lock = 0
  /\ vmm_lock' = 1
  /\ Goto(t, "map")
  /\ UNCHANGED <<memory, blocks, spin_lock, block, i, halted>>

\* i + 1 < number of pages: the loop of k_alloc goes on
MorePages(n, done) == done + 1 < n

\* vmm_lock after spinlock_release
ReleasedNot == 1
Released == 0

\* The rest of vmm_map_page; after the last page k_alloc writes its header
\* and returns.
vmm_map_page(t) ==
  /\ At(t, "map")
  /\ mapped' = mapped \union {block[t].start + i[t]}
  /\ vmm_lock' = Released
  /\ IF MorePages(block[t].n, i[t])
       THEN /\ i' = [i EXCEPT ![t] = i[t] + 1]
            /\ Goto(t, "lock")
            /\ UNCHANGED <<blocks, block>>
       ELSE /\ blocks' = blocks \union {block[t]}
            /\ block' = [block EXCEPT ![t] = NoBlock]
            /\ i' = [i EXCEPT ![t] = 0]
            /\ Goto(t, "idle")
  /\ UNCHANGED <<free, tlb, spin_lock, halted>>

-----------------------------------------------------------------------------
(* Interrupt context.                                                      *)

\* k_alloc called by a system call (vfs_open, ustar_open).
k_alloc_syscall ==
  /\ halted = "no"
  /\ \/ spin_lock = 1 /\ Stop("hung")
     \/ spin_lock = 0 /\ Stop("no memory")
     \/ /\ spin_lock = 0
        /\ \E b \in Block :
             /\ PagesOf(b) \subseteq free
             /\ \/ ~Accessible(b) /\ Stop("page fault")
                \/ Accessible(b) /\ vmm_lock = 1 /\ Stop("hung")
                \/ /\ Accessible(b) /\ vmm_lock = 0
                   /\ free' = Take(b)
                   /\ mapped' = mapped \union PagesOf(b)
                   /\ tlb' = tlb \union PagesOf(b)
                   /\ blocks' = blocks \union {b}
                   /\ UNCHANGED <<locks, pc, block, i, halted>>

\* The pages k_free unmaps
UnmappedOneMore(b) == b.start .. b.start + b.n
Unmapped(b) == PagesOf(b)

(***************************************************************************)
(* k_free: gives the pages back, then unmaps them.  It reads the header of *)
(* the arena again after it has unmapped its page; the translation is      *)
(* still cached, because nothing flushes it in between.                    *)
(***************************************************************************)
k_free(b) ==
  /\ halted = "no"
  /\ \/ (spin_lock = 1 \/ vmm_lock = 1) /\ Stop("hung")
     \/ /\ spin_lock = 0 /\ vmm_lock = 0
        /\ free' = free \union PagesOf(b)
        /\ mapped' = mapped \ Unmapped(b)
        /\ tlb' = tlb \union PagesOf(b)
        /\ blocks' = blocks \ {b}
        /\ UNCHANGED <<locks, pc, block, i, halted>>

\* vmm_switch_pml in a context switch: loading cr3 empties the TLB.
vmm_switch_pml ==
  /\ halted = "no"
  /\ tlb # {}
  /\ tlb' = {}
  /\ UNCHANGED <<free, mapped, blocks, locks, pc, block, i, halted>>

-----------------------------------------------------------------------------
Next ==
  \/ \E t \in Threads :
       \/ k_alloc(t) \/ pmm_lock(t) \/ pmm_alloc_nozero(t) \/ zero(t)
       \/ vmm_map_page_lock(t) \/ vmm_map_page(t)
  \/ k_alloc_syscall
  \/ \E b \in blocks : k_free(b)
  \/ vmm_switch_pml

Spec == Init /\ [][Next]_vars

-----------------------------------------------------------------------------
(* Safety.                                                                 *)

\* Pages of blocks that belong to somebody: returned, or being allocated.
Owned == UNION ({PagesOf(b) : b \in blocks} \union
                {PagesOf(block[t]) : t \in Threads})

(***************************************************************************)
(* Every page of a block that k_alloc has returned is mapped: no k_free of *)
(* another block, and no reuse of a page that was unmapped, takes it away. *)
(***************************************************************************)
LiveMapped == \A b \in blocks : PagesOf(b) \subseteq mapped

(***************************************************************************)
(* Blocks are disjoint, and a page is either free or in a block: k_free    *)
(* gives back exactly the pages that k_alloc took, also when an allocation *)
(* by a system call interrupts one by a process.                           *)
(***************************************************************************)
PagesPartitioned ==
  /\ \A b, c \in blocks : b # c => PagesOf(b) \cap PagesOf(c) = {}
  /\ \A t \in Threads, b \in blocks : PagesOf(block[t]) \cap PagesOf(b) = {}
  /\ \A t, u \in Threads : t # u => PagesOf(block[t]) \cap PagesOf(block[u]) = {}
  /\ free = Page \ Owned

(***************************************************************************)
(* A call with interrupts off hangs only if a process has been preempted   *)
(* inside a critical section of pmm.c or vmm.c: no lock is left behind.    *)
(***************************************************************************)
HangsOnlyOnPreempted ==
  halted = "hung" => \E t \in Threads : pc[t] \in {"search", "map"}
=============================================================================
