---------------------------- MODULE MemoryProofs ----------------------------
(***************************************************************************)
(* Proofs about KHeap for every number of processes, every set of page     *)
(* frames and every size of blocks.                                        *)
(*                                                                         *)
(* LiveMapped is not inductive: k_free of one block keeps the others       *)
(* mapped only because blocks are disjoint, and k_alloc returns a mapped   *)
(* block only if no k_free has unmapped a page of it between two           *)
(* iterations of its loop.  So the invariant covers the blocks that are    *)
(* still being allocated: they are disjoint from each other and from those *)
(* returned (OwnInv), and mapped as far as the loop has got (MapInv).      *)
(***************************************************************************)
EXTENDS KHeap, VMM, FiniteSetTheorems, TLAPS

\* Each page has one owner, or is free.
OwnInv ==
  /\ \A b, c \in blocks : b # c => PagesOf(b) \cap PagesOf(c) = {}
  /\ \A t \in Threads, b \in blocks : PagesOf(block[t]) \cap PagesOf(b) = {}
  /\ \A t, u \in Threads : t # u => PagesOf(block[t]) \cap PagesOf(block[u]) = {}
  /\ \A p \in Page :
       p \in free <=> /\ \A b \in blocks : p \notin PagesOf(b)
                      /\ \A t \in Threads : p \notin PagesOf(block[t])

\* Where k_alloc is tells which block it has and how much of it is mapped.
MapInv ==
  \A t \in Threads :
    /\ pc[t] \in {"idle", "pmm", "search"} => block[t] = NoBlock
    /\ pc[t] \in {"zero", "lock", "map"} => block[t] \in Block
    /\ pc[t] \in {"lock", "map"} =>
         /\ i[t] < block[t].n
         /\ block[t].start .. block[t].start + i[t] - 1 \subseteq mapped

\* A lock that is taken is held by a process inside its critical section.
LockInv ==
  /\ spin_lock = 1 => \E t \in Threads : pc[t] = "search"
  /\ vmm_lock = 1 => \E t \in Threads : pc[t] = "map"
  /\ HangsOnlyOnPreempted

IInv == TypeOK /\ OwnInv /\ MapInv /\ LockInv /\ LiveMapped

-----------------------------------------------------------------------------
\* A block consists of page frames; a process that is not allocating has none.
LEMMA BlockPages ==
  /\ PagesOf(NoBlock) = {}
  /\ \A b \in Block :
       /\ PagesOf(b) \subseteq Page
       /\ b.start \in Nat /\ b.n \in 1 .. MaxRequest
       /\ b.start \in PagesOf(b)
       /\ \A k \in Nat : k < b.n => b.start + k \in PagesOf(b)
<1>1. PagesOf(NoBlock) = {}
  BY DEF PagesOf, NoBlock
<1>2. ASSUME NEW b \in Block
      PROVE  /\ PagesOf(b) \subseteq Page
             /\ b.start \in Nat /\ b.n \in 1 .. MaxRequest
             /\ b.start \in PagesOf(b)
             /\ \A k \in Nat : k < b.n => b.start + k \in PagesOf(b)
  <2>1. /\ b.start \in Page /\ b.n \in 1 .. MaxRequest
        /\ PagesOf(b) \subseteq Page
    BY DEF Block
  <2>2. b.start \in Nat /\ b.n \in Nat \ {0}
    <3>1. \A m \in 1 .. MaxRequest : m \in Nat \ {0}
      BY KHeapAssumption
    <3> QED BY <2>1, <3>1, KHeapAssumption, Zenon
  <2>3. \A k \in Nat : k < b.n => b.start + k \in b.start .. b.start + b.n - 1
    BY <2>2
  <2>4. b.start \in b.start .. b.start + b.n - 1
    BY <2>2
  <2> QED BY <2>1, <2>2, <2>3, <2>4 DEF PagesOf
<1> QED BY <1>1, <1>2

\* The state that vmm_init leaves satisfies the invariant.
LEMMA InitInv == ASSUME Init PROVE IInv
<1>1. TypeOK
  BY KHeapAssumption DEF Init, TypeOK
<1>2. OwnInv
  BY BlockPages DEF Init, OwnInv
<1>3. MapInv
  BY DEF Init, MapInv
<1> QED BY <1>1, <1>2, <1>3 DEF IInv, Init, LockInv, HangsOnlyOnPreempted, LiveMapped

\* Stopping changes nothing but halted.
LEMMA StopStep ==
  ASSUME IInv, NEW why \in {"no memory", "page fault"}, Stop(why) PROVE IInv'
BY Zenon DEF IInv, TypeOK, OwnInv, MapInv, LockInv, HangsOnlyOnPreempted, LiveMapped,
       Stop, memory, locks

\* A call with interrupts off stops at a lock that somebody holds.
LEMMA HungStep ==
  ASSUME IInv, spin_lock = 1 \/ vmm_lock = 1, Stop("hung") PROVE IInv'
BY Zenon DEF IInv, TypeOK, OwnInv, MapInv, LockInv, HangsOnlyOnPreempted, LiveMapped,
       Stop, memory, locks

\* The first steps of k_alloc, up to the lock of the page allocator.
LEMMA CallStep ==
  ASSUME IInv, NEW t \in Threads, k_alloc(t) \/ pmm_lock(t) PROVE IInv'
<1>1. TypeOK'
  BY Zenon DEF IInv, TypeOK, k_alloc, pmm_lock, At, Goto, memory, locks
<1>2. OwnInv' /\ LiveMapped'
  BY DEF IInv, OwnInv, LiveMapped, k_alloc, pmm_lock, memory
<1>3. MapInv'
  BY Zenon DEF IInv, TypeOK, MapInv, k_alloc, pmm_lock, At, Goto, memory
<1>4. LockInv'
  BY Zenon DEF IInv, TypeOK, LockInv, HangsOnlyOnPreempted, k_alloc, pmm_lock, At, Goto,
         memory, locks
<1> QED BY <1>1, <1>2, <1>3, <1>4 DEF IInv

\* The page allocator hands out a block of free pages.
LEMMA SearchStep ==
  ASSUME IInv, NEW t \in Threads, pmm_alloc_nozero(t) PROVE IInv'
<1>1. CASE Stop("no memory")
  BY <1>1, StopStep, Zenon
<1>2. CASE ~Stop("no memory")
  <2>1. PICK b \in Block : /\ PagesOf(b) \subseteq free
                           /\ free' = free \ PagesOf(b)
                           /\ block' = [block EXCEPT ![t] = b]
    BY <1>2, Zenon DEF pmm_alloc_nozero, Take
  <2>2. /\ spin_lock' = 0
        /\ pc' = [pc EXCEPT ![t] = "zero"]
        /\ UNCHANGED <<mapped, tlb, blocks, vmm_lock, i, halted>>
        /\ pc[t] = "search" /\ halted = "no"
    BY <1>2, Zenon DEF pmm_alloc_nozero, Goto, At
  <2>3. TypeOK'
    BY <2>1, <2>2 DEF IInv, TypeOK
  <2>4. block'[t] = b /\ \A u \in Threads : u # t => block'[u] = block[u]
    BY <2>1, Zenon DEF IInv, TypeOK
  <2>5. PagesOf(b) \subseteq Page
    BY BlockPages
  <2>6. \A p \in PagesOf(b) : /\ \A c \in blocks : p \notin PagesOf(c)
                              /\ \A u \in Threads : p \notin PagesOf(block[u])
    BY <2>1, <2>5 DEF IInv, OwnInv
  <2>7. PagesOf(block[t]) = {}
    BY <2>2, BlockPages DEF IInv, MapInv
  <2>8. OwnInv'
    <3>1. \A c, d \in blocks' : c # d => PagesOf(c) \cap PagesOf(d) = {}
      BY <2>2 DEF IInv, OwnInv
    <3>2. \A u \in Threads, c \in blocks' : PagesOf(block'[u]) \cap PagesOf(c) = {}
      BY <2>2, <2>4, <2>6 DEF IInv, OwnInv
    <3>3. \A u, w \in Threads : u # w => PagesOf(block'[u]) \cap PagesOf(block'[w]) = {}
      BY <2>4, <2>6 DEF IInv, OwnInv
    <3>4. ASSUME NEW p \in Page
          PROVE  p \in free' <=> /\ \A c \in blocks' : p \notin PagesOf(c)
                                 /\ \A u \in Threads : p \notin PagesOf(block'[u])
      BY <2>1, <2>2, <2>4, <2>6, <2>7 DEF IInv, OwnInv
    <3> QED BY <3>1, <3>2, <3>3, <3>4 DEF OwnInv
  <2>9. MapInv'
    BY <2>2, <2>4 DEF IInv, TypeOK, MapInv
  <2>10. LockInv'
    BY <2>2 DEF IInv, TypeOK, LockInv, HangsOnlyOnPreempted
  <2> QED BY <2>2, <2>3, <2>8, <2>9, <2>10 DEF IInv, LiveMapped
<1> QED BY <1>1, <1>2, Zenon

\* Zeroing the block fills the TLB or faults.
LEMMA ZeroStep == ASSUME IInv, NEW t \in Threads, zero(t) PROVE IInv'
<1>1. CASE ~Accessible(block[t])
  BY <1>1, StopStep, Zenon DEF zero
<1>2. CASE Accessible(block[t])
  <2>1. /\ tlb' = tlb \union PagesOf(block[t])
        /\ pc' = [pc EXCEPT ![t] = "lock"]
        /\ i' = [i EXCEPT ![t] = 0]
        /\ UNCHANGED <<free, mapped, blocks, spin_lock, vmm_lock, block, halted>>
        /\ pc[t] = "zero"
    BY <1>2 DEF zero, Goto, At, locks
  <2>2. block[t] \in Block
    BY <2>1 DEF IInv, MapInv
  <2>3. TypeOK'
    <3>1. PagesOf(block[t]) \subseteq Page /\ 0 \in 0 .. MaxRequest
      BY <2>2, BlockPages, KHeapAssumption
    <3> QED BY <2>1, <3>1, Zenon DEF IInv, TypeOK
  <2>4. MapInv'
    <3>1. /\ 0 < block[t].n
          /\ block[t].start .. block[t].start + 0 - 1 = {}
      BY <2>2, BlockPages
    <3> QED BY <2>1, <2>2, <3>1, Zenon DEF IInv, TypeOK, MapInv
  <2>5. LockInv'
    BY <2>1, Zenon DEF IInv, TypeOK, LockInv, HangsOnlyOnPreempted
  <2> QED BY <2>1, <2>3, <2>4, <2>5 DEF IInv, OwnInv, LiveMapped
<1> QED BY <1>1, <1>2

\* vmm_map_page takes its lock.
LEMMA MapLockStep ==
  ASSUME IInv, NEW t \in Threads, vmm_map_page_lock(t) PROVE IInv'
<1>1. TypeOK'
  BY DEF IInv, TypeOK, vmm_map_page_lock, At, Goto, memory
<1>2. OwnInv' /\ LiveMapped'
  BY DEF IInv, OwnInv, LiveMapped, vmm_map_page_lock, memory
<1>3. MapInv'
  BY DEF IInv, TypeOK, MapInv, vmm_map_page_lock, At, Goto, memory
<1>4. LockInv'
  BY DEF IInv, TypeOK, LockInv, HangsOnlyOnPreempted, vmm_map_page_lock, At, Goto,
         memory
<1> QED BY <1>1, <1>2, <1>3, <1>4 DEF IInv

\* vmm_map_page maps one page.  After the last one, k_alloc returns the block.
LEMMA MapStep == ASSUME IInv, NEW t \in Threads, vmm_map_page(t) PROVE IInv'
<1> DEFINE b == block[t]
<1>1. /\ pc[t] = "map" /\ halted = "no"
      /\ mapped' = mapped \union {b.start + i[t]}
      /\ vmm_lock' = 0
      /\ UNCHANGED <<free, tlb, spin_lock, halted>>
  BY DEF vmm_map_page, At, Released
<1>2. /\ b \in Block /\ i[t] < b.n /\ i[t] \in Nat /\ b.n \in 1 .. MaxRequest
      /\ b.start .. b.start + i[t] - 1 \subseteq mapped
  BY <1>1, BlockPages DEF IInv, MapInv, TypeOK
<1>3. b.start + i[t] \in Page /\ b.start \in Nat
  BY <1>2, BlockPages
<1>4. b.start .. b.start + i[t] \subseteq mapped'
  <2>1. b.start .. b.start + i[t]
          = (b.start .. b.start + i[t] - 1) \union {b.start + i[t]}
    BY <1>2, <1>3
  <2> QED BY <1>1, <1>2, <2>1
<1>5. CASE MorePages(b.n, i[t])
  <2>1. /\ i' = [i EXCEPT ![t] = i[t] + 1]
        /\ pc' = [pc EXCEPT ![t] = "lock"]
        /\ UNCHANGED <<blocks, block>>
    BY <1>5 DEF vmm_map_page, Goto
  <2>2. i[t] + 1 < b.n /\ i[t] + 1 \in 0 .. MaxRequest
    BY <1>2, <1>5, KHeapAssumption DEF MorePages
  <2>3. TypeOK'
    BY <1>1, <1>3, <2>1, <2>2 DEF IInv, TypeOK
  <2>4. OwnInv' /\ LiveMapped'
    BY <1>1, <2>1 DEF IInv, OwnInv, LiveMapped
  <2>5. MapInv'
    <3>1. b.start + (i[t] + 1) - 1 = b.start + i[t]
      BY <1>2, <1>3
    <3>2. i'[t] = i[t] + 1 /\ pc'[t] = "lock" /\ block'[t] = b
      BY <2>1, Zenon DEF IInv, TypeOK
    <3>3. \A u \in Threads \ {t} : i'[u] = i[u] /\ pc'[u] = pc[u] /\ block'[u] = block[u]
      BY <2>1, Zenon DEF IInv, TypeOK
    <3> QED BY <1>1, <1>2, <1>4, <2>2, <3>1, <3>2, <3>3 DEF IInv, MapInv
  <2>6. LockInv'
    BY <1>1, <2>1 DEF IInv, TypeOK, LockInv, HangsOnlyOnPreempted
  <2> QED BY <2>3, <2>4, <2>5, <2>6 DEF IInv
<1>6. CASE ~MorePages(b.n, i[t])
  <2>1. /\ blocks' = blocks \union {b}
        /\ block' = [block EXCEPT ![t] = NoBlock]
        /\ i' = [i EXCEPT ![t] = 0]
        /\ pc' = [pc EXCEPT ![t] = "idle"]
    BY <1>6 DEF vmm_map_page, Goto
  <2>2. /\ block'[t] = NoBlock /\ pc'[t] = "idle"
        /\ \A u \in Threads \ {t} : i'[u] = i[u] /\ pc'[u] = pc[u] /\ block'[u] = block[u]
    BY <2>1, Zenon DEF IInv, TypeOK
  <2>3. TypeOK'
    <3>1. 0 \in 0 .. MaxRequest
      BY KHeapAssumption
    <3> QED BY <1>1, <1>2, <1>3, <2>1, <3>1 DEF IInv, TypeOK
  <2>4. PagesOf(b) \subseteq mapped'
    <3>1. b.n = i[t] + 1
      BY <1>2, <1>6 DEF MorePages
    <3>2. b.start + b.n - 1 = b.start + i[t]
      BY <1>2, <1>3, <3>1
    <3> QED BY <1>4, <3>2 DEF PagesOf
  <2>5. LiveMapped'
    BY <1>1, <2>1, <2>4 DEF IInv, LiveMapped
  <2>6. OwnInv'
    <3>1. \A c, d \in blocks' : c # d => PagesOf(c) \cap PagesOf(d) = {}
      BY <2>1 DEF IInv, OwnInv
    <3>2. \A u \in Threads, c \in blocks' : PagesOf(block'[u]) \cap PagesOf(c) = {}
      BY <2>1, <2>2, BlockPages DEF IInv, OwnInv
    <3>3. \A u, w \in Threads : u # w => PagesOf(block'[u]) \cap PagesOf(block'[w]) = {}
      BY <2>2, BlockPages DEF IInv, OwnInv
    <3>4. ASSUME NEW p \in Page
          PROVE  p \in free' <=> /\ \A c \in blocks' : p \notin PagesOf(c)
                                 /\ \A u \in Threads : p \notin PagesOf(block'[u])
      BY <1>1, <2>1, <2>2, BlockPages DEF IInv, OwnInv
    <3> QED BY <3>1, <3>2, <3>3, <3>4 DEF OwnInv
  <2>7. MapInv'
    BY <1>1, <2>2 DEF IInv, MapInv
  <2>8. LockInv'
    BY <1>1, <2>1 DEF IInv, TypeOK, LockInv, HangsOnlyOnPreempted
  <2> QED BY <2>3, <2>5, <2>6, <2>7, <2>8 DEF IInv
<1> QED BY <1>5, <1>6

\* k_alloc in a system call does all of this at once, or stops.
LEMMA SyscallStep == ASSUME IInv, k_alloc_syscall PROVE IInv'
<1>1. CASE Stop("no memory") \/ Stop("page fault")
  BY <1>1, StopStep, Zenon
<1>2. CASE (spin_lock = 1 \/ vmm_lock = 1) /\ Stop("hung")
  BY <1>2, HungStep
<1>3. ASSUME NEW b \in Block, PagesOf(b) \subseteq free,
             free' = free \ PagesOf(b),
             mapped' = mapped \union PagesOf(b),
             tlb' = tlb \union PagesOf(b),
             blocks' = blocks \union {b},
             UNCHANGED <<locks, pc, block, i, halted>>
      PROVE  IInv'
  <2>1. PagesOf(b) \subseteq Page
    BY BlockPages
  <2>2. \A p \in PagesOf(b) : /\ \A c \in blocks : p \notin PagesOf(c)
                              /\ \A u \in Threads : p \notin PagesOf(block[u])
    BY <1>3, <2>1 DEF IInv, OwnInv
  <2>3. TypeOK'
    BY <1>3, <2>1, Zenon DEF IInv, TypeOK, locks
  <2>4. OwnInv'
    <3>1. \A c, d \in blocks' : c # d => PagesOf(c) \cap PagesOf(d) = {}
      BY <1>3, <2>2 DEF IInv, OwnInv
    <3>2. \A u \in Threads, c \in blocks' : PagesOf(block'[u]) \cap PagesOf(c) = {}
      BY <1>3, <2>2 DEF IInv, OwnInv
    <3>3. \A u, w \in Threads : u # w => PagesOf(block'[u]) \cap PagesOf(block'[w]) = {}
      BY <1>3 DEF IInv, OwnInv
    <3>4. ASSUME NEW p \in Page
          PROVE  p \in free' <=> /\ \A c \in blocks' : p \notin PagesOf(c)
                                 /\ \A u \in Threads : p \notin PagesOf(block'[u])
      BY <1>3, <2>2 DEF IInv, OwnInv
    <3> QED BY <3>1, <3>2, <3>3, <3>4 DEF OwnInv
  <2>5. MapInv' /\ LiveMapped'
    BY <1>3 DEF IInv, MapInv, LiveMapped
  <2>6. LockInv'
    BY <1>3 DEF IInv, LockInv, HangsOnlyOnPreempted, locks
  <2> QED BY <2>3, <2>4, <2>5, <2>6 DEF IInv
<1> QED BY <1>1, <1>2, <1>3, Zenon DEF k_alloc_syscall, Take

\* k_free gives back and unmaps pages that nobody else has.
LEMMA FreeStep == ASSUME IInv, NEW b \in blocks, k_free(b) PROVE IInv'
<1>1. CASE (spin_lock = 1 \/ vmm_lock = 1) /\ Stop("hung")
  BY <1>1, HungStep
<1>2. CASE /\ free' = free \union PagesOf(b)
           /\ mapped' = mapped \ PagesOf(b)
           /\ tlb' = tlb \union PagesOf(b)
           /\ blocks' = blocks \ {b}
           /\ UNCHANGED <<locks, pc, block, i, halted>>
  <2>1. PagesOf(b) \subseteq Page
    BY BlockPages, Zenon DEF IInv, TypeOK
  <2>2. TypeOK'
    BY <1>2, <2>1, Zenon DEF IInv, TypeOK, locks
  <2>3. OwnInv'
    <3>1. \A c, d \in blocks' : c # d => PagesOf(c) \cap PagesOf(d) = {}
      BY <1>2 DEF IInv, OwnInv
    <3>2. \A u \in Threads, c \in blocks' : PagesOf(block'[u]) \cap PagesOf(c) = {}
      BY <1>2 DEF IInv, OwnInv
    <3>3. \A u, w \in Threads : u # w => PagesOf(block'[u]) \cap PagesOf(block'[w]) = {}
      BY <1>2 DEF IInv, OwnInv
    <3>4. ASSUME NEW p \in Page
          PROVE  p \in free' <=> /\ \A c \in blocks' : p \notin PagesOf(c)
                                 /\ \A u \in Threads : p \notin PagesOf(block'[u])
      BY <1>2 DEF IInv, OwnInv
    <3> QED BY <3>1, <3>2, <3>3, <3>4 DEF OwnInv
  <2>4. LiveMapped'
    BY <1>2 DEF IInv, OwnInv, LiveMapped
  <2>5. MapInv'
    <3>1. ASSUME NEW t \in Threads, pc[t] \in {"lock", "map"}
          PROVE  block[t].start .. block[t].start + i[t] - 1 \subseteq mapped'
      <4>1. /\ block[t] \in Block /\ i[t] < block[t].n /\ i[t] \in Nat
            /\ block[t].start .. block[t].start + i[t] - 1 \subseteq mapped
        <5>1. i[t] \in 0 .. MaxRequest
          BY Zenon DEF IInv, TypeOK
        <5>2. \A m \in 0 .. MaxRequest : m \in Nat
          BY KHeapAssumption
        <5>3. pc[t] \in {"zero", "lock", "map"}
          BY <3>1
        <5> QED BY <3>1, <5>1, <5>2, <5>3 DEF IInv, MapInv
      <4>2. block[t].start .. block[t].start + i[t] - 1 \subseteq PagesOf(block[t])
        BY <4>1, BlockPages DEF PagesOf
      <4> QED BY <1>2, <4>1, <4>2 DEF IInv, OwnInv
    <3> QED BY <1>2, <3>1 DEF IInv, MapInv
  <2>6. LockInv'
    BY <1>2 DEF IInv, LockInv, HangsOnlyOnPreempted, locks
  <2> QED BY <2>2, <2>3, <2>4, <2>5, <2>6 DEF IInv
<1> QED BY <1>1, <1>2 DEF k_free, Unmapped

\* A context switch empties the TLB.
LEMMA SwitchStep == ASSUME IInv, vmm_switch_pml PROVE IInv'
BY DEF IInv, TypeOK, OwnInv, MapInv, LockInv, HangsOnlyOnPreempted, LiveMapped,
       vmm_switch_pml, locks

\* Every step of the heap, in processes and with interrupts off, preserves the
\* invariant.
LEMMA NextInv == ASSUME IInv, [Next]_vars PROVE IInv'
<1>1. CASE UNCHANGED vars
  BY <1>1, Zenon DEF vars, memory, locks, IInv, TypeOK, OwnInv, MapInv, LockInv,
              HangsOnlyOnPreempted, LiveMapped
<1> QED BY <1>1, CallStep, SearchStep, ZeroStep, MapLockStep, MapStep,
           SyscallStep, FreeStep, SwitchStep DEF Next

\* The invariant holds in every reachable state.
LEMMA Inductive == Spec => []IInv
BY InitInv, NextInv, PTL DEF Spec

(***************************************************************************)
(* Every variable of the heap keeps its type: k_alloc never maps a page    *)
(* that is not a page frame.                                               *)
(***************************************************************************)
THEOREM TypeCorrect == Spec => []TypeOK
<1>1. IInv => TypeOK
  BY DEF IInv
<1> QED BY <1>1, Inductive, PTL

(***************************************************************************)
(* Every page of a block that k_alloc has returned stays mapped until      *)
(* k_free gets that block.                                                 *)
(***************************************************************************)
THEOREM LiveStaysMapped == Spec => []LiveMapped
<1>1. IInv => LiveMapped
  BY DEF IInv
<1> QED BY <1>1, Inductive, PTL

(***************************************************************************)
(* Blocks of the heap are disjoint, and no page leaks: it is free or in    *)
(* one block.                                                              *)
(***************************************************************************)
THEOREM HeapPartitioned == Spec => []PagesPartitioned
<1>1. ASSUME IInv PROVE PagesPartitioned
  <2>1. \A p : p \in Owned <=> \/ \E b \in blocks : p \in PagesOf(b)
                               \/ \E t \in Threads : p \in PagesOf(block[t])
    BY DEF Owned
  <2>2. free = Page \ Owned
    BY <1>1, <2>1, Zenon DEF IInv, TypeOK, OwnInv
  <2> QED BY <1>1, <2>2 DEF IInv, OwnInv, PagesPartitioned
<1> QED BY <1>1, Inductive, PTL

(***************************************************************************)
(* A call with interrupts off hangs only on a lock whose holder has been   *)
(* preempted in its critical section.                                      *)
(***************************************************************************)
THEOREM NoLockLeftBehind == Spec => []HangsOnlyOnPreempted
<1>1. IInv => HangsOnlyOnPreempted
  BY DEF IInv, LockInv
<1> QED BY <1>1, Inductive, PTL

-----------------------------------------------------------------------------
(***************************************************************************)
(* Proofs about VMM for every number of level 4 entries, address spaces    *)
(* and processes that map pages.                                           *)
(*                                                                         *)
(* KernelHalfShared speaks of address spaces that vmm_new has finished.    *)
(* It is inductive only together with what holds in the middle of the copy *)
(* (CopiedInv), and that rests on vmm_init: once it has returned, no entry *)
(* of the higher half ever changes (BootInv), so that nothing is copied    *)
(* too early.                                                              *)
(***************************************************************************)

\* Level 4 entries of the kernel that have a table
Present == {x \in Index : pml["kernel"][x] # None}

\* vmm_init has filled the higher half by the time anything is mapped or
\* copied; and there is a table for every entry in use.
BootInv ==
  /\ booted => \A x \in BootEntries : pml["kernel"][x] # None
  /\ ~booted => \A v \in Spaces : copied[v] = 0
  /\ ~booted => \A m \in Mappers : vmm_pc[m] = "idle"
  /\ tables = Cardinality(Present)

\* The entries that vmm_new has copied are those of the kernel.
CopiedInv ==
  \A v \in Spaces, x \in Higher :
    x < copied[v] => pml[v][x] = pml["kernel"][x]

VMMInv == VMMTypeOK /\ BootInv /\ CopiedInv

-----------------------------------------------------------------------------
\* What the proofs use of the constants: 0 marks the absence of a table, and
\* the entries that vmm_init fills are entries of a level 4 table.
LEMMA Constants ==
  /\ None \notin Table
  /\ Higher \subseteq BootEntries /\ BootEntries \subseteq Index
  /\ Index \subseteq Int /\ First \in Higher
  /\ 0 \in 0 .. Last + 1
  /\ "kernel" \notin Spaces
BY VMMAssumption DEF None, Table, Higher, BootEntries, Index

\* As long as an entry is empty there is a table left for it.
LEMMA TableLeft ==
  ASSUME VMMTypeOK, tables = Cardinality(Present),
         NEW x \in Index, pml["kernel"][x] = None
  PROVE  /\ tables + 1 \in Table
         /\ tables + 1 = Cardinality(Present \union {x})
<1>1. IsFiniteSet(Index) /\ Cardinality(Index) = Last + 1
  BY FS_Interval, VMMAssumption DEF Index
<1>2. /\ IsFiniteSet(Present) /\ Cardinality(Present) <= Last + 1
      /\ Cardinality(Present) = Last + 1 => Present = Index
  BY <1>1, FS_Subset DEF Present
<1>3. x \notin Present
  BY DEF Present
<1>4. Cardinality(Present) \in Nat
  BY <1>2, FS_CardinalityType
<1>5. Cardinality(Present) < Last + 1
  BY <1>2, <1>3, <1>4, VMMAssumption
<1>6. Cardinality(Present \union {x}) = Cardinality(Present) + 1
  BY <1>2, <1>3, FS_AddElement, Zenon
<1> QED BY <1>4, <1>5, <1>6, VMMAssumption DEF Table

\* The state before vmm_init satisfies the invariant.
LEMMA VMMInitInv == ASSUME VMMInit PROVE VMMInv
<1>1. VMMTypeOK
  <2>1. want \in [Mappers -> Higher \X Leaf]
    <3>1. PICK l \in Leaf : want = [m \in Mappers |-> <<First, l>>]
      BY DEF VMMInit
    <3>2. <<First, l>> \in Higher \X Leaf
      BY Constants
    <3> QED BY <3>1, <3>2
  <2>2. /\ pml \in [Spaces \union {"kernel"} -> [Index -> Table \union {None}]]
        /\ leaves \in [Table -> SUBSET Leaf]
    BY DEF VMMInit
  <2>3. /\ tables \in 0 .. Last + 1
        /\ copied \in [Spaces -> 0 .. Last + 1]
    BY Constants DEF VMMInit
  <2> QED BY <2>1, <2>2, <2>3, Zenon DEF VMMInit, VMMTypeOK
<1>2. Present = {}
  BY DEF VMMInit, Present
<1>3. BootInv
  BY <1>2, FS_EmptySet DEF VMMInit, BootInv
<1>4. CopiedInv
  BY Constants, VMMAssumption DEF VMMInit, CopiedInv, Higher
<1> QED BY <1>1, <1>3, <1>4 DEF VMMInv

\* vmm_init allocates the table of one more entry; nothing is copied yet.
LEMMA InitEntryStep == ASSUME VMMInv, vmm_init_entry PROVE VMMInv'
<1> USE DEF VMMInv
<1>1. PICK x \in BootEntries : pml["kernel"][x] = None /\ walk_pte(x)
  BY DEF vmm_init_entry
<1>2. x \in Index
  BY Constants
<1>3. tables' = tables + 1 /\ pml' = [pml EXCEPT !["kernel"][x] = tables + 1]
  BY <1>1 DEF walk_pte
<1>4. tables + 1 \in Table /\ tables + 1 = Cardinality(Present \union {x})
  BY <1>1, <1>2, TableLeft DEF BootInv
<1>5. VMMTypeOK'
  BY <1>2, <1>3, <1>4, Constants, VMMAssumption DEF VMMTypeOK, Table, vmm_init_entry
<1>6. Present' = Present \union {x}
  BY <1>2, <1>3, <1>4, Constants DEF VMMTypeOK, Present
<1>7. BootInv'
  BY <1>3, <1>4, <1>6 DEF BootInv, vmm_init_entry
<1>8. CopiedInv'
  BY Constants, VMMAssumption DEF BootInv, CopiedInv, vmm_init_entry, Higher
<1> QED BY <1>5, <1>7, <1>8

\* vmm_init returns when every entry it is responsible for has a table.
LEMMA InitDoneStep == ASSUME VMMInv, vmm_init_done PROVE VMMInv'
BY DEF VMMInv, VMMTypeOK, BootInv, Present, CopiedInv, vmm_init_done

\* The calls and the lock of vmm_map_page touch no table.
LEMMA MapCallStep ==
  ASSUME VMMInv, NEW m \in Mappers,
         \/ \E x \in Higher, l \in Leaf : vmm_map_page_call(m, x, l)
         \/ vmm_map_page_acquire(m)
  PROVE  VMMInv'
<1>1. VMMTypeOK' /\ BootInv'
  <2>1. ASSUME NEW x \in Higher, NEW l \in Leaf, vmm_map_page_call(m, x, l)
        PROVE  VMMTypeOK' /\ BootInv'
    <3>1. want' \in [Mappers -> Higher \X Leaf]
      BY <2>1 DEF VMMInv, VMMTypeOK, vmm_map_page_call
    <3>2. VMMTypeOK'
      BY <2>1, <3>1 DEF VMMInv, VMMTypeOK, vmm_map_page_call
    <3> QED BY <2>1, <3>2 DEF VMMInv, BootInv, Present, vmm_map_page_call
  <2>2. ASSUME vmm_map_page_acquire(m) PROVE VMMTypeOK' /\ BootInv'
    <3>1. booted
      BY <2>2 DEF VMMInv, BootInv, vmm_map_page_acquire
    <3>2. VMMTypeOK'
      BY <2>2 DEF VMMInv, VMMTypeOK, vmm_map_page_acquire
    <3> QED BY <2>2, <3>1, <3>2 DEF VMMInv, BootInv, Present, vmm_map_page_acquire
  <2> QED BY <2>1, <2>2
<1>3. CopiedInv'
  BY DEF VMMInv, CopiedInv, vmm_map_page_call, vmm_map_page_acquire
<1> QED BY <1>1, <1>3 DEF VMMInv

\* After vmm_init, walk_pte finds a table for every entry of the higher half
\* and so changes no level 4 table.
LEMMA MapWalkStep ==
  ASSUME VMMInv, NEW m \in Mappers, vmm_map_page_walk(m) PROVE VMMInv'
<1>1. booted
  BY DEF VMMInv, BootInv, vmm_map_page_walk
<1>2. want[m][1] \in Higher
  BY DEF VMMInv, VMMTypeOK
<1>3. UNCHANGED <<pml, tables>>
  BY <1>1, <1>2, Constants DEF VMMInv, BootInv, vmm_map_page_walk, walk_pte
<1>4. VMMTypeOK'
  BY <1>3 DEF VMMInv, VMMTypeOK, vmm_map_page_walk
<1>5. BootInv'
  BY <1>1, <1>3 DEF VMMInv, BootInv, Present, vmm_map_page_walk
<1>6. CopiedInv'
  BY <1>3 DEF VMMInv, CopiedInv, vmm_map_page_walk
<1> QED BY <1>4, <1>5, <1>6 DEF VMMInv

\* Setting a leaf.
LEMMA MapSetStep ==
  ASSUME VMMInv, NEW m \in Mappers, vmm_map_page_set(m) PROVE VMMInv'
<1>1. booted
  BY DEF VMMInv, BootInv, vmm_map_page_set
<1>2. want[m][1] \in Higher /\ want[m][2] \in Leaf
  BY DEF VMMInv, VMMTypeOK
<1>3. pml["kernel"][want[m][1]] \in Table
  <2>1. pml["kernel"][want[m][1]] # None
    BY <1>1, <1>2, Constants, Zenon DEF VMMInv, BootInv
  <2>2. \A x \in Index : pml["kernel"][x] \in Table \union {None}
    BY DEF VMMInv, VMMTypeOK
  <2> QED BY <1>2, <2>1, <2>2, Constants, Zenon
<1>4. VMMTypeOK'
  BY <1>2, <1>3 DEF VMMInv, VMMTypeOK, vmm_map_page_set
<1>5. BootInv'
  BY <1>1 DEF VMMInv, BootInv, Present, vmm_map_page_set
<1>6. CopiedInv'
  BY DEF VMMInv, CopiedInv, vmm_map_page_set
<1> QED BY <1>4, <1>5, <1>6 DEF VMMInv

\* Clearing a leaf.
LEMMA UnmapStep ==
  ASSUME VMMInv, NEW x \in Higher, NEW l \in Leaf, vmm_unmap_page(x, l)
  PROVE  VMMInv'
<1>1. pml["kernel"][x] \in Table
  BY Constants DEF VMMInv, VMMTypeOK, vmm_unmap_page
<1>2. VMMTypeOK'
  BY <1>1 DEF VMMInv, VMMTypeOK, vmm_unmap_page
<1>3. BootInv'
  BY DEF VMMInv, BootInv, Present, vmm_unmap_page
<1>4. CopiedInv'
  BY DEF VMMInv, CopiedInv, vmm_unmap_page
<1> QED BY <1>2, <1>3, <1>4 DEF VMMInv

\* vmm_new copies one more entry, which the kernel will not change any more.
LEMMA CopyStep ==
  ASSUME VMMInv, NEW v \in Spaces, vmm_new_copy(v) PROVE VMMInv'
<1>1. copied[v] \in Index
  BY VMMAssumption DEF VMMInv, VMMTypeOK, vmm_new_copy, Index
<1>2. pml'["kernel"] = pml["kernel"]
  BY Constants DEF VMMInv, VMMTypeOK, vmm_new_copy
<1>3. VMMTypeOK'
  BY <1>1, VMMAssumption DEF VMMInv, VMMTypeOK, vmm_new_copy, Index
<1>4. BootInv'
  BY <1>2, Zenon DEF VMMInv, BootInv, Present, vmm_new_copy
<1>5. ASSUME NEW w \in Spaces, NEW x \in Higher, x < copied'[w]
      PROVE  pml'[w][x] = pml'["kernel"][x]
  <2>1. CASE w # v
    BY <1>2, <1>5, <2>1 DEF VMMInv, VMMTypeOK, CopiedInv, vmm_new_copy
  <2>2. CASE w = v /\ x # copied[v]
    <3>1. x < copied[v]
      <4>1. copied'[v] = copied[v] + 1 /\ copied[v] \in Int /\ x \in Int
        BY VMMAssumption DEF VMMInv, VMMTypeOK, vmm_new_copy, Higher
      <4> QED BY <1>5, <2>2, <4>1
    <3> QED BY <1>1, <1>2, <2>2, <3>1, Constants DEF VMMInv, VMMTypeOK, CopiedInv, vmm_new_copy
  <2>3. CASE w = v /\ x = copied[v]
    BY <1>1, <1>2, <2>3, Constants DEF VMMInv, VMMTypeOK, vmm_new_copy
  <2> QED BY <2>1, <2>2, <2>3
<1>6. CopiedInv'
  BY <1>5 DEF CopiedInv
<1> QED BY <1>3, <1>4, <1>6 DEF VMMInv

\* Every step of vmm_init, vmm_map_page, vmm_unmap_page and vmm_new preserves
\* the invariant.
LEMMA VMMNextInv == ASSUME VMMInv, [VMMNext]_vmm_vars PROVE VMMInv'
<1>1. CASE UNCHANGED vmm_vars
  BY <1>1 DEF vmm_vars, VMMInv, VMMTypeOK, BootInv, Present, CopiedInv
<1> QED BY <1>1, InitEntryStep, InitDoneStep, MapCallStep, MapWalkStep,
           MapSetStep, UnmapStep, CopyStep DEF VMMNext

\* The invariant holds in every reachable state.
LEMMA VMMInductive == VMMSpec => []VMMInv
BY VMMInitInv, VMMNextInv, PTL DEF VMMSpec

(***************************************************************************)
(* Address spaces are well formed: level 4 entries name tables that have   *)
(* been allocated, and there are never more tables than entries.           *)
(***************************************************************************)
THEOREM VMMTypeCorrect == VMMSpec => []VMMTypeOK
<1>1. VMMInv => VMMTypeOK
  BY DEF VMMInv
<1> QED BY <1>1, VMMInductive, PTL

(***************************************************************************)
(* What the kernel maps in the higher half is mapped alike in the address  *)
(* space of every process, whenever vmm_new has copied it.                 *)
(***************************************************************************)
THEOREM KernelHalfAlwaysShared == VMMSpec => []KernelHalfShared
<1>1. ASSUME VMMInv PROVE KernelHalfShared
  <2> SUFFICES ASSUME NEW v \in Spaces, copied[v] = Last + 1,
                      NEW x \in Higher, NEW l \in Leaf
               PROVE  Translates(v, x, l) <=> Translates("kernel", x, l)
    BY DEF KernelHalfShared
  <2>1. x < copied[v]
    BY VMMAssumption DEF Higher
  <2> QED BY <1>1, <2>1 DEF VMMInv, CopiedInv, Translates
<1> QED BY <1>1, VMMInductive, PTL

(***************************************************************************)
(* After vmm_init no level 4 entry of the kernel changes: this is why one  *)
(* copy of them is enough for all later mappings of the heap.              *)
(***************************************************************************)
THEOREM KernelEntriesFixed == VMMSpec => [][booted => pml'["kernel"] = pml["kernel"]]_vmm_vars
<1> DEFINE A == booted => pml'["kernel"] = pml["kernel"]
<1>1. ASSUME VMMInv, VMMNext, booted PROVE pml'["kernel"] = pml["kernel"]
  <2>1. ASSUME NEW m \in Mappers, vmm_map_page_walk(m)
        PROVE  pml'["kernel"] = pml["kernel"]
    BY <1>1, <2>1, Constants, Zenon DEF VMMInv, BootInv, VMMTypeOK, vmm_map_page_walk, walk_pte
  <2>2. ASSUME NEW v \in Spaces, vmm_new_copy(v)
        PROVE  pml'["kernel"] = pml["kernel"]
    BY <1>1, <2>2, Constants DEF VMMInv, VMMTypeOK, vmm_new_copy
  <2> QED BY <1>1, <2>1, <2>2, Zenon DEF VMMNext, vmm_init_entry, vmm_init_done,
             vmm_map_page_call, vmm_map_page_acquire, vmm_map_page_set, vmm_unmap_page
<1>2. VMMInv /\ [VMMNext]_vmm_vars => [A]_vmm_vars
  BY <1>1
<1> HIDE DEF A
<1>3. VMMSpec => [][A]_vmm_vars
  BY <1>2, VMMInductive, PTL DEF VMMSpec
<1> QED BY <1>3 DEF A
=============================================================================
