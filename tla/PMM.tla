--------------------------------- MODULE PMM ---------------------------------
(***************************************************************************)
(* The physical memory manager, kernel/mm/pmm.c: a bitmap with one bit per *)
(* page frame, searched next-fit from bitmap_prev_index, under a spinlock. *)
(*                                                                         *)
(* Threads are the processes that call it.  The timer may preempt a thread *)
(* inside the critical section, so every iteration of a loop is a step.    *)
(* Calls made with interrupts off (by a system call or by schedule()) are  *)
(* the subject of KHeap: one that finds the lock taken never returns.      *)
(***************************************************************************)
EXTENDS Integers

CONSTANTS
  Threads,
  Top,        \* bitmap_top_index
  Usable,     \* pages whose bit pmm_init has cleared
  MaxRequest  \* bound of the model: no call asks for more pages

\* Limine never reports page 0 as usable, so no allocation returns address 0,
\* which pmm_alloc_nozero would take for a failure.
ASSUME PMMAssumption ==
  /\ Top \in Nat
  /\ Usable \subseteq 1 .. Top - 1
  /\ MaxRequest \in Nat \ {0}

Page == 0 .. Top - 1
Request == 1 .. MaxRequest

VARIABLES
  bitmap,             \* TRUE: the bit of the page is set, it is in use
  bitmap_prev_index,  \* where the next search starts
  spin_lock,          \* the lock word, 0 or 1
  pc,                 \* where each thread is
  n_pages,            \* argument of the call of each thread
  index,              \* bitmap_index + i of pmm_free, or the block returned
  consecutive_pages,  \* local of physical_alloc
  prev_index,         \* local of pmm_alloc_nozero
  blocks,             \* history variable: blocks held by callers
  halted              \* "no", or the panic that stopped the kernel

locals == <<n_pages, index, consecutive_pages, prev_index>>
vars == <<bitmap, bitmap_prev_index, spin_lock, pc, locals, blocks, halted>>

PagesOf(b) == b.start .. b.start + b.n - 1

TypeOK ==
  /\ bitmap \in [Page -> BOOLEAN]
  /\ bitmap_prev_index \in 0 .. Top
  /\ spin_lock \in {0, 1}
  /\ pc \in [Threads -> {"idle", "alloc", "scan", "rescan", "free", "clear",
                         "unlock"}]
  /\ n_pages \in [Threads -> 0 .. MaxRequest]
  /\ index \in [Threads -> 0 .. Top]
  /\ consecutive_pages \in [Threads -> 0 .. Top]
  /\ prev_index \in [Threads -> 0 .. Top]
  /\ blocks \subseteq [start : Page, n : Request]
  /\ halted \in {"no", "no memory", "already free"}

\* The state pmm_init leaves, which PhysicalMemory derives from PMMInit.
Init ==
  /\ bitmap = [p \in Page |-> p \notin Usable]
  /\ bitmap_prev_index = 0
  /\ spin_lock = 0
  /\ pc = [t \in Threads |-> "idle"]
  /\ n_pages = [t \in Threads |-> 0]
  /\ index = [t \in Threads |-> 0]
  /\ consecutive_pages = [t \in Threads |-> 0]
  /\ prev_index = [t \in Threads |-> 0]
  /\ blocks = {}
  /\ halted = "no"

At(t, label) == halted = "no" /\ pc[t] = label

-----------------------------------------------------------------------------
(* An operator named like the one after it, with a suffix, is a mutant of  *)
(* it: the same code with a bug.                                           *)

\* spinlock_test_and_acq: the compare-and-swap can succeed.
LockFree == spin_lock = 0

\* A thread calls pmm_alloc(n).
pmm_alloc(t, n) ==
  /\ At(t, "idle")
  /\ pc' = [pc EXCEPT ![t] = "alloc"]
  /\ n_pages' = [n_pages EXCEPT ![t] = n]
  /\ UNCHANGED <<bitmap, bitmap_prev_index, spin_lock, index,
                 consecutive_pages, prev_index, blocks, halted>>

\* pmm_alloc_nozero takes the lock and calls physical_alloc.
pmm_alloc_nozero(t) ==
  /\ At(t, "alloc")
  /\ LockFree
  /\ spin_lock' = 1
  /\ prev_index' = [prev_index EXCEPT ![t] = bitmap_prev_index]
  /\ consecutive_pages' = [consecutive_pages EXCEPT ![t] = 0]
  /\ pc' = [pc EXCEPT ![t] = "scan"]
  /\ UNCHANGED <<bitmap, bitmap_prev_index, n_pages, index, blocks, halted>>

\* limit of the first and of the second call of physical_alloc
LimitOneMore(t) == IF pc[t] = "scan" THEN Top ELSE Top - 1
Limit(t) == IF pc[t] = "scan" THEN Top ELSE prev_index[t]

Scanning(t) == halted = "no" /\ pc[t] \in {"scan", "rescan"}

\* consecutive_pages after a look at a page
RunLengthNoReset(used, c) == IF used THEN c ELSE c + 1
RunLength(used, c) == IF used THEN 0 ELSE c + 1

\* One iteration of physical_alloc that does not complete the run.
physical_alloc_next(t) ==
  /\ Scanning(t)
  /\ bitmap_prev_index < Limit(t)
  /\ LET used == bitmap[bitmap_prev_index]
         run  == RunLength(used, consecutive_pages[t])
     IN  /\ used \/ run # n_pages[t]
         /\ consecutive_pages' = [consecutive_pages EXCEPT ![t] = run]
  /\ bitmap_prev_index' = bitmap_prev_index + 1
  /\ UNCHANGED <<bitmap, spin_lock, pc, n_pages, index, prev_index, blocks,
                 halted>>

\* The iteration that completes the run, and the return of its first page.
FirstPage(last, n) == last + 1 - n

physical_alloc_found(t) ==
  /\ Scanning(t)
  /\ bitmap_prev_index < Limit(t)
  /\ ~bitmap[bitmap_prev_index]
  /\ RunLength(FALSE, consecutive_pages[t]) = n_pages[t]
  /\ LET b == [start |-> FirstPage(bitmap_prev_index, n_pages[t]),
               n |-> n_pages[t]]
     IN  /\ bitmap' = [p \in Page |-> bitmap[p] \/ p \in PagesOf(b)]
         /\ blocks' = blocks \union {b}
         /\ index' = [index EXCEPT ![t] = b.start]
  /\ bitmap_prev_index' = bitmap_prev_index + 1
  /\ consecutive_pages' = [consecutive_pages EXCEPT ![t] = 0]
  /\ pc' = [pc EXCEPT ![t] = "unlock"]
  /\ UNCHANGED <<spin_lock, n_pages, prev_index, halted>>

\* Mutant of physical_alloc_wrap: it wraps whenever the end is reached.
physical_alloc_wrap_again(t) ==
  /\ At(t, "scan")
  /\ ~(bitmap_prev_index < Limit(t))
  /\ bitmap_prev_index' = 0
  /\ consecutive_pages' = [consecutive_pages EXCEPT ![t] = 0]
  /\ UNCHANGED <<bitmap, spin_lock, pc, n_pages, index, prev_index, blocks,
                 halted>>

\* physical_alloc returns NULL: wrap once, then panic with the lock held.
physical_alloc_wrap(t) ==
  /\ At(t, "scan")
  /\ ~(bitmap_prev_index < Limit(t))
  /\ bitmap_prev_index' = 0
  /\ consecutive_pages' = [consecutive_pages EXCEPT ![t] = 0]
  /\ pc' = [pc EXCEPT ![t] = "rescan"]
  /\ UNCHANGED <<bitmap, spin_lock, n_pages, index, prev_index, blocks,
                 halted>>

physical_alloc_fail(t) ==
  /\ At(t, "rescan")
  /\ ~(bitmap_prev_index < Limit(t))
  /\ halted' = "no memory"
  /\ UNCHANGED <<bitmap, bitmap_prev_index, spin_lock, pc, locals, blocks>>

\* The call that allocates b has returned.
Returned(b) == \A t \in Threads : pc[t] = "unlock" => index[t] # b.start

(***************************************************************************)
(* A thread calls pmm_free with a block that pmm_alloc has returned, and   *)
(* that nobody uses from then on.                                          *)
(***************************************************************************)
pmm_free(t, b) ==
  /\ At(t, "idle")
  /\ Returned(b)
  /\ blocks' = blocks \ {b}
  /\ index' = [index EXCEPT ![t] = b.start]
  /\ n_pages' = [n_pages EXCEPT ![t] = b.n]
  /\ pc' = [pc EXCEPT ![t] = "free"]
  /\ UNCHANGED <<bitmap, bitmap_prev_index, spin_lock, consecutive_pages,
                 prev_index, halted>>

pmm_free_lock(t) ==
  /\ At(t, "free")
  /\ LockFree
  /\ spin_lock' = 1
  /\ pc' = [pc EXCEPT ![t] = "clear"]
  /\ UNCHANGED <<bitmap, bitmap_prev_index, locals, blocks, halted>>

(***************************************************************************)
(* One iteration of pmm_free's loop: n_pages counts the pages left.  The   *)
(* last one leaves the loop.                                               *)
(***************************************************************************)
PagesLeftOneMore(n) == n >= 0
PagesLeft(n) == n > 1

pmm_free_page(t) ==
  /\ At(t, "clear")
  /\ IF bitmap[index[t]]
       THEN /\ bitmap' = [bitmap EXCEPT ![index[t]] = FALSE]
            /\ IF PagesLeft(n_pages[t])
                 THEN /\ index' = [index EXCEPT ![t] = index[t] + 1]
                      /\ n_pages' = [n_pages EXCEPT ![t] = n_pages[t] - 1]
                      /\ UNCHANGED pc
                 ELSE /\ pc' = [pc EXCEPT ![t] = "unlock"]
                      /\ UNCHANGED <<index, n_pages>>
            /\ UNCHANGED halted
       ELSE /\ halted' = "already free"
            /\ UNCHANGED <<bitmap, index, n_pages, pc>>
  /\ UNCHANGED <<bitmap_prev_index, spin_lock, consecutive_pages, prev_index,
                 blocks>>

\* spinlock_release; pmm_alloc then zeroes the block, which is its own.
unlock(t) ==
  /\ At(t, "unlock")
  /\ spin_lock' = 0
  /\ pc' = [pc EXCEPT ![t] = "idle"]
  /\ n_pages' = [n_pages EXCEPT ![t] = 0]
  /\ index' = [index EXCEPT ![t] = 0]
  /\ prev_index' = [prev_index EXCEPT ![t] = 0]
  /\ UNCHANGED <<bitmap, bitmap_prev_index, consecutive_pages, blocks, halted>>

-----------------------------------------------------------------------------
Inside(t) ==
  \/ physical_alloc_next(t) \/ physical_alloc_found(t)
  \/ physical_alloc_wrap(t) \/ physical_alloc_fail(t)
  \/ pmm_free_page(t) \/ unlock(t)

Call(t) ==
  \/ \E n \in Request : pmm_alloc(t, n)
  \/ \E b \in blocks : pmm_free(t, b)
  \/ pmm_alloc_nozero(t)
  \/ pmm_free_lock(t)

Next == \E t \in Threads : Call(t) \/ Inside(t)

Spec == Init /\ [][Next]_vars

(***************************************************************************)
(* The round-robin scheduler gives every thread the CPU again, so one that *)
(* holds the lock goes on.  Nothing is assumed of the spinning threads.    *)
(***************************************************************************)
FairSpec == Spec /\ \A t \in Threads : WF_vars(Inside(t))

-----------------------------------------------------------------------------
(* Safety.                                                                 *)

\* Pages that thread t has given back and pmm_free has not cleared yet.
Freeing(t) == IF pc[t] \in {"free", "clear"}
                THEN index[t] .. index[t] + n_pages[t] - 1
                ELSE {}

\* Who has page p: a caller's block, or a pmm_free that is going to clear it
Owners(p) ==
  {b \in blocks : p \in PagesOf(b)} \union {t \in Threads : p \in Freeing(t)}

(***************************************************************************)
(* No page is handed out twice, and the bitmap tells the truth at every    *)
(* moment: a page has at most one owner, where a preempted pmm_free owns   *)
(* what it has not cleared, and a bit is set exactly for the pages that    *)
(* have one or are not usable.  So no page leaks, and reserved memory is   *)
(* never given out.                                                        *)
(***************************************************************************)
BitmapExact ==
  \A p \in Page :
    /\ \A o1, o2 \in Owners(p) : o1 = o2
    /\ bitmap[p] <=> p \notin Usable \/ Owners(p) # {}

\* Pages s .. s + n - 1 are free.
FreeRun(s, n) == \A p \in s .. s + n - 1 : ~bitmap[p]

(***************************************************************************)
(* pmm_alloc_nozero panics only if it has looked everywhere it looks: no   *)
(* run of n_pages free pages lies on one side of the index at which the    *)
(* search began.  (A run across that index is not found: each of the two   *)
(* calls of physical_alloc counts from zero.)                              *)
(***************************************************************************)
FailsOnlyWithoutRun ==
  halted = "no memory" =>
    \E t \in Threads :
      /\ pc[t] = "rescan"
      /\ \A s \in Page :
           /\ s + n_pages[t] <= prev_index[t] => ~FreeRun(s, n_pages[t])
           /\ s >= prev_index[t] /\ s + n_pages[t] <= Top
                => ~FreeRun(s, n_pages[t])

(***************************************************************************)
(* The bitmap, the cursor and the lock implement the page allocator that   *)
(* the heap and the virtual memory manager rely on.                        *)
(***************************************************************************)
PA == INSTANCE PageAllocator
        WITH Usable <- Usable, MaxRequest <- MaxRequest, blocks <- blocks
ImplementsPageAllocator == PA!Spec

-----------------------------------------------------------------------------
(* Liveness.                                                               *)

\* Every search and every pmm_free of a process, which may be preempted but goes
\* on, ends: the lock is released, or the kernel has panicked.  A call with
\* interrupts off that meets the lock taken stops all of them; that is in KHeap.
LockReleased == spin_lock = 1 ~> spin_lock = 0 \/ halted # "no"
=============================================================================
