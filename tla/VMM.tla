--------------------------------- MODULE VMM ---------------------------------
(***************************************************************************)
(* Address spaces, kernel/mm/vmm.c.  Every process has a level 4 table of  *)
(* its own.  vmm_new fills it by copying the entries of vmm_kernel, once;  *)
(* later mappings of the kernel are made in vmm_kernel only.  They are     *)
(* seen everywhere because vmm_init has allocated all level 3 tables of    *)
(* the higher half before the first copy.                                  *)
(*                                                                         *)
(* The levels below the fourth are one table of leaves.  vmm_map_page      *)
(* holds vmm_kernel->lock; vmm_new copies without it, and both may be      *)
(* preempted.                                                              *)
(***************************************************************************)
EXTENDS Integers

CONSTANTS
  Spaces,    \* the address spaces of processes
  Mappers,   \* processes that make the kernel map pages (k_alloc)
  Lower,     \* level 4 entries of the lower half that vmm_init maps
  First,     \* first entry of the higher half: 256
  Last,      \* last entry of the higher half: 511
  Leaf       \* pages below one level 4 entry

ASSUME VMMAssumption ==
  /\ First \in Nat /\ Last \in Nat /\ First <= Last
  /\ Lower \subseteq 0 .. First - 1
  /\ "kernel" \notin Spaces

Index == 0 .. Last
Higher == First .. Last
None == 0
Table == 1 .. Last + 1

VARIABLES
  pml,      \* the level 4 table of every address space: a table, or None
  leaves,   \* leaves present below each table
  tables,   \* number of tables allocated
  lock,     \* vmm_kernel->lock
  vmm_pc,   \* where each mapper is, and the page it maps
  want,
  copied,   \* local i of vmm_new of every address space; Last + 1 when done
  booted    \* vmm_init has returned

vmm_vars == <<pml, leaves, tables, lock, vmm_pc, want, copied, booted>>

VMMTypeOK ==
  /\ pml \in [Spaces \union {"kernel"} -> [Index -> Table \union {None}]]
  /\ leaves \in [Table -> SUBSET Leaf]
  /\ tables \in 0 .. Last + 1
  /\ lock \in {0, 1}
  /\ vmm_pc \in [Mappers -> {"idle", "acquire", "walk", "set"}]
  /\ want \in [Mappers -> Higher \X Leaf]
  /\ copied \in [Spaces -> 0 .. Last + 1]
  /\ booted \in BOOLEAN

VMMInit ==
  /\ pml = [v \in Spaces \union {"kernel"} |-> [x \in Index |-> None]]
  /\ leaves = [t \in Table |-> {}]
  /\ tables = 0
  /\ lock = 0
  /\ vmm_pc = [m \in Mappers |-> "idle"]
  /\ \E l \in Leaf : want = [m \in Mappers |-> <<First, l>>]
  /\ copied = [v \in Spaces |-> 0]
  /\ booted = FALSE

-----------------------------------------------------------------------------
(* An operator named like the one after it, with a suffix, is a mutant of  *)
(* it: the same code with a bug.                                           *)

\* walk_pte with alloc: the entry, or a new table.
walk_pte(x) ==
  IF pml["kernel"][x] # None
    THEN UNCHANGED <<pml, tables>>
    ELSE /\ tables' = tables + 1
         /\ pml' = [pml EXCEPT !["kernel"][x] = tables + 1]

\* The entries of level 4 that vmm_init allocates before anything is copied
BootEntriesFirst == Lower \union {First}
BootEntries == Lower \union Higher

\* One iteration of the loop of vmm_init over the higher half, or of the
\* identity mapping of the lower one.
vmm_init_entry ==
  /\ ~booted
  /\ \E x \in BootEntries : pml["kernel"][x] = None /\ walk_pte(x)
  /\ UNCHANGED <<leaves, lock, vmm_pc, want, copied, booted>>

vmm_init_done ==
  /\ ~booted
  /\ \A x \in BootEntries : pml["kernel"][x] # None
  /\ booted' = TRUE
  /\ UNCHANGED <<pml, leaves, tables, lock, vmm_pc, want, copied>>

-----------------------------------------------------------------------------
(* vmm_map_page(vmm_kernel, ...) as k_alloc calls it: an hhdm address.     *)

vmm_map_page_call(m, x, l) ==
  /\ booted /\ vmm_pc[m] = "idle"
  /\ want' = [want EXCEPT ![m] = <<x, l>>]
  /\ vmm_pc' = [vmm_pc EXCEPT ![m] = "acquire"]
  /\ UNCHANGED <<pml, leaves, tables, lock, copied, booted>>

vmm_map_page_acquire(m) ==
  /\ vmm_pc[m] = "acquire" /\ lock = 0
  /\ lock' = 1
  /\ vmm_pc' = [vmm_pc EXCEPT ![m] = "walk"]
  /\ UNCHANGED <<pml, leaves, tables, want, copied, booted>>

vmm_map_page_walk(m) ==
  /\ vmm_pc[m] = "walk"
  /\ walk_pte(want[m][1])
  /\ vmm_pc' = [vmm_pc EXCEPT ![m] = "set"]
  /\ UNCHANGED <<leaves, lock, want, copied, booted>>

\* Sets the leaf unless it is present, and releases the lock.
vmm_map_page_set(m) ==
  /\ vmm_pc[m] = "set"
  /\ LET t == pml["kernel"][want[m][1]]
     IN  leaves' = [leaves EXCEPT ![t] = @ \union {want[m][2]}]
  /\ lock' = 0
  /\ vmm_pc' = [vmm_pc EXCEPT ![m] = "idle"]
  /\ UNCHANGED <<pml, tables, want, copied, booted>>

\* k_free unmaps a page: one step, with interrupts off.  (KHeap shows what
\* happens if the lock is taken.)
vmm_unmap_page(x, l) ==
  /\ booted /\ lock = 0
  /\ pml["kernel"][x] # None
  /\ l \in leaves[pml["kernel"][x]]
  /\ leaves' = [leaves EXCEPT ![pml["kernel"][x]] = @ \ {l}]
  /\ UNCHANGED <<pml, tables, lock, vmm_pc, want, copied, booted>>

(***************************************************************************)
(* One iteration of the copy loop of vmm_new.  The two pages it maps first *)
(* get the address p + 2 * hhdm, that is p modulo 2^48, which vmm_init has *)
(* mapped already: vmm_map_page leaves it as it is.                        *)
(***************************************************************************)
vmm_new_copy(v) ==
  /\ booted
  /\ copied[v] <= Last
  /\ pml' = [pml EXCEPT ![v][copied[v]] = pml["kernel"][copied[v]]]
  /\ copied' = [copied EXCEPT ![v] = copied[v] + 1]
  /\ UNCHANGED <<leaves, tables, lock, vmm_pc, want, booted>>

-----------------------------------------------------------------------------
VMMNext ==
  \/ vmm_init_entry \/ vmm_init_done
  \/ \E m \in Mappers :
       \/ \E x \in Higher, l \in Leaf : vmm_map_page_call(m, x, l)
       \/ vmm_map_page_acquire(m) \/ vmm_map_page_walk(m)
       \/ vmm_map_page_set(m)
  \/ \E x \in Higher, l \in Leaf : vmm_unmap_page(x, l)
  \/ \E v \in Spaces : vmm_new_copy(v)

VMMSpec == VMMInit /\ [][VMMNext]_vmm_vars

-----------------------------------------------------------------------------
\* What address space v maps at leaf l of level 4 entry x.
Translates(v, x, l) == pml[v][x] # None /\ l \in leaves[pml[v][x]]

(***************************************************************************)
(* Every page the kernel maps in the higher half, before or after a        *)
(* process is created or while vmm_new is copying, is mapped alike in the  *)
(* address space of the process: the heap looks the same from everywhere.  *)
(***************************************************************************)
KernelHalfShared ==
  \A v \in Spaces : copied[v] = Last + 1 =>
    \A x \in Higher, l \in Leaf :
      Translates(v, x, l) <=> Translates("kernel", x, l)
=============================================================================
