------------------------------ MODULE PMMProofs ------------------------------
(***************************************************************************)
(* Proofs about PMM for every number of threads, every size of the bitmap  *)
(* and every set of usable pages, then about pmm_init for every memory map *)
(* of page-aligned usable entries that do not overlap, and about the two   *)
(* together (PhysicalMemory).                                              *)
(*                                                                         *)
(* BitmapExact is not inductive: a search returns pages it has looked at   *)
(* in earlier iterations, and they are still free only because nobody      *)
(* changes the bitmap without the lock.  So the invariant says who is in   *)
(* the critical section (LockInv), who owns which page (OwnInv), and what  *)
(* a search knows of the pages behind the cursor (Searched).  The last one *)
(* also says that no run has been overlooked, which is what makes the      *)
(* panic of pmm_alloc_nozero justified.                                    *)
(***************************************************************************)
EXTENDS PhysicalMemory, Sequences, WellFoundedInduction, TLAPS

\* t is between the acquisition and the release of spin_lock.
Holds(t) == pc[t] \in {"scan", "rescan", "clear", "unlock"}

LockInv ==
  /\ \A t \in Threads : Holds(t) => spin_lock = 1
  /\ \A t, u \in Threads : Holds(t) /\ Holds(u) => t = u

\* What is allocated or being freed is usable memory with one owner, and these
\* pages are the ones whose bit is set.
OwnInv ==
  /\ \A b \in blocks : PagesOf(b) \subseteq Usable
  /\ \A t \in Threads : Freeing(t) \subseteq Usable
  /\ \A b, c \in blocks : b # c => PagesOf(b) \cap PagesOf(c) = {}
  /\ \A b \in blocks, t \in Threads : PagesOf(b) \cap Freeing(t) = {}
  /\ \A t, u \in Threads : t # u => Freeing(t) \cap Freeing(u) = {}
  /\ \A p \in Page : bitmap[p] <=> \/ p \notin Usable
                                   \/ \E b \in blocks : p \in PagesOf(b)
                                   \/ \E t \in Threads : p \in Freeing(t)

\* A call asks for one page at least.
RequestInv ==
  \A t \in Threads :
    pc[t] \in {"alloc", "scan", "rescan", "free", "clear"} => n_pages[t] >= 1

\* No run of n free pages lies between lo and hi.
NoRun(lo, hi, n) == \A s \in Page : s >= lo /\ s + n <= hi => ~FreeRun(s, n)

\* Where this call of physical_alloc began, and where it ends
From(t) == IF pc[t] = "scan" THEN prev_index[t] ELSE 0

\* consecutive_pages is the length of the free run before the cursor, and no
\* run of n_pages has been passed.
Searched(t) ==
  /\ consecutive_pages[t] < n_pages[t]
  /\ From(t) + consecutive_pages[t] <= bitmap_prev_index
  /\ bitmap_prev_index <= Limit(t)
  /\ \A p \in Page : bitmap_prev_index - consecutive_pages[t] <= p
                       /\ p < bitmap_prev_index => ~bitmap[p]
  /\ \/ bitmap_prev_index - consecutive_pages[t] = From(t)
     \/ bitmap[bitmap_prev_index - consecutive_pages[t] - 1]
  /\ NoRun(From(t), bitmap_prev_index, n_pages[t])
  /\ pc[t] = "rescan" => NoRun(prev_index[t], Top, n_pages[t])

SearchInv == \A t \in Threads : pc[t] \in {"scan", "rescan"} => Searched(t)

HaltInv == FailsOnlyWithoutRun /\ halted # "already free"

IInv ==
  TypeOK /\ LockInv /\ OwnInv /\ RequestInv /\ SearchInv /\ HaltInv

-----------------------------------------------------------------------------
\* The state pmm_init leaves satisfies the invariant.
LEMMA InitInv == ASSUME Init PROVE IInv
<1> USE DEF Init
<1>1. TypeOK
  BY PMMAssumption DEF TypeOK, Page
<1>2. LockInv /\ RequestInv /\ SearchInv
  BY DEF LockInv, Holds, RequestInv, SearchInv
<1>3. OwnInv
  BY Zenon DEF OwnInv, Freeing, Page
<1>4. HaltInv
  BY DEF HaltInv, FailsOnlyWithoutRun
<1> QED BY <1>1, <1>2, <1>3, <1>4 DEF IInv

\* What is known of a thread's search holds on while neither the bitmap, nor
\* the cursor, nor its own variables change.
LEMMA SameSearch ==
  ASSUME NEW u \in Threads, Searched(u),
         UNCHANGED <<bitmap, bitmap_prev_index>>,
         pc'[u] = pc[u], n_pages'[u] = n_pages[u],
         consecutive_pages'[u] = consecutive_pages[u],
         prev_index'[u] = prev_index[u]
  PROVE  Searched(u)'
BY DEF Searched, From, Limit, NoRun, FreeRun

\* The call of pmm_alloc changes only what its own thread asks for.
LEMMA AllocCall ==
  ASSUME IInv, NEW t \in Threads, NEW n \in Request, pmm_alloc(t, n)
  PROVE  IInv'
<1>1. /\ halted = "no" /\ pc[t] = "idle"
      /\ pc' = [pc EXCEPT ![t] = "alloc"]
      /\ n_pages' = [n_pages EXCEPT ![t] = n]
      /\ UNCHANGED <<bitmap, bitmap_prev_index, spin_lock, index,
                     consecutive_pages, prev_index, blocks, halted>>
  BY DEF pmm_alloc, At
<1>2. n \in 0 .. MaxRequest /\ n >= 1
  BY PMMAssumption DEF Request
<1>3. /\ pc'[t] = "alloc" /\ n_pages'[t] = n
      /\ \A u \in Threads \ {t} : pc'[u] = pc[u] /\ n_pages'[u] = n_pages[u]
  BY <1>1 DEF IInv, TypeOK
<1>4. TypeOK'
  BY <1>1, <1>2 DEF IInv, TypeOK
<1>5. LockInv'
  BY <1>1, <1>3 DEF IInv, LockInv, Holds
<1>6. \A u \in Threads : Freeing(u)' = Freeing(u)
  BY <1>1, <1>3 DEF Freeing
<1>7. OwnInv'
  BY <1>1, <1>6 DEF IInv, OwnInv
<1>8. RequestInv'
  BY <1>2, <1>3 DEF IInv, RequestInv
<1>9. SearchInv'
  BY <1>1, <1>3, SameSearch DEF IInv, SearchInv
<1>10. HaltInv'
  BY <1>1 DEF HaltInv, FailsOnlyWithoutRun
<1> QED BY <1>4, <1>5, <1>7, <1>8, <1>9, <1>10 DEF IInv

\* The search begins at the cursor, having passed nothing.
LEMMA AllocLock ==
  ASSUME IInv, NEW t \in Threads, pmm_alloc_nozero(t) PROVE IInv'
<1>1. /\ halted = "no" /\ pc[t] = "alloc" /\ spin_lock = 0
      /\ spin_lock' = 1
      /\ prev_index' = [prev_index EXCEPT ![t] = bitmap_prev_index]
      /\ consecutive_pages' = [consecutive_pages EXCEPT ![t] = 0]
      /\ pc' = [pc EXCEPT ![t] = "scan"]
      /\ UNCHANGED <<bitmap, bitmap_prev_index, n_pages, index, blocks, halted>>
  BY DEF pmm_alloc_nozero, At, LockFree
<1>2. /\ pc'[t] = "scan" /\ prev_index'[t] = bitmap_prev_index
      /\ consecutive_pages'[t] = 0
      /\ \A u \in Threads \ {t} : pc'[u] = pc[u]
  BY <1>1 DEF IInv, TypeOK
<1>3. \A u \in Threads : ~Holds(u)
  BY <1>1 DEF IInv, LockInv
<1>4. TypeOK'
  <2>1. 0 \in 0 .. Top
    BY PMMAssumption
  <2> QED BY <1>1, <2>1 DEF IInv, TypeOK
<1>5. LockInv'
  BY <1>1, <1>2, <1>3 DEF LockInv, Holds
<1>6. \A u \in Threads : Freeing(u)' = Freeing(u)
  BY <1>1, <1>2 DEF Freeing
<1>7. OwnInv'
  BY <1>1, <1>6 DEF IInv, OwnInv
<1>8. RequestInv'
  BY <1>1, <1>2 DEF IInv, RequestInv
<1>9. SearchInv'
  <2>1. bitmap_prev_index \in 0 .. Top /\ n_pages[t] >= 1 /\ n_pages[t] \in 0 .. MaxRequest
    BY <1>1 DEF IInv, TypeOK, RequestInv
  <2>2. Searched(t)'
    BY <1>1, <1>2, <2>1, PMMAssumption DEF Searched, From, Limit, NoRun, Page
  <2>3. \A u \in Threads \ {t} : pc'[u] \notin {"scan", "rescan"}
    BY <1>2, <1>3 DEF Holds
  <2> QED BY <2>2, <2>3 DEF SearchInv
<1>10. HaltInv'
  BY <1>1 DEF HaltInv, FailsOnlyWithoutRun
<1> QED BY <1>4, <1>5, <1>7, <1>8, <1>9, <1>10 DEF IInv

\* The facts about a search that its steps use: the cursor is on a page, and no
\* other thread is in the critical section.
LEMMA SearchFacts ==
  ASSUME IInv, NEW t \in Threads, pc[t] \in {"scan", "rescan"},
         bitmap_prev_index < Limit(t)
  PROVE  /\ Searched(t) /\ spin_lock = 1
         /\ bitmap_prev_index \in Page /\ bitmap_prev_index \in Nat
         /\ bitmap_prev_index + 1 \in 0 .. Top
         /\ n_pages[t] \in 1 .. MaxRequest /\ n_pages[t] \in Nat
         /\ consecutive_pages[t] \in Nat /\ prev_index[t] \in 0 .. Top
         /\ \A u \in Threads \ {t} : ~Holds(u)
<1>1. Searched(t) /\ spin_lock = 1 /\ \A u \in Threads \ {t} : ~Holds(u)
  BY DEF IInv, SearchInv, LockInv, Holds
<1>2. /\ bitmap_prev_index \in 0 .. Top /\ prev_index[t] \in 0 .. Top
      /\ n_pages[t] \in 0 .. MaxRequest /\ consecutive_pages[t] \in 0 .. Top
      /\ n_pages[t] >= 1
  BY Zenon DEF IInv, TypeOK, RequestInv
<1>3. Limit(t) \in 0 .. Top
  BY <1>2, PMMAssumption DEF Limit
<1> QED BY <1>1, <1>2, <1>3, PMMAssumption DEF Page

\* An iteration that does not complete a run passes no run: a run that ends at
\* the cursor would reach back over the page before the current free run.
LEMMA SearchNext ==
  ASSUME IInv, NEW t \in Threads, physical_alloc_next(t) PROVE IInv'
<1> DEFINE q == bitmap_prev_index
           c == consecutive_pages[t]
           n == n_pages[t]
<1>1. /\ halted = "no" /\ pc[t] \in {"scan", "rescan"} /\ q < Limit(t)
      /\ bitmap[q] \/ RunLength(bitmap[q], c) # n
      /\ consecutive_pages'
           = [consecutive_pages EXCEPT ![t] = RunLength(bitmap[q], c)]
      /\ q' = q + 1
      /\ UNCHANGED <<bitmap, spin_lock, pc, n_pages, index, prev_index, blocks,
                     halted>>
  BY DEF physical_alloc_next, Scanning
<1>2. /\ Searched(t)
      /\ q \in Page /\ q \in Nat /\ q + 1 \in 0 .. Top
      /\ n \in 1 .. MaxRequest /\ n \in Nat /\ c \in Nat /\ prev_index[t] \in 0 .. Top
      /\ \A u \in Threads \ {t} : ~Holds(u)
  BY <1>1, SearchFacts
<1>3. From(t) \in Nat /\ From(t) + c <= q /\ c < n
  BY <1>2, PMMAssumption DEF Searched, From
<1>4. PICK run \in Nat : /\ run = RunLength(bitmap[q], c)
                         /\ run < n /\ From(t) + run <= q + 1
                         /\ run = IF bitmap[q] THEN 0 ELSE c + 1
  BY <1>1, <1>2, <1>3 DEF RunLength
<1>5. /\ consecutive_pages' = [consecutive_pages EXCEPT ![t] = run]
      /\ consecutive_pages'[t] = run
  BY <1>1, <1>4 DEF IInv, TypeOK
<1>6. TypeOK'
  <2>1. run \in 0 .. Top
    BY <1>2, <1>3, <1>4, PMMAssumption
  <2> QED BY <1>1, <1>2, <1>5, <2>1 DEF IInv, TypeOK
<1>7. LockInv' /\ RequestInv'
  BY <1>1 DEF IInv, LockInv, Holds, RequestInv
<1>8. OwnInv'
  BY <1>1 DEF IInv, OwnInv, Freeing
<1>9. Searched(t)'
  <2>1. From(t)' = From(t) /\ Limit(t)' = Limit(t)
    BY <1>1 DEF From, Limit
  <2>2. q + 1 <= Limit(t)
    BY <1>1, <1>2, PMMAssumption DEF Limit
  <2>3. \A p \in Page : q + 1 - run <= p /\ p < q + 1 => ~bitmap[p]
    BY <1>2, <1>3, <1>4, PMMAssumption DEF Searched, Page
  <2>4. q + 1 - run = From(t) \/ bitmap[q + 1 - run - 1]
    <3>1. CASE bitmap[q]
      BY <1>2, <1>4, <3>1
    <3>2. CASE ~bitmap[q]
      <4>1. run = c + 1
        BY <1>4, <3>2
      <4>2. q + 1 - run = q - c /\ q + 1 - run - 1 = q - c - 1
        BY <4>1, <1>2
      <4> QED BY <1>2, <4>2 DEF Searched
    <3> QED BY <3>1, <3>2
  <2>5. NoRun(From(t), q + 1, n)
    <3> SUFFICES ASSUME NEW s \in Page, s >= From(t), s + n <= q + 1,
                        FreeRun(s, n)
                 PROVE  FALSE
      BY DEF NoRun
    <3>1. s \in Nat
      BY PMMAssumption DEF Page
    <3>2. CASE s + n <= q
      BY <1>2, <3>2 DEF Searched, NoRun
    <3>3. CASE s + n = q + 1
      <4>1. q \in s .. s + n - 1
        BY <1>2, <3>1, <3>3
      <4>2. ~bitmap[q]
        BY <4>1 DEF FreeRun
      <4>3. run = c + 1
        BY <1>4, <4>2
      <4>4. s < q - c
        BY <1>2, <1>4, <3>1, <3>3, <4>3
      <4>5. bitmap[q - c - 1]
        BY <1>2, <1>3, <3>1, <4>4 DEF Searched
      <4>6. q - c - 1 \in s .. s + n - 1
        BY <1>2, <3>1, <3>3, <4>4
      <4> QED BY <4>5, <4>6 DEF FreeRun
    <3> QED BY <1>2, <3>1, <3>2, <3>3
  <2>6. pc[t] = "rescan" => NoRun(prev_index[t], Top, n)
    BY <1>2 DEF Searched
  <2>7. /\ From(t)' + run <= q'
        /\ (pc[t] = "rescan" => NoRun(prev_index[t], Top, n))'
    BY <1>1, <1>4, <2>1, <2>6 DEF NoRun, FreeRun
  <2>8. NoRun(From(t), q, n)'
    BY <1>1, <2>1, <2>5 DEF NoRun, FreeRun
  <2>9. /\ q' - consecutive_pages'[t] = q + 1 - run
        /\ q' <= Limit(t)'
        /\ \A p \in Page : q' - run <= p /\ p < q' => ~bitmap'[p]
    <3>1. q' = q + 1 /\ bitmap' = bitmap /\ consecutive_pages'[t] = run
      BY <1>1, <1>5
    <3>2. q' - run = q + 1 - run
      BY <1>2, <3>1
    <3>3. q' <= Limit(t)'
      BY <3>1, <2>1, <2>2
    <3>4. \A p \in Page : q' - run <= p /\ p < q' => ~bitmap'[p]
      BY <1>2, <3>1, <2>3
    <3> QED BY <3>1, <3>2, <3>3, <3>4
  <2>10. /\ consecutive_pages'[t] < n_pages'[t]
         /\ From(t)' + consecutive_pages'[t] <= q'
         /\ \/ q' - consecutive_pages'[t] = From(t)'
            \/ bitmap'[q' - consecutive_pages'[t] - 1]
    <3>1. bitmap' = bitmap /\ consecutive_pages'[t] = run /\ n_pages' = n_pages
      BY <1>1, <1>5
    <3>2. consecutive_pages'[t] < n_pages'[t]
      BY <3>1, <1>4
    <3>3. From(t)' + consecutive_pages'[t] <= q'
      BY <3>1, <2>7
    <3>4. \/ q' - consecutive_pages'[t] = From(t)'
          \/ bitmap'[q' - consecutive_pages'[t] - 1]
      BY <1>2, <3>1, <2>1, <2>4, <2>9
    <3> QED BY <3>2, <3>3, <3>4
  <2>11. \A p \in Page : q' - consecutive_pages'[t] <= p /\ p < q' => ~bitmap'[p]
    BY <1>5, <2>9
  <2> QED BY <1>1, <2>7, <2>8, <2>9, <2>10, <2>11 DEF Searched
<1>10. SearchInv'
  BY <1>1, <1>2, <1>9 DEF SearchInv, Holds
<1>11. HaltInv'
  BY <1>1 DEF HaltInv, FailsOnlyWithoutRun
<1> QED BY <1>6, <1>7, <1>8, <1>10, <1>11 DEF IInv

\* The run that physical_alloc completes is made of usable pages that nobody
\* has.
LEMMA FoundFree ==
  ASSUME IInv, NEW t \in Threads, physical_alloc_found(t),
         NEW b, b = [start |-> FirstPage(bitmap_prev_index, n_pages[t]),
                     n |-> n_pages[t]]
  PROVE  /\ b \in [start : Page, n : Request] /\ b.start \in Usable
         /\ b.start \in PagesOf(b)
         /\ PagesOf(b) \subseteq Usable
         /\ \A c \in blocks : PagesOf(b) \cap PagesOf(c) = {}
         /\ \A u \in Threads : PagesOf(b) \cap Freeing(u) = {}
<1> DEFINE q == bitmap_prev_index
           c == consecutive_pages[t]
           n == n_pages[t]
<1>1. /\ pc[t] \in {"scan", "rescan"} /\ q < Limit(t)
      /\ ~bitmap[q] /\ c + 1 = n
  BY DEF physical_alloc_found, Scanning, RunLength
<1>2. /\ Searched(t)
      /\ q \in Page /\ q \in Nat
      /\ n \in 1 .. MaxRequest /\ n \in Nat /\ c \in Nat /\ prev_index[t] \in 0 .. Top
  BY <1>1, SearchFacts
<1>3. From(t) \in Nat /\ From(t) + c <= q
  BY <1>2, PMMAssumption DEF Searched, From
<1>4. b.start = q - c /\ b.n = n /\ q - c \in Nat
  BY <1>1, <1>2, <1>3 DEF FirstPage
<1>5. PagesOf(b) = (q - c) .. q
  BY <1>1, <1>2, <1>4, SMTT(30) DEF PagesOf
<1>6. \A p \in (q - c) .. q : p \in Page /\ ~bitmap[p]
  <2>1. \A p \in Page : q - c <= p /\ p < q => ~bitmap[p]
    BY <1>2, Zenon DEF Searched
  <2>2. ASSUME NEW p \in (q - c) .. q PROVE p \in Page /\ ((q - c <= p /\ p < q) \/ p = q)
    <3>1. q - c \in Nat /\ q \in 0 .. Top - 1 /\ Top \in Nat
      BY <1>2, <1>4, PMMAssumption, Zenon DEF Page
    <3> HIDE DEF q, c
    <3> QED BY <2>2, <3>1 DEF Page
  <2> QED BY <1>1, <2>1, <2>2, Zenon
<1>7. q - c \in (q - c) .. q
  BY <1>2, <1>4
<1>8. \A p \in PagesOf(b) : /\ p \in Usable
                            /\ \A d \in blocks : p \notin PagesOf(d)
                            /\ \A u \in Threads : p \notin Freeing(u)
  BY <1>5, <1>6 DEF IInv, OwnInv
<1> QED BY <1>2, <1>4, <1>5, <1>6, <1>7, <1>8 DEF Request

\* Completing a run makes its pages a block of the caller.
LEMMA SearchFound ==
  ASSUME IInv, NEW t \in Threads, physical_alloc_found(t) PROVE IInv'
<1> DEFINE b == [start |-> FirstPage(bitmap_prev_index, n_pages[t]),
                 n |-> n_pages[t]]
<1>1. /\ halted = "no" /\ pc[t] \in {"scan", "rescan"}
      /\ bitmap_prev_index < Limit(t)
      /\ bitmap' = [p \in Page |-> bitmap[p] \/ p \in PagesOf(b)]
      /\ blocks' = blocks \union {b}
      /\ index' = [index EXCEPT ![t] = b.start]
      /\ bitmap_prev_index' = bitmap_prev_index + 1
      /\ consecutive_pages' = [consecutive_pages EXCEPT ![t] = 0]
      /\ pc' = [pc EXCEPT ![t] = "unlock"]
      /\ UNCHANGED <<spin_lock, n_pages, prev_index, halted>>
  BY DEF physical_alloc_found, Scanning
<1>2. /\ bitmap_prev_index + 1 \in 0 .. Top
      /\ spin_lock = 1
      /\ \A u \in Threads \ {t} : ~Holds(u)
  BY <1>1, SearchFacts
<1>3. /\ b \in [start : Page, n : Request] /\ PagesOf(b) \subseteq Usable
      /\ \A c \in blocks : PagesOf(b) \cap PagesOf(c) = {}
      /\ \A u \in Threads : PagesOf(b) \cap Freeing(u) = {}
  <2> HIDE DEF b
  <2>1. b = [start |-> FirstPage(bitmap_prev_index, n_pages[t]), n |-> n_pages[t]]
    BY DEF b
  <2> QED BY <2>1, FoundFree
<1>4. pc'[t] = "unlock" /\ \A u \in Threads \ {t} : pc'[u] = pc[u] /\ index'[u] = index[u]
  BY <1>1 DEF IInv, TypeOK
<1> HIDE DEF b
<1>5. TypeOK'
  <2>1. 0 \in 0 .. Top /\ b.start \in 0 .. Top
    BY <1>3, PMMAssumption DEF Page
  <2>2. bitmap' \in [Page -> BOOLEAN]
    BY <1>1 DEF IInv, TypeOK
  <2> QED BY <1>1, <1>2, <1>3, <2>1, <2>2 DEF IInv, TypeOK
<1>6. LockInv'
  BY <1>1, <1>2, <1>4 DEF LockInv, Holds
<1>7. RequestInv' /\ SearchInv'
  BY <1>1, <1>2, <1>4 DEF IInv, RequestInv, SearchInv, Holds
<1>8. \A u \in Threads : Freeing(u)' = Freeing(u)
  BY <1>1, <1>4 DEF Freeing
<1>9. OwnInv'
  <2>1. /\ \A c \in blocks' : PagesOf(c) \subseteq Usable
        /\ \A u \in Threads : Freeing(u)' \subseteq Usable
    BY <1>1, <1>3, <1>8 DEF IInv, OwnInv
  <2>2. \A c, d \in blocks' : c # d => PagesOf(c) \cap PagesOf(d) = {}
    BY <1>1, <1>3 DEF IInv, OwnInv
  <2>3. /\ \A c \in blocks', u \in Threads : PagesOf(c) \cap Freeing(u)' = {}
        /\ \A u, w \in Threads : u # w => Freeing(u)' \cap Freeing(w)' = {}
    BY <1>1, <1>3, <1>8 DEF IInv, OwnInv
  <2>4. ASSUME NEW p \in Page
        PROVE  bitmap'[p] <=> \/ p \notin Usable
                              \/ \E c \in blocks' : p \in PagesOf(c)
                              \/ \E u \in Threads : p \in Freeing(u)'
    <3>1. bitmap'[p] <=> bitmap[p] \/ p \in PagesOf(b)
      BY <1>1, Zenon
    <3> QED BY <1>1, <1>8, <3>1 DEF IInv, OwnInv
  <2> QED BY <2>1, <2>2, <2>3, <2>4 DEF OwnInv
<1>10. HaltInv'
  BY <1>1 DEF HaltInv, FailsOnlyWithoutRun
<1> QED BY <1>5, <1>6, <1>7, <1>9, <1>10 DEF IInv

\* The first call of physical_alloc has come to the end of the bitmap.
LEMMA SearchWrap ==
  ASSUME IInv, NEW t \in Threads, physical_alloc_wrap(t) PROVE IInv'
<1>1. /\ halted = "no" /\ pc[t] = "scan" /\ ~(bitmap_prev_index < Top)
      /\ bitmap_prev_index' = 0
      /\ consecutive_pages' = [consecutive_pages EXCEPT ![t] = 0]
      /\ pc' = [pc EXCEPT ![t] = "rescan"]
      /\ UNCHANGED <<bitmap, spin_lock, n_pages, index, prev_index, blocks,
                     halted>>
  BY DEF physical_alloc_wrap, At, Limit
<1>2. /\ Searched(t) /\ spin_lock = 1
      /\ \A u \in Threads \ {t} : ~Holds(u)
  BY <1>1 DEF IInv, SearchInv, LockInv, Holds
<1>3. /\ bitmap_prev_index = Top
      /\ prev_index[t] \in 0 .. Top /\ n_pages[t] \in Nat /\ n_pages[t] >= 1
  BY <1>1, PMMAssumption DEF IInv, TypeOK, RequestInv
<1>4. /\ pc'[t] = "rescan" /\ consecutive_pages'[t] = 0
      /\ \A u \in Threads \ {t} : pc'[u] = pc[u]
  BY <1>1 DEF IInv, TypeOK
<1>5. TypeOK'
  <2>1. 0 \in 0 .. Top
    BY PMMAssumption
  <2> QED BY <1>1, <2>1 DEF IInv, TypeOK
<1>6. LockInv'
  BY <1>1, <1>2, <1>4 DEF LockInv, Holds
<1>7. RequestInv'
  BY <1>1, <1>4 DEF IInv, RequestInv
<1>8. \A u \in Threads : Freeing(u)' = Freeing(u)
  BY <1>1, <1>4 DEF Freeing
<1>9. OwnInv'
  BY <1>1, <1>8 DEF IInv, OwnInv
<1>10. Searched(t)'
  <2>1. From(t)' = 0 /\ Limit(t)' = prev_index[t]
    BY <1>1, <1>4 DEF From, Limit
  <2>2. NoRun(prev_index[t], Top, n_pages[t])
    BY <1>1, <1>2, <1>3 DEF Searched, From
  <2>3. NoRun(prev_index[t], Top, n_pages[t])'
    BY <1>1, <2>2 DEF NoRun, FreeRun
  <2>4. NoRun(0, 0, n_pages[t])'
    BY <1>1, <1>3, PMMAssumption DEF NoRun, Page
  <2>5. NoRun(From(t), bitmap_prev_index, n_pages[t])'
    BY <1>1, <2>1, <2>4 DEF NoRun, FreeRun
  <2>6. /\ 0 < n_pages[t] /\ 0 + 0 <= 0 /\ 0 <= prev_index[t] /\ 0 - 0 = 0
        /\ \A p \in Page : ~(p < 0)
    BY <1>3, PMMAssumption DEF Page
  <2> QED BY <1>1, <1>4, <2>1, <2>3, <2>5, <2>6, Zenon DEF Searched
<1>11. SearchInv'
  BY <1>2, <1>4, <1>10 DEF SearchInv, Holds
<1>12. HaltInv'
  BY <1>1 DEF HaltInv, FailsOnlyWithoutRun
<1> QED BY <1>5, <1>6, <1>7, <1>9, <1>11, <1>12 DEF IInv

\* The second call has come to where the first one began: the panic.
LEMMA SearchFail ==
  ASSUME IInv, NEW t \in Threads, physical_alloc_fail(t) PROVE IInv'
<1>1. /\ pc[t] = "rescan" /\ ~(bitmap_prev_index < prev_index[t])
      /\ halted' = "no memory"
      /\ UNCHANGED <<bitmap, bitmap_prev_index, spin_lock, pc, locals, blocks>>
  BY Zenon DEF physical_alloc_fail, At, Limit
<1>2. Searched(t)
  BY <1>1, Zenon DEF IInv, SearchInv
<1>3. NoRun(0, prev_index[t], n_pages[t]) /\ NoRun(prev_index[t], Top, n_pages[t])
  <2>1. bitmap_prev_index <= prev_index[t]
    BY <1>1, <1>2, Zenon DEF Searched, Limit
  <2>2. bitmap_prev_index = prev_index[t]
    <3>1. bitmap_prev_index \in 0 .. Top /\ prev_index[t] \in 0 .. Top
      BY Zenon DEF IInv, TypeOK
    <3>2. \A x, y \in 0 .. Top : x <= y /\ ~(x < y) => x = y
      BY PMMAssumption
    <3> QED BY <1>1, <2>1, <3>1, <3>2, Zenon
  <2> QED BY <1>1, <1>2, <2>2, Zenon DEF Searched, From
<1>4. FailsOnlyWithoutRun'
  <2>1. \A s \in Page : s >= 0
    BY PMMAssumption DEF Page
  <2>2. \A s \in Page :
          /\ s + n_pages[t] <= prev_index[t] => ~FreeRun(s, n_pages[t])
          /\ s >= prev_index[t] /\ s + n_pages[t] <= Top
               => ~FreeRun(s, n_pages[t])
    BY <1>3, <2>1 DEF NoRun
  <2>3. UNCHANGED <<bitmap, pc, prev_index, n_pages>>
    BY <1>1, Zenon DEF locals
  <2> QED BY <1>1, <2>2, <2>3, Zenon DEF FailsOnlyWithoutRun, FreeRun
<1>5. HaltInv'
  BY <1>1, <1>4, Zenon DEF HaltInv
<1>6. TypeOK'
  BY <1>1, Zenon DEF IInv, TypeOK, locals
<1>7. LockInv' /\ RequestInv' /\ OwnInv'
  BY <1>1, Zenon DEF IInv, LockInv, RequestInv, OwnInv, Holds, Freeing, locals
<1>8. SearchInv'
  BY <1>1, SameSearch, Zenon DEF IInv, SearchInv, locals
<1> QED BY <1>5, <1>6, <1>7, <1>8 DEF IInv

\* A block that a thread frees goes over from blocks to Freeing.
LEMMA FreeCall ==
  ASSUME IInv, NEW t \in Threads, NEW b \in blocks, pmm_free(t, b) PROVE IInv'
<1>1. /\ halted = "no" /\ pc[t] = "idle"
      /\ blocks' = blocks \ {b}
      /\ index' = [index EXCEPT ![t] = b.start]
      /\ n_pages' = [n_pages EXCEPT ![t] = b.n]
      /\ pc' = [pc EXCEPT ![t] = "free"]
      /\ UNCHANGED <<bitmap, bitmap_prev_index, spin_lock, consecutive_pages,
                     prev_index, halted>>
  BY DEF pmm_free, At
<1>2. /\ b.start \in 0 .. Top /\ b.n \in 0 .. MaxRequest /\ b.n >= 1
  <2>1. b \in [start : Page, n : Request]
    BY Zenon DEF IInv, TypeOK
  <2>2. b.start \in Page /\ b.n \in Request
    BY <2>1
  <2> QED BY <2>2, PMMAssumption DEF Page, Request
<1>3. /\ pc'[t] = "free" /\ n_pages'[t] = b.n /\ index'[t] = b.start
      /\ \A u \in Threads \ {t} : pc'[u] = pc[u] /\ n_pages'[u] = n_pages[u]
                                    /\ index'[u] = index[u]
  BY <1>1 DEF IInv, TypeOK
<1>4. /\ Freeing(t) = {} /\ Freeing(t)' = PagesOf(b)
      /\ \A u \in Threads \ {t} : Freeing(u)' = Freeing(u)
  BY <1>1, <1>3 DEF Freeing, PagesOf
<1>5. TypeOK'
  BY <1>1, <1>2 DEF IInv, TypeOK
<1>6. LockInv' /\ RequestInv'
  BY <1>1, <1>2, <1>3 DEF IInv, LockInv, RequestInv, Holds
<1>7. OwnInv'
  <2>1. /\ \A c \in blocks' : PagesOf(c) \subseteq Usable
        /\ \A u \in Threads : Freeing(u)' \subseteq Usable
    BY <1>1, <1>4 DEF IInv, OwnInv
  <2>2. \A c, d \in blocks' : c # d => PagesOf(c) \cap PagesOf(d) = {}
    BY <1>1 DEF IInv, OwnInv
  <2>3. \A c \in blocks', u \in Threads : PagesOf(c) \cap Freeing(u)' = {}
    BY <1>1, <1>4 DEF IInv, OwnInv
  <2>4. \A u, w \in Threads : u # w => Freeing(u)' \cap Freeing(w)' = {}
    BY <1>4 DEF IInv, OwnInv
  <2>5. ASSUME NEW p \in Page
        PROVE  bitmap'[p] <=> \/ p \notin Usable
                              \/ \E c \in blocks' : p \in PagesOf(c)
                              \/ \E u \in Threads : p \in Freeing(u)'
    <3>1. bitmap[p] <=> \/ p \notin Usable
                        \/ \E c \in blocks : p \in PagesOf(c)
                        \/ \E u \in Threads : p \in Freeing(u)
      BY DEF IInv, OwnInv
    <3>2. (\E c \in blocks : p \in PagesOf(c))
            <=> (\E c \in blocks' : p \in PagesOf(c)) \/ p \in PagesOf(b)
      BY <1>1
    <3>3. (\E u \in Threads : p \in Freeing(u)')
            <=> (\E u \in Threads : p \in Freeing(u)) \/ p \in PagesOf(b)
      BY <1>4
    <3> QED BY <1>1, <3>1, <3>2, <3>3
  <2> QED BY <2>1, <2>2, <2>3, <2>4, <2>5 DEF OwnInv
<1>8. SearchInv'
  BY <1>1, <1>3, SameSearch DEF IInv, SearchInv
<1>9. HaltInv'
  BY <1>1 DEF HaltInv, FailsOnlyWithoutRun
<1> QED BY <1>5, <1>6, <1>7, <1>8, <1>9 DEF IInv

\* pmm_free takes the lock.
LEMMA FreeLock ==
  ASSUME IInv, NEW t \in Threads, pmm_free_lock(t) PROVE IInv'
<1>1. /\ halted = "no" /\ pc[t] = "free" /\ spin_lock = 0
      /\ spin_lock' = 1
      /\ pc' = [pc EXCEPT ![t] = "clear"]
      /\ UNCHANGED <<bitmap, bitmap_prev_index, n_pages, index,
                     consecutive_pages, prev_index, blocks, halted>>
  BY DEF pmm_free_lock, At, LockFree, locals
<1>2. /\ pc'[t] = "clear" /\ \A u \in Threads \ {t} : pc'[u] = pc[u]
      /\ \A u \in Threads : ~Holds(u)
  BY <1>1 DEF IInv, TypeOK, LockInv
<1>3. \A u \in Threads : Freeing(u)' = Freeing(u)
  BY <1>1, <1>2 DEF Freeing
<1>4. TypeOK' /\ OwnInv'
  BY <1>1, <1>3 DEF IInv, TypeOK, OwnInv
<1>5. LockInv' /\ RequestInv' /\ SearchInv'
  BY <1>1, <1>2 DEF IInv, LockInv, RequestInv, SearchInv, Holds
<1>6. HaltInv'
  BY <1>1 DEF HaltInv, FailsOnlyWithoutRun
<1> QED BY <1>4, <1>5, <1>6 DEF IInv

\* The bit that pmm_free clears is set: its panic is never reached.
LEMMA FreePage ==
  ASSUME IInv, NEW t \in Threads, pmm_free_page(t) PROVE IInv'
<1> DEFINE q == index[t]
           n == n_pages[t]
<1>1. /\ pc[t] = "clear" /\ halted = "no"
      /\ q \in 0 .. Top /\ n \in 0 .. MaxRequest /\ n >= 1
  BY Zenon DEF pmm_free_page, At, IInv, TypeOK, RequestInv
<1>2. /\ q \in Nat /\ n \in Nat
      /\ q \in q .. q + n - 1
      /\ Freeing(t) = q .. q + n - 1
  BY <1>1, PMMAssumption DEF Freeing
<1>3. q \in Usable /\ q \in Page
  BY <1>2, PMMAssumption DEF IInv, OwnInv, Page
<1>4. bitmap[q]
  BY <1>2, <1>3 DEF IInv, OwnInv
<1>5. /\ bitmap' = [bitmap EXCEPT ![q] = FALSE]
      /\ UNCHANGED <<bitmap_prev_index, spin_lock, consecutive_pages, prev_index,
                     blocks, halted>>
  BY <1>4 DEF pmm_free_page
<1>6. /\ index' \in [Threads -> 0 .. Top] /\ n_pages' \in [Threads -> 0 .. MaxRequest]
      /\ pc' \in [Threads -> {"idle", "alloc", "scan", "rescan", "free", "clear",
                              "unlock"}]
      /\ Freeing(t)' = Freeing(t) \ {q}
      /\ pc'[t] \in {"clear", "unlock"} /\ (pc'[t] = "clear" => n_pages'[t] >= 1)
      /\ \A u \in Threads \ {t} : pc'[u] = pc[u] /\ index'[u] = index[u]
                                    /\ n_pages'[u] = n_pages[u]
  <2>1. CASE n > 1
    <3>1. /\ index' = [index EXCEPT ![t] = q + 1]
          /\ n_pages' = [n_pages EXCEPT ![t] = n - 1]
          /\ pc' = pc
      BY <1>4, <2>1 DEF pmm_free_page, PagesLeft
    <3>2. q + 1 \in 0 .. Top /\ n - 1 \in 0 .. MaxRequest /\ n - 1 >= 1
      BY <1>1, <1>2, <1>3, <2>1, PMMAssumption DEF Page
    <3>3. index'[t] = q + 1 /\ n_pages'[t] = n - 1 /\ pc'[t] = "clear"
      BY <1>1, <3>1 DEF IInv, TypeOK
    <3>4. Freeing(t)' = (q + 1) .. (q + 1) + (n - 1) - 1
      BY <3>3 DEF Freeing
    <3>5. (q + 1) .. (q + 1) + (n - 1) - 1 = (q .. q + n - 1) \ {q}
      BY <1>2
    <3> QED BY <1>2, <3>1, <3>2, <3>3, <3>4, <3>5, Zenon DEF IInv, TypeOK
  <2>2. CASE ~(n > 1)
    <3>1. /\ pc' = [pc EXCEPT ![t] = "unlock"]
          /\ index' = index /\ n_pages' = n_pages
      BY <1>4, <2>2 DEF pmm_free_page, PagesLeft
    <3>2. q .. q + n - 1 = {q}
      BY <1>1, <1>2, <2>2
    <3>3. Freeing(t)' = {}
      BY <3>1, Zenon DEF Freeing, IInv, TypeOK
    <3> QED BY <1>2, <3>1, <3>2, <3>3, Zenon DEF IInv, TypeOK
  <2> QED BY <2>1, <2>2
<1>7. \A u \in Threads \ {t} : Freeing(u)' = Freeing(u) /\ ~Holds(u)
  BY <1>1, <1>6 DEF Freeing, IInv, LockInv, Holds
<1>8. TypeOK'
  BY <1>5, <1>6, Zenon DEF IInv, TypeOK
<1>9. LockInv' /\ RequestInv' /\ SearchInv'
  BY <1>1, <1>5, <1>6, <1>7 DEF IInv, LockInv, RequestInv, SearchInv, Holds
<1>10. OwnInv'
  <2>0. \A u \in Threads : Freeing(u)' \subseteq Freeing(u)
    <3>1. Freeing(t)' \subseteq Freeing(t)
      BY <1>6
    <3>2. \A u \in Threads \ {t} : Freeing(u)' \subseteq Freeing(u)
      BY <1>7, Zenon
    <3> QED BY <3>1, <3>2, Zenon
  <2>1. /\ \A b \in blocks : PagesOf(b) \subseteq Usable
        /\ \A u \in Threads : Freeing(u)' \subseteq Usable
        /\ \A b, c \in blocks : b # c => PagesOf(b) \cap PagesOf(c) = {}
        /\ \A b \in blocks, u \in Threads : PagesOf(b) \cap Freeing(u)' = {}
    <3>1. \A b \in blocks : PagesOf(b) \subseteq Usable
      BY Zenon DEF IInv, OwnInv
    <3>2. \A b, c \in blocks : b # c => PagesOf(b) \cap PagesOf(c) = {}
      BY Zenon DEF IInv, OwnInv
    <3>3. ASSUME NEW u \in Threads
          PROVE  /\ Freeing(u)' \subseteq Usable
                 /\ \A b \in blocks : PagesOf(b) \cap Freeing(u)' = {}
      <4>1. /\ Freeing(u) \subseteq Usable
            /\ \A b \in blocks : PagesOf(b) \cap Freeing(u) = {}
        BY Zenon DEF IInv, OwnInv
      <4>2. Freeing(u)' \subseteq Freeing(u)
        BY <2>0, Zenon
      <4> QED BY <4>1, <4>2
    <3> QED BY <3>1, <3>2, <3>3, Zenon
  <2>2. \A u, w \in Threads : u # w => Freeing(u)' \cap Freeing(w)' = {}
    <3> SUFFICES ASSUME NEW u \in Threads, NEW w \in Threads, u # w
                 PROVE  Freeing(u)' \cap Freeing(w)' = {}
      OBVIOUS
    <3>1. Freeing(u) \cap Freeing(w) = {}
      BY Zenon DEF IInv, OwnInv
    <3>2. Freeing(u)' \subseteq Freeing(u) /\ Freeing(w)' \subseteq Freeing(w)
      BY <2>0, Zenon
    <3> QED BY <3>1, <3>2
  <2>3. ASSUME NEW p \in Page
        PROVE  bitmap'[p] <=> \/ p \notin Usable
                              \/ \E b \in blocks : p \in PagesOf(b)
                              \/ \E u \in Threads : p \in Freeing(u)'
    <3>1. CASE p = q
      <4>1. ~bitmap'[p]
        BY <1>3, <1>5, <3>1, Zenon DEF IInv, TypeOK
      <4>2. /\ \A b \in blocks : q \notin PagesOf(b)
            /\ \A u \in Threads : q \notin Freeing(u)'
        <5>1. q \in Freeing(t) /\ q \notin Freeing(t)'
          BY <1>2, <1>6
        <5>2. \A b \in blocks : q \notin PagesOf(b)
          BY <5>1 DEF IInv, OwnInv
        <5>3. \A u \in Threads \ {t} : q \notin Freeing(u)
          BY <5>1 DEF IInv, OwnInv
        <5> QED BY <1>7, <5>1, <5>2, <5>3
      <4> QED BY <1>3, <3>1, <4>1, <4>2
    <3>2. CASE p # q
      <4>1. bitmap'[p] = bitmap[p]
        BY <1>5, <3>2, Zenon DEF IInv, TypeOK
      <4>2. \A u \in Threads : p \in Freeing(u)' <=> p \in Freeing(u)
        BY <1>6, <1>7, <3>2
      <4> QED BY <4>1, <4>2 DEF IInv, OwnInv
    <3> QED BY <3>1, <3>2
  <2> QED BY <1>5, <2>1, <2>2, <2>3 DEF OwnInv
<1>11. HaltInv'
  BY <1>1, <1>5 DEF HaltInv, FailsOnlyWithoutRun
<1> QED BY <1>8, <1>9, <1>10, <1>11 DEF IInv

\* The lock is released, and the call returns.
LEMMA UnlockStep ==
  ASSUME IInv, NEW t \in Threads, unlock(t) PROVE IInv'
<1>1. /\ halted = "no" /\ pc[t] = "unlock"
      /\ spin_lock' = 0
      /\ pc' = [pc EXCEPT ![t] = "idle"]
      /\ n_pages' = [n_pages EXCEPT ![t] = 0]
      /\ index' = [index EXCEPT ![t] = 0]
      /\ prev_index' = [prev_index EXCEPT ![t] = 0]
      /\ UNCHANGED <<bitmap, bitmap_prev_index, consecutive_pages, blocks, halted>>
  BY DEF unlock, At
<1>2. /\ pc'[t] = "idle"
      /\ \A u \in Threads \ {t} : /\ pc'[u] = pc[u] /\ index'[u] = index[u]
                                  /\ n_pages'[u] = n_pages[u] /\ ~Holds(u)
  BY <1>1 DEF IInv, TypeOK, LockInv, Holds
<1>3. \A u \in Threads : Freeing(u)' = Freeing(u)
  BY <1>1, <1>2 DEF Freeing
<1>4. TypeOK'
  <2>1. 0 \in 0 .. Top /\ 0 \in 0 .. MaxRequest
    BY PMMAssumption
  <2> QED BY <1>1, <2>1 DEF IInv, TypeOK
<1>5. LockInv' /\ RequestInv' /\ SearchInv'
  BY <1>2 DEF IInv, LockInv, RequestInv, SearchInv, Holds
<1>6. OwnInv'
  BY <1>1, <1>3 DEF IInv, OwnInv
<1>7. HaltInv'
  BY <1>1 DEF HaltInv, FailsOnlyWithoutRun
<1> QED BY <1>4, <1>5, <1>6, <1>7 DEF IInv

-----------------------------------------------------------------------------
\* Every step preserves the invariant.
LEMMA NextInv == ASSUME IInv, [Next]_vars PROVE IInv'
<1>1. CASE UNCHANGED vars
  <2>1. TypeOK' /\ LockInv' /\ OwnInv' /\ RequestInv'
    BY <1>1, ZenonT(40) DEF vars, locals, IInv, TypeOK, LockInv, OwnInv, RequestInv, Holds, Freeing
  <2>2. SearchInv'
    BY <1>1, SameSearch, Zenon DEF vars, locals, IInv, SearchInv
  <2>3. HaltInv'
    BY <1>1, Zenon DEF vars, locals, IInv, HaltInv, FailsOnlyWithoutRun, FreeRun
  <2> QED BY <2>1, <2>2, <2>3 DEF IInv
<1> QED BY <1>1, AllocCall, AllocLock, SearchNext, SearchFound, SearchWrap,
           SearchFail, FreeCall, FreeLock, FreePage, UnlockStep
        DEF Next, Call, Inside

\* The invariant holds in every reachable state.
LEMMA Inductive == Spec => []IInv
BY InitInv, NextInv, PTL DEF Spec

(***************************************************************************)
(* The variables of pmm.c keep their types: no search reads a bit beyond   *)
(* bitmap_top_index.                                                       *)
(***************************************************************************)
THEOREM TypeCorrect == Spec => []TypeOK
<1>1. IInv => TypeOK
  BY DEF IInv
<1> QED BY <1>1, Inductive, PTL

(***************************************************************************)
(* Two threads are never in the critical section of pmm.c together.        *)
(***************************************************************************)
THEOREM MutualExclusion ==
  Spec => [](\A t, u \in Threads : Holds(t) /\ Holds(u) => t = u)
<1>1. IInv => \A t, u \in Threads : Holds(t) /\ Holds(u) => t = u
  BY DEF IInv, LockInv
<1> QED BY <1>1, Inductive, PTL

(***************************************************************************)
(* The bitmap tells the truth at every moment, also in the middle of a     *)
(* pmm_free: a page has at most one owner, and its bit is set exactly if   *)
(* it has one or is not usable.                                            *)
(***************************************************************************)
THEOREM BitmapAlwaysExact == Spec => []BitmapExact
<1>1. ASSUME IInv PROVE BitmapExact
  <2> SUFFICES ASSUME NEW p \in Page
               PROVE  /\ \A o1, o2 \in Owners(p) : o1 = o2
                      /\ bitmap[p] <=> p \notin Usable \/ Owners(p) # {}
    BY DEF BitmapExact
  <2>1. \A o \in Owners(p) : \/ o \in blocks /\ p \in PagesOf(o)
                             \/ o \in Threads /\ p \in Freeing(o)
    BY DEF Owners
  <2>2. \A o1, o2 \in Owners(p) : o1 = o2
    BY <1>1, <2>1 DEF IInv, OwnInv
  <2>3. Owners(p) # {} <=> \/ \E b \in blocks : p \in PagesOf(b)
                           \/ \E t \in Threads : p \in Freeing(t)
    BY DEF Owners
  <2>4. bitmap[p] <=> p \notin Usable \/ Owners(p) # {}
    BY <1>1, <2>3 DEF IInv, OwnInv
  <2> QED BY <2>2, <2>4
<1> QED BY <1>1, Inductive, PTL

(***************************************************************************)
(* pmm_alloc_nozero panics only after a search that has overlooked no run  *)
(* on either side of the index where it began.                             *)
(***************************************************************************)
THEOREM PanicJustified == Spec => []FailsOnlyWithoutRun
<1>1. IInv => FailsOnlyWithoutRun
  BY Zenon DEF IInv, HaltInv
<1> QED BY <1>1, Inductive, PTL

(***************************************************************************)
(* A pmm_free of a block that pmm_alloc returned never finds a bit already *)
(* clear, whatever allocations and frees run between its iterations.       *)
(***************************************************************************)
THEOREM NeverAlreadyFree == Spec => [](halted # "already free")
<1>1. IInv => halted # "already free"
  BY Zenon DEF IInv, HaltInv
<1> QED BY <1>1, Inductive, PTL

-----------------------------------------------------------------------------
(***************************************************************************)
(* The refinement.  Two steps change the blocks held by callers: the       *)
(* iteration that completes a run is PA!Alloc of that run, and a call of   *)
(* pmm_free is PA!Free of its block.  Every other step stutters.           *)
(***************************************************************************)
LEMMA StepRefines == ASSUME IInv, [Next]_vars PROVE [PA!Next]_blocks
<1>1. ASSUME NEW t \in Threads, physical_alloc_found(t)
      PROVE  PA!Next
  <2> DEFINE b == [start |-> FirstPage(bitmap_prev_index, n_pages[t]),
                   n |-> n_pages[t]]
  <2>1. blocks' = blocks \union {b}
    BY <1>1 DEF physical_alloc_found
  <2>2. /\ b \in [start : Page, n : Request] /\ b.start \in Usable
        /\ PagesOf(b) \subseteq Usable
        /\ \A c \in blocks : PagesOf(b) \cap PagesOf(c) = {}
    BY <1>1, FoundFree
  <2>3. b \in PA!Block
    BY <2>2 DEF PA!Block, Request
  <2> HIDE DEF b
  <2>4. PA!Alloc(b)
    BY <2>1, <2>2 DEF PA!Alloc, PA!PagesOf, PagesOf
  <2> QED BY <2>3, <2>4 DEF PA!Next
<1>2. ASSUME NEW t \in Threads, NEW b \in blocks, pmm_free(t, b)
      PROVE  PA!Next
  <2>1. blocks' = blocks \ {b}
    BY <1>2 DEF pmm_free
  <2>2. b \in [start : Page, n : Request] /\ PagesOf(b) \subseteq Usable
    BY Zenon DEF IInv, TypeOK, OwnInv
  <2>3. b.start \in PagesOf(b)
    <3>1. b.start \in Page /\ b.n \in Request
      BY <2>2
    <3>2. b.start \in Nat /\ b.n \in Nat /\ b.n >= 1
      BY <3>1, PMMAssumption DEF Page, Request
    <3> QED BY <3>2 DEF PagesOf
  <2>4. b \in PA!Block
    BY <2>2, <2>3 DEF PA!Block, Request
  <2>5. PA!Free(b)
    BY <2>1 DEF PA!Free
  <2> QED BY <2>4, <2>5 DEF PA!Next
<1>3. ASSUME NEW t \in Threads,
             \/ \E n \in Request : pmm_alloc(t, n)
             \/ pmm_alloc_nozero(t) \/ pmm_free_lock(t)
             \/ physical_alloc_next(t) \/ physical_alloc_wrap(t)
             \/ physical_alloc_fail(t) \/ pmm_free_page(t) \/ unlock(t)
      PROVE  UNCHANGED blocks
  BY <1>3, Zenon DEF pmm_alloc, pmm_alloc_nozero, pmm_free_lock, physical_alloc_next,
              physical_alloc_wrap, physical_alloc_fail, pmm_free_page, unlock
<1>4. CASE UNCHANGED vars
  BY <1>4 DEF vars
<1> QED BY <1>1, <1>2, <1>3, <1>4 DEF Next, Call, Inside

(***************************************************************************)
(* The bitmap, the cursor and the lock of pmm.c implement the page         *)
(* allocator: every block handed out consists of usable pages that no      *)
(* other caller has, until it is given back.                               *)
(***************************************************************************)
THEOREM RefinesPageAllocator == Spec => ImplementsPageAllocator
<1>1. Init => PA!Init
  BY DEF Init, PA!Init
<1>2. Spec => PA!Spec
  BY <1>1, StepRefines, Inductive, PTL DEF Spec, PA!Spec
<1> QED BY <1>2 DEF ImplementsPageAllocator

-----------------------------------------------------------------------------
(* pmm_init.  Pages are numbers of PAGE_SIZE bytes. *)

\* A set of natural numbers that is not empty has a smallest element.
LEMMA Smallest ==
  ASSUME NEW S \in SUBSET Nat, S # {}
  PROVE  \E x \in S : \A y \in S : x <= y
<1>1. \E x \in S : \A y \in S : ~(<<y, x>> \in OpToRel(<, Nat))
  BY WFMin, NatLessThanWellFounded, Zenon
<1>2. PICK x \in S : \A y \in S : ~(<<y, x>> \in OpToRel(<, Nat))
  BY <1>1, Zenon
<1>3. \A y \in S : <<y, x>> \in Nat \X Nat /\ <<y, x>>[1] = y /\ <<y, x>>[2] = x
  BY <1>2, Zenon
<1>4. \A y \in S : ~(y < x)
  BY <1>2, <1>3, Zenon DEF OpToRel
<1>5. x \in Nat /\ \A y \in S : y \in Nat
  BY <1>2, Zenon
<1>6. \A y \in S : x <= y
  BY <1>4, <1>5
<1> QED BY <1>6

\* A page is not empty.
LEMMA PageSize == PAGE_SIZE \in Nat /\ PAGE_SIZE >= 1
BY PhysicalMemoryAssumption

\* A page-aligned address is that of a page.
LEMMA Aligned ==
  ASSUME NEW a \in Nat, a % PAGE_SIZE = 0
  PROVE  \E q \in Nat : a = q * PAGE_SIZE
<1>1. \A n \in Nat, w \in Nat \ {0} : n \div w \in Nat /\ n = (n \div w) * w + (n % w)
  OBVIOUS
<1>2. a \div PAGE_SIZE \in Nat /\ a = (a \div PAGE_SIZE) * PAGE_SIZE + 0
  BY <1>1, PhysicalMemoryAssumption
<1>3. (a \div PAGE_SIZE) * PAGE_SIZE \in Nat
  BY <1>2, PageSize
<1> QED BY <1>2, <1>3

\* The number of a page, from its address
LEMMA PageOf ==
  ASSUME NEW q \in Nat PROVE (q * PAGE_SIZE) \div PAGE_SIZE = q
<1>1. \A b \in Nat, w \in Nat \ {0} : (b * w) \div w = b
  OBVIOUS
<1> QED BY <1>1, PhysicalMemoryAssumption

\* Addresses of pages are ordered, added and subtracted like the pages.
LEMMA PageArithmetic ==
  ASSUME NEW q \in Nat, NEW r \in Nat
  PROVE  /\ q * PAGE_SIZE \in Nat
         /\ q * PAGE_SIZE + r * PAGE_SIZE = (q + r) * PAGE_SIZE
         /\ q * PAGE_SIZE <= r * PAGE_SIZE <=> q <= r
         /\ q <= r => r * PAGE_SIZE - q * PAGE_SIZE = (r - q) * PAGE_SIZE
<1>1. \A w \in Nat \ {0} : /\ q * w \in Nat /\ q * w + r * w = (q + r) * w
                           /\ q <= r => r * w - q * w = (r - q) * w
  OBVIOUS
<1>2. \A w \in Nat \ {0} : q <= r => q * w <= r * w
  OBVIOUS
<1>3. \A w \in Nat \ {0} : q * w <= r * w => q <= r
  OBVIOUS
<1> QED BY <1>1, <1>2, <1>3, PhysicalMemoryAssumption

\* The pages of an entry that begins with page q and has n pages
LEMMA EntryPages ==
  ASSUME NEW e \in Boot!Entry, NEW q \in Nat, NEW n \in Nat,
         e.base = q * PAGE_SIZE, e.length = n * PAGE_SIZE
  PROVE  Boot!PagesOf(e) = q .. q + n - 1 /\ Boot!End(e) = (q + n) * PAGE_SIZE
<1>1. Boot!End(e) = (q + n) * PAGE_SIZE
  BY PageArithmetic DEF Boot!End
<1>2. Boot!End(e) \div PAGE_SIZE = q + n /\ e.base \div PAGE_SIZE = q
  BY <1>1, PageOf
<1> QED BY <1>1, <1>2 DEF Boot!PagesOf

\* The bitmap is a number of pages, and at most seven pages have no bit in it.
LEMMA BitmapSize ==
  ASSUME NEW top \in Nat
  PROVE  /\ \E n \in Nat : Boot!ALIGN_UP(top \div 8, PAGE_SIZE) = n * PAGE_SIZE
         /\ top <= 8 * Boot!ALIGN_UP(top \div 8, PAGE_SIZE) + 7
<1> DEFINE m == top \div 8
           a == m + PAGE_SIZE - 1
           n == a \div PAGE_SIZE
<1>1. m \in Nat /\ top <= 8 * m + 7 /\ a \in Nat /\ a = m + PAGE_SIZE - 1
  BY PageSize
<1> HIDE DEF a
<1>2. \A x \in Nat, w \in Nat \ {0} :
        x \div w \in Nat /\ (x \div w) * w <= x /\ x < (x \div w) * w + w
  OBVIOUS
<1>3. n \in Nat /\ a < n * PAGE_SIZE + PAGE_SIZE
  BY <1>1, <1>2, PhysicalMemoryAssumption
<1>4. n * PAGE_SIZE \in Nat
  BY <1>3, PageArithmetic
<1>5. Boot!ALIGN_UP(m, PAGE_SIZE) = n * PAGE_SIZE
  BY DEF Boot!ALIGN_UP, a
<1> HIDE DEF m, n
<1>6. m <= n * PAGE_SIZE
  BY <1>1, <1>3, <1>4, PageSize
<1>7. top <= 8 * (n * PAGE_SIZE) + 7
  BY <1>1, <1>4, <1>6
<1> QED BY <1>3, <1>5, <1>7 DEF m

\* Finitely many numbers have a bound: a first prefix without one would have
\* another before it.
LEMMA FiniteBound ==
  ASSUME NEW n \in Nat, NEW f \in [1 .. n -> Nat]
  PROVE  \E b \in Nat : \A k \in 1 .. n : f[k] <= b
<1> DEFINE Bad == {m \in 0 .. n : ~\E b \in Nat : \A k \in 1 .. m : f[k] <= b}
<1>1. \A m \in 0 .. n : m \notin Bad <=> \E b \in Nat : \A k \in 1 .. m : f[k] <= b
  OBVIOUS
<1>2. Bad \in SUBSET Nat /\ Bad \subseteq 0 .. n
  OBVIOUS
<1>3. 0 \notin Bad
  <2>1. 0 \in Nat /\ 0 \in 0 .. n /\ 1 .. 0 = {}
    OBVIOUS
  <2> QED BY <1>1, <2>1
<1>4. ASSUME NEW m \in 0 .. n, m > 0, m - 1 \notin Bad PROVE m \notin Bad
  <2>1. m - 1 \in 0 .. n /\ m \in 1 .. n
    BY <1>4
  <2>2. PICK b \in Nat : \A k \in 1 .. m - 1 : f[k] <= b
    BY <1>1, <1>4, <2>1
  <2>3. f[m] \in Nat /\ b + f[m] \in Nat
    BY <2>1
  <2>4. \A k \in 1 .. m : f[k] <= b + f[m]
    <3> TAKE k \in 1 .. m
    <3>1. f[k] \in Nat /\ (k = m \/ k \in 1 .. m - 1)
      BY <2>1
    <3> QED BY <2>2, <2>3, <3>1
  <2> QED BY <1>1, <2>3, <2>4, Zenon
<1> HIDE DEF Bad
<1>5. Bad = {}
  <2> SUFFICES ASSUME Bad # {} PROVE FALSE
    OBVIOUS
  <2>1. PICK x \in Bad : \A y \in Bad : x <= y
    BY <1>2, Smallest
  <2>2. x \in 0 .. n /\ x > 0
    BY <1>2, <1>3, <2>1
  <2>3. x - 1 \notin Bad
    BY <2>1, <2>2
  <2> QED BY <1>4, <2>1, <2>2, <2>3
<1>6. n \in 0 .. n
  OBVIOUS
<1> QED BY <1>1, <1>5, <1>6, Zenon

\* The usable entries of a memory map have an end that is the highest.
LEMMA HighestEnd ==
  ASSUME NEW map \in Seq(Boot!Entry)
  PROVE  Boot!Max({0} \union {Boot!End(e) : e \in Boot!UsableEntries(map)}) \in Nat
<1> DEFINE S == {0} \union {Boot!End(e) : e \in Boot!UsableEntries(map)}
           f == [k \in 1 .. Len(map) |-> Boot!End(map[k])]
<1>1. Len(map) \in Nat /\ \A k \in 1 .. Len(map) : map[k] \in Boot!Entry
  OBVIOUS
<1>2. \A k \in 1 .. Len(map) : Boot!End(map[k]) \in Nat
  BY <1>1 DEF Boot!End, Boot!Entry
<1>3. f \in [1 .. Len(map) -> Nat] /\ \A k \in 1 .. Len(map) : f[k] = Boot!End(map[k])
  BY <1>2
<1> HIDE DEF f
<1>4. PICK b \in Nat : \A k \in 1 .. Len(map) : Boot!End(map[k]) <= b
  BY <1>1, <1>3, FiniteBound, Zenon
<1>5. S \in SUBSET Nat /\ \A y \in S : y <= b
  <2> SUFFICES ASSUME NEW y \in S PROVE y \in Nat /\ y <= b
    BY Zenon
  <2>1. CASE y = 0
    BY <2>1
  <2>2. CASE y # 0
    <3>1. PICK k \in DOMAIN map : y = Boot!End(map[k])
      BY <2>2 DEF Boot!UsableEntries
    <3> QED BY <1>1, <1>2, <1>4, <3>1
  <2> QED BY <2>1, <2>2
<1> DEFINE U == {n \in Nat : \A y \in S : y <= n}
<1>6. b \in U /\ U \in SUBSET Nat
  BY <1>5
<1> HIDE DEF S
<1>7. PICK u \in U : \A v \in U : u <= v
  BY <1>6, Smallest, Zenon
<1>8. u \in S
  <2> SUFFICES ASSUME u \notin S PROVE FALSE
    OBVIOUS
  <2>1. 0 \in S
    BY DEF S
  <2>2. u \in Nat /\ u # 0 /\ \A y \in S : y <= u /\ y # u /\ y \in Nat
    BY <1>5, <1>7, <2>1
  <2>3. u - 1 \in Nat /\ u - 1 < u /\ \A y \in S : y <= u - 1
    BY <2>2
  <2>4. u <= u - 1
    BY <1>7, <2>3
  <2> QED BY <2>2, <2>4
<1>9. \A y \in S : u >= y
  BY <1>5, <1>7, <1>8
<1>10. Boot!Max(S) \in S
  BY <1>8, <1>9, Zenon DEF Boot!Max
<1> QED BY <1>5, <1>10 DEF S

\* The pages pmm_init clears the bits of
FreePages == UNION {Boot!PagesOf(e) : e \in Boot!UsableEntries(entries)}

\* The bitmap lies at the beginning of entry k of the memory map.
PlacedIn(k) ==
  /\ Boot!Fits(memmap[k])
  /\ bitmap_address = memmap[k].base
  /\ entries = [memmap EXCEPT ![k] = Boot!Shrunk(memmap[k])]

BootInv ==
  /\ memmap \in MemoryMaps
  /\ bitmap_top_index \in Nat
  /\ boot_pc \in {"highest", "place"} => entries = memmap
  /\ boot_pc \in {"place", "populate", "done"} =>
       /\ \E n \in Nat : bitmap_size = n * PAGE_SIZE
       /\ bitmap_top_index <= 8 * bitmap_size + 7
  /\ boot_pc \in {"populate", "done"} => \E k \in DOMAIN memmap : PlacedIn(k)
  /\ boot_pc = "populate" => used = 0 .. 8 * bitmap_size - 1
  /\ boot_pc = "done" => used = (0 .. 8 * bitmap_size - 1) \ FreePages

\* The pages of an entry of a memory map
LEMMA MapPages ==
  ASSUME NEW m, Boot!IsMemoryMap(m), NEW k \in DOMAIN m, Boot!IsUsable(m[k])
  PROVE  /\ m[k] \in Boot!Entry
         /\ \E q, n \in Nat : /\ m[k].base = q * PAGE_SIZE
                              /\ m[k].length = n * PAGE_SIZE
                              /\ Boot!PagesOf(m[k]) = q .. q + n - 1
                              /\ Boot!End(m[k]) = (q + n) * PAGE_SIZE
<1>1. m[k] \in Boot!Entry
  BY DEF Boot!IsMemoryMap
<1>2. m[k].base \in Nat /\ m[k].length \in Nat
  BY <1>1 DEF Boot!Entry
<1>3. m[k].base % PAGE_SIZE = 0 /\ m[k].length % PAGE_SIZE = 0
  BY DEF Boot!IsMemoryMap, Boot!UsableEntries
<1>4. PICK q \in Nat : m[k].base = q * PAGE_SIZE
  BY <1>2, <1>3, Aligned
<1>5. PICK n \in Nat : m[k].length = n * PAGE_SIZE
  BY <1>2, <1>3, Aligned
<1>6. Boot!PagesOf(m[k]) = q .. q + n - 1 /\ Boot!End(m[k]) = (q + n) * PAGE_SIZE
  BY <1>1, <1>4, <1>5, EntryPages
<1> QED BY <1>1, <1>4, <1>5, <1>6

\* Two usable entries have no page in common.
LEMMA MapDisjoint ==
  ASSUME NEW m, Boot!IsMemoryMap(m), NEW k \in DOMAIN m, NEW j \in DOMAIN m, j # k,
         Boot!IsUsable(m[k]), Boot!IsUsable(m[j])
  PROVE  Boot!PagesOf(m[k]) \cap Boot!PagesOf(m[j]) = {}
<1>1. PICK q, n \in Nat : /\ m[k].base = q * PAGE_SIZE
                          /\ Boot!PagesOf(m[k]) = q .. q + n - 1
                          /\ Boot!End(m[k]) = (q + n) * PAGE_SIZE
  BY MapPages
<1>2. PICK r, l \in Nat : /\ m[j].base = r * PAGE_SIZE
                          /\ Boot!PagesOf(m[j]) = r .. r + l - 1
                          /\ Boot!End(m[j]) = (r + l) * PAGE_SIZE
  BY MapPages, Zenon
<1>3. Boot!End(m[k]) <= m[j].base \/ Boot!End(m[j]) <= m[k].base
  BY DEF Boot!IsMemoryMap
<1>4. q + n \in Nat /\ r + l \in Nat
  OBVIOUS
<1>5. q + n <= r \/ r + l <= q
  BY <1>1, <1>2, <1>3, <1>4, PageArithmetic
<1> QED BY <1>1, <1>2, <1>5

(***************************************************************************)
(* Wherever the bitmap has been placed, what is left of the entries are    *)
(* the usable pages without those of the bitmap.                           *)
(***************************************************************************)
LEMMA PlacedPages ==
  ASSUME BootInv, boot_pc \in {"populate", "done"}
  PROVE  /\ Boot!BitmapPages \subseteq Boot!UsablePages
         /\ FreePages = Boot!UsablePages \ Boot!BitmapPages
<1>1. PICK k \in DOMAIN memmap : PlacedIn(k)
  BY DEF BootInv
<1>2. PICK s \in Nat : bitmap_size = s * PAGE_SIZE
  BY DEF BootInv
<1>3. Boot!IsMemoryMap(memmap) /\ Boot!IsUsable(memmap[k])
  BY <1>1, PhysicalMemoryAssumption DEF BootInv, PlacedIn, Boot!Fits
<1>4. PICK q, n \in Nat : /\ memmap[k] \in Boot!Entry
                          /\ memmap[k].base = q * PAGE_SIZE
                          /\ memmap[k].length = n * PAGE_SIZE
                          /\ Boot!PagesOf(memmap[k]) = q .. q + n - 1
  BY <1>3, MapPages
<1>5. s <= n
  BY <1>1, <1>2, <1>4, PageArithmetic DEF PlacedIn, Boot!Fits
<1>6. Boot!BitmapPages = q .. q + s - 1
  <2>1. bitmap_address + bitmap_size = (q + s) * PAGE_SIZE
    BY <1>1, <1>2, <1>4, PageArithmetic DEF PlacedIn
  <2>2. (bitmap_address + bitmap_size) \div PAGE_SIZE = q + s
        /\ bitmap_address \div PAGE_SIZE = q
    BY <1>1, <1>4, <2>1, PageOf DEF PlacedIn
  <2> QED BY <2>2 DEF Boot!BitmapPages
<1> DEFINE e == Boot!Shrunk(memmap[k])
<1>7. e \in Boot!Entry /\ e.usable = memmap[k].usable /\ Boot!PagesOf(e) = q + s .. q + n - 1
  <2>1. e = [memmap[k] EXCEPT !.length = memmap[k].length - bitmap_size,
                              !.base = memmap[k].base + bitmap_size]
    BY DEF Boot!Shrunk
  <2>2. /\ memmap[k].length - bitmap_size = (n - s) * PAGE_SIZE
        /\ memmap[k].base + bitmap_size = (q + s) * PAGE_SIZE
        /\ n - s \in Nat /\ q + s \in Nat
    <3>1. n * PAGE_SIZE - s * PAGE_SIZE = (n - s) * PAGE_SIZE
      BY <1>5, PageArithmetic
    <3>2. q * PAGE_SIZE + s * PAGE_SIZE = (q + s) * PAGE_SIZE
      BY PageArithmetic
    <3>3. n - s \in Nat /\ q + s \in Nat
      BY <1>5
    <3>4. memmap[k].length - bitmap_size = n * PAGE_SIZE - s * PAGE_SIZE
      BY <1>2, <1>4, Zenon
    <3>5. memmap[k].base + bitmap_size = q * PAGE_SIZE + s * PAGE_SIZE
      BY <1>2, <1>4, Zenon
    <3> QED BY <3>1, <3>2, <3>3, <3>4, <3>5, Zenon
  <2>3. (n - s) * PAGE_SIZE \in Nat /\ (q + s) * PAGE_SIZE \in Nat
    BY <2>2, PageArithmetic
  <2>4. /\ e \in Boot!Entry /\ e.usable = memmap[k].usable
        /\ e.base = (q + s) * PAGE_SIZE /\ e.length = (n - s) * PAGE_SIZE
    BY <1>4, <2>1, <2>2, <2>3, Zenon DEF Boot!Entry
  <2>5. Boot!PagesOf(e) = q + s .. (q + s) + (n - s) - 1
    BY <2>2, <2>4, EntryPages
  <2>6. (q + s) + (n - s) - 1 = q + n - 1
    OBVIOUS
  <2> QED BY <2>4, <2>5, <2>6
<1> HIDE DEF e
<1>8. /\ DOMAIN entries = DOMAIN memmap /\ entries[k] = e
      /\ \A j \in DOMAIN memmap : j # k => entries[j] = memmap[j]
  <2>1. entries = [memmap EXCEPT ![k] = e]
    BY <1>1 DEF PlacedIn, e
  <2>2. memmap \in Seq(Boot!Entry)
    BY <1>3 DEF Boot!IsMemoryMap
  <2> QED BY <2>1, <2>2
<1>9. \A p : p \in Boot!UsablePages
               <=> \E j \in DOMAIN memmap : Boot!IsUsable(memmap[j]) /\ p \in Boot!PagesOf(memmap[j])
  BY DEF Boot!UsablePages, Boot!UsableEntries
<1>10. \A p : p \in FreePages
               <=> \E j \in DOMAIN memmap : Boot!IsUsable(entries[j]) /\ p \in Boot!PagesOf(entries[j])
  BY <1>8 DEF FreePages, Boot!UsableEntries
<1>11. Boot!IsUsable(e)
  BY <1>3, <1>7 DEF Boot!IsUsable
<1>12. /\ Boot!BitmapPages \subseteq Boot!PagesOf(memmap[k])
       /\ Boot!PagesOf(e) = Boot!PagesOf(memmap[k]) \ Boot!BitmapPages
  <2>1. /\ (q .. q + s - 1) \subseteq (q .. q + n - 1)
        /\ q + s .. q + n - 1 = (q .. q + n - 1) \ (q .. q + s - 1)
    BY <1>5
  <2> QED BY <1>4, <1>6, <1>7, <2>1, Zenon
<1>13. Boot!BitmapPages \subseteq Boot!UsablePages
  BY <1>3, <1>9, <1>12
<1>14. \A j \in DOMAIN memmap : j # k /\ Boot!IsUsable(memmap[j])
          => Boot!PagesOf(memmap[j]) \cap Boot!BitmapPages = {}
  BY <1>3, <1>12, MapDisjoint
<1>15. ASSUME NEW p PROVE p \in FreePages <=> p \in Boot!UsablePages \ Boot!BitmapPages
  <2>1. ASSUME p \in FreePages PROVE p \in Boot!UsablePages \ Boot!BitmapPages
    <3>1. PICK j \in DOMAIN memmap : Boot!IsUsable(entries[j]) /\ p \in Boot!PagesOf(entries[j])
      BY <1>10, <2>1
    <3>2. CASE j = k
      BY <1>3, <1>8, <1>9, <1>12, <3>1, <3>2
    <3>3. CASE j # k
      BY <1>8, <1>9, <1>14, <3>1, <3>3
    <3> QED BY <3>2, <3>3
  <2>2. ASSUME p \in Boot!UsablePages, p \notin Boot!BitmapPages PROVE p \in FreePages
    <3>1. PICK j \in DOMAIN memmap : Boot!IsUsable(memmap[j]) /\ p \in Boot!PagesOf(memmap[j])
      BY <1>9, <2>2
    <3>2. CASE j = k
      BY <1>8, <1>10, <1>11, <1>12, <2>2, <3>1, <3>2
    <3>3. CASE j # k
      BY <1>8, <1>10, <3>1, <3>3
    <3> QED BY <3>2, <3>3
  <2> QED BY <2>1, <2>2
<1> QED BY <1>13, <1>15

\* The first loop and the size of the bitmap
LEMMA HighestStep ==
  ASSUME BootInv, Boot!pmm_init_highest PROVE BootInv'
<1>1. entries \in Seq(Boot!Entry) /\ entries = memmap
  BY PhysicalMemoryAssumption DEF BootInv, Boot!IsMemoryMap, Boot!pmm_init_highest
<1>2. PICK high \in Nat : bitmap_top_index' = high \div PAGE_SIZE
  BY <1>1, HighestEnd, Zenon DEF Boot!pmm_init_highest
<1>3. bitmap_top_index' \in Nat
  <2>1. \A a \in Nat, w \in Nat \ {0} : a \div w \in Nat
    OBVIOUS
  <2> QED BY <1>2, <2>1, PhysicalMemoryAssumption
<1>4. bitmap_size' = Boot!ALIGN_UP(bitmap_top_index' \div 8, PAGE_SIZE)
  BY DEF Boot!pmm_init_highest
<1>5. /\ \E n \in Nat : bitmap_size' = n * PAGE_SIZE
      /\ bitmap_top_index' <= 8 * bitmap_size' + 7
  BY <1>3, <1>4, BitmapSize
<1>6. boot_pc' = "place" /\ UNCHANGED <<memmap, entries>>
  BY DEF Boot!pmm_init_highest
<1> QED BY <1>1, <1>3, <1>5, <1>6 DEF BootInv

\* The second loop takes the first entry that is large enough.
LEMMA PlaceStep ==
  ASSUME BootInv, Boot!pmm_init_place PROVE BootInv'
<1> DEFINE holes == {k \in DOMAIN entries : Boot!Fits(entries[k])}
<1>1. boot_pc = "place" /\ UNCHANGED <<memmap, bitmap_top_index, bitmap_size>>
      /\ entries = memmap
  BY DEF BootInv, Boot!pmm_init_place
<1>2. CASE holes = {}
  <2>1. boot_pc' = "panic"
    BY <1>2 DEF Boot!pmm_init_place
  <2> QED BY <1>1, <2>1 DEF BootInv
<1>3. CASE holes # {}
  <2>1. PICK k : k = Boot!Min(holes)
    OBVIOUS
  <2>2. holes \in SUBSET Nat
    <3>1. entries \in Seq(Boot!Entry)
      BY <1>1, PhysicalMemoryAssumption DEF BootInv, Boot!IsMemoryMap
    <3> QED BY <3>1
  <2>3. k \in holes
    <3>1. \E x \in holes : \A y \in holes : x <= y
      BY <1>3, <2>2, Smallest, Zenon
    <3> QED BY <2>1, <3>1 DEF Boot!Min
  <2>4. /\ bitmap_address' = entries[k].base
        /\ entries' = [entries EXCEPT ![k] = Boot!Shrunk(entries[k])]
        /\ used' = 0 .. 8 * bitmap_size - 1
        /\ boot_pc' = "populate"
    BY <1>3, <2>1 DEF Boot!pmm_init_place
  <2>5. PlacedIn(k)' /\ k \in DOMAIN memmap'
    BY <1>1, <2>3, <2>4 DEF PlacedIn, Boot!Fits, Boot!Shrunk
  <2> QED BY <1>1, <2>4, <2>5 DEF BootInv
<1> QED BY <1>2, <1>3

\* The third loop clears the bits of the entries.
LEMMA PopulateStep ==
  ASSUME BootInv, Boot!pmm_init_populate PROVE BootInv'
<1>1. /\ boot_pc = "populate" /\ boot_pc' = "done"
      /\ used' = used \ FreePages
      /\ UNCHANGED <<memmap, entries, bitmap_top_index, bitmap_size, bitmap_address>>
  BY DEF Boot!pmm_init_populate, FreePages
<1>2. FreePages' = FreePages
  BY <1>1 DEF FreePages, Boot!UsableEntries, Boot!PagesOf, Boot!IsUsable, Boot!End
<1>3. used' = (0 .. 8 * bitmap_size' - 1) \ FreePages'
  BY <1>1, <1>2 DEF BootInv
<1>4. \E k \in DOMAIN memmap' : PlacedIn(k)'
  BY <1>1, Zenon DEF BootInv, PlacedIn, Boot!Fits, Boot!Shrunk
<1> QED BY <1>1, <1>3, <1>4 DEF BootInv

\* A step that leaves the variables of pmm_init alone
LEMMA SameBoot ==
  ASSUME BootInv, UNCHANGED bootvars PROVE BootInv'
<1>1. UNCHANGED <<memmap, entries, bitmap_top_index, bitmap_size, bitmap_address,
                  used, boot_pc>>
  BY DEF bootvars
<1>2. FreePages' = FreePages
  BY <1>1 DEF FreePages, Boot!UsableEntries, Boot!PagesOf, Boot!IsUsable, Boot!End
<1>3. \A k : PlacedIn(k)' <=> PlacedIn(k)
  BY <1>1 DEF PlacedIn, Boot!Fits, Boot!Shrunk
<1> QED BY <1>1, <1>2, <1>3 DEF BootInv

\* Until pmm_init is done the bits are those PMM starts with.
MemoryInv ==
  /\ BootInv
  /\ boot_pc # "done" => bitmap = [p \in Page |-> p \notin Usable]

\* The invariant holds before pmm_init.
LEMMA MemoryInitInv == MemoryInit => MemoryInv
BY DEF MemoryInit, Boot!Init, Init, MemoryInv, BootInv

\* On a machine with a bit for every page, pmm_init leaves the bits PMM starts
\* with.
LEMMA BootLeavesBits ==
  BootInv /\ Booted => [p \in Page |-> p \in used] = [p \in Page |-> p \notin Usable]
<1> SUFFICES ASSUME BootInv, Booted
             PROVE  [p \in Page |-> p \in used] = [p \in Page |-> p \notin Usable]
  OBVIOUS
<1>1. /\ boot_pc = "done" /\ bitmap_top_index = Top /\ Top <= 8 * bitmap_size
      /\ Boot!UsablePages \ Boot!BitmapPages = Usable
  BY DEF Booted, Described
<1>2. FreePages = Usable
  BY <1>1, PlacedPages
<1>3. used = (0 .. 8 * bitmap_size - 1) \ Usable
  BY <1>1, <1>2 DEF BootInv
<1>4. bitmap_size \in Nat
  BY <1>1, PageArithmetic DEF BootInv
<1>5. \A p \in Page : p \in 0 .. 8 * bitmap_size - 1
  BY <1>1, <1>4, PMMAssumption DEF Page
<1> QED BY <1>3, <1>5

\* A step of pmm_init does not change what PMM sees.
LEMMA PmmInitStep ==
  ASSUME MemoryInv, pmm_init PROVE MemoryInv' /\ UNCHANGED vars
<1>1. BootInv'
  BY HighestStep, PlaceStep, PopulateStep DEF MemoryInv, pmm_init, Boot!Next
<1>2. bitmap = [p \in Page |-> p \notin Usable]
  BY DEF MemoryInv, pmm_init, Boot!Next, Boot!pmm_init_highest, Boot!pmm_init_place,
         Boot!pmm_init_populate
<1>3. Booted' => [p \in Page |-> p \in used'] = [p \in Page |-> p \notin Usable]
  <2>1. (BootInv /\ Booted
           => [p \in Page |-> p \in used] = [p \in Page |-> p \notin Usable])'
    BY BootLeavesBits, PTL
  <2> QED BY <1>1, <2>1
<1>4. bitmap' = bitmap
  BY <1>2, <1>3 DEF pmm_init
<1> QED BY <1>1, <1>2, <1>4 DEF MemoryInv, pmm_init, vars, locals

\* A step of a thread leaves what pmm_init has computed alone.
LEMMA ThreadStep ==
  ASSUME MemoryInv, NEW t \in Threads, Step(t) PROVE MemoryInv' /\ Next
<1>1. BootInv'
  BY SameBoot DEF MemoryInv, Step
<1>2. boot_pc' = "done"
  BY DEF Step, Booted, bootvars
<1> QED BY <1>1, <1>2 DEF MemoryInv, Step, Next

\* Every step keeps the invariant.
LEMMA MemoryNextInv ==
  MemoryInv /\ [MemoryNext]_allvars => MemoryInv' /\ [Next]_vars
<1> SUFFICES ASSUME MemoryInv, [MemoryNext]_allvars PROVE MemoryInv' /\ [Next]_vars
  OBVIOUS
<1>1. CASE pmm_init
  BY <1>1, PmmInitStep
<1>2. CASE \E t \in Threads : Step(t)
  BY <1>2, ThreadStep
<1>3. CASE UNCHANGED allvars
  <2>1. UNCHANGED vars /\ UNCHANGED bootvars
    BY <1>3 DEF allvars
  <2> QED BY <2>1, SameBoot DEF MemoryInv, vars, bootvars
<1> QED BY <1>1, <1>2, <1>3 DEF MemoryNext

\* The invariant holds in every state.
LEMMA MemoryInductive == MemorySpec => []MemoryInv
BY MemoryInitInv, MemoryNextInv, PTL DEF MemorySpec

(***************************************************************************)
(* pmm_init, on every memory map whose usable entries are page aligned and *)
(* do not overlap: the bits of reserved pages and of the bitmap's own stay *)
(* set, and those of all other pages are clear.                            *)
(***************************************************************************)
THEOREM FreeAlwaysUsable == MemorySpec => []FreeIsUsable
<1>1. BootInv => Boot!FreeIsUsable
  <2> SUFFICES ASSUME BootInv, boot_pc = "done"
               PROVE  /\ Boot!BitmapPages \subseteq Boot!UsablePages
                      /\ bitmap_top_index <= 8 * bitmap_size + 7
                      /\ \A p \in 0 .. Boot!Min({bitmap_top_index, 8 * bitmap_size}) - 1 :
                           p \notin used <=> p \in Boot!UsablePages \ Boot!BitmapPages
    BY DEF Boot!FreeIsUsable
  <2>1. /\ Boot!BitmapPages \subseteq Boot!UsablePages
        /\ FreePages = Boot!UsablePages \ Boot!BitmapPages
    BY PlacedPages
  <2>2. used = (0 .. 8 * bitmap_size - 1) \ FreePages
        /\ bitmap_top_index <= 8 * bitmap_size + 7
    BY DEF BootInv
  <2>3. bitmap_size \in Nat /\ bitmap_top_index \in Nat
    BY PageArithmetic DEF BootInv
  <2> DEFINE S == {bitmap_top_index, 8 * bitmap_size}
  <2>4. PICK m \in S : \A y \in S : m <= y
    <3>1. S \in SUBSET Nat /\ S # {}
      BY <2>3
    <3> QED BY <3>1, Smallest
  <2>5. Boot!Min(S) \in S /\ \A y \in S : Boot!Min(S) <= y
    BY <2>4 DEF Boot!Min
  <2>6. Boot!Min(S) \in Nat /\ Boot!Min(S) <= 8 * bitmap_size
    BY <2>3, <2>5
  <2>7. \A p \in 0 .. Boot!Min(S) - 1 : p \in 0 .. 8 * bitmap_size - 1
    BY <2>3, <2>6
  <2> QED BY <2>1, <2>2, <2>7
<1>2. MemoryInv => FreeIsUsable
  BY <1>1 DEF MemoryInv, FreeIsUsable
<1> QED BY <1>2, MemoryInductive, PTL

(***************************************************************************)
(* The system from boot on implements the allocator that starts from the   *)
(* usable pages: what is proved of PMM holds on the bitmap that pmm_init   *)
(* has built from the memory map.                                          *)
(***************************************************************************)
THEOREM BootsIntoAllocator == MemorySpec => Spec
<1>1. MemoryInit => Init
  BY DEF MemoryInit
<1> QED BY <1>1, MemoryNextInv, MemoryInductive, PTL DEF MemorySpec, Spec

(***************************************************************************)
(* So from boot on no page is handed out twice or leaks, a panic of        *)
(* pmm_alloc_nozero is justified, and callers see the page allocator.      *)
(***************************************************************************)
THEOREM BootedAllocatorCorrect ==
  MemorySpec => [](BitmapExact /\ FailsOnlyWithoutRun) /\ ImplementsPageAllocator
BY BootsIntoAllocator, BitmapAlwaysExact, PanicJustified, RefinesPageAllocator, PTL
=============================================================================
