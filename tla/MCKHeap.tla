------------------------------- MODULE MCKHeap -------------------------------
(***************************************************************************)
(* KHeap for TLC: two runs of pages, of three and of one.                  *)
(***************************************************************************)
EXTENDS KHeap, TLC

CONSTANTS t1, t2

MCThreads == {t1, t2}
MCPage == {1, 2, 3, 5}
Symmetry == Permutations(MCThreads)
=============================================================================
