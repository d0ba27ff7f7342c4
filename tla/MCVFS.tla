-------------------------------- MODULE MCVFS --------------------------------
(***************************************************************************)
(* VFS for TLC: files shorter than, as long as and longer than one read.   *)
(***************************************************************************)
EXTENDS VFS

CONSTANTS empty, short, long

MCFiles == {empty, short, long}
MCSize == [f \in MCFiles |-> CASE f = empty -> 0 [] f = short -> 2 [] f = long -> 3]
=============================================================================
