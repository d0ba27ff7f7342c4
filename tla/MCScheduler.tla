----------------------------- MODULE MCScheduler -----------------------------
(***************************************************************************)
(* Instances of Scheduler for TLC.  The numbers are in the .cfg files.     *)
(***************************************************************************)
EXTENDS Scheduler
=============================================================================
