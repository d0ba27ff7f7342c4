------------------------------- MODULE MCStdin -------------------------------
(***************************************************************************)
(* Stdin for TLC: the processes are model values, given in the .cfg.       *)
(***************************************************************************)
EXTENDS Stdin
=============================================================================
