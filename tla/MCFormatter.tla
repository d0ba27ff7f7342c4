----------------------------- MODULE MCFormatter -----------------------------
(***************************************************************************)
(* Formatter with a buffer of six characters: numbers of one to three      *)
(* digits, a text that is a % and one that exceeds the log prefix.         *)
(***************************************************************************)
EXTENDS Formatter

MCNumbers == {-42, 0, 10, 175}
MCTexts == {<<37>>, <<66, 67, 68>>}
=============================================================================
