---------------------------- MODULE MCSkipCursor ----------------------------
(* A range that starts 3 bytes before the end of a 4-byte block and ends   *)
(* inside its fourth, with calls that stay in a block, end at its edge and *)
(* span three.                                                             *)
EXTENDS SkipCursor

CallLengths == {0, 1, 2, 4, 6}
=============================================================================
