--------------------------- MODULE MCStatusStream ---------------------------
(***************************************************************************)
(* StatusStream for TLC: a program that works and pauses.       *)
(***************************************************************************)
EXTENDS StatusStream

Reports == {<<1, 10>>, <<4, 10>>}
=============================================================================
