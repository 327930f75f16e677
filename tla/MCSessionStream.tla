--------------------------- MODULE MCSessionStream ---------------------------
(***************************************************************************)
(* SessionStream for TLC: the tabs are interchangeable.                    *)
(***************************************************************************)
EXTENDS SessionStream, TLC

TabSymmetry == Permutations(Client)
=============================================================================
