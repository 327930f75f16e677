-------------------------- MODULE MCScrollbackRing --------------------------
(* Small instances of the scrollback ring. *)
EXTENDS ScrollbackRing

\* Depths on both sides of one batch, none at all, and a negative setting.
MCConfigured == {-1, 0, 1, 3}
=============================================================================
