----------------------------- MODULE MCVtCursor -----------------------------
EXTENDS VtCursor
\* Two shapes, so that a resize changes both dimensions; the smaller one is
\* shorter than the first one's scroll region may be far down.
MCSizes == {<<3, 4>>, <<1, 3>>}
MCFirst == <<3, 4>>
=============================================================================
