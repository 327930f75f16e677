------------------------------ MODULE MCVtGrid ------------------------------
EXTENDS VtGrid
MCSizes == {<<3, 3>>, <<2, 3>>}
MCFirst == <<3, 3>>
=============================================================================
