-------------------------- MODULE MCFlushSchedule ---------------------------
EXTENDS FlushSchedule, TLC
\* A phone's size and a desktop's, which happens to be the default.
MCSizes == {<<1, 1>>, <<2, 2>>}
MCDefaultSize == <<2, 2>>
\* A wide client, a tall one, and what fits both.
CrossSizes == {<<1, 2>>, <<2, 1>>}
Interchangeable == Permutations(Client)
=============================================================================
