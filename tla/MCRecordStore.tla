--------------------------- MODULE MCRecordStore ---------------------------
\* RecordStore on small instances.
EXTENDS RecordStore, TLC

CONSTANTS t1, t2, u, a, b
Symmetry == Permutations(Threads) \cup Permutations(Topics)
=============================================================================
