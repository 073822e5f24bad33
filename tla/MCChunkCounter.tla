-------------------------- MODULE MCChunkCounter --------------------------
\* ChunkCounter on small instances.
EXTENDS ChunkCounter, TLC

CONSTANTS r1, r2
Symmetry == Permutations(Requests)
=============================================================================
