---------------------------- MODULE MCVisibility ----------------------------
\* Visibility on small instances.
EXTENDS Visibility, TLC

Symmetry == Permutations(Threads) \cup Permutations(Groups)
=============================================================================
