----------------------------- MODULE MCTopicList -----------------------------
\* TopicList on small instances: with a byte of two values forums 1 and 3 have one
\* key and the sets {1} and {3} share a list; one group is on each side of the parity.
EXTENDS TopicList, TLC

Symmetry == Permutations(Writers)
=============================================================================
