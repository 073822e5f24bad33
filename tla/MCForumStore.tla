---------------------------- MODULE MCForumStore ----------------------------
\* ForumStore on small instances.
EXTENDS ForumStore, TLC

Symmetry == Permutations(Threads)
=============================================================================
