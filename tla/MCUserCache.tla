---------------------------- MODULE MCUserCache ----------------------------
\* UserCache on small instances.  There is no symmetry: the run checks liveness.
EXTENDS UserCache
=============================================================================
