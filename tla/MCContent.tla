----------------------------- MODULE MCContent -----------------------------
\* Content on small instances.
EXTENDS Content, TLC

CONSTANTS t1, t2, r1, r2, f1, u1

Symmetry == Permutations(Threads)

\* At the start there are one topic and one reply, each liked by one user.
MCInit ==
    /\ Init
    /\ alive = {t1, r1} /\ forum[t1] = f1
    /\ likes = alive \X {u1} \X {0}

MCSpec == MCInit /\ [][Next]_vars
=============================================================================
