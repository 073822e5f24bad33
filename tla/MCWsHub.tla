------------------------------ MODULE MCWsHub ------------------------------
\* WsHub on small instances.
EXTENDS WsHub, TLC

CONSTANTS c1, c2, c3, u1

OneUser == [c \in Conns |-> u1]
Symmetry == Permutations(Conns)
=============================================================================
