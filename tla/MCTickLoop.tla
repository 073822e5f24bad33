---------------------------- MODULE MCTickLoop ----------------------------
\* TickLoop on small instances.
EXTENDS TickLoop

CONSTANTS v1, v2, v3, t1, t2

\* Two views of one topic and one of another.
TwoAndOne == [v \in Views |-> IF v = v3 THEN t2 ELSE t1]
=============================================================================
