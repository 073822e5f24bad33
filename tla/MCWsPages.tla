----------------------------- MODULE MCWsPages -----------------------------
\* WsPages on small instances.
EXTENDS WsPages

CONSTANTS c1, c2, u1, list, topic, slugA, slugB, panelPage

OneUser == [c \in Conns |-> u1]
OneTopic == [p \in TopicPages |-> topic]

\* Both go to the topic, by a slug each, so that they share its watchers; one sees
\* the panel besides, the other the list.
SomePages == [c \in Conns |-> IF c = c1 THEN {panelPage, slugA} ELSE {list, slugB}]
=============================================================================
