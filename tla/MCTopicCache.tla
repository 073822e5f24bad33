---------------------------- MODULE MCTopicCache ----------------------------
\* TopicCache on small instances: symmetric threads and topics.
EXTENDS TopicCache, TLC

Symmetry == Permutations(Threads) \cup Permutations(Topics)
=============================================================================
