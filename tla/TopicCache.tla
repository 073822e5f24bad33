----------------------------- MODULE TopicCache -----------------------------
(***************************************************************************)
(* MemoryTopicCache (src/common/topic_cache.go); MemoryReplyCache is the   *)
(* same without RemoveMany.                                                *)
(*                                                                         *)
(* Unlike the user cache, Set and RemoveMany adjust length before they     *)
(* release the lock, so each is one step.  Add and Remove still adjust it  *)
(* afterwards: a thread that has inserted or deleted owes an adjustment.   *)
(***************************************************************************)
EXTENDS Integers, FiniteSets

CONSTANTS
    Threads,       \* goroutines serving requests
    Topics,        \* topic IDs
    Capacity,
    MaxFlushes     \* bound: how many Flushes, which only tests call, may run while
                   \* an adjustment of length is owed

ASSUME ThreadsAssumption == IsFiniteSet(Threads)
ASSUME TopicsAssumption == IsFiniteSet(Topics)
ASSUME CapacityAssumption == Capacity \in Nat
ASSUME FlushesAssumption == MaxFlushes \in Nat

VARIABLES
    items,    \* the IDs the map holds
    length,   \* the counter beside the map
    pc,       \* what each thread still owes to length
    added,    \* history: has Add, which no store calls, run?
    flushes   \* history: Flushes run while an adjustment was owed

topicHistVars == <<added, flushes>>
topicVars == <<items, length, pc, topicHistVars>>

TopicInit ==
    /\ items = {}
    /\ length = 0
    /\ pc = [t \in Threads |-> "idle"]
    /\ added = FALSE
    /\ flushes = 0

Incs == {t \in Threads : pc[t] = "inc"}
Decs == {t \in Threads : pc[t] = "dec"}
Quiet == Incs = {} /\ Decs = {}

-----------------------------------------------------------------------------
\* Mutant: the counting moves behind the unlock, as in the user cache.
SetCountedLate(t, id) ==
    /\ pc[t] = "idle"
    /\ id \notin items
    /\ length < Capacity
    /\ items' = items \cup {id}
    /\ pc' = [pc EXCEPT ![t] = "inc"]
    /\ UNCHANGED <<length, topicHistVars>>

\* Set of a topic that is not cached; a cached one only has its data replaced.
Set(t, id) ==
    /\ pc[t] = "idle"
    /\ id \notin items
    /\ length < Capacity
    /\ items' = items \cup {id}
    /\ length' = length + 1
    /\ UNCHANGED <<pc, topicHistVars>>

\* Add does not ask whether the topic is there already.
Add(t, id) ==
    /\ pc[t] = "idle"
    /\ length < Capacity
    /\ items' = items \cup {id}
    /\ pc' = [pc EXCEPT ![t] = "inc"]
    /\ added' = TRUE
    /\ UNCHANGED <<length, flushes>>

Remove(t, id) ==
    /\ pc[t] = "idle"
    /\ id \in items
    /\ items' = items \ {id}
    /\ pc' = [pc EXCEPT ![t] = "dec"]
    /\ UNCHANGED <<length, topicHistVars>>

\* Mutant: every requested ID is counted, present or not.
RemoveManyCountsAll(t, ids) ==
    /\ pc[t] = "idle"
    /\ items' = items \ ids
    /\ length' = length - Cardinality(ids)
    /\ UNCHANGED <<pc, topicHistVars>>

RemoveMany(t, ids) ==
    /\ pc[t] = "idle"
    /\ items' = items \ ids
    /\ length' = length - Cardinality(items \cap ids)
    /\ UNCHANGED <<pc, topicHistVars>>

\* The atomic add that follows the unlock in Add and in Remove.
Settle(t) ==
    /\ pc[t] # "idle"
    /\ length' = IF pc[t] = "inc" THEN length + 1 ELSE length - 1
    /\ pc' = [pc EXCEPT ![t] = "idle"]
    /\ UNCHANGED <<items, topicHistVars>>

Flush(t) ==
    /\ pc[t] = "idle"
    /\ Quiet \/ flushes < MaxFlushes
    /\ items' = {}
    /\ length' = 0
    /\ flushes' = IF Quiet THEN flushes ELSE flushes + 1
    /\ UNCHANGED <<pc, added>>

TopicNext ==
    \E t \in Threads :
        \/ \E id \in Topics : Set(t, id) \/ Add(t, id) \/ Remove(t, id)
        \/ \E ids \in SUBSET Topics : RemoveMany(t, ids)
        \/ Settle(t)
        \/ Flush(t)

TopicSpec == TopicInit /\ [][TopicNext]_topicVars

-----------------------------------------------------------------------------
\* What each variable ranges over.
Types ==
    /\ items \subseteq Topics
    /\ length \in Int
    /\ pc \in [Threads -> {"idle", "inc", "dec"}]
    /\ added \in BOOLEAN
    /\ flushes \in Nat

\* The type invariant of the topic cache: the counter is a count as long as only
\* the operations the stores use have run.
TopicTypeOK == Types /\ (~added /\ flushes = 0 => length \in Nat)

\* The counter never understates the map: it is too high by the deletions whose
\* decrement has not happened yet and by nothing else, as long as nobody calls
\* Add or flushes from under a thread that owes one.
LengthAccounts ==
    ~added /\ flushes = 0 => length - Cardinality(Decs) = Cardinality(items)

\* Hence the check in Set is sound: the topic cache never outgrows its capacity.
CapacityRespected == ~added /\ flushes = 0 => Cardinality(items) <= Capacity
=============================================================================
