----------------------------- MODULE UserCache -----------------------------
(***************************************************************************)
(* MemoryUserCache (src/common/user_cache.go) and the resource goroutine   *)
(* of src/main.go that drains it.                                          *)
(*                                                                         *)
(* The cache is a map guarded by a lock, and a separate counter, length,   *)
(* that Set, Remove and BulkRemove adjust with an atomic add after they    *)
(* have released the lock.  A request thread is therefore "idle", owes a   *)
(* +1 it has inserted for ("inc"), or owes a -1 it has deleted for ("dec");*)
(* the resource goroutine owes evOwed deletions.                           *)
(*                                                                         *)
(* The data of a user is abstract: this module tells apart whether a user  *)
(* is cached and how evictable DeallocOverflow finds it.  Set on a user    *)
(* that is already cached copies into the cached struct and changes        *)
(* neither, so it is a stutter here; RecordStore follows the data.         *)
(***************************************************************************)
EXTENDS Integers, FiniteSets

CONSTANTS
    Threads,        \* goroutines serving requests
    Users,          \* user IDs
    NoUser,         \* the zero ID, which fills the unused slots of toEvict
    Capacities,     \* the values SetCapacity is called with
    MaxCapacity,    \* an upper bound of Capacities
    EvictSlots,     \* 10 in the code
    PrioritySlots,  \* 20 in the code
    MaxResets       \* bound: how many Adds and Flushes, which only tests call,
                    \* may run while an adjustment of length is owed

ASSUME ThreadsAssumption == IsFiniteSet(Threads) /\ Threads # {}
ASSUME UsersAssumption == IsFiniteSet(Users) /\ NoUser \notin Users
ASSUME CapacityAssumption ==
    /\ Capacities \subseteq Nat
    /\ MaxCapacity \in Nat
    /\ \A c \in Capacities : c <= MaxCapacity
ASSUME SlotsAssumption == EvictSlots \in Nat \ {0} /\ PrioritySlots \in Nat \ {0}
ASSUME ResetsAssumption == MaxResets \in Nat

\* "cold": no score.  "warm": a score below 100.  "kept": a moderator, a user
\* with a live WebSocket, or a score of 100 and more.
Classes == {"cold", "warm", "kept"}

VARIABLES
    items,            \* the IDs the map holds
    length,           \* the counter beside the map
    capacity,
    pc,               \* what each request thread still owes to length
    class,            \* evictability, changed by the rest of the program
    evPc,             \* where the resource goroutine is
    evList,           \* toEvict, a function from slots to IDs
    evOwed,           \* deletions of BulkRemove not yet taken off length
    couldNotDealloc,
    resets            \* history: Adds and Flushes run while an adjustment was owed

cacheVars == <<items, length, capacity, pc>>
evVars == <<evPc, evList, evOwed, couldNotDealloc>>
vars == <<cacheVars, class, evVars, resets>>

NoList == [i \in {} |-> NoUser]

Init ==
    /\ items = {}
    /\ length = 0
    /\ capacity \in Capacities
    /\ pc = [t \in Threads |-> "idle"]
    /\ class \in [Users -> Classes]
    /\ evPc = "wait"
    /\ evList = NoList
    /\ evOwed = 0
    /\ couldNotDealloc = FALSE
    /\ resets = 0

Incs == {t \in Threads : pc[t] = "inc"}
Decs == {t \in Threads : pc[t] = "dec"}
Quiet == Incs = {} /\ Decs = {} /\ evOwed = 0

-----------------------------------------------------------------------------
\* Request threads.

\* Mutant: a Set that lets one too many in.
SetInsertOneTooMany(t, u) ==
    /\ pc[t] = "idle"
    /\ u \notin items
    /\ length <= capacity
    /\ items' = items \cup {u}
    /\ pc' = [pc EXCEPT ![t] = "inc"]
    /\ UNCHANGED <<length, capacity, class, evVars, resets>>

\* Set of a user that is not cached, below the capacity.
SetInsert(t, u) ==
    /\ pc[t] = "idle"
    /\ u \notin items
    /\ length < capacity
    /\ items' = items \cup {u}
    /\ pc' = [pc EXCEPT ![t] = "inc"]
    /\ UNCHANGED <<length, capacity, class, evVars, resets>>

RemoveDelete(t, u) ==
    /\ pc[t] = "idle"
    /\ u \in items
    /\ items' = items \ {u}
    /\ pc' = [pc EXCEPT ![t] = "dec"]
    /\ UNCHANGED <<length, capacity, class, evVars, resets>>

\* Mutant: a Remove that forgets the counter.
OwedForSetOnly(t) == IF pc[t] = "inc" THEN 1 ELSE 0

\* The atomic.AddInt64 that follows the unlock in Set and in Remove.
Owed(t) == CASE pc[t] = "inc" -> 1 [] pc[t] = "dec" -> -1 [] OTHER -> 0

Settle(t) ==
    /\ pc[t] # "idle"
    /\ length' = length + Owed(t)
    /\ pc' = [pc EXCEPT ![t] = "idle"]
    /\ UNCHANGED <<items, capacity, class, evVars, resets>>

\* Add and Flush compute length from the map, whoever still owes it something.
Reset ==
    /\ Quiet \/ resets < MaxResets
    /\ resets' = IF Quiet THEN resets ELSE resets + 1

Add(t, u) ==
    /\ pc[t] = "idle"
    /\ length < capacity
    /\ Reset
    /\ items' = items \cup {u}
    /\ length' = Cardinality(items')
    /\ UNCHANGED <<capacity, pc, class, evVars>>

Flush(t) ==
    /\ pc[t] = "idle"
    /\ Reset
    /\ items' = {}
    /\ length' = 0
    /\ UNCHANGED <<capacity, pc, class, evVars>>

SetCapacity(t, c) ==
    /\ pc[t] = "idle"
    /\ capacity' = c
    /\ UNCHANGED <<items, length, pc, class, evVars, resets>>

\* Posts, promotions, logins and sockets change how evictable a user is.
Activity(u, c) ==
    /\ class' = [class EXCEPT ![u] = c]
    /\ UNCHANGED <<cacheVars, evVars, resets>>

-----------------------------------------------------------------------------
\* The resource goroutine: one pass a second.

\* The ways to fill n slots from candidates: as many as there are, each once,
\* then zeros.  The order is Go's map order, so any.
Filled(n, candidates) ==
    LET k == IF Cardinality(candidates) < n THEN Cardinality(candidates) ELSE n
    IN  {list \in [1 .. n -> candidates \cup {NoUser}] :
            /\ \A i \in 1 .. n : list[i] # NoUser <=> i <= k
            /\ \A i, j \in 1 .. k : list[i] = list[j] => i = j}

\* The trimming cuts the list at its last zero: a slot stays when one follows.
Trimmed(list) ==
    LET zeros == {i \in DOMAIN list : list[i] = NoUser}
    IN  IF zeros = {}
        THEN list
        ELSE [i \in {k \in DOMAIN list : \E z \in zeros : k < z} |-> list[i]]

Cold == {u \in items : class[u] = "cold"}
Warm == {u \in items : class[u] \in {"cold", "warm"}}
Chosen == {evList[i] : i \in DOMAIN evList} \ {NoUser}

\* Mutant: the goroutine puts up with one too many.
TickTolerates ==
    /\ evPc = "wait"
    /\ IF length <= capacity + 1 \/ Cardinality(Users) <= capacity
       THEN couldNotDealloc' = FALSE /\ UNCHANGED evPc
       ELSE evPc' = "cold" /\ UNCHANGED couldNotDealloc
    /\ UNCHANGED <<cacheVars, class, evList, evOwed, resets>>

\* The ticker fires; below the capacity the goroutine goes back to waiting.
Tick ==
    /\ evPc = "wait"
    /\ IF length <= capacity \/ Cardinality(Users) <= capacity
       THEN couldNotDealloc' = FALSE /\ UNCHANGED evPc
       ELSE evPc' = "cold" /\ UNCHANGED couldNotDealloc
    /\ UNCHANGED <<cacheVars, class, evList, evOwed, resets>>

PickCold ==
    /\ evPc = "cold"
    /\ IF Cold = {} /\ couldNotDealloc
       THEN evPc' = "warm" /\ UNCHANGED evList
       ELSE /\ \E list \in Filled(EvictSlots, Cold) : evList' = Trimmed(list)
            /\ evPc' = "remove"
    /\ UNCHANGED <<cacheVars, class, evOwed, couldNotDealloc, resets>>

\* The second pass, over users of some score.  It is for a list that came out empty,
\* and the trimming empties no list but that of a single slot, so that the code never
\* gets here (BackgroundProofs!NoSecondPass).
PickWarm ==
    /\ evPc = "warm"
    /\ \E list \in Filled(PrioritySlots, Warm) : evList' = Trimmed(list)
    /\ evPc' = "remove"
    /\ UNCHANGED <<cacheVars, class, evOwed, couldNotDealloc, resets>>

BulkRemove ==
    /\ evPc = "remove"
    /\ items' = items \ Chosen
    /\ evOwed' = Cardinality(items \cap Chosen)
    /\ evPc' = "adjust"
    /\ UNCHANGED <<length, capacity, pc, class, evList, couldNotDealloc, resets>>

\* BulkRemove's atomic add; DeallocOverflow returns len(toEvict) to the loop.
BulkAdjust ==
    /\ evPc = "adjust"
    /\ length' = length - evOwed
    /\ evOwed' = 0
    /\ couldNotDealloc' = (DOMAIN evList = {})
    /\ evList' = NoList
    /\ evPc' = "wait"
    /\ UNCHANGED <<items, capacity, pc, class, resets>>

-----------------------------------------------------------------------------
Request(t) ==
    \/ \E u \in Users : SetInsert(t, u) \/ RemoveDelete(t, u) \/ Add(t, u)
    \/ Settle(t)
    \/ Flush(t)
    \/ \E c \in Capacities : SetCapacity(t, c)

Evict == Tick \/ PickCold \/ PickWarm \/ BulkRemove \/ BulkAdjust

Next ==
    \/ \E t \in Threads : Request(t)
    \/ \E u \in Users, c \in Classes : Activity(u, c)
    \/ Evict

Spec == Init /\ [][Next]_vars

\* The ticker fires every second, and the goroutine does nothing else.
CacheFairSpec == Spec /\ WF_vars(Evict)

-----------------------------------------------------------------------------
EvictLists == UNION {[kept -> Users \cup {NoUser}] :
                        kept \in SUBSET (1 .. (EvictSlots + PrioritySlots))}

\* The type invariant of the cache and of the goroutine that drains it.
TypeOK ==
    /\ items \subseteq Users
    /\ length \in Int
    /\ capacity \in Capacities
    /\ pc \in [Threads -> {"idle", "inc", "dec"}]
    /\ class \in [Users -> Classes]
    /\ evPc \in {"wait", "cold", "warm", "remove", "adjust"}
    /\ evList \in EvictLists
    /\ evOwed \in Nat
    /\ couldNotDealloc \in BOOLEAN
    /\ resets \in Nat

\* length is off by exactly the adjustments that goroutines still owe, however
\* the locked part and the atomic add of Set, Remove and BulkRemove interleave,
\* as long as no Add or Flush recomputed it from under a goroutine that owes.
LengthAccounts ==
    resets = 0 =>
        length + Cardinality(Incs) - Cardinality(Decs) - evOwed = Cardinality(items)

\* Set checks a counter that lags behind the map, so the map can outgrow the
\* capacity; it does so by less than one entry for every request thread.
OverrunBounded ==
    resets = 0 => Cardinality(items) <= MaxCapacity + Cardinality(Threads) - 1

\* A cache that holds more than it should is drained as long as it holds anybody
\* without a score whom it may evict, although those a pass has chosen may be gone,
\* or not evictable any more, when BulkRemove gets to them, and others come and go
\* meanwhile.
OverflowDrains ==
    []<>(length <= capacity \/ Cardinality(Users) <= capacity \/ Cold = {})
=============================================================================
