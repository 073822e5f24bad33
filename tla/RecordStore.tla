---------------------------- MODULE RecordStore ----------------------------
(***************************************************************************)
(* The read-through stores DefaultUserStore and DefaultTopicStore          *)
(* (src/common/user_store.go, topic_store.go) between the database and     *)
(* their caches, with the updates in user.go and topic.go that write to    *)
(* the database and then take the record off the cache.                    *)
(*                                                                         *)
(* Nothing joins a query to the cache operation that follows it, so any    *)
(* number of requests may be between the two.  A record is its version:    *)
(* the number of writes that have changed its row.  A request thread is    *)
(* idle between operations.  A read that finds all it wants in the cache   *)
(* changes nothing and is not a step.  Columns that some writer changes    *)
(* without ever purging the cache are no part of the version: the likes a  *)
(* user has given, view counts, IPs that are cleared, and the group a      *)
(* promotion gives to everybody who has earned it.                         *)
(*                                                                         *)
(* The two stores are the same but for three things: MemoryTopicCache      *)
(* replaces the pointer of a topic that is cached already under its lock,  *)
(* MemoryUserCache unlocks and then copies into the struct, which may have *)
(* left the map by then; users are also looked up by name; and topics are  *)
(* also locked many at a time.                                             *)
(***************************************************************************)
EXTENDS Integers, FiniteSets

CONSTANTS
    Threads,     \* request goroutines
    Users,       \* user IDs
    Topics,      \* topic IDs
    Capacity,    \* of either cache
    MaxVersion,  \* bound: how many writes may change one row
    None

Ids == Users \cup Topics

ASSUME BoundsAssumption == Capacity \in Nat /\ MaxVersion \in Nat
ASSUME IdsAssumption == Users \cap Topics = {}
ASSUME NoneAssumption == None \notin Ids

VARIABLES
    db,       \* the version of each row
    live,     \* the IDs that have a row
    cached,   \* the version of each record in the cache, or Absent
    pc,       \* where each thread is in its operation
    ids,      \* the records the thread asks for, or has to purge
    todo,     \* the topics LockMany has still to lock
    rows,     \* the answer of the thread's query, as far as it is not cached yet
    cur,      \* the row the thread is about to copy over a cached record
    spoiled   \* history: records cached from an answer older than the row, or
              \* left in the cache by a writer that gave up

threadVars == <<pc, ids, todo, rows, cur>>
vars == <<db, live, cached, threadVars, spoiled>>

Absent == -1

Init ==
    /\ db = [i \in Ids |-> 0]
    /\ live = Ids
    /\ cached = [i \in Ids |-> Absent]
    /\ pc = [t \in Threads |-> "idle"]
    /\ ids = [t \in Threads |-> {}]
    /\ todo = [t \in Threads |-> {}]
    /\ rows = [t \in Threads |-> {}]
    /\ cur = [t \in Threads |-> None]
    /\ spoiled = {}

Stale(i) == cached[i] # Absent /\ cached[i] # db[i]

\* The records of one cache.
Kind(i) == IF i \in Users THEN Users ELSE Topics
Cached(S) == {i \in S : cached[i] # Absent}

Begin(t, at, S) ==
    /\ pc[t] = "idle"
    /\ pc' = [pc EXCEPT ![t] = at]
    /\ ids' = [ids EXCEPT ![t] = S]

Return(t) ==
    /\ pc' = [pc EXCEPT ![t] = "idle"]
    /\ ids' = [ids EXCEPT ![t] = {}]

-----------------------------------------------------------------------------
\* Reads.

\* Get and DirtyGet of a record that is not cached.
GetMiss(t, i) ==
    /\ cached[i] = Absent
    /\ Begin(t, "query", {i})
    /\ UNCHANGED <<db, live, cached, todo, rows, cur, spoiled>>

\* GetByName looks the name up in the database whatever is cached.
GetByName(t, i) ==
    /\ i \in Users
    /\ Begin(t, "query", {i})
    /\ UNCHANGED <<db, live, cached, todo, rows, cur, spoiled>>

\* BulkGetByName, GetOffset and SearchOffset do the same with many: the names, or
\* the page, decide which.
BulkQuery(t, S) ==
    /\ S # {}
    /\ S \subseteq Users
    /\ Begin(t, "bulkQuery", S)
    /\ UNCHANGED <<db, live, cached, todo, rows, cur, spoiled>>

\* BulkGetMap queries for what is not cached (and leaves a single one to Get).
BulkGetMap(t, S) ==
    /\ Cardinality(S \ Cached(S)) > 1
    /\ Begin(t, "bulkQuery", S \ Cached(S))
    /\ UNCHANGED <<db, live, cached, todo, rows, cur, spoiled>>

Reload(t, i) ==
    /\ Begin(t, "requery", {i})
    /\ UNCHANGED <<db, live, cached, todo, rows, cur, spoiled>>

\* A query that finds nothing, or fails, makes Reload take the record off.
QueryEmpty(t) ==
    /\ pc[t] \in {"query", "bulkQuery"}
    /\ Return(t)
    /\ UNCHANGED <<db, live, cached, todo, rows, cur, spoiled>>

ReloadEmpty(t) ==
    /\ pc[t] = "requery"
    /\ pc' = [pc EXCEPT ![t] = "purge"]
    /\ UNCHANGED <<db, live, cached, ids, todo, rows, cur, spoiled>>

\* Where an answer takes the thread from each of its queries.
Answered == [query |-> "set", bulkQuery |-> "bulkSet", requery |-> "refresh"]

Query(t) ==
    /\ pc[t] \in DOMAIN Answered
    /\ ids[t] \cap live # {}
    /\ rows' = [rows EXCEPT ![t] = {[id |-> i, ver |-> db[i]] : i \in ids[t] \cap live}]
    /\ ids' = [ids EXCEPT ![t] = {}]
    /\ pc' = [pc EXCEPT ![t] = Answered[@]]
    /\ UNCHANGED <<db, live, cached, todo, cur, spoiled>>

\* A row that cannot be scanned ends BulkGetMap and the others that query for many.
ScanFails(t) ==
    /\ pc[t] = "bulkSet"
    /\ pc' = [pc EXCEPT ![t] = "idle"]
    /\ rows' = [rows EXCEPT ![t] = {}]
    /\ UNCHANGED <<db, live, cached, ids, todo, cur, spoiled>>

\* The thread takes the next row of its answer to the cache.
Take(t, r) ==
    /\ pc[t] \in {"set", "bulkSet", "refresh"}
    /\ r \in rows[t]
    /\ rows' = [rows EXCEPT ![t] = @ \ {r}]

AfterSet(t, rest) ==
    pc' = [pc EXCEPT ![t] = IF rest = {} THEN "idle" ELSE "bulkSet"]

\* The cache holds the row from now on.
Store(r) ==
    /\ cached' = [cached EXCEPT ![r.id] = r.ver]
    /\ spoiled' = IF r.ver = db[r.id] THEN spoiled \ {r.id} ELSE spoiled \cup {r.id}

\* Set of a record that is not cached; a full cache refuses it.
SetNew(t, r) ==
    /\ Take(t, r)
    /\ cached[r.id] = Absent
    /\ AfterSet(t, rows[t] \ {r})
    /\ IF Cardinality(Cached(Kind(r.id))) < Capacity
       THEN Store(r)
       ELSE UNCHANGED <<cached, spoiled>>
    /\ UNCHANGED <<db, live, ids, todo, cur>>

\* Set of a cached topic.
SetPointer(t, r) ==
    /\ Take(t, r)
    /\ r.id \in Topics
    /\ cached[r.id] # Absent
    /\ AfterSet(t, rows[t] \ {r})
    /\ Store(r)
    /\ UNCHANGED <<db, live, ids, todo, cur>>

\* Set of a cached user: the cache is unlocked, then the struct is overwritten.
SetFound(t, r) ==
    /\ Take(t, r)
    /\ r.id \in Users
    /\ cached[r.id] # Absent
    /\ cur' = [cur EXCEPT ![t] = r]
    /\ pc' = [pc EXCEPT ![t] = "overwrite"]
    /\ UNCHANGED <<db, live, cached, ids, todo, spoiled>>

Overwrite(t) ==
    /\ pc[t] = "overwrite"
    /\ IF cur[t] = None THEN UNCHANGED <<cached, spoiled>> ELSE Store(cur[t])
    /\ AfterSet(t, rows[t])
    /\ cur' = [cur EXCEPT ![t] = None]
    /\ UNCHANGED <<db, live, ids, todo, rows>>

-----------------------------------------------------------------------------
\* Writes.

\* S leaves the cache; a struct about to be overwritten is on its own from now.
Remove(S) ==
    /\ cached' = [i \in Ids |-> IF i \in S THEN Absent ELSE cached[i]]
    /\ cur' = [t \in Threads |-> IF cur[t] # None /\ cur[t].id \in S THEN None ELSE cur[t]]
    /\ spoiled' = spoiled \ S

\* Mutant: the update returns without a CacheRemove.
WriteOnly(t, i) ==
    /\ i \in live
    /\ pc[t] = "idle"
    /\ db[i] < MaxVersion
    /\ db' = [db EXCEPT ![i] = @ + 1]
    /\ UNCHANGED <<live, cached, threadVars, spoiled>>

\* An update of one row: bindStmt, UpdateIP, Topic.Lock and their like.
Write(t, i) ==
    /\ i \in live
    /\ db[i] < MaxVersion
    /\ db' = [db EXCEPT ![i] = @ + 1]
    /\ Begin(t, "purge", {i})
    /\ UNCHANGED <<live, cached, todo, rows, cur, spoiled>>

\* AddLinked: an update that is followed by a Reload, not by a removal.
WriteReload(t, i) ==
    /\ i \in live \cap Topics
    /\ db[i] < MaxVersion
    /\ db' = [db EXCEPT ![i] = @ + 1]
    /\ Begin(t, "requery", {i})
    /\ UNCHANGED <<live, cached, todo, rows, cur, spoiled>>

\* An operation of several statements that returns the error of a later one
\* before it reaches CacheRemove: CreateActionReply and Reply.Delete on a topic.
WriteGivesUp(t, i) ==
    /\ pc[t] = "idle"
    /\ i \in live \cap Topics
    /\ db[i] < MaxVersion
    /\ db' = [db EXCEPT ![i] = @ + 1]
    /\ spoiled' = IF cached[i] = Absent THEN spoiled ELSE spoiled \cup {i}
    /\ UNCHANGED <<live, cached, threadVars>>

Delete(t, i) ==
    /\ i \in live
    /\ db[i] < MaxVersion
    /\ db' = [db EXCEPT ![i] = @ + 1]
    /\ live' = live \ {i}
    /\ Begin(t, "purge", {i})
    /\ UNCHANGED <<cached, todo, rows, cur, spoiled>>

\* A statement that fails, or finds no row, is followed by CacheRemove as well.
WriteFails(t, i) ==
    /\ Begin(t, "purge", {i})
    /\ UNCHANGED <<db, live, cached, todo, rows, cur, spoiled>>

\* CacheRemove, RemoveMany, and the removal by a Reload that found nothing.
Purge(t) ==
    /\ pc[t] = "purge"
    /\ Remove(ids[t])
    /\ Return(t)
    /\ UNCHANGED <<db, live, todo, rows>>

\* DeallocOverflow, Remove and Flush by others.
Evict(i) ==
    /\ cached[i] # Absent
    /\ Remove({i})
    /\ UNCHANGED <<db, live, pc, ids, todo, rows>>

LockMany(t, S) ==
    /\ S # {}
    /\ Begin(t, "locking", {})
    /\ todo' = [todo EXCEPT ![t] = S]
    /\ UNCHANGED <<db, live, cached, rows, cur, spoiled>>

LockOne(t, i) ==
    /\ pc[t] = "locking"
    /\ i \in todo[t]
    /\ db[i] < MaxVersion
    /\ db' = IF i \in live THEN [db EXCEPT ![i] = @ + 1] ELSE db
    /\ ids' = [ids EXCEPT ![t] = @ \cup {i}]
    /\ todo' = [todo EXCEPT ![t] = @ \ {i}]
    /\ pc' = [pc EXCEPT ![t] = IF todo[t] = {i} THEN "purge" ELSE "locking"]
    /\ UNCHANGED <<live, cached, rows, cur, spoiled>>

\* LockMany returns the error; what it has locked by then stays cached.
LockFails(t) ==
    /\ pc[t] = "locking"
    /\ Return(t)
    /\ todo' = [todo EXCEPT ![t] = {}]
    /\ spoiled' = spoiled \cup {i \in ids[t] : Stale(i)}
    /\ UNCHANGED <<db, live, cached, rows, cur>>

-----------------------------------------------------------------------------
Next ==
    \/ \E t \in Threads :
        \/ Query(t) \/ QueryEmpty(t) \/ ReloadEmpty(t) \/ ScanFails(t)
        \/ Overwrite(t) \/ Purge(t) \/ LockFails(t)
        \/ \E r \in rows[t] : SetNew(t, r) \/ SetPointer(t, r) \/ SetFound(t, r)
        \/ \E i \in Ids :
            \/ GetMiss(t, i) \/ GetByName(t, i) \/ Reload(t, i)
            \/ Write(t, i) \/ WriteReload(t, i) \/ WriteGivesUp(t, i)
            \/ WriteFails(t, i) \/ Delete(t, i) \/ LockOne(t, i)
        \/ \E S \in (SUBSET Users) \cup (SUBSET Topics) : BulkGetMap(t, S)
        \/ \E S \in SUBSET Users : BulkQuery(t, S)
        \/ \E S \in SUBSET Topics : LockMany(t, S)
    \/ \E i \in Ids : Evict(i)

Spec == Init /\ [][Next]_vars

-----------------------------------------------------------------------------
Versions == 0 .. MaxVersion
Rows == [id : Ids, ver : Versions]

\* The type invariant of the store.
TypeOK ==
    /\ db \in [Ids -> Versions]
    /\ live \subseteq Ids
    /\ cached \in [Ids -> Versions \cup {Absent}]
    /\ pc \in [Threads -> {"idle", "query", "bulkQuery", "requery", "set", "bulkSet",
                           "refresh", "overwrite", "purge", "locking"}]
    /\ ids \in [Threads -> SUBSET Ids]
    /\ todo \in [Threads -> SUBSET Ids]
    /\ rows \in [Threads -> SUBSET Rows]
    /\ cur \in [Threads -> Rows \cup {None}]
    /\ spoiled \subseteq Ids

\* The thread has changed the row of i and has not yet purged the cache of it.
Purging(t, i) == pc[t] \in {"purge", "locking"} /\ i \in ids[t]

\* The thread is about to replace what is cached of topic i with what it reads.
Refreshing(t, i) ==
    /\ i \in Topics
    /\ \/ pc[t] = "requery" /\ i \in ids[t]
       \/ pc[t] = "refresh" /\ \E r \in rows[t] : r.id = i

\* A cached record differs from its row only while a writer that is going to
\* purge it (or, for a topic, to reload it) is on its way, or because of one of two things: a
\* query answered before the write was cached after it, or a writer gave up
\* between its write and the purge.
StaleHasCause ==
    \A i \in Ids : Stale(i) =>
        i \in spoiled \/ \E t \in Threads : Purging(t, i) \/ Refreshing(t, i)
=============================================================================
