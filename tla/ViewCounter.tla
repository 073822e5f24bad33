---------------------------- MODULE ViewCounter ----------------------------
(***************************************************************************)
(* The counters of views with a bucket for each topic or forum             *)
(* (src/common/counters/topics_views.go, forums.go).                       *)
(*                                                                         *)
(* A map of buckets, each behind a lock of its own, is filled by the       *)
(* requests and emptied by a tick, which takes one bucket after another:   *)
(* its count is read under the bucket's lock, the bucket is taken off the  *)
(* map under the map's lock, and the count goes to the database.  A Bump   *)
(* looks the bucket up under the map's read lock, and adds to it or stores *)
(* a new one afterwards.  The steps are split where a lock is released.    *)
(*                                                                         *)
(* A bucket is named after the view that created it.  That odd and even    *)
(* IDs have maps of their own only splits the locks, and is not modelled,  *)
(* nor are the counts of the week and of the cached topic.                 *)
(***************************************************************************)
EXTENDS Integers, FiniteSetsExt

CONSTANTS
    Views,      \* views, each by a request of its own
    Topics,
    TopicOf,    \* what each of them is a view of
    None

ASSUME TopicsAssumption == IsFiniteSet(Topics)
ASSUME TopicOfAssumption == TopicOf \in [Views -> Topics]
ASSUME NoneAssumption == None \notin Views \cup Topics

Tickers == {"loop", "shutdown"}

VARIABLES
    buckets,   \* the map: the bucket of each topic, or None
    counter,   \* the count in each bucket
    bump,      \* where the Bump of each view is
    found,     \* the bucket it has found
    at,        \* where each ticker is
    due,       \* the topics its loop is bound to visit yet
    topic,     \* the topic and
    bucket,    \*   the bucket it is at
    count,     \* what it has read there
    db,        \* the sum of the views in the database
    bumped,    \* how many views have been counted
    overlap    \* history: have two ticks run at the same time?

bumpVars == <<bump, found, bumped>>
loopVars == <<due, topic, bucket, count>>
viewVars == <<buckets, counter, bumpVars, at, loopVars, db, overlap>>

ViewInit ==
    /\ buckets = [t \in Topics |-> None]
    /\ counter = [v \in Views |-> 0]
    /\ bump = [v \in Views |-> "new"]
    /\ found = [v \in Views |-> None]
    /\ at = [k \in Tickers |-> "idle"]
    /\ due = [k \in Tickers |-> {}]
    /\ topic = [k \in Tickers |-> None]
    /\ bucket = [k \in Tickers |-> None]
    /\ count = [k \in Tickers |-> 0]
    /\ db = 0
    /\ bumped = 0
    /\ overlap = FALSE

Keys == {t \in Topics : buckets[t] # None}

-----------------------------------------------------------------------------
\* Bump.

BumpFind(v) ==
    /\ bump[v] = "new"
    /\ found' = [found EXCEPT ![v] = buckets[TopicOf[v]]]
    /\ bump' = [bump EXCEPT ![v] = IF buckets[TopicOf[v]] = None THEN "store" ELSE "add"]
    /\ UNCHANGED <<buckets, counter, bumped, at, loopVars, db, overlap>>

BumpAdd(v) ==
    /\ bump[v] = "add"
    /\ counter' = [counter EXCEPT ![found[v]] = @ + 1]
    /\ bumped' = bumped + 1
    /\ bump' = [bump EXCEPT ![v] = "done"]
    /\ UNCHANGED <<buckets, found, at, loopVars, db, overlap>>

\* A bucket that was stored since the look-up is replaced.
BumpStore(v) ==
    /\ bump[v] = "store"
    /\ buckets' = [buckets EXCEPT ![TopicOf[v]] = v]
    /\ counter' = [counter EXCEPT ![v] = 1]
    /\ bumped' = bumped + 1
    /\ bump' = [bump EXCEPT ![v] = "done"]
    /\ UNCHANGED <<found, at, loopVars, db, overlap>>

Bump(v) == BumpFind(v) \/ BumpAdd(v) \/ BumpStore(v)

-----------------------------------------------------------------------------
\* Tick.

Running(k) == at[k] \in {"range", "read", "delete", "insert"}

TickBegin(k) ==
    /\ at[k] = "run"
    /\ at' = [at EXCEPT ![k] = "range"]
    /\ due' = [due EXCEPT ![k] = Keys]
    /\ overlap' = (overlap \/ \E j \in Tickers \ {k} : Running(j))
    /\ UNCHANGED <<buckets, counter, bumpVars, topic, bucket, count, db>>

\* The loop visits every topic that was in the map at its start, and any that
\* has come since or not.
TickVisit(k, t) ==
    /\ at[k] = "range"
    /\ t \in Keys
    /\ topic' = [topic EXCEPT ![k] = t]
    /\ bucket' = [bucket EXCEPT ![k] = buckets[t]]
    /\ due' = [due EXCEPT ![k] = @ \ {t}]
    /\ at' = [at EXCEPT ![k] = "read"]
    /\ UNCHANGED <<buckets, counter, bumpVars, count, db, overlap>>

TickRead(k) ==
    /\ at[k] = "read"
    /\ count' = [count EXCEPT ![k] = counter[bucket[k]]]
    /\ at' = [at EXCEPT ![k] = "delete"]
    /\ UNCHANGED <<buckets, counter, bumpVars, due, topic, bucket, db, overlap>>

\* Mutant: the bucket stays in the map with the count that is inserted.
TickDeleteNothing(k) ==
    /\ at[k] = "delete"
    /\ at' = [at EXCEPT ![k] = "insert"]
    /\ UNCHANGED <<buckets, counter, bumpVars, loopVars, db, overlap>>

\* The topic is deleted, with whichever bucket it has by then.
TickDelete(k) ==
    /\ at[k] = "delete"
    /\ buckets' = [buckets EXCEPT ![topic[k]] = None]
    /\ due' = [j \in Tickers |-> due[j] \ {topic[k]}]
    /\ at' = [at EXCEPT ![k] = "insert"]
    /\ UNCHANGED <<counter, bumpVars, topic, bucket, count, db, overlap>>

\* The locals of a visit are gone.
Leave(k, label) ==
    /\ at' = [at EXCEPT ![k] = label]
    /\ topic' = [topic EXCEPT ![k] = None]
    /\ bucket' = [bucket EXCEPT ![k] = None]
    /\ count' = [count EXCEPT ![k] = 0]

TickInsert(k) ==
    /\ at[k] = "insert"
    /\ Leave(k, "range")
    /\ db' = db + count[k]
    /\ UNCHANGED <<buckets, counter, bumpVars, due, overlap>>

\* The loop ends at the first error, and with it the count of this topic.
TickInsertFails(k) ==
    /\ at[k] = "insert"
    /\ count[k] # 0
    /\ Leave(k, "stop")
    /\ due' = [due EXCEPT ![k] = {}]
    /\ UNCHANGED <<buckets, counter, bumpVars, db, overlap>>

\* Mutant: the loop stops before the last topic.
TickEndEarly(k) ==
    /\ at[k] = "range"
    /\ Cardinality(due[k] \cap Keys) <= 1
    /\ at' = [at EXCEPT ![k] = "stop"]
    /\ due' = [due EXCEPT ![k] = {}]
    /\ UNCHANGED <<buckets, counter, bumpVars, topic, bucket, count, db, overlap>>

TickEnd(k) ==
    /\ at[k] = "range"
    /\ due[k] \cap Keys = {}
    /\ at' = [at EXCEPT ![k] = "stop"]
    /\ due' = [due EXCEPT ![k] = {}]
    /\ UNCHANGED <<buckets, counter, bumpVars, topic, bucket, count, db, overlap>>

ViewTick(k) ==
    \/ TickBegin(k) \/ (\E t \in Topics : TickVisit(k, t)) \/ TickRead(k)
    \/ TickDelete(k) \/ TickInsert(k) \/ TickInsertFails(k) \/ TickEnd(k)

-----------------------------------------------------------------------------
\* The type invariant of the counter.
ViewTypeOK ==
    /\ buckets \in [Topics -> Views \cup {None}]
    /\ counter \in [Views -> Nat]
    /\ bump \in [Views -> {"new", "add", "store", "done"}]
    /\ found \in [Views -> Views \cup {None}]
    /\ at \in [Tickers -> {"idle", "check", "set", "run", "range", "read", "delete",
                           "insert", "stop", "over"}]
    /\ due \in [Tickers -> SUBSET Topics]
    /\ topic \in [Tickers -> Topics \cup {None}]
    /\ bucket \in [Tickers -> Views \cup {None}]
    /\ count \in [Tickers -> Nat]
    /\ db \in Nat /\ bumped \in Nat /\ overlap \in BOOLEAN

\* What the tick will yet insert: the count it holds, or that of the bucket it
\* is about to read.
Held(k) ==
    CASE at[k] = "read" -> counter[bucket[k]]
      [] at[k] \in {"delete", "insert"} -> count[k]
      [] OTHER -> 0

\* A topic the tick is about to delete; nobody will read its bucket again.
Doomed(t) == \E k \in Tickers : at[k] \in {"read", "delete"} /\ topic[k] = t

\* The views that are on their way to the database.
Pending ==
    SumFunctionOnSet([t \in Keys |-> counter[buckets[t]]], {t \in Keys : ~Doomed(t)})
    + Held("loop") + Held("shutdown")

Account == INSTANCE Ledger WITH
    counted <- bumped, stored <- db, lost <- bumped - db - Pending, void <- overlap

\* As long as ticks do not overlap, every view is inserted once or lost for good:
\* what no bucket in the map and no tick accounts for never turns up in the
\* database, and the database never claims more views than there were.
ViewsAreAccounted == Account!Spec
=============================================================================
