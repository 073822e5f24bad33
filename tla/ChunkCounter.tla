---------------------------- MODULE ChunkCounter ----------------------------
(***************************************************************************)
(* The two-bucket counters of requests, posts and topics                   *)
(* (src/common/counters/requests.go, posts.go, topics.go).                 *)
(*                                                                         *)
(* Requests bump the current bucket.  Every fifteen minutes, and once more *)
(* when the server is told to stop, a tick folds what late bumps left in   *)
(* the other bucket into the current one, makes the other one current, and *)
(* writes what it takes off the first to the database.  The tick loop and  *)
(* the shutdown run on goroutines of their own and nothing keeps a tick of *)
(* one out of a tick of the other.  Each read and each write of shared     *)
(* memory is a step.                                                       *)
(***************************************************************************)
EXTENDS Integers

CONSTANTS
    Requests,   \* request goroutines
    MaxBumps,   \* bound: how many times the counter is bumped
    None

ASSUME BoundAssumption == MaxBumps \in Nat
ASSUME NoneAssumption == None \notin {0, 1}

Buckets == {0, 1}
Tickers == {"loop", "shutdown"}

VARIABLES
    buckets,    \* the two buckets
    current,    \* currentBucket
    aim,        \* the bucket each request is about to add to, or None
    at,         \* where each ticker is in its tick
    old, next,  \* oldBucket and nextBucket of each ticker
    carry,      \* the count each ticker carries
    db,         \* the sum of the chunks in the database
    begun,      \* how many bumps have begun
    bumped,     \* how many have reached a bucket
    failed,     \* history: counts lost with a chunk that could not be inserted
    erased,     \* history: what the ticks zeroed but had not folded
    overlap,    \* history: have two ticks run at the same time?
    late        \* history: has a bump hit a bucket while a tick was emptying it?

tickVars == <<at, old, next, carry>>
histVars == <<failed, erased, overlap>>
vars == <<buckets, current, aim, tickVars, db, begun, bumped, histVars, late>>

Init ==
    /\ buckets = [b \in Buckets |-> 0]
    /\ current = 0
    /\ aim = [r \in Requests |-> None]
    /\ at = [k \in Tickers |-> "idle"]
    /\ old = [k \in Tickers |-> 0]
    /\ next = [k \in Tickers |-> 1]
    /\ carry = [k \in Tickers |-> 0]
    /\ db = 0
    /\ begun = 0
    /\ bumped = 0
    /\ failed = 0
    /\ erased = 0
    /\ overlap = FALSE
    /\ late = FALSE

-----------------------------------------------------------------------------
\* Bump: the index is read, then the addition is atomic.

BumpAim(r) ==
    /\ aim[r] = None
    /\ begun < MaxBumps
    /\ begun' = begun + 1
    /\ aim' = [aim EXCEPT ![r] = current]
    /\ UNCHANGED <<buckets, current, tickVars, db, bumped, histVars, late>>

BumpAdd(r) ==
    /\ aim[r] # None
    /\ buckets' = [buckets EXCEPT ![aim[r]] = @ + 1]
    /\ bumped' = bumped + 1
    /\ aim' = [aim EXCEPT ![r] = None]
    /\ late' = (late \/ \E k \in Tickers : at[k] \in {"fold", "clear"} /\ next[k] = aim[r])
    /\ UNCHANGED <<current, tickVars, db, begun, histVars>>

-----------------------------------------------------------------------------
\* Tick.

Goto(k, label) == at' = [at EXCEPT ![k] = label]

\* A shutdown happens once.
TickOld(k) ==
    /\ at[k] = "idle"
    /\ Goto(k, "next")
    /\ old' = [old EXCEPT ![k] = current]
    /\ overlap' = (overlap \/ \E j \in Tickers \ {k} : at[j] \notin {"idle", "over"})
    /\ UNCHANGED <<buckets, current, aim, next, carry, db, begun, bumped, failed, erased, late>>

\* currentBucket is read a second time.
TickNext(k) ==
    /\ at[k] = "next"
    /\ Goto(k, "peek")
    /\ next' = [next EXCEPT ![k] = 1 - current]
    /\ UNCHANGED <<buckets, current, aim, old, carry, db, begun, bumped, histVars, late>>

\* Mutant: the wrong bucket is read.
TickPeekOld(k) ==
    /\ at[k] = "peek"
    /\ Goto(k, "fold")
    /\ carry' = [carry EXCEPT ![k] = buckets[old[k]]]
    /\ UNCHANGED <<buckets, current, aim, old, next, db, begun, bumped, histVars, late>>

TickPeek(k) ==
    /\ at[k] = "peek"
    /\ Goto(k, "fold")
    /\ carry' = [carry EXCEPT ![k] = buckets[next[k]]]
    /\ UNCHANGED <<buckets, current, aim, old, next, db, begun, bumped, histVars, late>>

TickFold(k) ==
    /\ at[k] = "fold"
    /\ Goto(k, "clear")
    /\ buckets' = [buckets EXCEPT ![old[k]] = @ + carry[k]]
    /\ UNCHANGED <<current, aim, old, next, carry, db, begun, bumped, histVars, late>>

TickClear(k) ==
    /\ at[k] = "clear"
    /\ Goto(k, "flip")
    /\ buckets' = [buckets EXCEPT ![next[k]] = 0]
    /\ erased' = erased + (buckets[next[k]] - carry[k])
    /\ UNCHANGED <<current, aim, old, next, carry, db, begun, bumped, failed, overlap, late>>

\* Mutant: the index is advanced without wrapping.
TickFlipNoWrap(k) ==
    /\ at[k] = "flip"
    /\ Goto(k, "take")
    /\ current' = current + 1
    /\ UNCHANGED <<buckets, aim, old, next, carry, db, begun, bumped, histVars, late>>

TickFlip(k) ==
    /\ at[k] = "flip"
    /\ Goto(k, "take")
    /\ current' = next[k]
    /\ UNCHANGED <<buckets, aim, old, next, carry, db, begun, bumped, histVars, late>>

\* Mutant: the test for something to write is off by one.
TickTakeAboveOne(k) ==
    /\ at[k] = "take"
    /\ Goto(k, "deduct")
    /\ carry' = [carry EXCEPT ![k] = IF buckets[old[k]] > 1 THEN buckets[old[k]] ELSE 0]
    /\ UNCHANGED <<buckets, current, aim, old, next, db, begun, bumped, histVars, late>>

TickTake(k) ==
    /\ at[k] = "take"
    /\ Goto(k, "deduct")
    /\ carry' = [carry EXCEPT ![k] = buckets[old[k]]]
    /\ UNCHANGED <<buckets, current, aim, old, next, db, begun, bumped, histVars, late>>

\* Mutant: the bucket is zeroed instead of lowered by what was taken.
TickDeductAll(k) ==
    /\ at[k] = "deduct"
    /\ Goto(k, "insert")
    /\ buckets' = [buckets EXCEPT ![old[k]] = 0]
    /\ UNCHANGED <<current, aim, old, next, carry, db, begun, bumped, histVars, late>>

\* Mutant: the bucket keeps what is written.
TickDeductNothing(k) ==
    /\ at[k] = "deduct"
    /\ Goto(k, "insert")
    /\ UNCHANGED <<buckets, current, aim, old, next, carry, db, begun, bumped, histVars, late>>

TickDeduct(k) ==
    /\ at[k] = "deduct"
    /\ Goto(k, "insert")
    /\ buckets' = [buckets EXCEPT ![old[k]] = @ - carry[k]]
    /\ UNCHANGED <<current, aim, old, next, carry, db, begun, bumped, histVars, late>>

\* The tick returns, and its locals are gone.
TickEnd(k) ==
    /\ Goto(k, IF k = "shutdown" THEN "over" ELSE "idle")
    /\ old' = [old EXCEPT ![k] = 0]
    /\ next' = [next EXCEPT ![k] = 1]
    /\ carry' = [carry EXCEPT ![k] = 0]

TickInsert(k) ==
    /\ at[k] = "insert"
    /\ TickEnd(k)
    /\ db' = db + carry[k]
    /\ UNCHANGED <<buckets, current, aim, begun, bumped, histVars, late>>

\* The chunk is gone with the error.
TickInsertFails(k) ==
    /\ at[k] = "insert"
    /\ carry[k] # 0
    /\ TickEnd(k)
    /\ failed' = failed + carry[k]
    /\ UNCHANGED <<buckets, current, aim, db, begun, bumped, erased, overlap, late>>

-----------------------------------------------------------------------------
Tick(k) ==
    \/ TickOld(k) \/ TickNext(k) \/ TickPeek(k) \/ TickFold(k) \/ TickClear(k)
    \/ TickFlip(k) \/ TickTake(k) \/ TickDeduct(k) \/ TickInsert(k) \/ TickInsertFails(k)

Next ==
    \/ \E r \in Requests : BumpAim(r) \/ BumpAdd(r)
    \/ \E k \in Tickers : Tick(k)

\* The ticker keeps firing and a request that has begun to bump goes on; the
\* server need never be stopped.
Fairness ==
    /\ WF_vars(Tick("loop"))
    /\ WF_vars(at["shutdown"] # "idle" /\ Tick("shutdown"))
    /\ \A r \in Requests : WF_vars(BumpAdd(r))

Spec == Init /\ [][Next]_vars
FairSpec == Spec /\ Fairness

-----------------------------------------------------------------------------
\* The type invariant of a counter.
TypeOK ==
    /\ buckets \in [Buckets -> Int]
    /\ current \in Buckets
    /\ aim \in [Requests -> Buckets \cup {None}]
    /\ at \in [Tickers -> {"idle", "next", "peek", "fold", "clear", "flip", "take",
                           "deduct", "insert", "over"}]
    /\ old \in [Tickers -> Buckets]
    /\ next \in [Tickers -> Buckets]
    /\ carry \in [Tickers -> Int]
    /\ db \in Int /\ failed \in Int /\ erased \in Int
    /\ begun \in Nat /\ bumped \in Nat
    /\ overlap \in BOOLEAN /\ late \in BOOLEAN

\* What a ticker holds that no bucket does: less than nothing while the bucket
\* it has folded is not cleared yet.
Held(k) ==
    IF at[k] = "clear" THEN -carry[k] ELSE IF at[k] = "insert" THEN carry[k] ELSE 0

\* Every bump that has reached a bucket is in a bucket, on its way to the
\* database, there, or lost with a failed insert or a cleared bucket.
BumpsConserved ==
    bumped = db + failed + erased + buckets[0] + buckets[1]
             + Held("loop") + Held("shutdown")

\* As long as ticks do not overlap, the database never claims more than happened
\* and no bucket is below zero.
NeverOvercounts ==
    ~overlap => db <= bumped /\ buckets[0] >= 0 /\ buckets[1] >= 0

\* As long as ticks do not overlap, a clear loses nothing but bumps that hit the
\* bucket between the read of it and the clear.
LossIsLate == ~overlap /\ ~late => erased = 0

Account == INSTANCE Ledger WITH
    counted <- bumped, stored <- db, lost <- failed + erased, void <- overlap

\* The counter is a Ledger: as long as ticks do not overlap, each bump is stored
\* once or lost for good, and never both.
BumpsAreAccounted == Account!Spec

\* Unless the server is stopped, once no more bumps come all of them end up in
\* the database or are lost: none stays behind in a bucket.
BumpsSettle ==
    <>(at["shutdown"] # "idle") \/ <>[](bumped = db + failed + erased)
=============================================================================
