----------------------------- MODULE CountProofs ----------------------------
(***************************************************************************)
(* Theorems, with their proofs, about the two modules in which a count is  *)
(* kept apart from what it counts: the counters with two buckets           *)
(* (ChunkCounter) and the topic cache with its length (TopicCache).  The   *)
(* two share nothing.                                                      *)
(*                                                                         *)
(* Conservation of bumps is inductive once the types are known.  That none *)
(* is counted twice needs more: Solo says what the one tick that runs      *)
(* knows of the buckets while it carries a count.                          *)
(***************************************************************************)
EXTENDS ChunkCounter, TopicCache, FiniteSetTheorems, TLAPS

\* A counter keeps its types (the fields of DefaultPostCounter and its like).
THEOREM ChunkTypes == Spec => []TypeOK
<1>1. Init => TypeOK
  <2> SUFFICES ASSUME Init PROVE TypeOK
    OBVIOUS
  <2>1. overlap \in BOOLEAN /\ late \in BOOLEAN
    BY DEF Init
  <2>2. at \in [Tickers -> {"idle", "next", "peek", "fold", "clear", "flip", "take",
                            "deduct", "insert", "over"}]
    BY DEF Init
  <2> QED
    BY <2>1, <2>2 DEF Init, TypeOK, Buckets
<1>2. TypeOK /\ [Next]_vars => TypeOK'
  <2> SUFFICES ASSUME TypeOK, [Next]_vars PROVE TypeOK'
    OBVIOUS
  <2> USE DEF TypeOK, Buckets
  <2>1. ASSUME NEW r \in Requests, BumpAim(r) PROVE TypeOK'
    BY <2>1 DEF BumpAim, tickVars, histVars
  <2>2. ASSUME NEW r \in Requests, BumpAdd(r) PROVE TypeOK'
    BY <2>2 DEF BumpAdd, tickVars, histVars
  <2>3. ASSUME NEW k \in Tickers, TickOld(k) PROVE TypeOK'
    BY <2>3 DEF TickOld, Goto, tickVars, histVars
  <2>4. ASSUME NEW k \in Tickers, TickNext(k) PROVE TypeOK'
    BY <2>4 DEF TickNext, Goto, tickVars, histVars
  <2>5. ASSUME NEW k \in Tickers, TickPeek(k) PROVE TypeOK'
    BY <2>5 DEF TickPeek, Goto, tickVars, histVars
  <2>6. ASSUME NEW k \in Tickers, TickFold(k) PROVE TypeOK'
    BY <2>6 DEF TickFold, Goto, tickVars, histVars
  <2>7. ASSUME NEW k \in Tickers, TickClear(k) PROVE TypeOK'
    BY <2>7 DEF TickClear, Goto, tickVars, histVars
  <2>8. ASSUME NEW k \in Tickers, TickFlip(k) PROVE TypeOK'
    BY <2>8 DEF TickFlip, Goto, tickVars, histVars
  <2>9. ASSUME NEW k \in Tickers, TickTake(k) PROVE TypeOK'
    BY <2>9 DEF TickTake, Goto, tickVars, histVars
  <2>10. ASSUME NEW k \in Tickers, TickDeduct(k) PROVE TypeOK'
    BY <2>10 DEF TickDeduct, Goto, tickVars, histVars
  <2>11. ASSUME NEW k \in Tickers, TickInsert(k) PROVE TypeOK'
    BY <2>11 DEF TickInsert, Goto, TickEnd, tickVars, histVars
  <2>12. ASSUME NEW k \in Tickers, TickInsertFails(k) PROVE TypeOK'
    BY <2>12 DEF TickInsertFails, Goto, TickEnd, tickVars, histVars
  <2>13. CASE UNCHANGED vars
    BY <2>13 DEF vars, tickVars, histVars
  <2> QED
    BY <2>1, <2>2, <2>3, <2>4, <2>5, <2>6, <2>7, <2>8, <2>9, <2>10, <2>11, <2>12,
       <2>13 DEF Next, Tick
<1> QED
  BY <1>1, <1>2, PTL DEF Spec

\* No bump is lost or made up on its way from Bump to the database, but for what
\* failed and erased account for (Tick and insertChunk).
THEOREM ChunkConserves == Spec => []BumpsConserved
<1>1. Init => BumpsConserved
  BY DEF Init, BumpsConserved, Held, Buckets, Tickers
<1>2. TypeOK /\ BumpsConserved /\ [Next]_vars => BumpsConserved'
  <2> SUFFICES ASSUME TypeOK, BumpsConserved, [Next]_vars PROVE BumpsConserved'
    OBVIOUS
  <2> USE DEF TypeOK, BumpsConserved, Held, Buckets, Tickers
  <2>1. ASSUME NEW r \in Requests, BumpAim(r) PROVE BumpsConserved'
    BY <2>1, NoneAssumption DEF BumpAim, tickVars, histVars
  <2>2. ASSUME NEW r \in Requests, BumpAdd(r) PROVE BumpsConserved'
    BY <2>2, NoneAssumption DEF BumpAdd, tickVars, histVars
  <2>3. ASSUME NEW k \in Tickers, TickOld(k) PROVE BumpsConserved'
    BY <2>3, NoneAssumption DEF TickOld, Goto, tickVars, histVars
  <2>4. ASSUME NEW k \in Tickers, TickNext(k) PROVE BumpsConserved'
    BY <2>4, NoneAssumption DEF TickNext, Goto, tickVars, histVars
  <2>5. ASSUME NEW k \in Tickers, TickPeek(k) PROVE BumpsConserved'
    BY <2>5, NoneAssumption DEF TickPeek, Goto, tickVars, histVars
  <2>6. ASSUME NEW k \in Tickers, TickFold(k) PROVE BumpsConserved'
    BY <2>6, NoneAssumption DEF TickFold, Goto, tickVars, histVars
  <2>7. ASSUME NEW k \in Tickers, TickClear(k) PROVE BumpsConserved'
    BY <2>7, NoneAssumption DEF TickClear, Goto, tickVars, histVars
  <2>8. ASSUME NEW k \in Tickers, TickFlip(k) PROVE BumpsConserved'
    BY <2>8, NoneAssumption DEF TickFlip, Goto, tickVars, histVars
  <2>9. ASSUME NEW k \in Tickers, TickTake(k) PROVE BumpsConserved'
    BY <2>9, NoneAssumption DEF TickTake, Goto, tickVars, histVars
  <2>10. ASSUME NEW k \in Tickers, TickDeduct(k) PROVE BumpsConserved'
    BY <2>10, NoneAssumption DEF TickDeduct, Goto, tickVars, histVars
  <2>11. ASSUME NEW k \in Tickers, TickInsert(k) PROVE BumpsConserved'
    BY <2>11, NoneAssumption DEF TickInsert, Goto, TickEnd, tickVars, histVars
  <2>12. ASSUME NEW k \in Tickers, TickInsertFails(k) PROVE BumpsConserved'
    BY <2>12, NoneAssumption DEF TickInsertFails, Goto, TickEnd, tickVars, histVars
  <2>13. CASE UNCHANGED vars
    BY <2>13, NoneAssumption DEF vars, tickVars, histVars
  <2> QED
    BY <2>1, <2>2, <2>3, <2>4, <2>5, <2>6, <2>7, <2>8, <2>9, <2>10, <2>11, <2>12,
       <2>13 DEF Next, Tick
<1> QED
  BY <1>1, <1>2, ChunkTypes, PTL DEF Spec

-----------------------------------------------------------------------------
\* A tick on its own, step by step: the bucket it empties is not the one it
\* folds into, and what it carries is in a bucket until it is taken off it.
Alone(k) ==
    /\ at[k] = "next" => old[k] = current
    /\ at[k] \in {"peek", "fold", "clear", "flip", "take", "deduct"} => next[k] = 1 - old[k]
    /\ at[k] \in {"peek", "fold", "clear", "flip"} => old[k] = current
    /\ at[k] \in {"fold", "clear"} => carry[k] <= buckets[next[k]]
    /\ at[k] = "deduct" => carry[k] <= buckets[old[k]]
    /\ at[k] \in {"fold", "clear", "deduct", "insert"} => 0 <= carry[k]

Resting(k) == at[k] \in {"idle", "over"}

Solo ==
    ~overlap =>
        /\ buckets[0] >= 0 /\ buckets[1] >= 0 /\ failed >= 0 /\ erased >= 0
        /\ Resting("loop") \/ Resting("shutdown")
        /\ Alone("loop") /\ Alone("shutdown")

\* Without a late bump the carried count is all there is in the bucket.
Punctual ==
    ~overlap /\ ~late =>
        /\ erased = 0
        /\ \A k \in Tickers : at[k] \in {"fold", "clear"} => carry[k] = buckets[next[k]]

LEMMA SoloAlways == Spec => []Solo
<1>1. Init => Solo
  BY DEF Init, Solo, Alone, Resting, Buckets, Tickers
<1>2. TypeOK /\ Solo /\ [Next]_vars => Solo'
  <2> SUFFICES ASSUME TypeOK, Solo, [Next]_vars PROVE Solo'
    OBVIOUS
  <2> USE DEF TypeOK, Solo, Alone, Resting, Buckets, Tickers
  <2>1. ASSUME NEW r \in Requests, BumpAim(r) PROVE Solo'
    BY <2>1, NoneAssumption DEF BumpAim, tickVars, histVars
  <2>2. ASSUME NEW r \in Requests, BumpAdd(r) PROVE Solo'
    BY <2>2, NoneAssumption DEF BumpAdd, tickVars, histVars
  <2>3. ASSUME NEW k \in Tickers, TickOld(k) PROVE Solo'
    BY <2>3, NoneAssumption DEF TickOld, Goto, tickVars, histVars
  <2>4. ASSUME NEW k \in Tickers, TickNext(k) PROVE Solo'
    BY <2>4, NoneAssumption DEF TickNext, Goto, tickVars, histVars
  <2>5. ASSUME NEW k \in Tickers, TickPeek(k) PROVE Solo'
    BY <2>5, NoneAssumption DEF TickPeek, Goto, tickVars, histVars
  <2>6. ASSUME NEW k \in Tickers, TickFold(k) PROVE Solo'
    BY <2>6, NoneAssumption DEF TickFold, Goto, tickVars, histVars
  <2>7. ASSUME NEW k \in Tickers, TickClear(k) PROVE Solo'
    BY <2>7, NoneAssumption DEF TickClear, Goto, tickVars, histVars
  <2>8. ASSUME NEW k \in Tickers, TickFlip(k) PROVE Solo'
    BY <2>8, NoneAssumption DEF TickFlip, Goto, tickVars, histVars
  <2>9. ASSUME NEW k \in Tickers, TickTake(k) PROVE Solo'
    BY <2>9, NoneAssumption DEF TickTake, Goto, tickVars, histVars
  <2>10. ASSUME NEW k \in Tickers, TickDeduct(k) PROVE Solo'
    BY <2>10, NoneAssumption DEF TickDeduct, Goto, tickVars, histVars
  <2>11. ASSUME NEW k \in Tickers, TickInsert(k) PROVE Solo'
    BY <2>11, NoneAssumption DEF TickInsert, Goto, TickEnd, tickVars, histVars
  <2>12. ASSUME NEW k \in Tickers, TickInsertFails(k) PROVE Solo'
    BY <2>12, NoneAssumption DEF TickInsertFails, Goto, TickEnd, tickVars, histVars
  <2>13. CASE UNCHANGED vars
    BY <2>13, NoneAssumption DEF vars, tickVars, histVars
  <2> QED
    BY <2>1, <2>2, <2>3, <2>4, <2>5, <2>6, <2>7, <2>8, <2>9, <2>10, <2>11, <2>12,
       <2>13 DEF Next, Tick
<1> QED
  BY <1>1, <1>2, ChunkTypes, PTL DEF Spec

\* While ticks do not overlap the database never claims more bumps than there
\* were (Tick, insertChunk).
THEOREM ChunkNeverOvercounts == Spec => []NeverOvercounts
<1>1. TypeOK /\ BumpsConserved /\ Solo => NeverOvercounts
  BY DEF TypeOK, BumpsConserved, Solo, Alone, Resting, NeverOvercounts, Held, Buckets, Tickers
<1> QED
  BY <1>1, ChunkTypes, ChunkConserves, SoloAlways, PTL

\* While ticks do not overlap, a clear loses only bumps that come between the
\* read of the bucket and its clear (Tick).
THEOREM ChunkLosesLate == Spec => []LossIsLate
<1>1. Init => Punctual
  BY DEF Init, Punctual, Buckets, Tickers
<1>2. TypeOK /\ Solo /\ Punctual /\ [Next]_vars => Punctual'
  <2> SUFFICES ASSUME TypeOK, Solo, Punctual, [Next]_vars PROVE Punctual'
    OBVIOUS
  <2> USE DEF TypeOK, Solo, Alone, Resting, Punctual, Buckets, Tickers
  <2>1. ASSUME NEW r \in Requests, BumpAim(r) PROVE Punctual'
    BY <2>1, NoneAssumption DEF BumpAim, tickVars, histVars
  <2>2. ASSUME NEW r \in Requests, BumpAdd(r) PROVE Punctual'
    BY <2>2, NoneAssumption DEF BumpAdd, tickVars, histVars
  <2>3. ASSUME NEW k \in Tickers, TickOld(k) PROVE Punctual'
    BY <2>3, NoneAssumption DEF TickOld, Goto, tickVars, histVars
  <2>4. ASSUME NEW k \in Tickers, TickNext(k) PROVE Punctual'
    BY <2>4, NoneAssumption DEF TickNext, Goto, tickVars, histVars
  <2>5. ASSUME NEW k \in Tickers, TickPeek(k) PROVE Punctual'
    BY <2>5, NoneAssumption DEF TickPeek, Goto, tickVars, histVars
  <2>6. ASSUME NEW k \in Tickers, TickFold(k) PROVE Punctual'
    BY <2>6, NoneAssumption DEF TickFold, Goto, tickVars, histVars
  <2>7. ASSUME NEW k \in Tickers, TickClear(k) PROVE Punctual'
    BY <2>7, NoneAssumption DEF TickClear, Goto, tickVars, histVars
  <2>8. ASSUME NEW k \in Tickers, TickFlip(k) PROVE Punctual'
    BY <2>8, NoneAssumption DEF TickFlip, Goto, tickVars, histVars
  <2>9. ASSUME NEW k \in Tickers, TickTake(k) PROVE Punctual'
    BY <2>9, NoneAssumption DEF TickTake, Goto, tickVars, histVars
  <2>10. ASSUME NEW k \in Tickers, TickDeduct(k) PROVE Punctual'
    BY <2>10, NoneAssumption DEF TickDeduct, Goto, tickVars, histVars
  <2>11. ASSUME NEW k \in Tickers, TickInsert(k) PROVE Punctual'
    BY <2>11, NoneAssumption DEF TickInsert, Goto, TickEnd, tickVars, histVars
  <2>12. ASSUME NEW k \in Tickers, TickInsertFails(k) PROVE Punctual'
    BY <2>12, NoneAssumption DEF TickInsertFails, Goto, TickEnd, tickVars, histVars
  <2>13. CASE UNCHANGED vars
    BY <2>13, NoneAssumption DEF vars, tickVars, histVars
  <2> QED
    BY <2>1, <2>2, <2>3, <2>4, <2>5, <2>6, <2>7, <2>8, <2>9, <2>10, <2>11, <2>12,
       <2>13 DEF Next, Tick
<1>3. Punctual => LossIsLate
  BY DEF Punctual, LossIsLate
<1> QED
  BY <1>1, <1>2, <1>3, ChunkTypes, SoloAlways, PTL DEF Spec

-----------------------------------------------------------------------------
\* What TypeOK, BumpsConserved and Solo say together of a counter whose ticks do
\* not overlap: what is settled is covered by what was bumped.
LEMMA SettledIsCovered ==
    TypeOK /\ BumpsConserved /\ Solo /\ ~overlap => db + (failed + erased) <= bumped
BY DEF TypeOK, BumpsConserved, Solo, Alone, Resting, Held, Buckets, Tickers

\* Bump and Tick implement the ledger: each of their steps counts, stores or loses,
\* or is invisible there.
THEOREM ChunkImplementsLedger == Spec => BumpsAreAccounted
<1> DEFINE Inv == TypeOK /\ BumpsConserved /\ Solo
<1>1. Init => Account!Init
  <2> SUFFICES ASSUME Init PROVE Account!Init
    OBVIOUS
  <2>1. overlap \in BOOLEAN
    BY DEF Init
  <2>2. bumped = 0 /\ db = 0 /\ failed + erased = 0
    BY DEF Init
  <2> QED
    BY <2>1, <2>2 DEF Account!Init
<1>2. Inv /\ Inv' /\ [Next]_vars => [Account!Next]_(Account!ledger)
  <2> SUFFICES ASSUME Inv, Inv', [Next]_vars PROVE [Account!Next]_(Account!ledger)
    OBVIOUS
  <2> DEFINE Goal == [Account!Next]_(Account!ledger)
  <2>0. (TypeOK /\ BumpsConserved /\ Solo /\ ~overlap => db + (failed + erased) <= bumped)'
    BY SettledIsCovered, PTL
  <2>1. overlap' \/ (~overlap' /\ db' + (failed' + erased') <= bumped')
    BY <2>0
  <2>2. CASE overlap'
    BY <2>2 DEF Account!Next, Account!ledger
  <2>3. ASSUME ~overlap', ~overlap PROVE Goal
    <3>1. ASSUME NEW r \in Requests, BumpAim(r) PROVE Goal
      BY <3>1, <2>1, <2>3, NoneAssumption
      DEF BumpAim, tickVars, histVars, TypeOK, Solo, Alone, Buckets, Tickers,
          Account!Next, Account!ledger, Account!Covered, Account!Count, Account!Store, Account!Lose
    <3>2. ASSUME NEW r \in Requests, BumpAdd(r) PROVE Goal
      BY <3>2, <2>1, <2>3, NoneAssumption
      DEF BumpAdd, tickVars, histVars, TypeOK, Solo, Alone, Buckets, Tickers,
          Account!Next, Account!ledger, Account!Covered, Account!Count, Account!Store, Account!Lose
    <3>3. ASSUME NEW k \in Tickers, TickOld(k) PROVE Goal
      BY <3>3, <2>1, <2>3, NoneAssumption
      DEF TickOld, Goto, tickVars, TypeOK, Solo, Alone, Buckets, Tickers,
          Account!Next, Account!ledger, Account!Covered, Account!Count, Account!Store, Account!Lose
    <3>4. ASSUME NEW k \in Tickers, TickNext(k) PROVE Goal
      BY <3>4, <2>1, <2>3, NoneAssumption
      DEF TickNext, Goto, tickVars, histVars, TypeOK, Solo, Alone, Buckets, Tickers,
          Account!Next, Account!ledger, Account!Covered, Account!Count, Account!Store, Account!Lose
    <3>5. ASSUME NEW k \in Tickers, TickPeek(k) PROVE Goal
      BY <3>5, <2>1, <2>3, NoneAssumption
      DEF TickPeek, Goto, tickVars, histVars, TypeOK, Solo, Alone, Buckets, Tickers,
          Account!Next, Account!ledger, Account!Covered, Account!Count, Account!Store, Account!Lose
    <3>6. ASSUME NEW k \in Tickers, TickFold(k) PROVE Goal
      BY <3>6, <2>1, <2>3, NoneAssumption
      DEF TickFold, Goto, tickVars, histVars, TypeOK, Solo, Alone, Buckets, Tickers,
          Account!Next, Account!ledger, Account!Covered, Account!Count, Account!Store, Account!Lose
    <3>7. ASSUME NEW k \in Tickers, TickClear(k) PROVE Goal
      BY <3>7, <2>1, <2>3, NoneAssumption
      DEF TickClear, Goto, tickVars, histVars, TypeOK, Solo, Alone, Buckets, Tickers,
          Account!Next, Account!ledger, Account!Covered, Account!Count, Account!Store, Account!Lose
    <3>8. ASSUME NEW k \in Tickers, TickFlip(k) PROVE Goal
      BY <3>8, <2>1, <2>3, NoneAssumption
      DEF TickFlip, Goto, tickVars, histVars, TypeOK, Solo, Alone, Buckets, Tickers,
          Account!Next, Account!ledger, Account!Covered, Account!Count, Account!Store, Account!Lose
    <3>9. ASSUME NEW k \in Tickers, TickTake(k) PROVE Goal
      BY <3>9, <2>1, <2>3, NoneAssumption
      DEF TickTake, Goto, tickVars, histVars, TypeOK, Solo, Alone, Buckets, Tickers,
          Account!Next, Account!ledger, Account!Covered, Account!Count, Account!Store, Account!Lose
    <3>10. ASSUME NEW k \in Tickers, TickDeduct(k) PROVE Goal
      BY <3>10, <2>1, <2>3, NoneAssumption
      DEF TickDeduct, Goto, tickVars, histVars, TypeOK, Solo, Alone, Buckets, Tickers,
          Account!Next, Account!ledger, Account!Covered, Account!Count, Account!Store, Account!Lose
    <3>11. ASSUME NEW k \in Tickers, TickInsert(k) PROVE Goal
      BY <3>11, <2>1, <2>3, NoneAssumption
      DEF TickInsert, Goto, TickEnd, tickVars, histVars, TypeOK, Solo, Alone, Buckets, Tickers,
          Account!Next, Account!ledger, Account!Covered, Account!Count, Account!Store, Account!Lose
    <3>12. ASSUME NEW k \in Tickers, TickInsertFails(k) PROVE Goal
      BY <3>12, <2>1, <2>3, NoneAssumption
      DEF TickInsertFails, Goto, TickEnd, tickVars, histVars, TypeOK, Solo, Alone, Buckets, Tickers,
          Account!Next, Account!ledger, Account!Covered, Account!Count, Account!Store, Account!Lose
    <3>13. CASE UNCHANGED vars
      BY <3>13 DEF vars, histVars, Account!ledger
    <3> QED
      BY <3>1, <3>2, <3>3, <3>4, <3>5, <3>6, <3>7, <3>8, <3>9, <3>10, <3>11, <3>12,
         <3>13 DEF Next, Tick
  <2>4. overlap => overlap'
    BY DEF Next, Tick, BumpAim, BumpAdd, TickOld, TickNext, TickPeek, TickFold, TickClear,
       TickFlip,
           TickTake, TickDeduct, TickInsert, TickInsertFails, vars, histVars, TypeOK
  <2> QED
    BY <2>2, <2>3, <2>4
<1> QED
  BY <1>1, <1>2, ChunkTypes, ChunkConserves, SoloAlways, PTL DEF Spec, Account!Spec,
     BumpsAreAccounted

-----------------------------------------------------------------------------
(* The topic cache.  Without Add it never outgrows its capacity, whatever  *)
(* the number of threads and topics.                                       *)

USE ThreadsAssumption, TopicsAssumption, CapacityAssumption, FlushesAssumption DEF topicHistVars

\* Neither has Add run nor a Flush from under a thread that owes.
Plain == ~added /\ flushes = 0

\* Nobody owes an increment, because only Add inserts without counting.
NoIncs == Plain => \A t \in Threads : pc[t] # "inc"

\* CapacityRespected needs the counter itself below the capacity: a deletion in
\* flight leaves it above the size of the map.
TopicInv == Types /\ NoIncs /\ LengthAccounts /\ (Plain => length <= Capacity)

LEMMA TopicFinite ==
    Types => /\ IsFiniteSet(items) /\ Cardinality(items) \in Nat
              /\ IsFiniteSet(Decs) /\ Cardinality(Decs) \in Nat
<1>1. Decs \in SUBSET Threads
  BY DEF Decs
<1> QED BY <1>1, FS_Subset, FS_CardinalityType DEF Types

\* The types, for TopicInit and for every step.
LEMMA TopicTypeInit == TopicInit => Types
<1> SUFFICES ASSUME TopicInit PROVE Types
  OBVIOUS
<1>1. added \in BOOLEAN
  BY DEF TopicInit
<1>2. pc \in [Threads -> {"idle", "inc", "dec"}]
  BY DEF TopicInit
<1>3. items \subseteq Topics /\ length \in Int /\ flushes \in Nat
  BY DEF TopicInit
<1> QED BY <1>1, <1>2, <1>3 DEF Types

LEMMA TopicTypeStep == Types /\ [TopicNext]_topicVars => Types'
<1> SUFFICES ASSUME Types, [TopicNext]_topicVars PROVE Types'
  OBVIOUS
<1> USE DEF Types
<1>1. ASSUME NEW t \in Threads, NEW id \in Topics, Set(t, id) PROVE Types'
  BY <1>1 DEF Set
<1>2. ASSUME NEW t \in Threads, NEW id \in Topics, Add(t, id) PROVE Types'
  BY <1>2 DEF Add
<1>3. ASSUME NEW t \in Threads, NEW id \in Topics, Remove(t, id) PROVE Types'
  BY <1>3 DEF Remove
<1>4. ASSUME NEW t \in Threads, NEW ids \in SUBSET Topics, RemoveMany(t, ids) PROVE Types'
  <2>1. IsFiniteSet(items)
    BY FS_Subset
  <2>2. Cardinality(items \cap ids) \in Nat
    BY <2>1, FS_Intersection, FS_CardinalityType
  <2> QED BY <1>4, <2>2 DEF RemoveMany
<1>5. ASSUME NEW t \in Threads, Settle(t) PROVE Types'
  BY <1>5 DEF Settle
<1>6. ASSUME NEW t \in Threads, Flush(t) PROVE Types'
  BY <1>6 DEF Flush
<1>7. CASE UNCHANGED topicVars
  BY <1>7 DEF topicVars
<1> QED BY <1>1, <1>2, <1>3, <1>4, <1>5, <1>6, <1>7 DEF TopicNext

\* A step that ends without Add or a shared Flush in the past began so.
LEMMA PlainBefore == Types /\ [TopicNext]_topicVars /\ Plain' => Plain
<1> SUFFICES ASSUME Types, [TopicNext]_topicVars, Plain' PROVE Plain
  OBVIOUS
<1>0. added' = added \/ added' = TRUE
  BY DEF TopicNext, Set, Add, Remove, RemoveMany, Settle, Flush, topicVars
<1>1. ~added
  <2>1. ~added'
    BY DEF Plain
  <2> HIDE DEF topicHistVars
  <2> QED BY <1>0, <2>1, Zenon
<1>2. flushes' = flushes \/ flushes' = flushes + 1
  BY DEF TopicNext, Set, Add, Remove, RemoveMany, Settle, Flush, topicVars
<1>3. flushes = 0
  <2>1. flushes' = 0 /\ flushes \in Nat
    BY DEF Plain, Types
  <2> QED BY <1>2, <2>1
<1> QED BY <1>1, <1>3 DEF Plain

LEMMA TopicInvInit == TopicInit => TopicInv
<1> SUFFICES ASSUME TopicInit PROVE TopicInv
  OBVIOUS
<1>1. Decs = {}
  BY DEF TopicInit, Decs
<1>2. NoIncs
  BY DEF TopicInit, NoIncs
<1>3. LengthAccounts
  BY <1>1, FS_EmptySet DEF TopicInit, LengthAccounts
<1>4. length <= Capacity
  BY DEF TopicInit
<1> QED BY <1>2, <1>3, <1>4, TopicTypeInit DEF TopicInv

LEMMA TopicInvStep == ASSUME TopicInv, [TopicNext]_topicVars PROVE TopicInv'
<1> DEFINE Goal == NoIncs' /\ LengthAccounts' /\ length' <= Capacity
<1>t. Types /\ Types'
  BY TopicTypeStep DEF TopicInv
<1> SUFFICES ASSUME Plain' PROVE Goal
  BY <1>t DEF TopicInv, NoIncs, LengthAccounts, Plain
<1>p. Plain /\ ~added /\ flushes = 0
  BY <1>t, PlainBefore DEF Plain
<1> USE <1>p DEF TopicInv, Types, NoIncs
<1>f. IsFiniteSet(items) /\ Cardinality(items) \in Nat
      /\ IsFiniteSet(Decs) /\ Cardinality(Decs) \in Nat
  BY TopicFinite
<1>1. ASSUME NEW t \in Threads, NEW id \in Topics, Set(t, id) PROVE Goal
  <2>1. Cardinality(items') = Cardinality(items) + 1
    BY <1>1, <1>f, FS_AddElement DEF Set
  <2>2. Decs' = Decs /\ length' = length + 1 /\ length < Capacity
    BY <1>1 DEF Set, Decs
  <2> QED BY <1>1, <1>f, <2>1, <2>2 DEF Set, LengthAccounts
<1>2. ASSUME NEW t \in Threads, NEW id \in Topics, Add(t, id) PROVE Goal
  BY <1>2 DEF Add, Plain
<1>3. ASSUME NEW t \in Threads, NEW id \in Topics, Remove(t, id) PROVE Goal
  <2>1. Cardinality(items') = Cardinality(items) - 1
    BY <1>3, <1>f, FS_RemoveElement DEF Remove
  <2>2. Decs' = Decs \cup {t} /\ t \notin Decs
    BY <1>3 DEF Remove, Decs
  <2>3. Cardinality(Decs') = Cardinality(Decs) + 1
    BY <1>f, <2>2, FS_AddElement
  <2> QED BY <1>3, <1>f, <2>1, <2>3 DEF Remove, LengthAccounts
<1>4. ASSUME NEW t \in Threads, NEW ids \in SUBSET Topics, RemoveMany(t, ids) PROVE Goal
  <2> DEFINE gone == items \cap ids
  <2>1. Cardinality(items') = Cardinality(items) - Cardinality(gone)
    BY <1>4, <1>f, FS_Difference DEF RemoveMany
  <2>2. Cardinality(gone) \in Nat /\ Cardinality(items') \in Nat
    BY <1>4, <1>f, FS_Difference, FS_Subset, FS_CardinalityType DEF RemoveMany
  <2>3. Decs' = Decs /\ length' = length - Cardinality(gone)
    BY <1>4 DEF RemoveMany, Decs
  <2> QED BY <1>4, <1>f, <2>1, <2>2, <2>3 DEF RemoveMany, LengthAccounts
<1>5. ASSUME NEW t \in Threads, Settle(t) PROVE Goal
  <2>1. Decs' = Decs \ {t} /\ t \in Decs
    BY <1>5 DEF Settle, Decs
  <2>2. Cardinality(Decs') = Cardinality(Decs) - 1
    BY <1>f, <2>1, FS_RemoveElement
  <2>3. length' = length - 1 /\ items' = items
    BY <1>5 DEF Settle
  <2>4. Cardinality(Decs') \in Nat
    BY <1>f, <2>1, FS_RemoveElement, FS_CardinalityType
  <2> QED BY <1>5, <1>f, <2>2, <2>3, <2>4 DEF Settle, LengthAccounts
<1>6. ASSUME NEW t \in Threads, Flush(t) PROVE Goal
  <2>0. Quiet
    BY <1>6 DEF Flush, Plain
  <2>1. Decs' = {} /\ items' = {} /\ length' = 0
    BY <1>6, <2>0 DEF Flush, Quiet, Decs
  <2> QED BY <1>6, <2>1, FS_EmptySet DEF Flush, LengthAccounts
<1>7. CASE UNCHANGED topicVars
  BY <1>7 DEF topicVars, LengthAccounts, Decs
<1> QED BY <1>1, <1>2, <1>3, <1>4, <1>5, <1>6, <1>7 DEF TopicNext

LEMMA TopicInvAlways == TopicSpec => []TopicInv
BY TopicInvInit, TopicInvStep, PTL DEF TopicSpec

\* The map, the counter and the debts of the threads keep their types, and the
\* counter is no less than nothing.
THEOREM TopicTypeCorrect == TopicSpec => []TopicTypeOK
<1>1. ASSUME TopicInv, Plain PROVE length \in Nat
  BY <1>1, TopicFinite DEF TopicInv, Plain, LengthAccounts, Types
<1>2. TopicInv => TopicTypeOK
  BY <1>1 DEF TopicInv, TopicTypeOK, Plain
<1> QED BY <1>2, TopicInvAlways, PTL

\* As long as no store calls Add, the map holds at most Capacity topics in every
\* interleaving: the locked counting of Set and RemoveMany pays off.
THEOREM TopicCapacityRespected == TopicSpec => []CapacityRespected
<1>1. TopicInv => CapacityRespected
  BY TopicFinite DEF TopicInv, Types, Plain, LengthAccounts, CapacityRespected
<1> QED BY <1>1, TopicInvAlways, PTL

\* The counter is too high by the deletions in flight and never too low.
THEOREM TopicLengthAccounts == TopicSpec => []LengthAccounts
<1>1. TopicInv => LengthAccounts
  BY DEF TopicInv
<1> QED BY <1>1, TopicInvAlways, PTL
=============================================================================
