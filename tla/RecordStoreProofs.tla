------------------------- MODULE RecordStoreProofs -------------------------
(***************************************************************************)
(* The read-through stores for every number of threads, users and topics:  *)
(* the types, and that a stale record in a cache has one of the causes     *)
(* StaleHasCause names.  It is inductive together with the types: what     *)
(* makes a record stale is a write, whose thread is then on its way to     *)
(* purge or to reload it or is recorded as having given up, or a row       *)
(* cached late, which the history records too; and what ends such a way    *)
(* is the purge, the new row, or LockMany giving up.                       *)
(***************************************************************************)
EXTENDS RecordStore, TLAPS

\* The store keeps its types (the fields of Get, Set, Reload and the updates).
THEOREM TypeCorrect == Spec => []TypeOK
<1>1. Init => TypeOK
  BY BoundsAssumption DEF Init, TypeOK, Versions, Absent, Ids
<1>2. TypeOK /\ [Next]_vars => TypeOK'
  <2> SUFFICES ASSUME TypeOK, [Next]_vars PROVE TypeOK'
    OBVIOUS
  <2> USE DEF TypeOK
  <2>1. ASSUME NEW t \in Threads, Query(t) PROVE TypeOK'
    BY <2>1, BoundsAssumption DEF Query, Answered, Rows
  <2>2. ASSUME NEW t \in Threads, QueryEmpty(t) PROVE TypeOK'
    BY <2>2, BoundsAssumption DEF QueryEmpty, Return
  <2>3. ASSUME NEW t \in Threads, ReloadEmpty(t) PROVE TypeOK'
    BY <2>3, BoundsAssumption DEF ReloadEmpty
  <2>4. ASSUME NEW t \in Threads, ScanFails(t) PROVE TypeOK'
    BY <2>4, BoundsAssumption DEF ScanFails
  <2>5. ASSUME NEW t \in Threads, Overwrite(t) PROVE TypeOK'
    BY <2>5, BoundsAssumption DEF Overwrite, Store, AfterSet, Rows
  <2>6. ASSUME NEW t \in Threads, Purge(t) PROVE TypeOK'
    BY <2>6, BoundsAssumption DEF Purge, Remove, Return
  <2>7. ASSUME NEW t \in Threads, LockFails(t) PROVE TypeOK'
    BY <2>7, BoundsAssumption DEF LockFails, Return
  <2>8. ASSUME NEW t \in Threads, NEW i \in Ids, GetMiss(t, i) PROVE TypeOK'
    BY <2>8, BoundsAssumption DEF GetMiss, Begin
  <2>9. ASSUME NEW t \in Threads, NEW i \in Ids, GetByName(t, i) PROVE TypeOK'
    BY <2>9, BoundsAssumption DEF GetByName, Begin
  <2>10. ASSUME NEW t \in Threads, NEW i \in Ids, Reload(t, i) PROVE TypeOK'
    BY <2>10, BoundsAssumption DEF Reload, Begin
  <2>11. ASSUME NEW t \in Threads, NEW i \in Ids, Write(t, i) PROVE TypeOK'
    BY <2>11, BoundsAssumption DEF Write, Begin, Versions
  <2>12. ASSUME NEW t \in Threads, NEW i \in Ids, WriteFails(t, i) PROVE TypeOK'
    BY <2>12, BoundsAssumption DEF WriteFails, Begin
  <2>13. ASSUME NEW t \in Threads, NEW i \in Ids, Delete(t, i) PROVE TypeOK'
    BY <2>13, BoundsAssumption DEF Delete, Begin, Versions
  <2>14. ASSUME NEW t \in Threads, NEW i \in Ids, LockOne(t, i) PROVE TypeOK'
    BY <2>14, BoundsAssumption DEF LockOne, Versions
  <2>15. ASSUME NEW t \in Threads, NEW r \in rows[t], SetNew(t, r) PROVE TypeOK'
    BY <2>15, BoundsAssumption DEF SetNew, Take, AfterSet, Store, Rows
  <2>16. ASSUME NEW t \in Threads, NEW r \in rows[t], SetPointer(t, r) PROVE TypeOK'
    BY <2>16, BoundsAssumption DEF SetPointer, Take, AfterSet, Store, Rows
  <2>17. ASSUME NEW t \in Threads, NEW r \in rows[t], SetFound(t, r) PROVE TypeOK'
    BY <2>17, BoundsAssumption DEF SetFound, Take, Rows
  <2>18. ASSUME NEW t \in Threads, NEW S \in (SUBSET Users) \cup (SUBSET Topics), BulkGetMap(t, S)
        PROVE  TypeOK'
    BY <2>18, BoundsAssumption DEF BulkGetMap, Begin, Cached, Ids
  <2>19. ASSUME NEW t \in Threads, NEW S \in SUBSET Topics, LockMany(t, S) PROVE TypeOK'
    BY <2>19, BoundsAssumption DEF LockMany, Begin, Ids
  <2>20. ASSUME NEW i \in Ids, Evict(i) PROVE TypeOK'
    BY <2>20, BoundsAssumption DEF Evict, Remove
  <2>21. CASE UNCHANGED vars
    BY <2>21, BoundsAssumption DEF vars, threadVars
  <2>22. ASSUME NEW t \in Threads, NEW i \in Ids, WriteReload(t, i) PROVE TypeOK'
    BY <2>22, BoundsAssumption DEF WriteReload, Begin, Versions
  <2>23. ASSUME NEW t \in Threads, NEW i \in Ids, WriteGivesUp(t, i) PROVE TypeOK'
    BY <2>23, BoundsAssumption DEF WriteGivesUp, Versions, threadVars
  <2>24. ASSUME NEW t \in Threads, NEW S \in SUBSET Users, BulkQuery(t, S) PROVE TypeOK'
    BY <2>24, BoundsAssumption DEF BulkQuery, Begin, Ids
  <2> QED
    BY <2>1, <2>2, <2>3, <2>4, <2>5, <2>6, <2>7, <2>8, <2>9, <2>10, <2>11, <2>12,
       <2>13, <2>14, <2>15, <2>16, <2>17, <2>18, <2>19, <2>20, <2>21,
       <2>22, <2>23, <2>24 DEF Next
<1> QED
  BY <1>1, <1>2, PTL DEF Spec

\* A Reload asks for one record and is answered with one row.
OneRow ==
    \A t \in Threads :
        /\ pc[t] = "requery" => \E i \in Ids : ids[t] = {i}
        /\ pc[t] = "refresh" => \E r \in Rows : rows[t] = {r}

LEMMA OneRowStep == TypeOK /\ OneRow /\ [Next]_vars => OneRow'
<1> SUFFICES ASSUME TypeOK, OneRow, [Next]_vars PROVE OneRow'
  OBVIOUS
<1> USE DEF TypeOK, OneRow
<1>1. ASSUME NEW t \in Threads, Query(t) PROVE OneRow'
  <2>1. ids' = [ids EXCEPT ![t] = {}] /\ pc' = [pc EXCEPT ![t] = Answered[pc[t]]]
    BY <1>1 DEF Query
  <2>2. \A s \in Threads \ {t} : pc'[s] = pc[s] /\ ids'[s] = ids[s] /\ rows'[s] = rows[s]
    BY <1>1 DEF Query
  <2>3. pc'[t] # "requery"
    BY <1>1 DEF Query, Answered
  <2>4. ASSUME pc'[t] = "refresh" PROVE \E r \in Rows : rows'[t] = {r}
    <3>1. pc[t] = "requery"
      BY <1>1, <2>4 DEF Query, Answered
    <3>2. PICK i \in Ids : ids[t] = {i}
      BY <3>1
    <3>3. i \in live /\ rows'[t] = {[id |-> j, ver |-> db[j]] : j \in {i}}
      BY <1>1, <3>2 DEF Query
    <3>4. rows'[t] = {[id |-> i, ver |-> db[i]]} /\ [id |-> i, ver |-> db[i]] \in Rows
      BY <3>3 DEF Rows
    <3> QED BY <3>4
  <2> QED BY <2>2, <2>3, <2>4
<1>2. ASSUME NEW t \in Threads, QueryEmpty(t) PROVE OneRow'
  BY <1>2 DEF QueryEmpty, Return
<1>3. ASSUME NEW t \in Threads, ReloadEmpty(t) PROVE OneRow'
  BY <1>3 DEF ReloadEmpty
<1>4. ASSUME NEW t \in Threads, ScanFails(t) PROVE OneRow'
  BY <1>4 DEF ScanFails
<1>5. ASSUME NEW t \in Threads, Overwrite(t) PROVE OneRow'
  BY <1>5 DEF Overwrite, AfterSet
<1>6. ASSUME NEW t \in Threads, Purge(t) PROVE OneRow'
  BY <1>6 DEF Purge, Remove, Return
<1>7. ASSUME NEW t \in Threads, LockFails(t) PROVE OneRow'
  BY <1>7 DEF LockFails, Return
<1>8. ASSUME NEW t \in Threads, NEW i \in Ids, GetMiss(t, i) PROVE OneRow'
  BY <1>8 DEF GetMiss, Begin
<1>9. ASSUME NEW t \in Threads, NEW i \in Ids, GetByName(t, i) PROVE OneRow'
  BY <1>9 DEF GetByName, Begin
<1>10. ASSUME NEW t \in Threads, NEW i \in Ids, Reload(t, i) PROVE OneRow'
  BY <1>10 DEF Reload, Begin
<1>11. ASSUME NEW t \in Threads, NEW i \in Ids, Write(t, i) PROVE OneRow'
  BY <1>11 DEF Write, Begin
<1>12. ASSUME NEW t \in Threads, NEW i \in Ids, WriteFails(t, i) PROVE OneRow'
  BY <1>12 DEF WriteFails, Begin
<1>13. ASSUME NEW t \in Threads, NEW i \in Ids, Delete(t, i) PROVE OneRow'
  BY <1>13 DEF Delete, Begin
<1>14. ASSUME NEW t \in Threads, NEW i \in Ids, LockOne(t, i) PROVE OneRow'
  BY <1>14 DEF LockOne
<1>15. ASSUME NEW t \in Threads, NEW r \in rows[t], SetNew(t, r) PROVE OneRow'
  BY <1>15 DEF SetNew, Take, AfterSet
<1>16. ASSUME NEW t \in Threads, NEW r \in rows[t], SetPointer(t, r) PROVE OneRow'
  BY <1>16 DEF SetPointer, Take, AfterSet
<1>17. ASSUME NEW t \in Threads, NEW r \in rows[t], SetFound(t, r) PROVE OneRow'
  BY <1>17 DEF SetFound, Take
<1>18. ASSUME NEW t \in Threads, NEW S \in (SUBSET Users) \cup (SUBSET Topics), BulkGetMap(t, S)
      PROVE  OneRow'
  BY <1>18 DEF BulkGetMap, Begin
<1>19. ASSUME NEW t \in Threads, NEW S \in SUBSET Topics, LockMany(t, S) PROVE OneRow'
  BY <1>19 DEF LockMany, Begin
<1>20. ASSUME NEW i \in Ids, Evict(i) PROVE OneRow'
  BY <1>20 DEF Evict, Remove
<1>21. ASSUME NEW t \in Threads, NEW i \in Ids, WriteReload(t, i) PROVE OneRow'
  BY <1>21 DEF WriteReload, Begin
<1>22. ASSUME NEW t \in Threads, NEW i \in Ids, WriteGivesUp(t, i) PROVE OneRow'
  BY <1>22 DEF WriteGivesUp, threadVars
<1>23. CASE UNCHANGED vars
  BY <1>23 DEF vars, threadVars
<1>24. ASSUME NEW t \in Threads, NEW S \in SUBSET Users, BulkQuery(t, S) PROVE OneRow'
  BY <1>24 DEF BulkQuery, Begin
<1> QED
  BY <1>1, <1>2, <1>3, <1>4, <1>5, <1>6, <1>7, <1>8, <1>9, <1>10, <1>11, <1>12,
     <1>13, <1>14, <1>15, <1>16, <1>17, <1>18, <1>19, <1>20, <1>21, <1>22, <1>23, <1>24 DEF Next

\* A cached record is behind its row only while its writer is about to purge or
\* to reload it, or because a row was cached late or a writer gave up.
THEOREM StaleHasCauseAlways == Spec => []StaleHasCause
<1>1. Init => StaleHasCause
  BY DEF Init, StaleHasCause, Stale
<1>3. Init => OneRow
  BY DEF Init, OneRow
<1>2. TypeOK /\ OneRow /\ StaleHasCause /\ [Next]_vars => StaleHasCause'
  <2> SUFFICES ASSUME TypeOK, OneRow, StaleHasCause, [Next]_vars PROVE StaleHasCause'
    OBVIOUS
  <2> USE DEF TypeOK, StaleHasCause, Stale, Purging, Refreshing
  <2>1. ASSUME NEW t \in Threads, Query(t) PROVE StaleHasCause'
    <3>1. cached' = cached /\ db' = db /\ spoiled' = spoiled
      BY <2>1 DEF Query
    <3>2. \A s \in Threads \ {t} : pc'[s] = pc[s] /\ ids'[s] = ids[s] /\ rows'[s] = rows[s]
      BY <2>1 DEF Query
    <3>3. ASSUME NEW i \in Ids, Refreshing(t, i) PROVE Refreshing(t, i)'
      <4>1. pc[t] = "requery" /\ i \in ids[t]
        BY <2>1, <3>3 DEF Query, Answered
      <4>2. ids[t] = {i}
        BY <4>1 DEF OneRow
      <4>3. pc'[t] = "refresh" /\ rows'[t] = {[id |-> j, ver |-> db[j]] : j \in {i}}
        BY <2>1, <4>1, <4>2 DEF Query, Answered
      <4>4. [id |-> i, ver |-> db[i]] \in rows'[t] /\ [id |-> i, ver |-> db[i]].id = i
        BY <4>3
      <4> QED BY <3>3, <4>3, <4>4
    <3>4. \A i \in Ids : ~Purging(t, i)
      BY <2>1 DEF Query, Answered
    <3> QED BY <3>1, <3>2, <3>3, <3>4
  <2>2. ASSUME NEW t \in Threads, QueryEmpty(t) PROVE StaleHasCause'
    BY <2>2 DEF QueryEmpty, Return
  <2>3. ASSUME NEW t \in Threads, ReloadEmpty(t) PROVE StaleHasCause'
    BY <2>3 DEF ReloadEmpty
  <2>4. ASSUME NEW t \in Threads, ScanFails(t) PROVE StaleHasCause'
    BY <2>4 DEF ScanFails
  <2>5. ASSUME NEW t \in Threads, Overwrite(t) PROVE StaleHasCause'
    BY <2>5 DEF Overwrite, Store, AfterSet, Rows
  <2>6. ASSUME NEW t \in Threads, Purge(t) PROVE StaleHasCause'
    BY <2>6 DEF Purge, Remove, Return
  <2>7. ASSUME NEW t \in Threads, LockFails(t) PROVE StaleHasCause'
    BY <2>7 DEF LockFails, Return
  <2>8. ASSUME NEW t \in Threads, NEW i \in Ids, GetMiss(t, i) PROVE StaleHasCause'
    BY <2>8 DEF GetMiss, Begin
  <2>9. ASSUME NEW t \in Threads, NEW i \in Ids, GetByName(t, i) PROVE StaleHasCause'
    BY <2>9 DEF GetByName, Begin
  <2>10. ASSUME NEW t \in Threads, NEW i \in Ids, Reload(t, i) PROVE StaleHasCause'
    BY <2>10 DEF Reload, Begin
  <2>11. ASSUME NEW t \in Threads, NEW i \in Ids, Write(t, i) PROVE StaleHasCause'
    BY <2>11 DEF Write, Begin, Versions
  <2>12. ASSUME NEW t \in Threads, NEW i \in Ids, WriteFails(t, i) PROVE StaleHasCause'
    BY <2>12 DEF WriteFails, Begin
  <2>13. ASSUME NEW t \in Threads, NEW i \in Ids, Delete(t, i) PROVE StaleHasCause'
    BY <2>13 DEF Delete, Begin, Versions
  <2>14. ASSUME NEW t \in Threads, NEW i \in Ids, LockOne(t, i) PROVE StaleHasCause'
    BY <2>14 DEF LockOne, Versions
  <2>15. ASSUME NEW t \in Threads, NEW r \in rows[t], SetNew(t, r) PROVE StaleHasCause'
    BY <2>15 DEF OneRow, SetNew, Take, AfterSet, Store, Rows
  <2>16. ASSUME NEW t \in Threads, NEW r \in rows[t], SetPointer(t, r) PROVE StaleHasCause'
    BY <2>16 DEF OneRow, SetPointer, Take, AfterSet, Store, Rows
  <2>17. ASSUME NEW t \in Threads, NEW r \in rows[t], SetFound(t, r) PROVE StaleHasCause'
    BY <2>17, IdsAssumption DEF OneRow, SetFound, Take, Rows
  <2>18. ASSUME NEW t \in Threads, NEW S \in (SUBSET Users) \cup (SUBSET Topics), BulkGetMap(t, S)
        PROVE  StaleHasCause'
    BY <2>18 DEF BulkGetMap, Begin, Cached, Ids
  <2>19. ASSUME NEW t \in Threads, NEW S \in SUBSET Topics, LockMany(t, S) PROVE StaleHasCause'
    BY <2>19 DEF LockMany, Begin, Ids
  <2>20. ASSUME NEW i \in Ids, Evict(i) PROVE StaleHasCause'
    BY <2>20 DEF Evict, Remove
  <2>21. CASE UNCHANGED vars
    BY <2>21 DEF vars, threadVars
  <2>22. ASSUME NEW t \in Threads, NEW i \in Ids, WriteReload(t, i) PROVE StaleHasCause'
    BY <2>22 DEF WriteReload, Begin, Versions
  <2>23. ASSUME NEW t \in Threads, NEW i \in Ids, WriteGivesUp(t, i) PROVE StaleHasCause'
    BY <2>23 DEF WriteGivesUp, Versions, threadVars
  <2>24. ASSUME NEW t \in Threads, NEW S \in SUBSET Users, BulkQuery(t, S) PROVE StaleHasCause'
    BY <2>24 DEF BulkQuery, Begin, Ids
  <2> QED
    BY <2>1, <2>2, <2>3, <2>4, <2>5, <2>6, <2>7, <2>8, <2>9, <2>10, <2>11, <2>12,
       <2>13, <2>14, <2>15, <2>16, <2>17, <2>18, <2>19, <2>20, <2>21,
       <2>22, <2>23, <2>24 DEF Next
<1> QED
  BY <1>1, <1>2, <1>3, OneRowStep, TypeCorrect, PTL DEF Spec
=============================================================================
