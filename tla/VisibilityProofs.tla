-------------------------- MODULE VisibilityProofs --------------------------
(***************************************************************************)
(* Whatever the number of threads, groups and forums: what a group can see *)
(* disagrees with the database only for the causes Visibility names.       *)
(***************************************************************************)
EXTENDS Visibility, TLAPS

USE ForumsAssumption, WritesAssumption, NoneAssumption DEF dbVars, histVars

\* The local variables a thread has set at each point of its way.
Prepared(t) ==
    /\ at[t] \in {"query", "store"} <=> local[t].forum # None
    /\ at[t] \in {"get", "scan", "cache"} <=> local[t].gid # None
    /\ at[t] = "store" => local[t].row # None
    /\ at[t] \in {"maps", "set"} => local[t].views # None

LEMMA BlankType == Blank \in Locals
<1>1. NoMaps \in [{} -> Rows]
  BY DEF NoMaps
<1>2. {} \in SUBSET Forums
  OBVIOUS
<1>3. NoMaps \in MapSets
  BY <1>1, <1>2, Zenon DEF MapSets
<1> QED BY <1>2, <1>3 DEF Blank, Locals, Own

\* Assigning one local variable keeps the others.
LEMMA LocalRow ==
    ASSUME NEW l \in Locals, NEW row \in Rows
    PROVE  [l EXCEPT !.row = row] \in Locals
BY DEF Locals

LEMMA LocalSees ==
    ASSUME NEW l \in Locals, NEW seen \in SUBSET Forums
    PROVE  [l EXCEPT !.canSee = seen] \in Locals
BY DEF Locals

LEMMA LocalViews ==
    ASSUME NEW l \in Locals, NEW view \in Own
    PROVE  [l EXCEPT !.view = view] \in Locals
BY DEF Locals

LEMMA NotNone == None \notin Rows /\ None \notin [Groups -> Own]
BY DEF Rows, Views, Own

\* A step that changes the local variables of one thread only.
LEMMA PreparedOthers ==
    ASSUME TypeOK, \A s \in Threads : Prepared(s), NEW t \in Threads, NEW fields, NEW label,
           Keep(t, fields), Goto(t, label),
           label \in {"query", "store"} <=> fields.forum # None,
           label \in {"get", "scan", "cache"} <=> fields.gid # None,
           label = "store" => fields.row # None,
           label \in {"maps", "set"} => fields.views # None
    PROVE  \A s \in Threads : Prepared(s)'
<1> SUFFICES ASSUME NEW s \in Threads PROVE Prepared(s)'
  OBVIOUS
<1>1. CASE s = t
  BY <1>1 DEF Keep, Goto, Prepared, TypeOK
<1>2. CASE s # t
  BY <1>2 DEF Keep, Goto, Prepared, TypeOK
<1> QED BY <1>1, <1>2

LEMMA VisibleType ==
    ASSUME NEW view, NEW maps, NEW g, DOMAIN maps \subseteq Forums
    PROVE  Visible(view, maps, g) \in SUBSET Forums
BY DEF Visible

LEMMA TypeInit == Init => TypeOK /\ \A t \in Threads : Prepared(t)
<1> SUFFICES ASSUME Init PROVE TypeOK /\ \A t \in Threads : Prepared(t)
  OBVIOUS
<1>1. \A g \in Groups : Visible(perms[g], rows, g) \in SUBSET Forums
  BY VisibleType DEF Init
<1>2. group \in [Groups -> [view : Own, canSee : SUBSET Forums]]
  BY <1>1 DEF Init
<1>3. local \in [Threads -> Locals]
  BY BlankType DEF Init
<1>4. TypeOK
  BY <1>2, <1>3 DEF Init, TypeOK
<1> QED BY <1>4 DEF Init, Prepared, Blank

LEMMA TypeStep ==
    ASSUME TypeOK, \A t \in Threads : Prepared(t), [Next]_vars
    PROVE  TypeOK' /\ \A t \in Threads : Prepared(t)'
<1> DEFINE Goal == TypeOK' /\ \A t \in Threads : Prepared(t)'
<1> USE DEF TypeOK, Goto, Keep
<1>1. ASSUME NEW t \in Threads, NEW f \in Forums, NEW g \in Groups, NEW v \in Own, SetPerms(t, f, g, v)
      PROVE  Goal
  <2>1. [Blank EXCEPT !.forum = f] \in Locals
    BY BlankType DEF Locals
  <2>2. rows' \in [Forums -> Rows]
    BY <1>1 DEF SetPerms, Rows, Views
  <2>3. TypeOK'
    BY <1>1, <2>1, <2>2 DEF SetPerms, Write
  <2> QED BY <1>1, <2>3 DEF SetPerms, Prepared, Blank
<1>2. ASSUME NEW t \in Threads, NEW f \in Forums, NEW row \in Rows, PermmapToQuery(t, f, row)
      PROVE  Goal
  <2>1. [Blank EXCEPT !.forum = f] \in Locals
    BY BlankType DEF Locals
  <2>2. TypeOK'
    BY <1>2, <2>1 DEF PermmapToQuery, Write
  <2> QED BY <1>2, <2>2 DEF PermmapToQuery, Prepared, Blank
<1>3. ASSUME NEW t \in Threads, GiveUp(t) PROVE Goal
  <2>1. local[t].forum \in Forums
    BY <1>3 DEF GiveUp, Prepared, Locals
  <2>2. TypeOK'
    BY <1>3, <2>1, BlankType DEF GiveUp, Leave
  <2> QED BY <1>3, <2>2 DEF GiveUp, Leave, Prepared, Blank
<1>4. ASSUME NEW t \in Threads, Query(t) PROVE Goal
  <2>1. local[t] \in Locals /\ local[t].forum \in Forums /\ rows[local[t].forum] \in Rows
    BY <1>4 DEF Query, Prepared, Locals
  <2>2. [local[t] EXCEPT !.row = rows[local[t].forum]] \in Locals
    BY <2>1, LocalRow
  <2>3. TypeOK'
    BY <1>4, <2>2 DEF Query
  <2>4. rows[local[t].forum] # None /\ local[t].gid = None /\ local[t].forum # None
    BY <1>4, <2>1, NotNone DEF Query, Prepared
  <2> QED BY <1>4, <2>2, <2>3, <2>4, PreparedOthers DEF Query, Locals
<1>5. ASSUME NEW t \in Threads, Store(t) PROVE Goal
  <2>1. local[t].forum \in Forums /\ local[t].row \in Rows
    BY <1>5 DEF Store, Prepared, Locals
  <2>2. TypeOK'
    BY <1>5, <2>1, BlankType DEF Store, Marked
  <2> QED BY <1>5, <2>2 DEF Store, Prepared, Blank
<1>6. ASSUME NEW t \in Threads, ReadGroups(t) PROVE Goal
  <2>1. [g \in Groups |-> group[g].view] \in [Groups -> Own]
    OBVIOUS
  <2>2. [Blank EXCEPT !.views = [g \in Groups |-> group[g].view]] \in Locals
    BY <2>1, BlankType DEF Locals
  <2>3. TypeOK'
    BY <1>6, <2>2 DEF ReadGroups
  <2>4. [g \in Groups |-> group[g].view] # None
    BY <2>1, NotNone
  <2> QED BY <1>6, <2>2, <2>3, <2>4, PreparedOthers DEF ReadGroups, Blank
<1>7. ASSUME NEW t \in Threads, NEW f \in Forums, ReadMap(t, f) PROVE Goal
  <2> DEFINE read == DOMAIN local[t].maps
             maps == [h \in read \cup {f} |-> IF h = f THEN cached[f] ELSE local[t].maps[h]]
             left == IF read \cup {f} = Forums THEN Groups ELSE {}
             label == IF read \cup {f} = Forums THEN "set" ELSE "maps"
             fields == [local[t] EXCEPT !.maps = maps, !.left = left]
  <2>0. local[t] \in Locals
    OBVIOUS
  <2>1. PICK r \in SUBSET Forums : local[t].maps \in [r -> Rows]
    BY <2>0 DEF Locals, MapSets
  <2>2. maps \in [read \cup {f} -> Rows] /\ read \cup {f} \in SUBSET Forums
    BY <2>1
  <2>3. maps \in MapSets
    BY <2>2 DEF MapSets
  <2>4. left \in SUBSET Groups
    OBVIOUS
  <2>5. fields \in Locals /\ fields.maps = maps
    BY <2>0, <2>3, <2>4 DEF Locals
  <2>6. Keep(t, fields) /\ Goto(t, label) /\ UNCHANGED <<dbVars, cached, group, histVars>> /\ at[t] = "maps"
    BY <1>7 DEF ReadMap
  <2>7. label = "set" => DOMAIN fields.maps = Forums
    BY <2>5
  <2> HIDE DEF fields, label
  <2>8. label \in {"maps", "set"}
    BY DEF label
  <2>9. TypeOK'
    BY <2>5, <2>6, <2>7, <2>8
  <2>10. fields.forum = None /\ fields.gid = None /\ fields.views # None
    BY <2>0, <2>6 DEF fields, Prepared, Locals
  <2> QED BY <2>6, <2>8, <2>9, <2>10, PreparedOthers
<1>8. ASSUME NEW t \in Threads, NEW g \in Groups, SetCanSee(t, g) PROVE Goal
  <2>0. at[t] = "set" /\ local[t] \in Locals /\ UNCHANGED <<dbVars, cached, lostRows, lostPerms>>
    BY <1>8 DEF SetCanSee
  <2>1. Visible(local[t].views[g], local[t].maps, g) \in SUBSET Forums
    BY <2>0, VisibleType
  <2>2. group' \in [Groups -> [view : Own, canSee : SUBSET Forums]]
    BY <1>8, <2>1 DEF SetCanSee
  <2>3. lostSeen' \subseteq Groups /\ forgotten' \subseteq Groups
    BY <1>8 DEF SetCanSee, Marked
  <2>4. CASE Leave(t)
    <3>1. TypeOK'
      BY <2>0, <2>2, <2>3, <2>4, BlankType DEF Leave
    <3> QED BY <2>4, <3>1, PreparedOthers DEF Leave, Blank
  <2>5. CASE Keep(t, [local[t] EXCEPT !.left = @ \ {g}]) /\ UNCHANGED at
    <3> DEFINE fields == [local[t] EXCEPT !.left = @ \ {g}]
    <3>1. fields \in Locals /\ fields.maps = local[t].maps
      BY <2>0 DEF Locals
    <3>2. fields.forum = None /\ fields.gid = None /\ fields.views # None
      BY <2>0 DEF Prepared, Locals
    <3> HIDE DEF fields
    <3>3. Keep(t, fields) /\ Goto(t, "set")
      BY <2>0, <2>5 DEF fields
    <3>4. TypeOK'
      BY <2>0, <2>2, <2>3, <3>1, <3>3
    <3> QED BY <3>2, <3>3, <3>4, PreparedOthers
  <2> QED BY <1>8, <2>4, <2>5 DEF SetCanSee
<1>9. ASSUME NEW t \in Threads, NEW g \in Groups, NEW view \in Own, UpdatePerms(t, g, view) PROVE Goal
  <2>1. [Blank EXCEPT !.gid = g] \in Locals
    BY BlankType DEF Locals
  <2>2. TypeOK'
    BY <1>9, <2>1 DEF UpdatePerms, Write
  <2> QED BY <1>9, <2>2 DEF UpdatePerms, Prepared, Blank
<1>10. ASSUME NEW t \in Threads, NEW g \in Groups, ChangeRank(t, g) PROVE Goal
  <2>1. [Blank EXCEPT !.gid = g] \in Locals
    BY BlankType DEF Locals
  <2>2. TypeOK'
    BY <1>10, <2>1 DEF ChangeRank
  <2> QED BY <1>10, <2>2 DEF ChangeRank, Prepared, Blank
<1>11. ASSUME NEW t \in Threads, ReloadGet(t) PROVE Goal
  <2>1. local[t].gid \in Groups
    BY <1>11 DEF ReloadGet, Prepared, Locals
  <2>2. local[t] \in Locals /\ group[local[t].gid].canSee \in SUBSET Forums
    BY <2>1
  <2> DEFINE fields == [local[t] EXCEPT !.canSee = group[local[t].gid].canSee]
  <2>3. fields \in Locals
    BY <2>2, LocalSees
  <2>4. TypeOK'
    BY <1>11, <2>3 DEF ReloadGet
  <2>5. local[t].gid # None /\ local[t].forum = None
    BY <1>11 DEF ReloadGet, Prepared
  <2> QED BY <1>11, <2>2, <2>4, <2>5, PreparedOthers DEF ReloadGet, Locals
<1>12. ASSUME NEW t \in Threads, ReloadScan(t) PROVE Goal
  <2>1. local[t].gid \in Groups
    BY <1>12 DEF ReloadScan, Prepared, Locals
  <2>2. local[t] \in Locals /\ perms[local[t].gid] \in Own
    BY <2>1
  <2> DEFINE fields == [local[t] EXCEPT !.view = perms[local[t].gid]]
  <2>3. fields \in Locals
    BY <2>2, LocalViews
  <2>4. TypeOK'
    BY <1>12, <2>3 DEF ReloadScan
  <2>5. local[t].gid # None /\ local[t].forum = None
    BY <1>12 DEF ReloadScan, Prepared
  <2> QED BY <1>12, <2>2, <2>4, <2>5, PreparedOthers DEF ReloadScan, Locals
<1>13. ASSUME NEW t \in Threads, ReloadFails(t) PROVE Goal
  <2>1. local[t].gid \in Groups
    BY <1>13 DEF ReloadFails, Prepared, Locals
  <2>2. TypeOK'
    BY <1>13, <2>1, BlankType DEF ReloadFails, Leave
  <2> QED BY <1>13, <2>2 DEF ReloadFails, Leave, Prepared, Blank
<1>14. ASSUME NEW t \in Threads, CacheSet(t) PROVE Goal
  <2>1. local[t].gid \in Groups /\ local[t].view \in Own /\ local[t].canSee \in SUBSET Forums
    BY <1>14 DEF CacheSet, Prepared, Locals
  <2>2. TypeOK'
    BY <1>14, <2>1, BlankType DEF CacheSet, Leave, Marked
  <2> QED BY <1>14, <2>2 DEF CacheSet, Leave, Prepared, Blank
<1>15. CASE UNCHANGED vars
  BY <1>15 DEF vars, Prepared
<1>16. ASSUME NEW t \in Threads, NEW come \in SUBSET Groups, QueryCutShort(t, come) PROVE Goal
  <2> DEFINE part == [g \in Groups |-> IF g \in come THEN rows[local[t].forum][g] ELSE "absent"]
  <2>1. local[t] \in Locals /\ local[t].forum \in Forums
    BY <1>16 DEF QueryCutShort, Prepared, Locals
  <2>2. part \in Rows
    BY <2>1 DEF Rows, Views
  <2>3. [local[t] EXCEPT !.row = part] \in Locals
    BY <2>1, <2>2, LocalRow
  <2>4. part # None /\ local[t].gid = None /\ local[t].forum # None
    BY <1>16, <2>2, NotNone DEF QueryCutShort, Prepared
  <2>5. /\ at[t] = "query" /\ Goto(t, "store") /\ Keep(t, [local[t] EXCEPT !.row = part])
        /\ lostRows' \subseteq lostRows \cup {local[t].forum}
        /\ UNCHANGED <<dbVars, cached, group, lostPerms, lostSeen, forgotten>>
    BY <1>16 DEF QueryCutShort
  <2> HIDE DEF part
  <2>6. TypeOK'
    BY <2>1, <2>3, <2>5
  <2> QED BY <2>1, <2>3, <2>4, <2>5, <2>6, PreparedOthers DEF Locals
<1> QED BY <1>1, <1>2, <1>3, <1>4, <1>5, <1>6, <1>7, <1>8, <1>9, <1>10, <1>11, <1>12,
           <1>13, <1>14, <1>15, <1>16 DEF Next
-----------------------------------------------------------------------------
\* One thread moves on; the others stay where they are.
Moves(t) == \A s \in Threads \ {t} : at'[s] = at[s] /\ local'[s] = local[s]

\* Steps of a thread that has nothing to do with the rows of a forum.
LEMMA RowsKept ==
    ASSUME TypeOK, RowsHaveCause, NEW t \in Threads, Moves(t), local[t].forum = None,
           UNCHANGED <<rows, cached, lostRows>>
    PROVE  RowsHaveCause'
<1> SUFFICES ASSUME NEW f \in Forums, cached[f] # rows[f], f \notin lostRows
             PROVE  \E s \in Threads : local'[s].forum = f /\ (at'[s] = "store" => local'[s].row = rows[f])
  BY DEF RowsHaveCause
<1>1. PICK s \in Threads : local[s].forum = f /\ (at[s] = "store" => local[s].row = rows[f])
  BY DEF RowsHaveCause
<1>2. s # t
  BY <1>1
<1> QED BY <1>1, <1>2 DEF Moves

LEMMA RowsStep ==
    ASSUME TypeOK, \A t \in Threads : Prepared(t), RowsHaveCause, [Next]_vars
    PROVE  RowsHaveCause'
<1>1. ASSUME NEW t \in Threads, NEW f \in Forums, rows' \in [Forums -> Rows],
             \A h \in Forums \ {f} : rows'[h] = rows[h],
             Write(t), Goto(t, "query"), Keep(t, [Blank EXCEPT !.forum = f]),
             UNCHANGED <<cached, lostRows>>
      PROVE  RowsHaveCause'
  <2> SUFFICES ASSUME NEW h \in Forums, cached[h] # rows'[h], h \notin lostRows
               PROVE  \E s \in Threads : local'[s].forum = h /\ (at'[s] = "store" => local'[s].row = rows'[h])
    BY <1>1 DEF RowsHaveCause
  <2>1. CASE h = f
    <3>1. local'[t].forum = f /\ at'[t] = "query"
      BY <1>1 DEF TypeOK, Keep, Goto, Blank
    <3> QED BY <2>1, <3>1
  <2>2. CASE h # f
    <3>1. PICK s \in Threads : local[s].forum = h /\ (at[s] = "store" => local[s].row = rows[h])
      BY <1>1, <2>2 DEF RowsHaveCause
    <3>2. s # t
      BY <1>1, <3>1 DEF Write, Prepared
    <3> QED BY <1>1, <2>2, <3>1, <3>2 DEF TypeOK, Keep, Goto
  <2> QED BY <2>1, <2>2
<1>2. ASSUME NEW t \in Threads, NEW f \in Forums, NEW g \in Groups, NEW v \in Own, SetPerms(t, f, g, v)
      PROVE  RowsHaveCause'
  <2>1. rows' \in [Forums -> Rows] /\ \A h \in Forums \ {f} : rows'[h] = rows[h]
    BY <1>2 DEF SetPerms, TypeOK, Rows, Views
  <2> QED BY <1>1, <1>2, <2>1 DEF SetPerms
<1>3. ASSUME NEW t \in Threads, NEW f \in Forums, NEW row \in Rows, PermmapToQuery(t, f, row)
      PROVE  RowsHaveCause'
  <2>1. rows' \in [Forums -> Rows] /\ \A h \in Forums \ {f} : rows'[h] = rows[h]
    BY <1>3 DEF PermmapToQuery, TypeOK
  <2> QED BY <1>1, <1>3, <2>1 DEF PermmapToQuery
<1>4. ASSUME NEW t \in Threads,
             GiveUp(t) \/ Query(t) \/ (\E come \in SUBSET Groups : QueryCutShort(t, come)) \/ Store(t)
      PROVE  RowsHaveCause'
  <2> DEFINE f == local[t].forum
  <2>1. f \in Forums
    BY <1>4 DEF GiveUp, Query, QueryCutShort, Store, Prepared, TypeOK, Locals
  <2>2. Moves(t) /\ rows' = rows
    BY <1>4 DEF GiveUp, Query, QueryCutShort, Store, Leave, Goto, Keep, TypeOK, Moves
  <2>3. \A h \in Forums \ {f} : cached'[h] = cached[h] /\ (h \in lostRows => h \in lostRows')
    BY <1>4 DEF GiveUp, Query, QueryCutShort, Store, Marked, TypeOK
  <2>4. cached'[f] # rows[f] =>
           \/ f \in lostRows'
           \/ local'[t].forum = f /\ (at'[t] = "store" => local'[t].row = rows[f])
    <3>1. CASE GiveUp(t)
      BY <3>1, <2>1 DEF GiveUp
    <3>2. CASE Query(t)
      BY <3>2, <2>1 DEF Query, Keep, TypeOK, Locals
    <3>3. CASE Store(t)
      BY <3>3, <2>1 DEF Store, Marked, TypeOK
    <3>4. ASSUME NEW come \in SUBSET Groups, QueryCutShort(t, come)
          PROVE  f \in lostRows' \/ (local'[t].forum = f /\ local'[t].row = rows[f])
      <4> DEFINE part == [g \in Groups |-> IF g \in come THEN rows[f][g] ELSE "absent"]
      <4>1. /\ Keep(t, [local[t] EXCEPT !.row = part])
            /\ lostRows' = IF part = rows[f] THEN lostRows ELSE lostRows \cup {f}
        BY <3>4 DEF QueryCutShort
      <4> HIDE DEF part
      <4>2. local'[t].forum = f /\ local'[t].row = part
        BY <4>1, <2>1 DEF Keep, TypeOK, Locals
      <4> QED BY <4>1, <4>2
    <3> QED BY <1>4, <3>1, <3>2, <3>3, <3>4
  <2> SUFFICES ASSUME NEW h \in Forums, cached'[h] # rows[h], h \notin lostRows'
               PROVE  \E s \in Threads : local'[s].forum = h /\ (at'[s] = "store" => local'[s].row = rows[h])
    BY <2>2 DEF RowsHaveCause
  <2>5. CASE h = f
    BY <2>4, <2>5
  <2>6. CASE h # f
    <3>1. PICK s \in Threads : local[s].forum = h /\ (at[s] = "store" => local[s].row = rows[h])
      BY <2>3, <2>6 DEF RowsHaveCause
    <3> QED BY <2>2, <2>6, <3>1 DEF Moves
  <2> QED BY <2>5, <2>6
<1>5. ASSUME NEW t \in Threads, NEW g \in Groups, NEW view \in Own, UpdatePerms(t, g, view)
      PROVE  RowsHaveCause'
  <2>1. local[t].forum = None
    BY <1>5 DEF UpdatePerms, Write, Prepared
  <2>2. Moves(t) /\ UNCHANGED <<rows, cached, lostRows>>
    BY <1>5 DEF UpdatePerms, Goto, Keep, TypeOK, Moves
  <2> QED BY <2>1, <2>2, RowsKept
<1>6. ASSUME NEW t \in Threads,
             \/ \E g \in Groups : ChangeRank(t, g) \/ SetCanSee(t, g)
             \/ ReadGroups(t) \/ (\E f \in Forums : ReadMap(t, f))
             \/ ReloadGet(t) \/ ReloadScan(t) \/ ReloadFails(t) \/ CacheSet(t)
      PROVE  RowsHaveCause'
  <2>1. local[t].forum = None
    BY <1>6 DEF ChangeRank, SetCanSee, ReadGroups, ReadMap, ReloadGet, ReloadScan, ReloadFails, CacheSet, Prepared
  <2>2. Moves(t) /\ UNCHANGED <<rows, cached, lostRows>>
    BY <1>6, ZenonT(60)
       DEF ChangeRank, SetCanSee, ReadGroups, ReadMap, ReloadGet, ReloadScan, ReloadFails, CacheSet,
           Leave, Goto, Keep, TypeOK, Moves
  <2> QED BY <2>1, <2>2, RowsKept
<1>7. CASE UNCHANGED vars
  BY <1>7 DEF vars, RowsHaveCause
<1> QED BY <1>2, <1>3, <1>4, <1>5, <1>6, <1>7 DEF Next
-----------------------------------------------------------------------------
\* Steps of a thread that is not about to replace a group.
LEMMA PermsKept ==
    ASSUME TypeOK, PermsHaveCause, NEW t \in Threads, Moves(t), local[t].gid = None,
           UNCHANGED <<perms, lostPerms>>, \A g \in Groups : group'[g].view = group[g].view
    PROVE  PermsHaveCause'
<1> SUFFICES ASSUME NEW g \in Groups, group[g].view # perms[g], g \notin lostPerms
             PROVE  \E s \in Threads : local'[s].gid = g /\ (at'[s] = "cache" => local'[s].view = perms[g])
  BY DEF PermsHaveCause
<1>1. PICK s \in Threads : local[s].gid = g /\ (at[s] = "cache" => local[s].view = perms[g])
  BY DEF PermsHaveCause
<1>2. s # t
  BY <1>1
<1> QED BY <1>1, <1>2 DEF Moves

LEMMA PermsStep ==
    ASSUME TypeOK, \A t \in Threads : Prepared(t), PermsHaveCause, [Next]_vars
    PROVE  PermsHaveCause'
<1>1. ASSUME NEW t \in Threads, NEW g \in Groups, NEW view \in Own, UpdatePerms(t, g, view)
      PROVE  PermsHaveCause'
  <2> SUFFICES ASSUME NEW h \in Groups, group[h].view # perms'[h], h \notin lostPerms
               PROVE  \E s \in Threads : local'[s].gid = h /\ (at'[s] = "cache" => local'[s].view = perms'[h])
    BY <1>1 DEF UpdatePerms, PermsHaveCause
  <2>1. CASE h = g
    <3>1. local'[t].gid = g /\ at'[t] = "get"
      BY <1>1 DEF UpdatePerms, TypeOK, Keep, Goto, Blank
    <3> QED BY <2>1, <3>1
  <2>2. CASE h # g
    <3>1. perms'[h] = perms[h]
      BY <1>1, <2>2 DEF UpdatePerms, TypeOK
    <3>2. PICK s \in Threads : local[s].gid = h /\ (at[s] = "cache" => local[s].view = perms[h])
      BY <3>1 DEF PermsHaveCause
    <3>3. s # t
      BY <1>1, <3>2 DEF UpdatePerms, Write, Prepared
    <3> QED BY <1>1, <3>1, <3>2, <3>3 DEF UpdatePerms, TypeOK, Keep, Goto
  <2> QED BY <2>1, <2>2
<1>2. ASSUME NEW t \in Threads, ReloadGet(t) \/ ReloadScan(t) \/ ReloadFails(t) \/ CacheSet(t)
      PROVE  PermsHaveCause'
  <2> DEFINE g == local[t].gid
  <2>1. g \in Groups
    BY <1>2 DEF ReloadGet, ReloadScan, ReloadFails, CacheSet, Prepared, TypeOK, Locals
  <2>2. Moves(t) /\ perms' = perms
    BY <1>2 DEF ReloadGet, ReloadScan, ReloadFails, CacheSet, Leave, Goto, Keep, TypeOK, Moves
  <2>3. \A h \in Groups \ {g} : group'[h] = group[h] /\ (h \in lostPerms => h \in lostPerms')
    BY <1>2 DEF ReloadGet, ReloadScan, ReloadFails, CacheSet, Marked, TypeOK
  <2>4. group'[g].view # perms[g] =>
           \/ g \in lostPerms'
           \/ local'[t].gid = g /\ (at'[t] = "cache" => local'[t].view = perms[g])
    <3>1. CASE ReloadGet(t)
      BY <3>1, <2>1 DEF ReloadGet, Keep, Goto, TypeOK, Locals
    <3>2. CASE ReloadScan(t)
      BY <3>2, <2>1 DEF ReloadScan, Keep, TypeOK, Locals
    <3>3. CASE ReloadFails(t)
      BY <3>3, <2>1 DEF ReloadFails
    <3>4. CASE CacheSet(t)
      BY <3>4, <2>1 DEF CacheSet, Marked, TypeOK
    <3> QED BY <1>2, <3>1, <3>2, <3>3, <3>4
  <2> SUFFICES ASSUME NEW h \in Groups, group'[h].view # perms[h], h \notin lostPerms'
               PROVE  \E s \in Threads : local'[s].gid = h /\ (at'[s] = "cache" => local'[s].view = perms[h])
    BY <2>2 DEF PermsHaveCause
  <2>5. CASE h = g
    BY <2>4, <2>5
  <2>6. CASE h # g
    <3>1. PICK s \in Threads : local[s].gid = h /\ (at[s] = "cache" => local[s].view = perms[h])
      BY <2>3, <2>6 DEF PermsHaveCause
    <3> QED BY <2>2, <2>6, <3>1 DEF Moves
  <2> QED BY <2>5, <2>6
<1>3. ASSUME NEW t \in Threads, NEW g \in Groups, ChangeRank(t, g) PROVE PermsHaveCause'
  <2>1. local[t].gid = None
    BY <1>3 DEF ChangeRank, Prepared
  <2>2. Moves(t) /\ UNCHANGED <<perms, group, lostPerms>>
    BY <1>3 DEF ChangeRank, Goto, Keep, TypeOK, Moves
  <2> QED BY <2>1, <2>2, PermsKept
<1>4. ASSUME NEW t \in Threads, NEW g \in Groups, SetCanSee(t, g) PROVE PermsHaveCause'
  <2>1. local[t].gid = None
    BY <1>4 DEF SetCanSee, Prepared
  <2>2. Moves(t) /\ UNCHANGED <<perms, lostPerms>>
    BY <1>4 DEF SetCanSee, Leave, Goto, Keep, TypeOK, Moves
  <2>3. \A h \in Groups : group'[h].view = group[h].view
    BY <1>4 DEF SetCanSee, TypeOK
  <2> QED BY <2>1, <2>2, <2>3, PermsKept
<1>5. ASSUME NEW t \in Threads,
             \/ \E f \in Forums, g \in Groups, v \in Own : SetPerms(t, f, g, v)
             \/ \E f \in Forums, row \in Rows : PermmapToQuery(t, f, row)
      PROVE  PermsHaveCause'
  <2>1. local[t].gid = None
    BY <1>5 DEF SetPerms, PermmapToQuery, Write, Prepared
  <2>2. Moves(t) /\ UNCHANGED <<perms, group, lostPerms>>
    BY <1>5 DEF SetPerms, PermmapToQuery, Goto, Keep, TypeOK, Moves
  <2> QED BY <2>1, <2>2, PermsKept
<1>6. ASSUME NEW t \in Threads,
             \/ Query(t) \/ GiveUp(t) \/ Store(t) \/ ReadGroups(t) \/ (\E f \in Forums : ReadMap(t, f))
             \/ \E come \in SUBSET Groups : QueryCutShort(t, come)
      PROVE  PermsHaveCause'
  <2>1. local[t].gid = None
    BY <1>6 DEF Query, QueryCutShort, GiveUp, Store, ReadGroups, ReadMap, Prepared
  <2>2. Moves(t) /\ UNCHANGED <<perms, group, lostPerms>>
    BY <1>6 DEF Query, QueryCutShort, GiveUp, Store, ReadGroups, ReadMap, Leave, Goto, Keep, TypeOK, Moves
  <2> QED BY <2>1, <2>2, PermsKept
<1>7. CASE UNCHANGED vars
  BY <1>7 DEF vars, PermsHaveCause
<1> QED BY <1>1, <1>2, <1>3, <1>4, <1>5, <1>6, <1>7 DEF Next

-----------------------------------------------------------------------------
\* Steps of a thread that is not recalculating.
LEMMA SeenKept ==
    ASSUME TypeOK, SeenHasCause, NEW t \in Threads, Moves(t), at[t] \notin {"groups", "maps", "set"},
           UNCHANGED <<cached, group>>, lostSeen \subseteq lostSeen', forgotten \subseteq forgotten'
    PROVE  SeenHasCause'
<1> SUFFICES ASSUME NEW g \in Groups, group[g].canSee # Visible(group[g].view, cached, g),
                    g \notin lostSeen, g \notin forgotten
             PROVE  \E s \in Threads : Underway(s, g)'
  BY DEF SeenHasCause, Visible
<1>1. PICK s \in Threads : Underway(s, g)
  BY DEF SeenHasCause
<1>2. s # t
  BY <1>1 DEF Underway
<1> QED BY <1>1, <1>2 DEF Moves, Underway, UpToDate

LEMMA SeenStep ==
    ASSUME TypeOK, \A t \in Threads : Prepared(t), SeenHasCause, [Next]_vars
    PROVE  SeenHasCause'
<1>1. ASSUME NEW t \in Threads, Store(t) PROVE SeenHasCause'
  <2>1. at'[t] = "groups"
    BY <1>1 DEF Store, Goto, TypeOK
  <2> QED BY <2>1 DEF SeenHasCause, Underway
<1>2. ASSUME NEW t \in Threads, ReadGroups(t) PROVE SeenHasCause'
  <2>1. at'[t] = "maps" /\ \A g \in Groups : UpToDate(t, g)'
    BY <1>2 DEF ReadGroups, Goto, Keep, Blank, NoMaps, TypeOK, UpToDate
  <2> QED BY <2>1 DEF SeenHasCause, Underway
<1>3. ASSUME NEW t \in Threads, NEW f \in Forums, ReadMap(t, f) PROVE SeenHasCause'
  <2> DEFINE read == DOMAIN local[t].maps
  <2>1. Moves(t) /\ UNCHANGED <<cached, group, lostSeen, forgotten>>
    BY <1>3 DEF ReadMap, Goto, Keep, TypeOK, Moves
  <2>2. at[t] = "maps" /\ at'[t] \in {"maps", "set"}
    BY <1>3 DEF ReadMap, Goto, TypeOK
  <2>3. /\ local'[t].views = local[t].views
        /\ local'[t].maps = [h \in read \cup {f} |-> IF h = f THEN cached[f] ELSE local[t].maps[h]]
        /\ local'[t].left = IF read \cup {f} = Forums THEN Groups ELSE {}
    BY <1>3 DEF ReadMap, Keep, TypeOK, Locals
  <2>4. at'[t] = "set" => local'[t].left = Groups
    BY <1>3, <2>3 DEF ReadMap, Goto, TypeOK
  <2> SUFFICES ASSUME NEW g \in Groups, NEW s \in Threads, Underway(s, g)
               PROVE  Underway(s, g)'
    BY <2>1 DEF SeenHasCause, Visible
  <2>5. CASE s = t
    <3>1. UpToDate(t, g)
      BY <2>2, <2>5 DEF Underway
    <3>2. UpToDate(t, g)'
      BY <2>1, <2>3, <3>1 DEF UpToDate
    <3> QED BY <2>2, <2>4, <2>5, <3>2 DEF Underway
  <2>6. CASE s # t
    BY <2>1, <2>6 DEF Moves, Underway, UpToDate
  <2> QED BY <2>5, <2>6
<1>4. ASSUME NEW t \in Threads, NEW h \in Groups, SetCanSee(t, h) PROVE SeenHasCause'
  <2>1. Moves(t) /\ at[t] = "set" /\ cached' = cached
    BY <1>4 DEF SetCanSee, Leave, Goto, Keep, TypeOK, Moves
  <2>2. group'[h].view = group[h].view /\ group'[h].canSee = Visible(local[t].views[h], local[t].maps, h)
    BY <1>4 DEF SetCanSee, TypeOK
  <2>3. \A g \in Groups \ {h} : group'[g] = group[g]
    BY <1>4 DEF SetCanSee, TypeOK
  <2>4. \A g \in Groups \ {h} : (g \in lostSeen => g \in lostSeen') /\ (g \in forgotten => g \in forgotten')
    BY <1>4 DEF SetCanSee, Marked
  <2>5. DOMAIN local[t].maps = Forums /\ DOMAIN cached = Forums
    BY <2>1 DEF TypeOK
  <2>6. h \notin lostSeen' => UpToDate(t, h)
    BY <1>4 DEF SetCanSee, Marked
  <2> SUFFICES ASSUME NEW g \in Groups, g \notin lostSeen', g \notin forgotten',
                      group'[g].canSee # Visible(group'[g].view, cached, g)
               PROVE  \E s \in Threads : Underway(s, g)'
    BY <2>1 DEF SeenHasCause, Visible
  <2>7. g # h
    <3> SUFFICES ASSUME g = h PROVE FALSE
      OBVIOUS
    <3>1. UpToDate(t, h)
      BY <2>6
    <3>2. Visible(local[t].views[h], local[t].maps, h) = Visible(group[h].view, cached, h)
      BY <2>5, <3>1 DEF UpToDate, Visible
    <3> QED BY <2>2, <3>2
  <2>8. PICK s \in Threads : Underway(s, g)
    BY <2>3, <2>4, <2>7 DEF SeenHasCause
  <2>9. CASE s # t
    BY <2>1, <2>3, <2>7, <2>8, <2>9 DEF Moves, Underway, UpToDate
  <2>10. CASE s = t
    <3>1. g \in local[t].left /\ UpToDate(t, g)
      BY <2>1, <2>8, <2>10 DEF Underway
    <3>2. Keep(t, [local[t] EXCEPT !.left = @ \ {h}]) /\ at' = at
      BY <1>4, <2>7, <3>1 DEF SetCanSee
    <3>3. local'[t].left = local[t].left \ {h} /\ local'[t].views = local[t].views
          /\ local'[t].maps = local[t].maps
      BY <3>2 DEF Keep, TypeOK, Locals
    <3> QED BY <2>1, <2>3, <2>7, <3>1, <3>2, <3>3 DEF Underway, UpToDate
  <2> QED BY <2>9, <2>10
<1>5. ASSUME NEW t \in Threads, CacheSet(t) PROVE SeenHasCause'
  <2> DEFINE h == local[t].gid
  <2>1. h \in Groups /\ at[t] = "cache"
    BY <1>5 DEF CacheSet, Prepared, TypeOK, Locals
  <2>2. Moves(t) /\ cached' = cached /\ lostSeen \subseteq lostSeen' /\ forgotten \subseteq forgotten'
    BY <1>5 DEF CacheSet, Leave, Goto, Keep, TypeOK, Moves
  <2>3. \A g \in Groups \ {h} : group'[g] = group[g]
    BY <1>5 DEF CacheSet, TypeOK
  <2>4. group'[h].view = local[t].view /\ group'[h].canSee = local[t].canSee
    BY <1>5, <2>1 DEF CacheSet, TypeOK
  <2>5. h \in lostSeen' \/ h \in forgotten' \/ (group'[h].view = group[h].view /\ group'[h].canSee = group[h].canSee)
    BY <1>5, <2>1, <2>4 DEF CacheSet
  <2> SUFFICES ASSUME NEW g \in Groups, g \notin lostSeen', g \notin forgotten',
                      group'[g].canSee # Visible(group'[g].view, cached, g)
               PROVE  \E s \in Threads : Underway(s, g)'
    BY <2>2 DEF SeenHasCause, Visible
  <2>6. group'[g].view = group[g].view /\ group'[g].canSee = group[g].canSee
    BY <2>3, <2>5
  <2>7. PICK s \in Threads : Underway(s, g)
    BY <2>2, <2>6 DEF SeenHasCause
  <2>8. s # t
    BY <2>1, <2>7 DEF Underway
  <2> QED BY <2>2, <2>6, <2>7, <2>8 DEF Moves, Underway, UpToDate
<1>6. ASSUME NEW t \in Threads,
             \/ \E f \in Forums, g \in Groups, v \in Own : SetPerms(t, f, g, v)
             \/ \E f \in Forums, row \in Rows : PermmapToQuery(t, f, row)
             \/ \E g \in Groups, view \in Own : UpdatePerms(t, g, view)
             \/ \E g \in Groups : ChangeRank(t, g)
      PROVE  SeenHasCause'
  <2>1. at[t] \notin {"groups", "maps", "set"}
    BY <1>6 DEF SetPerms, PermmapToQuery, UpdatePerms, Write, ChangeRank
  <2>2. Moves(t) /\ UNCHANGED <<cached, group, lostSeen, forgotten>>
    BY <1>6 DEF SetPerms, PermmapToQuery, UpdatePerms, ChangeRank, Goto, Keep, TypeOK, Moves
  <2> QED BY <2>1, <2>2, SeenKept
<1>7. ASSUME NEW t \in Threads,
             \/ Query(t) \/ GiveUp(t) \/ ReloadGet(t) \/ ReloadScan(t) \/ ReloadFails(t)
             \/ \E come \in SUBSET Groups : QueryCutShort(t, come)
      PROVE  SeenHasCause'
  <2>1. at[t] \notin {"groups", "maps", "set"}
    BY <1>7 DEF Query, QueryCutShort, GiveUp, ReloadGet, ReloadScan, ReloadFails
  <2>2. Moves(t) /\ UNCHANGED <<cached, group, lostSeen, forgotten>>
    BY <1>7 DEF Query, QueryCutShort, GiveUp, ReloadGet, ReloadScan, ReloadFails, Leave, Goto, Keep, TypeOK, Moves
  <2> QED BY <2>1, <2>2, SeenKept
<1>8. CASE UNCHANGED vars
  BY <1>8 DEF vars, SeenHasCause, Underway, UpToDate, Visible
<1> QED BY <1>1, <1>2, <1>3, <1>4, <1>5, <1>6, <1>7, <1>8 DEF Next

-----------------------------------------------------------------------------
\* The causes together are inductive: each thread's local variables say what it
\* will still put right.
IInv ==
    /\ TypeOK
    /\ \A t \in Threads : Prepared(t)
    /\ RowsHaveCause
    /\ PermsHaveCause
    /\ SeenHasCause

LEMMA IInvInit == Init => IInv
<1> SUFFICES ASSUME Init PROVE IInv
  OBVIOUS
<1>1. TypeOK /\ \A t \in Threads : Prepared(t)
  BY TypeInit
<1>2. \A g \in Groups : group[g].view = perms[g] /\ group[g].canSee = Visible(perms[g], rows, g)
  BY DEF Init
<1>3. RowsHaveCause /\ PermsHaveCause
  BY <1>2 DEF Init, RowsHaveCause, PermsHaveCause
<1>4. SeenHasCause
  BY <1>2 DEF Init, SeenHasCause
<1> QED BY <1>1, <1>3, <1>4 DEF IInv

LEMMA IInvStep == IInv /\ [Next]_vars => IInv'
BY TypeStep, RowsStep, PermsStep, SeenStep DEF IInv

LEMMA IInvAlways == Spec => []IInv
BY IInvInit, IInvStep, PTL DEF Spec

LEMMA IInvQuiet == IInv => QuietIsRight
<1> SUFFICES ASSUME IInv, \A t \in Threads : at[t] = "idle", lostRows = {},
                    NEW g \in Groups, g \notin lostPerms \cup lostSeen \cup forgotten
             PROVE  group[g].canSee = Visible(perms[g], rows, g)
  BY DEF QuietIsRight
<1>1. \A f \in Forums : cached[f] = rows[f]
  BY DEF IInv, RowsHaveCause, Prepared
<1>2. cached = rows
  BY <1>1 DEF IInv, TypeOK
<1>3. group[g].view = perms[g]
  BY DEF IInv, PermsHaveCause, Prepared
<1>4. group[g].canSee = Visible(group[g].view, cached, g)
  BY DEF IInv, SeenHasCause, Underway
<1> QED BY <1>2, <1>3, <1>4

\* The stores and the threads keep their types, for any number of either, and a
\* recalculation that sets CanSee has read the rows of every forum.
THEOREM TypeCorrect == Spec => []TypeOK
BY IInvAlways, PTL DEF IInv

\* The rows MemoryForumPermsStore holds are behind the table only while a reload
\* that will put them right is on its way, or after one was lost or overtaken.
THEOREM RowsHaveCauseAlways == Spec => []RowsHaveCause
BY IInvAlways, PTL DEF IInv

\* The same for the permissions of the groups MemoryGroupStore holds.
THEOREM PermsHaveCauseAlways == Spec => []PermsHaveCause
BY IInvAlways, PTL DEF IInv

\* A group's CanSee disagrees with the stores only before a recalculation that will
\* put it right, after one that was overtaken, or after a reload of the group that
\* changed its permissions and kept CanSee.
THEOREM SeenHasCauseAlways == Spec => []SeenHasCause
BY IInvAlways, PTL DEF IInv

\* When all changes have ended and none was lost, a group sees exactly the forums
\* the database lets it see.
THEOREM QuietIsRightAlways == Spec => []QuietIsRight
BY IInvAlways, IInvQuiet, PTL
=============================================================================
