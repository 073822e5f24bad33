----------------------------- MODULE Visibility -----------------------------
(***************************************************************************)
(* Which forums a group can see.                                           *)
(*                                                                         *)
(* The answer is in the database: a row of forums_permissions for a forum  *)
(* and a group, or else the group's own permissions.  MemoryForumPermsStore*)
(* (src/common/forum_perms_store.go) caches the rows of each forum,        *)
(* MemoryGroupStore (src/common/group_store.go) the groups, and each group *)
(* carries CanSee, the forums it can see, worked out from both.  Every     *)
(* change is a write to the database, a reload of what it touched and,     *)
(* for the rows, a recalculation of CanSee for all groups.  Nothing keeps  *)
(* one change from overtaking another.                                     *)
(***************************************************************************)
EXTENDS Integers, FiniteSets

CONSTANTS
    Threads,     \* goroutines that change permissions
    Groups,      \* group IDs
    Forums,      \* forum IDs
    None,
    MaxWrites    \* bound: how many writes are made

ASSUME ForumsAssumption == Forums \subseteq Nat /\ IsFiniteSet(Forums)
ASSUME WritesAssumption == MaxWrites \in Nat
ASSUME NoneAssumption == None \notin Groups \cup Forums \cup [Groups -> {"yes", "no", "absent"}]

\* ViewTopic of a group, and of a row of forums_permissions, if there is one.
Own == {"yes", "no"}
Views == Own \cup {"absent"}
Rows == [Groups -> Views]

VARIABLES
    rows,      \* forums_permissions, by forum
    perms,     \* ViewTopic in users_groups.permissions
    cached,    \* evenForums and oddForums
    group,     \* the groups map: ViewTopic and CanSee of each
    at,        \* what each thread does next
    local,     \* its local variables
    writes,    \* how many writes were made
    lostRows,  \* history: forums whose rows were not read back in full, or overwritten by older ones
    lostPerms, \* history: groups whose permissions were, likewise
    lostSeen,  \* history: groups whose CanSee was, or was worked out from older data
    forgotten  \* history: groups whose permissions changed and CanSee was kept

dbVars == <<rows, perms, writes>>
histVars == <<lostRows, lostPerms, lostSeen, forgotten>>
vars == <<dbVars, cached, group, at, local, histVars>>

\* The forums a group sees by its own permission and the rows of the forums; a
\* forum without rows in the store is skipped.
Visible(view, maps, g) ==
    {f \in DOMAIN maps : maps[f][g] = "yes" \/ (maps[f][g] = "absent" /\ view = "yes")}

NoMaps == [f \in {} |-> None]
Blank == [forum |-> None, gid |-> None, row |-> None, view |-> "no", canSee |-> {},
          views |-> None, maps |-> NoMaps, left |-> {}]

\* Init and LoadGroups have read everything.
Init ==
    /\ rows \in [Forums -> Rows]
    /\ perms \in [Groups -> Own]
    /\ cached = rows
    /\ group = [g \in Groups |-> [view |-> perms[g], canSee |-> Visible(perms[g], rows, g)]]
    /\ at = [t \in Threads |-> "idle"]
    /\ local = [t \in Threads |-> Blank]
    /\ writes = 0
    /\ lostRows = {}
    /\ lostPerms = {}
    /\ lostSeen = {}
    /\ forgotten = {}

-----------------------------------------------------------------------------
Goto(t, label) == at' = [at EXCEPT ![t] = label]
Keep(t, fields) == local' = [local EXCEPT ![t] = fields]

Leave(t) ==
    /\ Goto(t, "idle")
    /\ Keep(t, Blank)

Write(t) ==
    /\ at[t] = "idle"
    /\ writes < MaxWrites
    /\ writes' = writes + 1

\* Mutant: the forum is not reloaded.
SetPermsOnly(t, f, g, v) ==
    /\ Write(t)
    /\ rows' = [rows EXCEPT ![f][g] = v]
    /\ UNCHANGED <<perms, cached, group, at, local, histVars>>

\* Forum.SetPerms replaces the row of one group.
SetPerms(t, f, g, v) ==
    /\ Write(t)
    /\ rows' = [rows EXCEPT ![f][g] = v]
    /\ Goto(t, "query")
    /\ Keep(t, [Blank EXCEPT !.forum = f])
    /\ UNCHANGED <<perms, cached, group, histVars>>

\* PermmapToQuery replaces the rows of all groups by those of a preset.
PermmapToQuery(t, f, row) ==
    /\ Write(t)
    /\ rows' = [rows EXCEPT ![f] = row]
    /\ Goto(t, "query")
    /\ Keep(t, [Blank EXCEPT !.forum = f])
    /\ UNCHANGED <<perms, cached, group, histVars>>

\* One of the statements between the write and the end of the query returns an
\* error, and the function returns it.
GiveUp(t) ==
    /\ at[t] = "query"
    /\ Leave(t)
    /\ lostRows' = lostRows \cup {local[t].forum}
    /\ UNCHANGED <<dbVars, cached, group, lostPerms, lostSeen, forgotten>>

\* MemoryForumPermsStore.reload: a query, then the store of its result.
Query(t) ==
    /\ at[t] = "query"
    /\ Goto(t, "store")
    /\ Keep(t, [local[t] EXCEPT !.row = rows[local[t].forum]])
    /\ UNCHANGED <<dbVars, cached, group, histVars>>

\* The loop over the answer never asks rows.Err: when the connection fails half way,
\* the rows that have come are taken for all there are.
QueryCutShort(t, come) ==
    LET f == local[t].forum
        part == [g \in Groups |-> IF g \in come THEN rows[f][g] ELSE "absent"]
    IN  /\ at[t] = "query"
        /\ Goto(t, "store")
        /\ Keep(t, [local[t] EXCEPT !.row = part])
        /\ lostRows' = IF part = rows[f] THEN lostRows ELSE lostRows \cup {f}
        /\ UNCHANGED <<dbVars, cached, group, lostPerms, lostSeen, forgotten>>

\* Marks what a step leaves wrong and unmarks what it puts right.
Marked(set, x, right) == IF right THEN set \ {x} ELSE set \cup {x}

\* Mutant: nothing is worked out again.
StoreOnly(t) ==
    LET f == local[t].forum
    IN  /\ at[t] = "store"
        /\ Leave(t)
        /\ cached' = [cached EXCEPT ![f] = local[t].row]
        /\ lostRows' = Marked(lostRows, f, local[t].row = rows[f])
        /\ UNCHANGED <<dbVars, group, lostPerms, lostSeen, forgotten>>

Store(t) ==
    LET f == local[t].forum
    IN  /\ at[t] = "store"
        /\ Goto(t, "groups")
        /\ Keep(t, Blank)
        /\ cached' = [cached EXCEPT ![f] = local[t].row]
        /\ lostRows' = Marked(lostRows, f, local[t].row = rows[f])
        /\ UNCHANGED <<dbVars, group, lostPerms, lostSeen, forgotten>>

-----------------------------------------------------------------------------
\* recalcCanSeeAll.

ReadGroups(t) ==
    /\ at[t] = "groups"
    /\ Goto(t, "maps")
    /\ Keep(t, [Blank EXCEPT !.views = [g \in Groups |-> group[g].view]])
    /\ UNCHANGED <<dbVars, cached, group, histVars>>

\* The rows of the forums are read one forum after the other.
ReadMap(t, f) ==
    LET read == DOMAIN local[t].maps
    IN  /\ at[t] = "maps"
        /\ f \in Forums \ read
        /\ \A h \in Forums \ read : f <= h
        /\ Goto(t, IF read \cup {f} = Forums THEN "set" ELSE "maps")
        /\ Keep(t, [local[t] EXCEPT
               !.maps = [h \in read \cup {f} |-> IF h = f THEN cached[f] ELSE @[h]],
               !.left = IF read \cup {f} = Forums THEN Groups ELSE {}])
        /\ UNCHANGED <<dbVars, cached, group, histVars>>

\* What a recalculation knows of a group is what the stores hold.
UpToDate(t, g) ==
    /\ local[t].views[g] = group[g].view
    /\ \A f \in DOMAIN local[t].maps : local[t].maps[f][g] = cached[f][g]

SetCanSee(t, g) ==
    /\ at[t] = "set"
    /\ g \in local[t].left
    /\ group' = [group EXCEPT ![g].canSee = Visible(local[t].views[g], local[t].maps, g)]
    /\ IF local[t].left = {g}
       THEN Leave(t)
       ELSE Keep(t, [local[t] EXCEPT !.left = @ \ {g}]) /\ UNCHANGED at
    /\ lostSeen' = Marked(lostSeen, g, UpToDate(t, g))
    /\ forgotten' = IF UpToDate(t, g) THEN forgotten \ {g} ELSE forgotten
    /\ UNCHANGED <<dbVars, cached, lostRows, lostPerms>>

-----------------------------------------------------------------------------
\* Mutant: the group is not reloaded.
UpdatePermsOnly(t, g, view) ==
    /\ Write(t)
    /\ perms' = [perms EXCEPT ![g] = view]
    /\ UNCHANGED <<rows, cached, group, at, local, histVars>>

\* Group.UpdatePerms writes the permissions and reloads the group.
UpdatePerms(t, g, view) ==
    /\ Write(t)
    /\ perms' = [perms EXCEPT ![g] = view]
    /\ Goto(t, "get")
    /\ Keep(t, [Blank EXCEPT !.gid = g])
    /\ UNCHANGED <<rows, cached, group, histVars>>

\* Group.Update and ChangeRank write other columns and reload the group as well.
ChangeRank(t, g) ==
    /\ at[t] = "idle"
    /\ Goto(t, "get")
    /\ Keep(t, [Blank EXCEPT !.gid = g])
    /\ UNCHANGED <<dbVars, cached, group, histVars>>

\* MemoryGroupStore.Reload: CanSee comes from the cached group, the rest from the
\* database, and the group is replaced by the two together.
ReloadGet(t) ==
    /\ at[t] = "get"
    /\ Goto(t, "scan")
    /\ Keep(t, [local[t] EXCEPT !.canSee = group[local[t].gid].canSee])
    /\ UNCHANGED <<dbVars, cached, group, histVars>>

ReloadScan(t) ==
    /\ at[t] = "scan"
    /\ Goto(t, "cache")
    /\ Keep(t, [local[t] EXCEPT !.view = perms[local[t].gid]])
    /\ UNCHANGED <<dbVars, cached, group, histVars>>

\* The row cannot be read, or its user count.
ReloadFails(t) ==
    /\ at[t] \in {"scan", "cache"}
    /\ Leave(t)
    /\ lostPerms' = lostPerms \cup {local[t].gid}
    /\ UNCHANGED <<dbVars, cached, group, lostRows, lostSeen, forgotten>>

CacheSet(t) ==
    LET g == local[t].gid
    IN  /\ at[t] = "cache"
        /\ Leave(t)
        /\ group' = [group EXCEPT ![g] = [view |-> local[t].view, canSee |-> local[t].canSee]]
        /\ lostPerms' = Marked(lostPerms, g, local[t].view = perms[g])
        /\ forgotten' = IF local[t].view = group[g].view THEN forgotten ELSE forgotten \cup {g}
        /\ lostSeen' = IF local[t].canSee = group[g].canSee THEN lostSeen ELSE lostSeen \cup {g}
        /\ UNCHANGED <<dbVars, cached, lostRows>>

-----------------------------------------------------------------------------
Next ==
    \E t \in Threads :
        \/ \E f \in Forums, g \in Groups, v \in Own : SetPerms(t, f, g, v)
        \/ \E f \in Forums, row \in Rows : PermmapToQuery(t, f, row)
        \/ \E g \in Groups, view \in Own : UpdatePerms(t, g, view)
        \/ \E g \in Groups : ChangeRank(t, g)
        \/ Query(t) \/ GiveUp(t) \/ Store(t)
        \/ \E come \in SUBSET Groups : QueryCutShort(t, come)
        \/ ReadGroups(t)
        \/ \E f \in Forums : ReadMap(t, f)
        \/ \E g \in Groups : SetCanSee(t, g)
        \/ ReloadGet(t) \/ ReloadScan(t) \/ ReloadFails(t) \/ CacheSet(t)

Spec == Init /\ [][Next]_vars

-----------------------------------------------------------------------------
MapSets == UNION {[read -> Rows] : read \in SUBSET Forums}

Locals ==
    [forum : Forums \cup {None}, gid : Groups \cup {None}, row : Rows \cup {None},
     view : Own, canSee : SUBSET Forums, views : [Groups -> Own] \cup {None},
     maps : MapSets, left : SUBSET Groups]

\* The type invariant of the stores: a recalculation that has begun to set CanSee
\* knows all forums.
TypeOK ==
    /\ rows \in [Forums -> Rows] /\ cached \in [Forums -> Rows]
    /\ perms \in [Groups -> Own]
    /\ group \in [Groups -> [view : Own, canSee : SUBSET Forums]]
    /\ at \in [Threads -> {"idle", "query", "store", "groups", "maps", "set", "get", "scan", "cache"}]
    /\ local \in [Threads -> Locals]
    /\ \A t \in Threads : at[t] = "set" => DOMAIN local[t].maps = Forums
    /\ writes \in 0..MaxWrites
    /\ lostRows \subseteq Forums
    /\ lostPerms \subseteq Groups /\ lostSeen \subseteq Groups /\ forgotten \subseteq Groups

\* The rows in the store are behind the table only until a thread that will read
\* them, or has read what is there now, stores them, unless they were lost.
RowsHaveCause ==
    \A f \in Forums : cached[f] # rows[f] =>
        \/ f \in lostRows
        \/ \E t \in Threads : local[t].forum = f /\ (at[t] = "store" => local[t].row = rows[f])

\* The same for the permissions of the groups.
PermsHaveCause ==
    \A g \in Groups : group[g].view # perms[g] =>
        \/ g \in lostPerms
        \/ \E t \in Threads : local[t].gid = g /\ (at[t] = "cache" => local[t].view = perms[g])

\* A recalculation that will yet set what the group can see, and get it right.
Underway(t, g) ==
    \/ at[t] = "groups"
    \/ /\ at[t] \in {"maps", "set"}
       /\ at[t] = "set" => g \in local[t].left
       /\ UpToDate(t, g)

\* CanSee disagrees with the stores only until a recalculation gets to it, or when
\* the last one to set it had been overtaken, or when the group was reloaded: that
\* keeps CanSee whatever the new permissions say.
SeenHasCause ==
    \A g \in Groups : group[g].canSee # Visible(group[g].view, cached, g) =>
        g \in lostSeen \/ g \in forgotten \/ \E t \in Threads : Underway(t, g)

\* When nobody is changing permissions, groups see the forums the database says,
\* unless a change was lost or CanSee forgotten.
QuietIsRight ==
    (\A t \in Threads : at[t] = "idle") /\ lostRows = {} =>
        \A g \in Groups : g \notin lostPerms \cup lostSeen \cup forgotten =>
            group[g].canSee = Visible(perms[g], rows, g)
=============================================================================
