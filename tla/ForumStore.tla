----------------------------- MODULE ForumStore -----------------------------
(***************************************************************************)
(* MemoryForumStore (src/common/forum_store.go): all forums in a sync.Map, *)
(* and next to it a view, the list of the forums visitors are shown, which *)
(* every change of the map rebuilds and stores.                            *)
(*                                                                         *)
(* A forum is its row: whether it is there ("none" before it is created,   *)
(* "blank" after it was deleted, which blanks the name and keeps the row), *)
(* whether it is active ("shown" or "hidden"), and how often it was        *)
(* written.  Its columns (name, order, counts, last topic) are behind the  *)
(* version.  Every write goes to the database first and is followed by a   *)
(* reload of the row; nothing is locked across the two, or across a change *)
(* of the map and the rebuilding of the view.  What Create, Update and     *)
(* SetPerms do to the permissions is in Visibility, what Thaw is for in    *)
(* TopicList.                                                              *)
(***************************************************************************)
EXTENDS Integers, FiniteSets

CONSTANTS
    Threads,       \* goroutines that use the store
    Forums,        \* forum IDs, those not yet given out included
    ReportForum,   \* ReportForumID, which cannot be deleted
    None,
    MaxWrites      \* bound: how many statements are made to change a row

ASSUME NoneAssumption == None \notin Threads \cup Forums
ASSUME ReportAssumption == ReportForum \in Forums
ASSUME WritesAssumption == MaxWrites \in Nat

Stages == {"none", "shown", "hidden", "blank"}
Records == [stage : Stages, ver : Nat]
Nothing == [stage |-> "none", ver |-> 0]

Labels == {"idle", "stmt", "fetch", "put", "drop", "order", "rows", "range"}

VARIABLES
    rows,      \* the table forums
    forums,    \* the sync.Map; Nothing where it has no entry
    view,      \* forumView, Nothing where a forum is not in it
    creator,   \* who holds forumCreateMutex
    my,        \* by thread: where it is and its local variables
    writes,    \* how many such statements were made
    overtaken, \* history: forums whose entry in the view is that of an older rebuild
    cutShort,  \* history: forums whose entry is wrong since LoadForums ended early
    late,      \* history: forums whose entry in the map was set by an older read or by a delete
    behind     \* history: forums whose writer returned before it had reloaded them

tables == <<rows, writes>>
memory == <<forums, view>>
viewMarks == <<overtaken, cutShort>>
mapMarks == <<late, behind>>
vars == <<tables, memory, creator, my, viewMarks, mapMarks>>

Live(r) == r.stage \in {"shown", "hidden"}

\* What Get answers, and what the view shows, of a record.
Known(r) == IF Live(r) THEN r ELSE Nothing
Listed(r) == IF r.stage = "shown" THEN r ELSE Nothing

Empty == [f \in Forums |-> Nothing]

\* The locals of a thread that works on one forum, and of one on its way through many.
One(label, f, snap) ==
    [at |-> label, f |-> f, snap |-> snap, got |-> Empty, left |-> {}, passed |-> {}]
Many(label, snap, got, left, passed) ==
    [at |-> label, f |-> None, snap |-> snap, got |-> got, left |-> left, passed |-> passed]
Idle == One("idle", None, Empty)

\* LoadForums has run at the start.  The installer has made the report forum.
Init ==
    /\ rows \in [Forums -> {Nothing, [stage |-> "shown", ver |-> 1]}]
    /\ Live(rows[ReportForum])
    /\ forums = rows
    /\ view = [f \in Forums |-> Listed(rows[f])]
    /\ creator = None
    /\ my = [t \in Threads |-> Idle]
    /\ writes = 0
    /\ overtaken = {} /\ cutShort = {}
    /\ late = {} /\ behind = {}

-----------------------------------------------------------------------------
(* Helpers.                                                                *)

At(t, label) == my[t].at = label
Keep(t, fields) == my' = [my EXCEPT ![t] = fields]
GoOn(t, label, f) == Keep(t, One(label, f, Empty))
Rebuild(t) == Keep(t, Many("range", Empty, Empty, Forums, {}))
Gathered(t, f, r) ==
    Many(my[t].at, my[t].snap, [my[t].got EXCEPT ![f] = Listed(r)], my[t].left \ {f}, my[t].passed \ {f})

Return(t) ==
    /\ Keep(t, Idle)
    /\ creator' = IF creator = t THEN None ELSE creator

\* A statement that is to change a row, and one that does change that of f.
Execute == writes < MaxWrites /\ writes' = writes + 1
Write(f, stage) ==
    /\ Execute
    /\ rows' = [rows EXCEPT ![f] = [stage |-> stage, ver |-> rows[f].ver + 1]]

Wrong(f) == Known(forums[f]) # Known(rows[f])

\* t will, unless it fails, bring the map's entry of f to what the row is now.
Owes(t, f) ==
    \/ my[t].at \in {"stmt", "fetch"} /\ my[t].f = f /\ Live(rows[f])
    \/ At(t, "put") /\ my[t].f = f /\ my[t].snap[f] = rows[f]
    \/ At(t, "drop") /\ my[t].f = f /\ ~Live(rows[f])
    \/ At(t, "order")
    \/ At(t, "rows") /\ f \in my[t].left /\ Known(my[t].snap[f]) = Known(rows[f])

\* t is on its way to a view that has f as the map has it now.
Shows(t, f) ==
    \/ At(t, "range") /\ f \in my[t].left
    \/ /\ my[t].at \in {"range", "rows"}
       /\ f \notin my[t].left
       /\ my[t].got[f] = Listed(forums[f])

\* The map's entry of f becomes r, by thread t's hand.
SetEntry(t, f, r) ==
    /\ forums' = [forums EXCEPT ![f] = r]
    /\ late' = IF Known(r) = Known(rows[f]) THEN late \ {f}
               ELSE IF \E u \in Threads \ {t} : Owes(u, f) THEN late ELSE late \cup {f}
    /\ behind' = IF Known(r) = Known(rows[f]) THEN behind \ {f} ELSE behind

\* t returns without a reload of the forums in fs.
Abandon(t, fs) ==
    behind' = behind \cup {f \in fs : Wrong(f) /\ ~\E u \in Threads \ {t} : Owes(u, f)}

-----------------------------------------------------------------------------
(* Reads and writes of the table.                                          *)

\* Get of a forum that is not in the map.
GetMiss(t, f) ==
    /\ At(t, "idle") /\ forums[f] = Nothing
    /\ GoOn(t, "fetch", f)
    /\ UNCHANGED <<tables, memory, creator, viewMarks, mapMarks>>

\* BypassGet: a row without a name is as good as none.
Fetch(t) ==
    LET f == my[t].f IN
    /\ At(t, "fetch")
    /\ IF Live(rows[f])
       THEN /\ Keep(t, One("put", f, [Empty EXCEPT ![f] = rows[f]]))
            /\ UNCHANGED creator
       ELSE Return(t)
    /\ UNCHANGED <<tables, memory, viewMarks, mapMarks>>

\* CacheSet, up to the rebuilding of the view.
Put(t) ==
    /\ At(t, "put")
    /\ SetEntry(t, my[t].f, my[t].snap[my[t].f])
    /\ Rebuild(t)
    /\ UNCHANGED <<tables, view, creator, viewMarks>>

\* Create: the insert, which gives out the next ID.
Create(t, f) ==
    /\ At(t, "idle") /\ creator = None
    /\ rows[f].stage = "none"
    /\ \E stage \in {"shown", "hidden"} : Write(f, stage)
    /\ creator' = t
    /\ GoOn(t, "fetch", f)
    /\ UNCHANGED <<memory, viewMarks, mapMarks>>

\* Mutant: the reload is forgotten.
UpdateOnly(t, f) ==
    /\ At(t, "idle")
    /\ rows[f].stage # "none"
    /\ \E stage \in {"shown", "hidden"} : Write(f, stage)
    /\ UNCHANGED <<memory, creator, my, viewMarks, mapMarks>>

\* Update, by somebody the store has answered with the forum some time before:
\* it sets name, active and preset whatever the row has become since.
Update(t, f) ==
    /\ At(t, "idle")
    /\ rows[f].stage # "none"
    /\ \E stage \in {"shown", "hidden"} : Write(f, stage)
    /\ GoOn(t, "fetch", f)
    /\ UNCHANGED <<memory, creator, viewMarks, mapMarks>>

\* UpdateLastTopic and SetPerms write once, AddTopic and RemoveTopic twice.
Touch(t, f) ==
    /\ At(t, "idle")
    /\ rows[f].stage # "none"
    /\ Write(f, rows[f].stage)
    /\ \E label \in {"stmt", "fetch"} : GoOn(t, label, f)
    /\ UNCHANGED <<memory, creator, viewMarks, mapMarks>>

TouchAgain(t) ==
    LET f == my[t].f IN
    /\ At(t, "stmt")
    /\ Write(f, rows[f].stage)
    /\ GoOn(t, "fetch", f)
    /\ UNCHANGED <<memory, creator, viewMarks, mapMarks>>

\* A statement or the reload fails, or RefreshTopic finds nothing to refresh,
\* after the first write: the operation returns.
GiveUp(t) ==
    /\ my[t].at \in {"stmt", "fetch"}
    /\ Return(t)
    /\ Abandon(t, {my[t].f})
    /\ UNCHANGED <<tables, memory, viewMarks, late>>

-----------------------------------------------------------------------------
(* Delete goes on to CacheDelete whether the statement succeeded or not.   *)

Delete(t, f) ==
    /\ At(t, "idle") /\ f # ReportForum
    /\ Execute
    /\ rows' = IF Live(rows[f]) THEN [rows EXCEPT ![f] = [stage |-> "blank", ver |-> rows[f].ver + 1]]
               ELSE rows
    /\ GoOn(t, "drop", f)
    /\ UNCHANGED <<memory, creator, viewMarks, mapMarks>>

DeleteFails(t, f) ==
    /\ At(t, "idle") /\ f # ReportForum
    /\ Execute
    /\ GoOn(t, "drop", f)
    /\ UNCHANGED <<rows, memory, creator, viewMarks, mapMarks>>

\* Mutant: the view is not rebuilt.
CacheDeleteOnly(t) ==
    /\ At(t, "drop")
    /\ SetEntry(t, my[t].f, Nothing)
    /\ Keep(t, Idle)
    /\ UNCHANGED <<tables, view, creator, viewMarks>>

CacheDelete(t) ==
    /\ At(t, "drop")
    /\ SetEntry(t, my[t].f, Nothing)
    /\ Rebuild(t)
    /\ UNCHANGED <<tables, view, creator, viewMarks>>

-----------------------------------------------------------------------------
(* UpdateOrder writes forum by forum, then has LoadForums read them all.   *)

UpdateOrder(t) ==
    /\ At(t, "idle")
    /\ \E fs \in SUBSET {f \in Forums : rows[f].stage # "none"} :
         Keep(t, Many("order", Empty, Empty, fs, {}))
    /\ UNCHANGED <<tables, memory, creator, viewMarks, mapMarks>>

OrderOne(t, f) ==
    /\ At(t, "order") /\ f \in my[t].left
    /\ Write(f, rows[f].stage)
    /\ Keep(t, Many("order", Empty, Empty, my[t].left \ {f}, {}))
    /\ UNCHANGED <<memory, creator, viewMarks, mapMarks>>

\* The first statement that fails ends it, and so does a failing query.
OrderFails(t) ==
    /\ At(t, "order")
    /\ Return(t)
    /\ Abandon(t, Forums)
    /\ UNCHANGED <<tables, memory, viewMarks, late>>

LoadQuery(t) ==
    /\ At(t, "order") /\ my[t].left = {}
    /\ Keep(t, Many("rows", rows, Empty, {f \in Forums : rows[f].stage # "none"}, {}))
    /\ UNCHANGED <<tables, memory, creator, viewMarks, mapMarks>>

LoadRow(t, f) ==
    /\ At(t, "rows") /\ f \in my[t].left
    /\ SetEntry(t, f, my[t].snap[f])
    /\ Keep(t, Gathered(t, f, my[t].snap[f]))
    /\ UNCHANGED <<tables, view, creator, viewMarks>>

\* A row that does not scan: LoadForums returns, and no view is stored.
LoadFails(t) ==
    /\ At(t, "rows") /\ my[t].left # {}
    /\ Return(t)
    /\ Abandon(t, my[t].left)
    /\ cutShort' = cutShort \cup (Forums \ my[t].left)
    /\ UNCHANGED <<tables, memory, overtaken, late>>

-----------------------------------------------------------------------------
(* rebuildView: ranging over the map, entry by entry, and storing.         *)

Range(t, f) ==
    /\ At(t, "range") /\ f \in my[t].left
    /\ Keep(t, Gathered(t, f, forums[f]))
    /\ UNCHANGED <<tables, memory, creator, viewMarks, mapMarks>>

\* forumView.Store, by rebuildView at the end of the range, and by LoadForums
\* when the rows end, all of them read or not.  Whoever else is gathering has now
\* been passed by this view on what it has gathered.
Publish(t) ==
    LET wrong == {f \in Forums : my[t].got[f] # Listed(forums[f])} IN
    /\ At(t, "rows") \/ (At(t, "range") /\ my[t].left = {})
    /\ view' = my[t].got
    /\ overtaken' = (overtaken \cup my[t].passed) \cap wrong
    /\ cutShort' = (cutShort \cup my[t].left) \cap wrong
    /\ my' = [u \in Threads |->
                IF u = t THEN Idle
                ELSE IF my[u].at \in {"range", "rows"} THEN [my[u] EXCEPT !.passed = Forums]
                ELSE my[u]]
    /\ creator' = IF creator = t THEN None ELSE creator
    /\ Abandon(t, my[t].left)
    /\ UNCHANGED <<tables, forums, late>>

-----------------------------------------------------------------------------
Next ==
    \E t \in Threads :
      \/ Fetch(t) \/ Put(t) \/ TouchAgain(t) \/ GiveUp(t)
      \/ CacheDelete(t) \/ UpdateOrder(t) \/ OrderFails(t) \/ LoadQuery(t)
      \/ LoadFails(t) \/ Publish(t)
      \/ \E f \in Forums :
           \/ GetMiss(t, f) \/ Create(t, f) \/ Update(t, f) \/ Touch(t, f)
           \/ Delete(t, f) \/ DeleteFails(t, f)
           \/ OrderOne(t, f) \/ LoadRow(t, f) \/ Range(t, f)

Spec == Init /\ [][Next]_vars

-----------------------------------------------------------------------------
(* Properties.                                                             *)

Locals == [at : Labels, f : Forums \cup {None}, snap : [Forums -> Records],
           got : [Forums -> Records], left : SUBSET Forums, passed : SUBSET Forums]

\* The variables have their types: the table, the map and the view hold
\* records, and a thread is at one of its labels with its locals.
TypeOK ==
    /\ rows \in [Forums -> Records]
    /\ forums \in [Forums -> Records]
    /\ view \in [Forums -> Records]
    /\ creator \in Threads \cup {None}
    /\ my \in [Threads -> Locals]
    /\ writes \in Nat
    /\ overtaken \subseteq Forums /\ cutShort \subseteq Forums
    /\ late \subseteq Forums /\ behind \subseteq Forums

\* forumView is what rebuildView would make of the map now, unless somebody is
\* about to store such a view, an older rebuild was stored after a newer one, or
\* LoadForums ended before its last row.
ViewHasCause ==
    \A f \in Forums : view[f] # Listed(forums[f]) =>
      (\E t \in Threads : Shows(t, f)) \/ f \in overtaken \cup cutShort

\* Get answers from the map what the table says, unless somebody is about to
\* reload or remove the forum, an older read was stored after a newer write, a
\* delete removed a forum that was not deleted, or a writer returned early.
MapHasCause ==
    \A f \in Forums : Wrong(f) =>
      (\E t \in Threads : Owes(t, f)) \/ f \in late \cup behind

\* With nobody in the store, visitors are shown the active forums of the table,
\* none deleted and none missing, but for those four causes.
QuietListsForums ==
    (\A t \in Threads : At(t, "idle")) =>
      \A f \in Forums \ (overtaken \cup cutShort \cup late \cup behind) :
        view[f] = Listed(rows[f])
=============================================================================
