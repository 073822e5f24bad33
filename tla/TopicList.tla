------------------------------ MODULE TopicList ------------------------------
(***************************************************************************)
(* The lists of topics that DefaultTopicList keeps ready for every group   *)
(* and every forum (src/common/topic_list.go), and the thaw counter that   *)
(* says whether they need rebuilding (src/common/thaw.go).                 *)
(*                                                                         *)
(* A change of what a group can see ends in Thaw, which sets the counter   *)
(* to three; most changes of topics do.  Deleting a reply does not         *)
(* (reply.go:143), nor does storing views (counters/topics_views.go:203),  *)
(* and LockMany and CreateActionReply return before it on an error.  The   *)
(* tick loop, one goroutine, counts down once a second and, twice a second,*)
(* rebuilds all lists while the counter is above zero.                     *)
(*                                                                         *)
(* Groups share a list when what they see has the same key, a string with  *)
(* one byte for each forum.  A group that sees a single forum gets the     *)
(* list of that forum, which the same tick rebuilds only afterwards.       *)
(***************************************************************************)
EXTENDS Integers, Sequences, FiniteSets

CONSTANTS
    Writers,      \* goroutines that change topics or permissions
    Groups,       \* IDs of the groups that have users
    Forums,       \* forum IDs
    KeySize,      \* the number of values of a byte
    MaxChanges    \* bound: how many changes are made

ASSUME GroupsAssumption == Groups \subseteq Nat
ASSUME ForumsAssumption == Forums \subseteq Nat /\ IsFiniteSet(Forums)
ASSUME KeySizeAssumption == KeySize \in Nat \ {0}
ASSUME ChangesAssumption == MaxChanges \in Nat

\* Group.CanSee: IDs of forums in ascending order.
CanSees == {s \in UNION {[1..n -> Forums] : n \in 0..Cardinality(Forums)} :
                \A i, j \in DOMAIN s : i < j => s[i] < s[j]}

VARIABLES
    canSee,      \* what each group can see
    version,     \* what the tables with the topics hold
    changes,     \* how many changes were made
    writer,      \* what a writer has changed without reaching Thaw yet
    thawed,      \* the counter
    groupLists,  \* the published lists of the groups
    forumLists,  \* the published lists of the forums: the version each shows
    at,          \* where the tick loop is
    keyOf, tree, \* gidToCanSee and permTree
    built,       \* the lists made in this tick, by key
    fresh,       \* the lists of forums made in this tick
    prior,       \* the count the second tick has read
    promised,    \* history: the version at the last Thaw
    rebuilt,     \* history: was a rebuild finished since the last count down?
    starved,     \* history: was there a count down without a rebuild before it?
    lost         \* history: has a count down overwritten a Thaw?

tickVars == <<keyOf, tree, built, fresh>>
histVars == <<rebuilt, starved, lost>>
writeVars == <<canSee, version, changes, writer, promised>>
vars == <<writeVars, thawed, groupLists, forumLists, at, tickVars, prior, histVars>>

Empty == [x \in {} |-> x]

\* LoadForums has thawed the list before the loop starts.
Init ==
    /\ canSee \in [Groups -> CanSees]
    /\ version = 0
    /\ changes = 0
    /\ writer = [w \in Writers |-> "idle"]
    /\ thawed = 3
    /\ groupLists = Empty
    /\ forumLists = Empty
    /\ at = "wait"
    /\ keyOf = Empty
    /\ tree = Empty
    /\ built = Empty
    /\ fresh = Empty
    /\ prior = 0
    /\ promised = 0
    /\ rebuilt = FALSE
    /\ starved = FALSE
    /\ lost = FALSE

-----------------------------------------------------------------------------
\* Writers.

\* A write to the tables of the topics.
Edit(w) ==
    /\ writer[w] = "idle"
    /\ changes < MaxChanges
    /\ changes' = changes + 1
    /\ version' = version + 1
    /\ writer' = [writer EXCEPT ![w] = "topic"]
    /\ UNCHANGED <<canSee, promised, thawed, groupLists, forumLists, at, tickVars, prior, histVars>>

\* recalcCanSeeAll has worked out what a group can see, and nothing can fail
\* between here and Thaw.
SetCanSee(w, g, s) ==
    /\ writer[w] = "idle"
    /\ changes < MaxChanges
    /\ changes' = changes + 1
    /\ canSee' = [canSee EXCEPT ![g] = s]
    /\ writer' = [writer EXCEPT ![w] = "group"]
    /\ UNCHANGED <<version, promised, thawed, groupLists, forumLists, at, tickVars, prior, histVars>>

\* Mutant: one second less.
ThawShorter(w) ==
    /\ writer[w] # "idle"
    /\ writer' = [writer EXCEPT ![w] = "idle"]
    /\ thawed' = 2
    /\ promised' = version
    /\ UNCHANGED <<canSee, version, changes, groupLists, forumLists, at, tickVars, prior, histVars>>

\* cacheRemove and the others: all changes up to now will be shown.
Thaw(w) ==
    /\ writer[w] # "idle"
    /\ writer' = [writer EXCEPT ![w] = "idle"]
    /\ thawed' = 3
    /\ promised' = version
    /\ UNCHANGED <<canSee, version, changes, groupLists, forumLists, at, tickVars, prior, histVars>>

\* Reply.Delete drops the topic from the cache and nothing else, and so it ends for
\* whoever returns on an error after the write.
Unannounced(w) ==
    /\ writer[w] = "topic"
    /\ writer' = [writer EXCEPT ![w] = "idle"]
    /\ UNCHANGED <<canSee, version, changes, promised, thawed, groupLists, forumLists, at, tickVars,
                   prior, histVars>>

-----------------------------------------------------------------------------
\* DefaultTopicList.Tick, twice a second.

\* byte(item) for every forum.
Key(s) == [i \in DOMAIN s |-> s[i] % KeySize]

\* GetListByCanSee, first page.
ListFor(s) ==
    [sees |-> s,
     shows |-> IF Len(s) = 1 /\ s[1] \in DOMAIN forumLists THEN forumLists[s[1]] ELSE version]

EndTick ==
    /\ at' = "wait"
    /\ keyOf' = Empty
    /\ tree' = Empty
    /\ built' = Empty
    /\ fresh' = Empty

\* Mutant: one canSeeInt, made before the loop, for all groups.
CollectShared ==
    /\ at = "wait"
    /\ thawed > 0
    /\ at' = "lists"
    /\ keyOf' = [g \in Groups |-> Key(canSee[g])]
    /\ \E h \in Groups : tree' = [k \in {Key(canSee[g]) : g \in Groups} |-> canSee[h]]
    /\ UNCHANGED <<writeVars, thawed, groupLists, forumLists, built, fresh, prior, histVars>>

\* Groups with one key overwrite each other in permTree, in any order.
Collect ==
    /\ at = "wait"
    /\ thawed > 0
    /\ at' = "lists"
    /\ keyOf' = [g \in Groups |-> Key(canSee[g])]
    /\ tree' \in {t \in [{Key(canSee[g]) : g \in Groups} -> {canSee[g] : g \in Groups}] :
                      \A k \in DOMAIN t : Key(t[k]) = k}
    /\ UNCHANGED <<writeVars, thawed, groupLists, forumLists, built, fresh, prior, histVars>>

\* Not thawed: nothing to do.
SkipTick ==
    /\ at = "wait"
    /\ thawed = 0
    /\ rebuilt' = TRUE
    /\ UNCHANGED <<writeVars, thawed, groupLists, forumLists, at, tickVars, prior, starved, lost>>

List(k) ==
    /\ at = "lists"
    /\ k \in DOMAIN tree \ DOMAIN built
    /\ built' = [j \in DOMAIN built \cup {k} |-> IF j = k THEN ListFor(tree[k]) ELSE built[j]]
    /\ UNCHANGED <<writeVars, thawed, groupLists, forumLists, at, keyOf, tree, fresh, prior, histVars>>

\* The lists of the groups of one parity; the entries of the others stay.
Published(parity) ==
    [g \in {h \in DOMAIN groupLists : h % 2 # parity} \cup {h \in Groups : h % 2 = parity} |->
        IF g % 2 = parity THEN built[keyOf[g]] ELSE groupLists[g]]

PublishOdd ==
    /\ at = "lists"
    /\ DOMAIN built = DOMAIN tree
    /\ groupLists' = Published(1)
    /\ at' = "even"
    /\ UNCHANGED <<writeVars, thawed, forumLists, tickVars, prior, histVars>>

PublishEven ==
    /\ at = "even"
    /\ groupLists' = Published(0)
    /\ at' = "forums"
    /\ UNCHANGED <<writeVars, thawed, forumLists, tickVars, prior, histVars>>

\* RawGetListByForum, one forum after the other.
ListForum(f) ==
    /\ at = "forums"
    /\ f \in Forums \ DOMAIN fresh
    /\ \A h \in Forums \ DOMAIN fresh : f <= h
    /\ fresh' = [h \in DOMAIN fresh \cup {f} |-> IF h = f THEN version ELSE fresh[h]]
    /\ UNCHANGED <<writeVars, thawed, groupLists, forumLists, at, keyOf, tree, built, prior, histVars>>

\* Mutant: the new lists do not replace old ones.
SetForumListKeepsOld ==
    /\ at = "forums"
    /\ DOMAIN fresh = Forums
    /\ forumLists' = [f \in Forums |-> IF f \in DOMAIN forumLists THEN forumLists[f] ELSE fresh[f]]
    /\ EndTick
    /\ rebuilt' = TRUE
    /\ UNCHANGED <<writeVars, thawed, groupLists, prior, starved, lost>>

SetForumList ==
    /\ at = "forums"
    /\ DOMAIN fresh = Forums
    /\ forumLists' = fresh
    /\ EndTick
    /\ rebuilt' = TRUE
    /\ UNCHANGED <<writeVars, thawed, groupLists, prior, starved, lost>>

\* A query fails and the tick returns with the error.
QueryFails ==
    /\ \/ at = "lists" /\ DOMAIN built # DOMAIN tree
       \/ at = "forums" /\ DOMAIN fresh # Forums
    /\ EndTick
    /\ UNCHANGED <<writeVars, thawed, groupLists, forumLists, prior, histVars>>

-----------------------------------------------------------------------------
\* DefaultThaw.Tick, once a second: the count is read, then stored.

SecRead ==
    /\ at = "wait"
    /\ at' = "sec"
    /\ prior' = thawed
    /\ starved' = (starved \/ (~rebuilt /\ thawed \in 1..2))
    /\ UNCHANGED <<writeVars, thawed, groupLists, forumLists, tickVars, rebuilt, lost>>

\* Mutant: the count down stops one short.
SecStoreStopsAtOne ==
    /\ at = "sec"
    /\ at' = "wait"
    /\ thawed' = IF prior > 1 THEN prior - 1 ELSE thawed
    /\ lost' = (lost \/ (prior > 1 /\ thawed # prior))
    /\ rebuilt' = FALSE
    /\ prior' = 0
    /\ UNCHANGED <<writeVars, groupLists, forumLists, tickVars, starved>>

SecStore ==
    /\ at = "sec"
    /\ at' = "wait"
    /\ thawed' = IF prior > 0 THEN prior - 1 ELSE thawed
    /\ lost' = (lost \/ (prior > 0 /\ thawed # prior))
    /\ rebuilt' = FALSE
    /\ prior' = 0
    /\ UNCHANGED <<writeVars, groupLists, forumLists, tickVars, starved>>

-----------------------------------------------------------------------------
Rebuild ==
    \/ Collect
    \/ SkipTick
    \/ \E k \in DOMAIN tree : List(k)
    \/ PublishOdd
    \/ PublishEven
    \/ \E f \in Forums : ListForum(f)
    \/ SetForumList

Next ==
    \/ \E w \in Writers :
        \/ Edit(w)
        \/ \E g \in Groups, s \in CanSees : SetCanSee(w, g, s)
        \/ Thaw(w)
        \/ Unannounced(w)
    \/ Rebuild
    \/ QueryFails
    \/ SecRead
    \/ SecStore

Spec == Init /\ [][Next]_vars

\* A writer comes to an end, a tick that has begun ends, and the select of the loop,
\* which chooses at random, takes the second tick again and again.
Fairness ==
    /\ \A w \in Writers : WF_vars(Thaw(w) \/ Unannounced(w))
    /\ WF_vars(at # "wait" /\ (Rebuild \/ SecStore))
    /\ SF_vars(SecRead)

FairSpec == Spec /\ Fairness

-----------------------------------------------------------------------------
ListType == [sees : CanSees, shows : 0..version]

\* The type invariant of the topic list: a list is never ahead of the tables, and
\* every group is in the map of its parity or in none.
TypeOK ==
    /\ canSee \in [Groups -> CanSees]
    /\ version \in Nat /\ changes \in Nat
    /\ writer \in [Writers -> {"idle", "topic", "group"}]
    /\ promised \in 0..version
    /\ thawed \in 0..3 /\ prior \in 0..3
    /\ DOMAIN groupLists \subseteq Groups
    /\ \A g \in DOMAIN groupLists : groupLists[g] \in ListType
    /\ DOMAIN forumLists \subseteq Forums
    /\ \A f \in DOMAIN forumLists : forumLists[f] \in 0..version
    /\ at \in {"wait", "lists", "even", "forums", "sec"}
    /\ DOMAIN built \subseteq DOMAIN tree
    /\ \A k \in DOMAIN built : built[k] \in ListType
    /\ DOMAIN fresh \subseteq Forums
    /\ \A f \in DOMAIN fresh : fresh[f] \in 0..version
    /\ rebuilt \in BOOLEAN /\ starved \in BOOLEAN /\ lost \in BOOLEAN

Calm == \A w \in Writers : writer[w] = "idle"

\* No countdown has overwritten a Thaw, when it fell between its read and its
\* store, and none has come without a rebuild before it: one that fails, or a loop
\* that is late, leaves a second without.
Undisturbed == ~lost /\ ~starved

\* Once the counter is at zero every published list shows all changes of topics
\* that a Thaw has followed, whoever made them and whenever the lists were built.
\* Three seconds are just enough: the list of a group that sees one forum needs two
\* rebuilds.  Of a change without a Thaw (Unannounced) nothing is said, and a cold
\* list may be without it until somebody thaws the lists for another reason.
ColdIsCurrent ==
    thawed = 0 /\ Undisturbed => \A g \in DOMAIN groupLists : groupLists[g].shows >= promised

\* The same for the lists of the forums, which one rebuild brings up to date.
ColdForumsCurrent ==
    thawed <= 1 /\ Undisturbed => \A f \in DOMAIN forumLists : forumLists[f] >= promised

\* As many forums, whose IDs end in the same bytes.
SameBytes(s, t) ==
    Len(s) = Len(t) /\ \A i \in DOMAIN s : s[i] % KeySize = t[i] % KeySize

\* The list is of the forums some group sees now, and they are those of g or have
\* the same bytes.
MadeFor(list, g) == \E h \in Groups : list.sees = canSee[h] /\ SameBytes(canSee[h], canSee[g])

\* How far the cut to a byte goes wrong, once the lists are cold: a group is shown
\* forums it cannot see only if another group sees exactly those, as many as the
\* first one does and byte for byte alike.  A group whose forums nobody else's are
\* mistaken for is shown its own.
SharersSeeAlike ==
    thawed = 0 /\ Undisturbed /\ (\A w \in Writers : writer[w] # "group") =>
        \A g \in DOMAIN groupLists : MadeFor(groupLists[g], g)

\* "Decrement the thawed counter once a second until it goes cold": when changes
\* stop, so does the rebuilding, and no writer is still about to thaw the lists.
GoesCold == <>[](Calm /\ thawed = 0)
=============================================================================
