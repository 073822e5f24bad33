--------------------------- MODULE TopicListProofs ---------------------------
(***************************************************************************)
(* A cold topic list shows every change that a Thaw has followed, whatever *)
(* the number of writers, groups and forums; and a group is shown what it  *)
(* can see, or what another group sees that the bytes cannot tell from it. *)
(***************************************************************************)
EXTENDS TopicList, FiniteSetTheorems, TLAPS

USE GroupsAssumption, ForumsAssumption, KeySizeAssumption, ChangesAssumption
USE DEF writeVars, tickVars, histVars, Empty

MidTick == at \in {"lists", "even", "forums"}

\* The maps of a tick fit together, and a countdown has read what the counter
\* still holds, unless a Thaw has set it to three since.
Shape ==
    /\ at = "sec" => thawed \in {prior, 3}
    /\ at \in {"wait", "sec"} => built = Empty /\ fresh = Empty
    /\ MidTick => \A g \in Groups : keyOf[g] \in DOMAIN tree
    /\ \A k \in DOMAIN tree : tree[k] \in CanSees /\ Key(tree[k]) = k
    /\ \A k \in DOMAIN built : built[k].sees = tree[k]
    /\ at \in {"even", "forums"} => DOMAIN built = DOMAIN tree

LEMMA TypeInit == Init => TypeOK /\ Shape
<1> SUFFICES ASSUME Init PROVE TypeOK /\ Shape
  OBVIOUS
<1>1. rebuilt \in BOOLEAN /\ starved \in BOOLEAN /\ lost \in BOOLEAN
  BY DEF Init
<1>2. canSee \in [Groups -> CanSees]
  BY DEF Init
<1>3. writer \in [Writers -> {"idle", "topic", "group"}]
  BY DEF Init
<1>4. Shape
  BY DEF Init, Shape, MidTick
<1>5. /\ version \in Nat /\ changes \in Nat /\ promised \in 0..version /\ thawed \in 0..3 /\ prior \in 0..3
      /\ DOMAIN groupLists = {} /\ DOMAIN forumLists = {}
      /\ DOMAIN built = {} /\ DOMAIN tree = {} /\ DOMAIN fresh = {} /\ at = "wait"
  BY DEF Init
<1> QED BY <1>1, <1>2, <1>3, <1>4, <1>5 DEF TypeOK

\* The list made for a set of forums names them and is not ahead of the tables.
LEMMA ListForType ==
    ASSUME TypeOK, NEW s \in CanSees
    PROVE  ListFor(s) \in ListType /\ ListFor(s).sees = s
BY DEF TypeOK, ListFor, ListType

\* The histories are Booleans.
LEMMA HistStep ==
    ASSUME TypeOK, [Next]_vars
    PROVE  rebuilt' \in BOOLEAN /\ starved' \in BOOLEAN /\ lost' \in BOOLEAN
<1>1. rebuilt' \in {rebuilt, TRUE, FALSE}
  BY DEF Next, Edit, SetCanSee, Thaw, Unannounced, Rebuild, Collect, SkipTick, List, PublishOdd, PublishEven,
         ListForum, SetForumList, QueryFails, SecRead, SecStore, vars
<1>2. starved' = starved \/ starved' \in BOOLEAN
  BY DEF Next, Edit, SetCanSee, Thaw, Unannounced, Rebuild, Collect, SkipTick, List, PublishOdd, PublishEven,
         ListForum, SetForumList, QueryFails, SecRead, SecStore, vars
<1>3. lost' = lost \/ lost' \in BOOLEAN
  BY DEF Next, Edit, SetCanSee, Thaw, Unannounced, Rebuild, Collect, SkipTick, List, PublishOdd, PublishEven,
         ListForum, SetForumList, QueryFails, SecRead, SecStore, vars
<1>4. rebuilt \in BOOLEAN /\ starved \in BOOLEAN /\ lost \in BOOLEAN
  BY DEF TypeOK
<1> QED BY <1>1, <1>2, <1>3, <1>4, Zenon

LEMMA TypeStep == TypeOK /\ Shape /\ [Next]_vars => TypeOK' /\ Shape'
<1> SUFFICES ASSUME TypeOK, Shape, [Next]_vars PROVE TypeOK' /\ Shape'
  OBVIOUS
<1> DEFINE Data ==
      /\ canSee \in [Groups -> CanSees]
      /\ version \in Nat /\ changes \in Nat /\ promised \in 0..version
      /\ writer \in [Writers -> {"idle", "topic", "group"}]
      /\ thawed \in 0..3 /\ prior \in 0..3
      /\ DOMAIN groupLists \subseteq Groups
      /\ \A g \in DOMAIN groupLists : groupLists[g] \in ListType
      /\ DOMAIN forumLists \subseteq Forums
      /\ \A f \in DOMAIN forumLists : forumLists[f] \in 0..version
      /\ at \in {"wait", "lists", "even", "forums", "sec"}
      /\ DOMAIN built \subseteq DOMAIN tree
      /\ \A k \in DOMAIN built : built[k] \in ListType
      /\ DOMAIN fresh \subseteq Forums
      /\ \A f \in DOMAIN fresh : fresh[f] \in 0..version
<1>d. Data
  BY DEF TypeOK
<1>0. SUFFICES Data' /\ Shape'
  BY HistStep DEF TypeOK
<1> DEFINE Goal == Data' /\ Shape'
<1>1. ASSUME NEW w \in Writers, Edit(w) PROVE Goal
  BY <1>1, <1>d DEF Edit, Shape, MidTick, ListType
<1>2. ASSUME NEW w \in Writers, NEW g \in Groups, NEW s \in CanSees, SetCanSee(w, g, s) PROVE Goal
  BY <1>2, <1>d DEF SetCanSee, Shape, MidTick, ListType
<1>3. ASSUME NEW w \in Writers, Thaw(w) PROVE Goal
  BY <1>3, <1>d DEF Thaw, Shape, MidTick, ListType
<1>15. ASSUME NEW w \in Writers, Unannounced(w) PROVE Goal
  BY <1>15, <1>d DEF Unannounced, Shape, MidTick, ListType
<1>4. CASE Collect
  <2>1. \A g \in Groups : keyOf'[g] \in DOMAIN tree'
    BY <1>4 DEF Collect
  <2>2. \A k \in DOMAIN tree' : tree'[k] \in CanSees /\ Key(tree'[k]) = k
    BY <1>4, <1>d DEF Collect
  <2>3. built = Empty /\ fresh = Empty
    BY <1>4 DEF Collect, Shape
  <2> QED BY <1>4, <1>d, <2>1, <2>2, <2>3 DEF Collect, Shape, MidTick, ListType
<1>5. CASE SkipTick
  BY <1>5, <1>d DEF SkipTick, Shape, MidTick, ListType
<1>6. ASSUME NEW k \in DOMAIN tree, List(k) PROVE Goal
  <2>1. ListFor(tree[k]) \in ListType /\ ListFor(tree[k]).sees = tree[k]
    BY ListForType DEF Shape
  <2>2. DOMAIN built' = DOMAIN built \cup {k}
    BY <1>6 DEF List
  <2>3. \A j \in DOMAIN built' : built'[j] = IF j = k THEN ListFor(tree[k]) ELSE built[j]
    BY <1>6 DEF List
  <2>4. \A j \in DOMAIN built' : built'[j] \in ListType /\ built'[j].sees = tree[j]
    BY <2>1, <2>2, <2>3, <1>d DEF Shape
  <2>5. /\ UNCHANGED <<writeVars, thawed, groupLists, forumLists, at, keyOf, tree, fresh, prior>>
        /\ at = "lists"
    BY <1>6 DEF List
  <2>6. DOMAIN built' \subseteq DOMAIN tree'
    BY <2>2, <2>5, <1>d
  <2> HIDE DEF Key
  <2>7. Data'
    BY <2>4, <2>5, <2>6, <1>d DEF ListType
  <2>8. Shape'
    BY <2>4, <2>5, <2>6 DEF Shape, MidTick
  <2> QED BY <2>7, <2>8
<1>7. CASE PublishOdd
  <2>1. \A g \in DOMAIN groupLists' : g \in Groups /\ groupLists'[g] \in ListType
    <3>1. \A g \in Groups : keyOf[g] \in DOMAIN built
      BY <1>7 DEF PublishOdd, Shape, MidTick
    <3> QED BY <1>7, <1>d, <3>1 DEF PublishOdd, Published
  <2> QED BY <1>7, <1>d, <2>1 DEF PublishOdd, Shape, MidTick, ListType
<1>8. CASE PublishEven
  <2>1. \A g \in DOMAIN groupLists' : g \in Groups /\ groupLists'[g] \in ListType
    <3>1. \A g \in Groups : keyOf[g] \in DOMAIN built
      BY <1>8 DEF PublishEven, Shape, MidTick
    <3> QED BY <1>8, <1>d, <3>1 DEF PublishEven, Published
  <2> QED BY <1>8, <1>d, <2>1 DEF PublishEven, Shape, MidTick, ListType
<1>9. ASSUME NEW f \in Forums, ListForum(f) PROVE Goal
  BY <1>9, <1>d DEF ListForum, Shape, MidTick, ListType
<1>10. CASE SetForumList
  BY <1>10, <1>d DEF SetForumList, EndTick, Shape, MidTick, ListType
<1>11. CASE QueryFails
  BY <1>11, <1>d DEF QueryFails, EndTick, Shape, MidTick, ListType
<1>12. CASE SecRead
  BY <1>12, <1>d DEF SecRead, Shape, MidTick, ListType
<1>13. CASE SecStore
  BY <1>13, <1>d DEF SecStore, Shape, MidTick, ListType
<1>14. CASE UNCHANGED vars
  BY <1>14, <1>d DEF vars, Shape, MidTick, ListType
<1> QED BY <1>1, <1>2, <1>3, <1>4, <1>5, <1>6, <1>7, <1>8, <1>9, <1>10, <1>11, <1>12,
           <1>13, <1>14, <1>15 DEF Next, Rebuild

\* The lists are never ahead of the tables and every map keeps its shape.
THEOREM TypeCorrect == Spec => []TypeOK
BY TypeInit, TypeStep, PTL DEF Spec

-----------------------------------------------------------------------------
\* Whatever a group can see has been followed by a Thaw.
Announced == \A w \in Writers : writer[w] # "group"

\* What a list of g that was begun after the last Thaw is like.
Right(list, g) == list.shows >= promised /\ (Announced => MadeFor(list, g))

\* After the first rebuild that follows the last Thaw the forum lists are current,
\* after the second one the lists of the groups are.
OneRebuild == thawed <= 1 \/ (thawed = 2 /\ rebuilt)
TwoRebuilds == thawed = 0 \/ (thawed = 1 /\ rebuilt)

\* What a tick that began after the last Thaw has gathered so far: it knows what
\* the groups see, and its forum lists show what was promised.
Gathered ==
    thawed <= 2 =>
        /\ MidTick /\ Announced => \A g \in Groups : keyOf[g] = Key(canSee[g])
        /\ MidTick /\ Announced => \A k \in DOMAIN tree : \E h \in Groups : tree[k] = canSee[h]
        /\ \A f \in DOMAIN fresh : fresh[f] >= promised

Listed ==
    thawed <= 1 =>
        /\ \A k \in DOMAIN built : built[k].shows >= promised
        /\ at = "even" => \A g \in DOMAIN groupLists : g % 2 = 1 => Right(groupLists[g], g)
        /\ at = "forums" => \A g \in DOMAIN groupLists : Right(groupLists[g], g)

Progress ==
    Undisturbed =>
        /\ OneRebuild => \A f \in DOMAIN forumLists : forumLists[f] >= promised
        /\ TwoRebuilds => \A g \in DOMAIN groupLists : Right(groupLists[g], g)
        /\ Gathered
        /\ Listed

\* A count down that is about to store has found a rebuild behind it.
Counted == at = "sec" /\ prior \in 1..2 /\ ~starved => rebuilt

IInv == TypeOK /\ Shape /\ Counted /\ Progress

LEMMA CountedInit == Init => Counted
BY DEF Init, Counted

LEMMA CountedStep == ASSUME TypeOK, Counted, [Next]_vars PROVE Counted'
<1> SUFFICES ASSUME at' = "sec", prior' \in 1..2, ~starved' PROVE rebuilt'
  BY DEF Counted
<1>1. CASE SecRead
  BY <1>1 DEF SecRead
<1>2. ASSUME at = "sec", UNCHANGED <<prior, rebuilt, starved>> PROVE rebuilt'
  BY <1>2 DEF Counted
<1>3. ASSUME at' = at, UNCHANGED <<prior, rebuilt, starved>> PROVE rebuilt'
  BY <1>3, <1>2
<1> QED BY <1>1, <1>3 DEF Next, Edit, SetCanSee, Thaw, Unannounced, Rebuild, Collect, SkipTick, List,
       PublishOdd, PublishEven, ListForum, SetForumList, QueryFails, EndTick, SecStore, vars

LEMMA ProgressInit == Init => Progress
BY DEF Init, Progress, Undisturbed, OneRebuild, TwoRebuilds, Gathered, Listed, MidTick

\* The histories only ever turn true.
LEMMA SoundBefore ==
    ASSUME TypeOK, [Next]_vars, ~lost', ~starved'
    PROVE  ~lost /\ ~starved
<1>1. lost => lost'
  BY DEF Next, Edit, SetCanSee, Thaw, Unannounced, Rebuild, Collect, SkipTick, List, PublishOdd, PublishEven,
         ListForum, SetForumList, QueryFails, SecRead, SecStore, vars
<1>2. starved => starved'
  BY DEF Next, Edit, SetCanSee, Thaw, Unannounced, Rebuild, Collect, SkipTick, List, PublishOdd, PublishEven,
         ListForum, SetForumList, QueryFails, SecRead, SecStore, vars
<1> QED BY <1>1, <1>2

\* Lists of one length and equal keys are of forums with the same bytes.
LEMMA KeyIsBytes ==
    ASSUME NEW s \in CanSees, NEW t \in CanSees, Key(s) = Key(t)
    PROVE  SameBytes(s, t)
<1>1. PICK m \in Nat, n \in Nat : s \in [1..m -> Forums] /\ t \in [1..n -> Forums]
  BY FS_CardinalityType DEF CanSees
<1>2. DOMAIN Key(s) = 1..m /\ DOMAIN Key(t) = 1..n
  BY <1>1 DEF Key
<1>3. 1..m = 1..n
  BY <1>2
<1>4. m = n
  BY <1>3
<1>5. Len(s) = m /\ Len(t) = n
  BY <1>1
<1>6. ASSUME NEW i \in 1..m PROVE s[i] % KeySize = t[i] % KeySize
  <2>1. Key(s)[i] = s[i] % KeySize /\ Key(t)[i] = t[i] % KeySize
    BY <1>1, <1>4 DEF Key
  <2> QED BY <2>1
<1> QED BY <1>1, <1>4, <1>5, <1>6 DEF SameBytes

LEMMA ProgressStep == ASSUME IInv, [Next]_vars PROVE Progress'
<1>t. TypeOK /\ Shape /\ Counted /\ Progress
  BY DEF IInv
<1> DEFINE Goal == /\ OneRebuild' => \A f \in DOMAIN forumLists' : forumLists'[f] >= promised'
                   /\ TwoRebuilds' => \A g \in DOMAIN groupLists' : Right(groupLists[g], g)'
                   /\ Gathered'
                   /\ Listed'
<1> SUFFICES ASSUME Undisturbed' PROVE Goal
  BY DEF Progress
<1>h. ~lost /\ ~starved /\ ~lost' /\ ~starved'
  BY <1>t, SoundBefore DEF Undisturbed
<1>s. /\ OneRebuild => \A f \in DOMAIN forumLists : forumLists[f] >= promised
      /\ TwoRebuilds => \A g \in DOMAIN groupLists : Right(groupLists[g], g)
      /\ Gathered
      /\ Listed
  BY <1>t, <1>h DEF Progress, Undisturbed
\* A change of a topic is not promised yet, and one of a group not announced.
<1>1. ASSUME NEW w \in Writers, Edit(w) PROVE Goal
  <2>1. /\ UNCHANGED <<canSee, promised, thawed, groupLists, forumLists, at, tickVars, rebuilt>>
        /\ Announced' = Announced
    BY <1>1, <1>t DEF Edit, Announced, TypeOK
  <2> QED BY <2>1, <1>s DEF OneRebuild, TwoRebuilds, Gathered, Listed, MidTick, Right, MadeFor
<1>2. ASSUME NEW w \in Writers, NEW g \in Groups, NEW s \in CanSees, SetCanSee(w, g, s) PROVE Goal
  <2>1. /\ UNCHANGED <<promised, thawed, groupLists, forumLists, at, tickVars, rebuilt>>
        /\ ~Announced'
    BY <1>2, <1>t DEF SetCanSee, Announced, TypeOK
  <2> QED BY <2>1, <1>s DEF OneRebuild, TwoRebuilds, Gathered, Listed, MidTick, Right
\* Everything is about counters below three, and a Thaw sets three.
<1>3. ASSUME NEW w \in Writers, Thaw(w) PROVE Goal
  BY <1>3 DEF Thaw, OneRebuild, TwoRebuilds, Gathered, Listed
<1>15. ASSUME NEW w \in Writers, Unannounced(w) PROVE Goal
  <2>1. /\ UNCHANGED <<canSee, promised, thawed, groupLists, forumLists, at, tickVars, rebuilt>>
        /\ Announced' = Announced
    BY <1>15, <1>t DEF Unannounced, Announced, TypeOK
  <2> QED BY <2>1, <1>s DEF OneRebuild, TwoRebuilds, Gathered, Listed, MidTick, Right, MadeFor
\* The steps of the loop leave the writers alone.
<1>u. ASSUME UNCHANGED writeVars, NEW x, NEW g PROVE Right(x, g)' = Right(x', g)
  BY <1>u DEF Right, MadeFor, SameBytes, Announced
<1>a. ASSUME UNCHANGED writeVars PROVE Announced' = Announced
  BY <1>a DEF Announced
<1>q. ASSUME UNCHANGED <<writeVars, groupLists>>, NEW g
      PROVE  Right(groupLists[g], g)' = Right(groupLists[g], g)
  BY <1>q DEF Right, MadeFor, SameBytes, Announced
<1> HIDE DEF Key
<1>4. CASE Collect
  BY <1>4, <1>t, <1>s DEF Collect, OneRebuild, TwoRebuilds, Gathered, Listed, MidTick, Right, MadeFor, SameBytes, Announced, Shape
<1>5. CASE SkipTick
  BY <1>5, <1>t, <1>s DEF SkipTick, OneRebuild, TwoRebuilds, Gathered, Listed, MidTick, Right, MadeFor, SameBytes, Announced, TypeOK
<1>6. ASSUME NEW k \in DOMAIN tree, List(k) PROVE Goal
  <2>0. UNCHANGED <<writeVars, thawed, rebuilt, groupLists, forumLists, at, keyOf, tree, fresh>>
    BY <1>6 DEF List
  <2>1. thawed <= 1 => ListFor(tree[k]).shows >= promised
    BY <2>0, <1>s, <1>t DEF ListFor, OneRebuild, TypeOK
  <2>2. thawed <= 1 => \A j \in DOMAIN built' : built'[j].shows >= promised
    BY <1>6, <2>0, <2>1, <1>s DEF List, Listed
  <2> QED BY <2>0, <2>2, <1>s, <1>6, <1>a, <1>q DEF List, OneRebuild, TwoRebuilds, Gathered, Listed, MidTick
\* What has been gathered is current as soon as the forum lists are.
<1>b. ASSUME MidTick, DOMAIN built = DOMAIN tree, UNCHANGED writeVars, thawed <= 1,
             NEW g \in Groups
      PROVE  Right(built[keyOf[g]], g)
  <2>1. thawed <= 2
    BY <1>b, <1>t DEF TypeOK
  <2>2. keyOf[g] \in DOMAIN built /\ built[keyOf[g]].sees = tree[keyOf[g]]
    BY <1>b, <1>t DEF Shape
  <2>3. built[keyOf[g]].shows >= promised
    BY <2>2, <1>b, <1>s DEF Listed
  <2>4. ASSUME Announced PROVE MadeFor(built[keyOf[g]], g)
    <3>1. keyOf[g] = Key(canSee[g]) /\ keyOf[g] \in DOMAIN tree
      BY <2>1, <2>2, <2>4, <1>b, <1>s DEF Gathered
    <3>2. PICK h \in Groups : tree[keyOf[g]] = canSee[h]
      BY <2>1, <2>2, <2>4, <1>b, <1>s DEF Gathered
    <3>3. Key(canSee[h]) = Key(canSee[g]) /\ canSee[h] \in CanSees /\ canSee[g] \in CanSees
      BY <3>1, <3>2, <1>t DEF Shape, TypeOK
    <3>4. SameBytes(canSee[h], canSee[g])
      BY <3>3, KeyIsBytes
    <3> QED BY <2>2, <3>2, <3>4 DEF MadeFor
  <2> QED BY <2>3, <2>4 DEF Right
<1>7. CASE PublishOdd
  <2>0. /\ UNCHANGED <<writeVars, thawed, rebuilt, forumLists, keyOf, tree, built, fresh>>
        /\ at = "lists" /\ at' = "even" /\ DOMAIN built = DOMAIN tree
        /\ groupLists' = Published(1)
    BY <1>7 DEF PublishOdd
  <2>1. ASSUME thawed <= 1, NEW g \in DOMAIN groupLists', g % 2 = 1 PROVE Right(groupLists'[g], g)
    <3>1. g \in Groups /\ groupLists'[g] = built[keyOf[g]]
      BY <2>0, <2>1, <1>t DEF Published, TypeOK
    <3> QED BY <3>1, <2>0, <2>1, <1>b DEF MidTick
  <2>2. ASSUME TwoRebuilds, NEW g \in DOMAIN groupLists' PROVE Right(groupLists'[g], g)
    <3>1. CASE g % 2 = 1
      BY <3>1, <2>1, <2>2, <1>t DEF TwoRebuilds, TypeOK
    <3>2. CASE g % 2 # 1
      <4>1. g \in DOMAIN groupLists /\ groupLists'[g] = groupLists[g]
        BY <3>2, <2>0, <2>2 DEF Published
      <4> QED BY <4>1, <2>0, <2>2, <1>s
    <3> QED BY <3>1, <3>2
  <2>3. \A g \in DOMAIN groupLists' : Right(groupLists'[g], g) = Right(groupLists[g], g)'
    BY <2>0, <1>u
  <2> QED BY <2>0, <2>1, <2>2, <2>3, <1>s DEF OneRebuild, TwoRebuilds, Gathered, Listed, MidTick, Announced
<1>8. CASE PublishEven
  <2>0. /\ UNCHANGED <<writeVars, thawed, rebuilt, forumLists, keyOf, tree, built, fresh>>
        /\ at = "even" /\ at' = "forums" /\ DOMAIN built = DOMAIN tree
        /\ groupLists' = Published(0)
    BY <1>8, <1>t DEF PublishEven, Shape
  <2>1. ASSUME thawed <= 1, NEW g \in DOMAIN groupLists' PROVE Right(groupLists'[g], g)
    <3>1. CASE g % 2 = 0
      <4>1. g \in Groups /\ groupLists'[g] = built[keyOf[g]]
        BY <2>0, <2>1, <3>1, <1>t DEF Published, TypeOK
      <4> QED BY <4>1, <2>0, <2>1, <1>b DEF MidTick
    <3>2. CASE g % 2 # 0
      <4>1. g \in DOMAIN groupLists /\ groupLists'[g] = groupLists[g]
        BY <3>2, <2>0, <2>1 DEF Published
      <4>2. g \in Nat
        BY <4>1, <1>t DEF TypeOK
      <4>3. g % 2 = 1
        BY <4>2, <3>2
      <4> QED BY <4>1, <4>3, <2>0, <2>1, <1>s DEF Listed
    <3> QED BY <3>1, <3>2
  <2>2. TwoRebuilds => thawed <= 1
    BY DEF TwoRebuilds
  <2>3. \A g \in DOMAIN groupLists' : Right(groupLists'[g], g) = Right(groupLists[g], g)'
    BY <2>0, <1>u
  <2> QED BY <2>0, <2>1, <2>2, <2>3, <1>s DEF OneRebuild, TwoRebuilds, Gathered, Listed, MidTick, Announced
<1>9. ASSUME NEW f \in Forums, ListForum(f) PROVE Goal
  <2>1. /\ UNCHANGED <<writeVars, thawed, rebuilt, groupLists, forumLists, at, keyOf, tree, built>>
        /\ at = "forums"
    BY <1>9 DEF ListForum
  <2>2. thawed <= 2 => \A h \in DOMAIN fresh' : fresh'[h] >= promised
    BY <1>9, <1>s, <1>t DEF ListForum, Gathered, TypeOK
  <2>3. Gathered'
    BY <2>1, <2>2, <1>s, <1>a DEF Gathered, MidTick
  <2>4. Listed'
    BY <2>1, <1>s, <1>q DEF Listed
  <2> QED BY <2>1, <2>3, <2>4, <1>s, <1>q DEF OneRebuild, TwoRebuilds
<1>10. CASE SetForumList
  BY <1>10, <1>s, <1>t DEF SetForumList, EndTick, OneRebuild, TwoRebuilds, Gathered, Listed, MidTick, Right, MadeFor, SameBytes, Announced, TypeOK
<1>11. CASE QueryFails
  BY <1>11, <1>s DEF QueryFails, EndTick, OneRebuild, TwoRebuilds, Gathered, Listed, MidTick, Right, MadeFor, SameBytes, Announced
<1>12. CASE SecRead
  BY <1>12, <1>s, <1>t DEF SecRead, OneRebuild, TwoRebuilds, Gathered, Listed, MidTick, Right, MadeFor, SameBytes, Announced, Shape
\* A count down that was not disturbed has found a rebuild.
<1>13. CASE SecStore
  <2>1. prior > 0 => thawed = prior /\ thawed' = prior - 1
    BY <1>13, <1>h DEF SecStore
  <2>2. prior \in 1..2 => rebuilt
    BY <1>13, <1>t, <1>h DEF SecStore, Counted
  <2>3. prior = 0 => thawed' = thawed /\ thawed \in {0, 3}
    BY <1>13, <1>t DEF SecStore, Shape
  <2>4. prior \in 0..3 /\ thawed \in 0..3 /\ ~rebuilt'
    BY <1>13, <1>t DEF SecStore, TypeOK
  <2>5. OneRebuild' => OneRebuild
    BY <2>1, <2>2, <2>3, <2>4 DEF OneRebuild
  <2>6. TwoRebuilds' => TwoRebuilds
    BY <2>1, <2>2, <2>3, <2>4 DEF TwoRebuilds
  <2>7. built' = Empty /\ fresh' = Empty /\ at' = "wait"
    BY <1>13, <1>t DEF SecStore, Shape
  <2> QED BY <1>13, <1>s, <2>5, <2>6, <2>7 DEF SecStore, Gathered, Listed, MidTick, Right, MadeFor, SameBytes, Announced
<1>14. CASE UNCHANGED vars
  BY <1>14, <1>s DEF vars, OneRebuild, TwoRebuilds, Gathered, Listed, MidTick, Right, MadeFor, SameBytes, Announced
<1> QED BY <1>1, <1>2, <1>3, <1>4, <1>5, <1>6, <1>7, <1>8, <1>9, <1>10, <1>11, <1>12,
           <1>13, <1>14, <1>15 DEF Next, Rebuild

LEMMA InvAlways == Spec => []IInv
<1>1. Init => IInv
  BY TypeInit, CountedInit, ProgressInit DEF IInv
<1>2. IInv /\ [Next]_vars => IInv'
  BY TypeStep, CountedStep, ProgressStep DEF IInv
<1> QED BY <1>1, <1>2, PTL DEF Spec

\* Once the counter is at zero every published list of a group shows what a Thaw has
\* promised, unless a Thaw was lost or a second passed without a rebuild.
THEOREM ColdIsCurrentAlways == Spec => []ColdIsCurrent
<1>1. IInv => ColdIsCurrent
  BY DEF IInv, Progress, TwoRebuilds, ColdIsCurrent, Right
<1> QED BY <1>1, InvAlways, PTL

\* The lists of the forums are current one count earlier.
THEOREM ColdForumsCurrentAlways == Spec => []ColdForumsCurrent
<1>1. IInv => ColdForumsCurrent
  BY DEF IInv, Progress, OneRebuild, ColdForumsCurrent
<1> QED BY <1>1, InvAlways, PTL

\* Whatever the IDs of the forums and the size of a byte, a cold list of a group is
\* of its own forums, or of those of another group that look the same byte for byte.
THEOREM SharersSeeAlikeAlways == Spec => []SharersSeeAlike
<1>1. IInv => SharersSeeAlike
  BY DEF IInv, Progress, TwoRebuilds, SharersSeeAlike, Right, Announced
<1> QED BY <1>1, InvAlways, PTL
=============================================================================
