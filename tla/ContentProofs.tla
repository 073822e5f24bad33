---------------------------- MODULE ContentProofs ----------------------------
(***************************************************************************)
(* What holds of Content for every set of threads, forums, topics, replies *)
(* and users and every bound: the types, why a reply or a like may have    *)
(* lost what it belongs to, why a cached reply may have no row, and when   *)
(* the counts kept beside the rows are right.                              *)
(***************************************************************************)
EXTENDS Content, FiniteSetTheorems, TLAPS

\* The labels by what the thread has in hand.
OfTopic == {"enter", "held", "moved", "leave", "unlike", "liked", "sweep"}
OfDeleted == {"leave", "unlike", "liked", "sweep"}
OfReply == {"reply", "set", "uncount", "forget", "drop"}
OfItem == {"like", "count", "discount", "purge"}

\* What has a row has been given out, and so has the topic of a reply.
GivenOut ==
    /\ \A t \in Topics \cap alive : forum[t] # None
    /\ \A r \in Replies : home[r] # None => forum[home[r]] # None

\* What a thread has in hand fits where it is.  A topic ID is given out once, so
\* a topic that somebody is deleting does not come back.
InHand ==
    \A th \in Threads :
      /\ my[th].at \in OfTopic => my[th].item \in Topics /\ forum[my[th].item] # None
      /\ my[th].at \in {"enter", "held", "leave"} => my[th].forum \in Forums
      /\ my[th].at \in OfDeleted => my[th].item \notin alive
      /\ my[th].at \in OfReply => my[th].item \in Replies
      /\ my[th].at \in OfItem => my[th].item \in Items
      /\ my[th].at = "like" => my[th].user \in Users /\ my[th].n \in 0 .. MaxOps
      /\ \A row \in my[th].todo : forum[row[1]] # None

Shape == TypeOK /\ GivenOut /\ InHand

\* TypeOK by parts.
RowTypes ==
    /\ alive \subseteq Items
    /\ forum \in [Topics -> Forums \cup {None}]
    /\ home \in [Replies -> Topics \cup {None}]
    /\ postCount \in [Topics -> Int] /\ topicCount \in [Forums -> Int]
    /\ likes \subseteq Items \X Users \X (0 .. MaxOps)
    /\ likeCount \in [Items -> Int]
    /\ cached \subseteq Replies /\ kept \subseteq Replies
LocalTypes ==
    /\ my \in [Threads -> Locals]
    /\ boot \in [at : {"up", "orphans", "forums"}, left : SUBSET (Replies \cup Forums)]
    /\ ops \in 0 .. MaxOps /\ restarts \in 0 .. MaxRestarts
MarkTypes ==
    /\ lost \in [posts : SUBSET (Topics \cup {None}), likes : SUBSET (Items \cup {None}),
                 topics : SUBSET (Forums \cup {None})]
    /\ stray \in [replies : SUBSET Replies, likes : SUBSET Items]
    /\ raced \subseteq Items \X Users

\* A reply without a topic, and a like of nothing: the two halves of StraysHaveCause.
RepliesHaveCause ==
    \A r \in Replies \cap alive : home[r] \notin alive =>
      r \in stray.replies \/ \E th \in Threads : Sweeps(th, home[r])
LikesHaveCause ==
    \A l \in likes : l[1] \notin alive =>
      l[1] \in stray.likes \/ \E th \in Threads : Drops(th, l[1])

\* The inductive invariant.
IInv ==
    /\ RowTypes /\ LocalTypes /\ MarkTypes
    /\ GivenOut /\ InHand
    /\ RepliesHaveCause /\ LikesHaveCause
    /\ CachedReplyHasTopic

-----------------------------------------------------------------------------

\* Any content the program may start with has the shape.
LEMMA InitShape == Init => Shape
<1> SUFFICES ASSUME Init PROVE Shape
  OBVIOUS
<1>1. IsFiniteSet(Topics) /\ IsFiniteSet(Replies)
  BY FiniteAssumption, FS_Subset, Topics \subseteq Items, Replies \subseteq Items DEF Items
<1>2. \A t \in Topics : Cardinality(RepliesOf(t)) \in Nat
  BY <1>1, FS_Subset, FS_CardinalityType DEF RepliesOf
<1>3. \A f \in Forums : Cardinality(TopicsOf(f)) \in Nat
  BY <1>1, FS_Subset, FS_CardinalityType DEF TopicsOf
<1>4. IsFiniteSet(likes)
  <2> DEFINE pairs == Items \X Users
             first == [p \in pairs |-> <<p[1], p[2], 0>>]
  <2>1. IsFiniteSet(pairs)
    BY FiniteAssumption, FS_Product
  <2>2. IsFiniteSet({first[p] : p \in pairs})
    <3>1. first \in Surjection(pairs, {first[p] : p \in pairs})
      BY DEF Surjection
    <3> QED BY <2>1, <3>1, FS_Surjection
  <2>3. Items \X Users \X {0} \subseteq {first[p] : p \in pairs}
    <3> SUFFICES ASSUME NEW i \in Items, NEW u \in Users
                 PROVE <<i, u, 0>> \in {first[p] : p \in pairs}
      OBVIOUS
    <3>1. <<i, u>> \in pairs /\ first[<<i, u>>] = <<i, u, 0>>
      OBVIOUS
    <3> QED BY <3>1
  <2> QED BY <2>2, <2>3, FS_Subset DEF Init
<1>5. \A i \in Items : Cardinality(LikesOf(i)) \in Nat
  BY <1>4, FS_Subset, FS_CardinalityType DEF LikesOf
<1>6. TypeOK
  BY <1>2, <1>3, <1>5, BoundAssumption
  DEF Init, TypeOK, Items, Idle, Do, Local, Up, Locals, Labels, NoLosses, NoStrays
<1>7. GivenOut /\ InHand
  BY NoneAssumption DEF Init, GivenOut, InHand, Idle, Do, Local, Items, OfTopic,
     OfDeleted, OfReply, OfItem
<1> QED BY <1>6, <1>7 DEF Shape

\* IInv by the properties it is made of.
LEMMA Split == IInv <=> Shape /\ StraysHaveCause /\ CachedReplyHasTopic
BY DEF IInv, Shape, TypeOK, RowTypes, LocalTypes, MarkTypes, StraysHaveCause,
       RepliesHaveCause, LikesHaveCause

\* A step of one thread keeps the types of the locals.
LEMMA KeepTyped ==
    ASSUME LocalTypes, NEW th \in Threads, NEW x \in Locals, my' = [my EXCEPT ![th] = x],
           UNCHANGED <<boot, ops, restarts>>
    PROVE  LocalTypes'
BY DEF LocalTypes

\* A thread that is done with its item has returned or goes on with its walk.
Resumes(th, x) ==
    /\ x \in Locals /\ my' = [my EXCEPT ![th] = x]
    /\ x.at \in {"idle", "posts", "posted"} /\ x.todo \subseteq my[th].todo

LEMMA WalkType ==
    ASSUME NEW replies \in SUBSET Replies
    PROVE  Walk(replies) \in Locals /\ Walk(replies).at \in {"idle", "posted"} /\ Walk(replies).todo = {}
<1>1. Idle \in Locals /\ Idle.at = "idle" /\ Idle.todo = {}
  BY DEF Idle, Do, Local, Locals, Labels
<1> DEFINE x == [Idle EXCEPT !.at = "posted", !.walk = "posted", !.left = replies]
<1>2. x \in Locals /\ x.at = "posted" /\ x.todo = {}
  BY <1>1 DEF Locals, Labels
<1>3. Walk(replies) \in {Idle, x}
  BY DEF Walk
<1> HIDE DEF x
<1> QED BY <1>1, <1>2, <1>3

LEMMA PostsType ==
    ASSUME NEW todo \in SUBSET (Topics \X Forums \X Int),
           NEW owed \in SUBSET (Topics \X Forums)
    PROVE  /\ Posting(todo, owed) \in Locals
           /\ Posting(todo, owed).at = "posts" /\ Posting(todo, owed).todo = todo
<1> DEFINE rows == SUBSET (Topics \X Forums \X Int)
           pairs == SUBSET (Topics \X Forums)
<1>1. todo \in rows /\ owed \in pairs
  OBVIOUS
<1>2. Locals = [at : Labels, item : Items \cup {None}, forum : Forums \cup {None}, n : Int,
                user : Users \cup {None}, left : SUBSET Replies,
                walk : {"idle", "posts", "posted"}, todo : rows, owed : pairs]
  BY DEF Locals
<1>3. "posts" \in Labels
  BY DEF Labels
<1> HIDE DEF rows, pairs
<1> QED BY <1>1, <1>2, <1>3 DEF Posting

LEMMA Resumed ==
    ASSUME LocalTypes, NEW th \in Threads, Resume(th)
    PROVE  \E x : Resumes(th, x)
<1>1. my[th] \in Locals
  BY DEF LocalTypes
<1>2. Idle \in Locals /\ Idle.at = "idle" /\ Idle.todo = {}
  BY DEF Idle, Do, Local, Locals, Labels
<1>3. CASE my[th].walk = "idle"
  BY <1>2, <1>3 DEF Resume, Keep, Resumes
<1>4. CASE my[th].walk = "posts"
  <2> DEFINE x == Posting(my[th].todo, my[th].owed)
  <2>1. x \in Locals /\ x.at = "posts" /\ x.todo = my[th].todo
    <3>1. my[th].todo \in SUBSET (Topics \X Forums \X Int) /\ my[th].owed \in SUBSET (Topics \X Forums)
      BY <1>1 DEF Locals
    <3> QED BY <3>1, PostsType
  <2>2. my' = [my EXCEPT ![th] = x]
    BY <1>4 DEF Resume, Keep
  <2> HIDE DEF x
  <2> QED BY <2>1, <2>2 DEF Resumes
<1>5. CASE my[th].walk = "posted"
  <2> DEFINE x == Walk(my[th].left)
  <2>1. x \in Locals /\ x.at \in {"idle", "posted"} /\ x.todo = {}
    BY <1>1, WalkType DEF Locals
  <2>2. my' = [my EXCEPT ![th] = x]
    BY <1>5 DEF Resume, Keep
  <2> HIDE DEF x
  <2> QED BY <2>1, <2>2 DEF Resumes
<1> QED BY <1>1, <1>3, <1>4, <1>5 DEF Locals

\* AddTopic keeps IInv.
LEMMA AddTopicStep ==
    ASSUME IInv, NEW th \in Threads, AddTopic(th)
    PROVE  IInv'
<1> USE NoneAssumption, ItemsAssumption
    DEF IInv, Items, AddTopic, At, Keep, Idle, marks, bounds, Do, Local
<1>1. RowTypes'
  BY DEF RowTypes, LocalTypes, Locals, InHand, OfTopic, OfDeleted, OfReply, OfItem
<1>2. LocalTypes'
  BY BoundAssumption DEF RowTypes, LocalTypes, Locals, Labels
<1>3. MarkTypes'
  BY DEF RowTypes, LocalTypes, MarkTypes, Locals
<1>4. GivenOut'
  BY DEF RowTypes, GivenOut
<1>5. InHand'
  BY DEF RowTypes, LocalTypes, GivenOut, Locals, InHand, OfTopic, OfDeleted,
      OfReply, OfItem
<1>6. RepliesHaveCause'
  BY SMTT(30) DEF RowTypes, LocalTypes, MarkTypes, GivenOut, RepliesHaveCause, Locals,
      Sweeps, RepliesOf, InHand, OfTopic, OfDeleted, OfReply, OfItem
<1>7. LikesHaveCause'
  BY DEF RowTypes, LocalTypes, MarkTypes, LikesHaveCause, Locals, Drops, LikesOf,
      InHand, OfTopic, OfDeleted, OfReply, OfItem
<1>8. CachedReplyHasTopic'
  BY DEF RowTypes, LocalTypes, GivenOut, CachedReplyHasTopic, Locals, Forgets,
      InHand, OfTopic, OfDeleted, OfReply, OfItem
<1> QED BY <1>1, <1>2, <1>3, <1>4, <1>5, <1>6, <1>7, <1>8

\* DeleteTopic keeps IInv.
LEMMA DeleteTopicStep ==
    ASSUME IInv, NEW th \in Threads, DeleteTopic(th)
    PROVE  IInv'
<1> USE NoneAssumption, ItemsAssumption
    DEF IInv, Items, DeleteTopic, At, Keep, RepliesOf, posts, bounds, Strike
<1>1. RowTypes'
  BY DEF RowTypes, LocalTypes, Locals
<1>2. LocalTypes'
  <2>1. my[th] \in Locals
    BY DEF LocalTypes
  <2> DEFINE next == [my[th] EXCEPT !.at = "leave"]
  <2>2. next \in Locals
    BY <2>1 DEF Locals, Labels
  <2>3. my' = [my EXCEPT ![th] = next]
    OBVIOUS
  <2> HIDE DEF next
  <2> QED BY <2>2, <2>3 DEF LocalTypes
<1>3. MarkTypes'
  BY SMTT(30) DEF RowTypes, LocalTypes, MarkTypes, Locals, InHand, OfTopic, OfDeleted,
      OfReply, OfItem
<1>4. GivenOut'
  BY DEF RowTypes, GivenOut
<1>5. InHand'
  BY DEF RowTypes, LocalTypes, GivenOut, Locals, InHand, OfTopic, OfDeleted,
      OfReply, OfItem
<1>6. RepliesHaveCause'
  BY DEF RowTypes, LocalTypes, MarkTypes, GivenOut, RepliesHaveCause, Locals,
      Sweeps, RepliesOf, InHand, OfTopic, OfDeleted, OfReply, OfItem
<1>7. LikesHaveCause'
  BY DEF RowTypes, LocalTypes, MarkTypes, LikesHaveCause, Locals, Drops, LikesOf,
      InHand, OfTopic, OfDeleted, OfReply, OfItem
<1>8. CachedReplyHasTopic'
  BY DEF RowTypes, LocalTypes, GivenOut, CachedReplyHasTopic, Locals, Forgets,
      InHand, OfTopic, OfDeleted, OfReply, OfItem
<1> QED BY <1>1, <1>2, <1>3, <1>4, <1>5, <1>6, <1>7, <1>8

\* RemoveTopic keeps IInv.
LEMMA RemoveTopicStep ==
    ASSUME IInv, NEW th \in Threads, RemoveTopic(th)
    PROVE  IInv'
<1> USE NoneAssumption, ItemsAssumption
    DEF IInv, Items, RemoveTopic, At, Keep, marks, bounds
<1>1. RowTypes'
  BY DEF RowTypes, LocalTypes, Locals, InHand, OfTopic, OfDeleted, OfReply, OfItem
<1>2. LocalTypes'
  <2>1. my[th] \in Locals
    BY DEF LocalTypes
  <2> DEFINE next == [my[th] EXCEPT !.at = "unlike"]
  <2>2. next \in Locals
    BY <2>1 DEF Locals, Labels
  <2>3. my' = [my EXCEPT ![th] = next]
    OBVIOUS
  <2> HIDE DEF next
  <2> QED BY <2>2, <2>3 DEF LocalTypes
<1>3. MarkTypes'
  BY DEF RowTypes, LocalTypes, MarkTypes, Locals
<1>4. GivenOut'
  BY DEF RowTypes, GivenOut
<1>5. InHand'
  BY DEF RowTypes, LocalTypes, GivenOut, Locals, InHand, OfTopic, OfDeleted,
      OfReply, OfItem
<1>6. RepliesHaveCause'
  BY DEF RowTypes, LocalTypes, MarkTypes, GivenOut, RepliesHaveCause, Locals,
      Sweeps, RepliesOf, InHand, OfTopic, OfDeleted, OfReply, OfItem
<1>7. LikesHaveCause'
  BY DEF RowTypes, LocalTypes, MarkTypes, LikesHaveCause, Locals, Drops, LikesOf,
      InHand, OfTopic, OfDeleted, OfReply, OfItem
<1>8. CachedReplyHasTopic'
  BY DEF RowTypes, LocalTypes, GivenOut, CachedReplyHasTopic, Locals, Forgets,
      InHand, OfTopic, OfDeleted, OfReply, OfItem
<1> QED BY <1>1, <1>2, <1>3, <1>4, <1>5, <1>6, <1>7, <1>8

\* DeleteLikesForTopic keeps IInv.
LEMMA DeleteLikesForTopicStep ==
    ASSUME IInv, NEW th \in Threads, DeleteLikesForTopic(th)
    PROVE  IInv'
<1> USE NoneAssumption, ItemsAssumption
    DEF IInv, Items, DeleteLikesForTopic, At, Keep, Idle, LikesOf, posts,
        marks, bounds, Do, Local
<1>0. PICK x \in Locals : /\ my' = [my EXCEPT ![th] = x] /\ x.todo \subseteq my[th].todo
                          /\ \/ x.at \in {"idle", "posts", "posted"} /\ my[th].n <= 1
                             \/ x = [my[th] EXCEPT !.at = "liked"]
  <2>1. CASE my[th].n > 1
    <3> DEFINE x == [my[th] EXCEPT !.at = "liked"]
    <3>1. my[th] \in Locals
      BY DEF LocalTypes
    <3>2. x \in Locals /\ x.todo = my[th].todo
      BY <3>1 DEF Locals, Labels
    <3>3. my' = [my EXCEPT ![th] = x]
      BY <2>1
    <3> QED BY <3>2, <3>3
  <2>2. CASE ~(my[th].n > 1)
    <3>1. my[th].n <= 1
      BY <2>2 DEF LocalTypes, Locals
    <3>2. PICK x : Resumes(th, x)
      BY <2>2, Resumed
    <3> QED BY <3>1, <3>2 DEF Resumes
  <2> QED BY <2>1, <2>2
<1> USE <1>0
<1>1. RowTypes'
  BY DEF RowTypes, LocalTypes, Locals
<1>2. LocalTypes'
  BY <1>0 DEF LocalTypes
<1>3. MarkTypes'
  BY DEF RowTypes, LocalTypes, MarkTypes, Locals
<1>4. GivenOut'
  BY DEF RowTypes, GivenOut
<1>5. InHand'
  BY DEF RowTypes, LocalTypes, GivenOut, Locals, InHand, OfTopic, OfDeleted,
      OfReply, OfItem
<1>6. RepliesHaveCause'
  BY DEF RowTypes, LocalTypes, MarkTypes, GivenOut, RepliesHaveCause, Locals,
      Sweeps, RepliesOf, InHand, OfTopic, OfDeleted, OfReply, OfItem
<1>7. LikesHaveCause'
  BY DEF RowTypes, LocalTypes, MarkTypes, LikesHaveCause, Locals, Drops, LikesOf,
      InHand, OfTopic, OfDeleted, OfReply, OfItem
<1>8. CachedReplyHasTopic'
  BY DEF RowTypes, LocalTypes, GivenOut, CachedReplyHasTopic, Locals, Forgets,
      InHand, OfTopic, OfDeleted, OfReply, OfItem
<1> QED BY <1>1, <1>2, <1>3, <1>4, <1>5, <1>6, <1>7, <1>8

\* GetLikedReplies keeps IInv.
LEMMA GetLikedRepliesStep ==
    ASSUME IInv, NEW th \in Threads, GetLikedReplies(th)
    PROVE  IInv'
<1> USE NoneAssumption, ItemsAssumption
    DEF IInv, Items, GetLikedReplies, At, Keep, RepliesOf, posts, marks,
        bounds
<1>1. RowTypes'
  BY DEF RowTypes, LocalTypes, Locals
<1>2. LocalTypes'
  <2>1. my[th] \in Locals
    BY DEF LocalTypes
  <2> DEFINE next == [my[th] EXCEPT !.at = "sweep",
                                    !.left = {r \in RepliesOf(my[th].item) : likeCount[r] > 0}]
  <2>2. next \in Locals
    BY <2>1 DEF Locals, Labels
  <2>3. my' = [my EXCEPT ![th] = next]
    OBVIOUS
  <2> HIDE DEF next
  <2> QED BY <2>2, <2>3 DEF LocalTypes
<1>3. MarkTypes'
  BY DEF RowTypes, LocalTypes, MarkTypes, Locals
<1>4. GivenOut'
  BY DEF RowTypes, GivenOut
<1>5. InHand'
  BY DEF RowTypes, LocalTypes, GivenOut, Locals, InHand, OfTopic, OfDeleted,
      OfReply, OfItem
<1>6. RepliesHaveCause'
  BY DEF RowTypes, LocalTypes, MarkTypes, GivenOut, RepliesHaveCause, Locals,
      Sweeps, RepliesOf, InHand, OfTopic, OfDeleted, OfReply, OfItem
<1>7. LikesHaveCause'
  BY DEF RowTypes, LocalTypes, MarkTypes, LikesHaveCause, Locals, Drops, LikesOf,
      InHand, OfTopic, OfDeleted, OfReply, OfItem
<1>8. CachedReplyHasTopic'
  BY DEF RowTypes, LocalTypes, GivenOut, CachedReplyHasTopic, Locals, Forgets,
      InHand, OfTopic, OfDeleted, OfReply, OfItem
<1> QED BY <1>1, <1>2, <1>3, <1>4, <1>5, <1>6, <1>7, <1>8

\* DeleteReplies keeps IInv.
LEMMA DeleteRepliesStep ==
    ASSUME IInv, NEW th \in Threads, DeleteReplies(th)
    PROVE  IInv'
<1> USE NoneAssumption, ItemsAssumption
    DEF IInv, Items, DeleteReplies, At, Keep, Idle, RepliesOf, LikesOf, posts,
        bounds, Do, Local
<1>0. PICK x : Resumes(th, x)
  BY Resumed
<1> USE <1>0 DEF Resumes
<1>1. RowTypes'
  BY DEF RowTypes, LocalTypes, Locals
<1>2. LocalTypes'
  BY <1>0 DEF LocalTypes
<1>3. MarkTypes'
  BY DEF RowTypes, LocalTypes, MarkTypes, Locals, InHand, OfTopic, OfDeleted,
      OfReply, OfItem
<1>4. GivenOut'
  BY DEF RowTypes, GivenOut
<1>5. InHand'
  BY DEF RowTypes, LocalTypes, GivenOut, Locals, InHand, OfTopic, OfDeleted,
      OfReply, OfItem
<1>6. RepliesHaveCause'
  BY DEF RowTypes, LocalTypes, MarkTypes, GivenOut, RepliesHaveCause, Locals,
      Sweeps, RepliesOf, InHand, OfTopic, OfDeleted, OfReply, OfItem
<1>7. LikesHaveCause'
  <2> DEFINE gone == RepliesOf(my[th].item)
  <2>1. \A i \in Items, d \in Threads : Drops(d, i) => Drops(d, i)'
    BY DEF LocalTypes, Locals, Drops
  <2>2. \A i : i \in stray.likes => i \in stray'.likes
    BY DEF MarkTypes
  <2>3. \A i \in gone : LikesOf(i) # {} =>
          i \in stray'.likes \/ \E d \in Threads : Drops(d, i)
    BY DEF MarkTypes, RepliesOf
  <2>4. alive' = alive \ gone /\ likes' = likes
    OBVIOUS
  <2> HIDE DEF gone
  <2> SUFFICES ASSUME NEW l \in likes, l[1] \notin alive'
               PROVE  l[1] \in stray'.likes \/ \E d \in Threads : Drops(d, l[1])'
    BY <2>4 DEF LikesHaveCause
  <2>5. l[1] \in Items /\ LikesOf(l[1]) # {}
    BY DEF RowTypes, LikesOf
  <2>6. CASE l[1] \in gone
    BY <2>1, <2>3, <2>5, <2>6
  <2>7. CASE l[1] \notin alive
    BY <2>1, <2>2, <2>5, <2>7 DEF LikesHaveCause
  <2> QED BY <2>4, <2>6, <2>7
<1>8. CachedReplyHasTopic'
  BY DEF RowTypes, LocalTypes, GivenOut, CachedReplyHasTopic, Locals, Forgets,
      InHand, OfTopic, OfDeleted, OfReply, OfItem
<1> QED BY <1>1, <1>2, <1>3, <1>4, <1>5, <1>6, <1>7, <1>8

\* AddReply keeps IInv.
LEMMA AddReplyStep ==
    ASSUME IInv, NEW th \in Threads, AddReply(th)
    PROVE  IInv'
<1> USE NoneAssumption, ItemsAssumption
    DEF IInv, Items, AddReply, At, Keep, Idle, marks, bounds, Do, Local
<1>1. RowTypes'
  BY DEF RowTypes, LocalTypes, Locals, InHand, OfTopic, OfDeleted, OfReply, OfItem
<1>2. LocalTypes'
  BY BoundAssumption DEF RowTypes, LocalTypes, Locals, Labels
<1>3. MarkTypes'
  BY DEF RowTypes, LocalTypes, MarkTypes, Locals
<1>4. GivenOut'
  BY DEF RowTypes, GivenOut
<1>5. InHand'
  BY DEF RowTypes, LocalTypes, GivenOut, Locals, InHand, OfTopic, OfDeleted,
      OfReply, OfItem
<1>6. RepliesHaveCause'
  BY DEF RowTypes, LocalTypes, MarkTypes, GivenOut, RepliesHaveCause, Locals,
      Sweeps, RepliesOf, InHand, OfTopic, OfDeleted, OfReply, OfItem
<1>7. LikesHaveCause'
  BY DEF RowTypes, LocalTypes, MarkTypes, LikesHaveCause, Locals, Drops, LikesOf,
      InHand, OfTopic, OfDeleted, OfReply, OfItem
<1>8. CachedReplyHasTopic'
  BY DEF RowTypes, LocalTypes, GivenOut, CachedReplyHasTopic, Locals, Forgets,
      InHand, OfTopic, OfDeleted, OfReply, OfItem
<1> QED BY <1>1, <1>2, <1>3, <1>4, <1>5, <1>6, <1>7, <1>8

\* CacheSet keeps IInv.
LEMMA CacheSetStep ==
    ASSUME IInv, NEW th \in Threads, CacheSet(th)
    PROVE  IInv'
<1> USE NoneAssumption, ItemsAssumption
    DEF IInv, Items, CacheSet, At, Keep, Idle, posts, bounds, Do, Local
<1>1. RowTypes'
  BY DEF RowTypes, LocalTypes, Locals, InHand, OfTopic, OfDeleted, OfReply, OfItem
<1>2. LocalTypes'
  BY BoundAssumption DEF RowTypes, LocalTypes, Locals, Labels
<1>3. MarkTypes'
  BY DEF RowTypes, LocalTypes, MarkTypes, Locals, InHand, OfTopic, OfDeleted,
      OfReply, OfItem
<1>4. GivenOut'
  BY DEF RowTypes, GivenOut
<1>5. InHand'
  BY DEF RowTypes, LocalTypes, GivenOut, Locals, InHand, OfTopic, OfDeleted,
      OfReply, OfItem
<1>6. RepliesHaveCause'
  BY DEF RowTypes, LocalTypes, MarkTypes, GivenOut, RepliesHaveCause, Locals,
      Sweeps, RepliesOf, InHand, OfTopic, OfDeleted, OfReply, OfItem
<1>7. LikesHaveCause'
  BY DEF RowTypes, LocalTypes, MarkTypes, LikesHaveCause, Locals, Drops, LikesOf,
      InHand, OfTopic, OfDeleted, OfReply, OfItem
<1>8. CachedReplyHasTopic'
  BY DEF RowTypes, LocalTypes, GivenOut, CachedReplyHasTopic, Locals, Forgets,
      InHand, OfTopic, OfDeleted, OfReply, OfItem
<1> QED BY <1>1, <1>2, <1>3, <1>4, <1>5, <1>6, <1>7, <1>8

\* RemoveRepliesFromTopic keeps IInv.
LEMMA RemoveRepliesFromTopicStep ==
    ASSUME IInv, NEW th \in Threads, RemoveRepliesFromTopic(th)
    PROVE  IInv'
<1> USE NoneAssumption, ItemsAssumption
    DEF IInv, Items, RemoveRepliesFromTopic, At, Keep, marks, bounds
<1>1. RowTypes'
  BY DEF RowTypes, LocalTypes, Locals, InHand, OfTopic, OfDeleted, OfReply, OfItem
<1>2. LocalTypes'
  <2>1. my[th] \in Locals
    BY DEF LocalTypes
  <2> DEFINE next == [my[th] EXCEPT !.at = "forget"]
  <2>2. next \in Locals
    BY <2>1 DEF Locals, Labels
  <2>3. my' = [my EXCEPT ![th] = next]
    OBVIOUS
  <2> HIDE DEF next
  <2> QED BY <2>2, <2>3 DEF LocalTypes
<1>3. MarkTypes'
  BY DEF RowTypes, LocalTypes, MarkTypes, Locals
<1>4. GivenOut'
  BY DEF RowTypes, GivenOut
<1>5. InHand'
  BY DEF RowTypes, LocalTypes, GivenOut, Locals, InHand, OfTopic, OfDeleted,
      OfReply, OfItem
<1>6. RepliesHaveCause'
  BY DEF RowTypes, LocalTypes, MarkTypes, GivenOut, RepliesHaveCause, Locals,
      Sweeps, RepliesOf, InHand, OfTopic, OfDeleted, OfReply, OfItem
<1>7. LikesHaveCause'
  BY DEF RowTypes, LocalTypes, MarkTypes, LikesHaveCause, Locals, Drops, LikesOf,
      InHand, OfTopic, OfDeleted, OfReply, OfItem
<1>8. CachedReplyHasTopic'
  BY DEF RowTypes, LocalTypes, GivenOut, CachedReplyHasTopic, Locals, Forgets,
      InHand, OfTopic, OfDeleted, OfReply, OfItem
<1> QED BY <1>1, <1>2, <1>3, <1>4, <1>5, <1>6, <1>7, <1>8

\* CacheRemove keeps IInv.
LEMMA CacheRemoveStep ==
    ASSUME IInv, NEW th \in Threads, CacheRemove(th)
    PROVE  IInv'
<1> USE NoneAssumption, ItemsAssumption
    DEF IInv, Items, CacheRemove, At, Keep, posts, bounds
<1>1. RowTypes'
  BY DEF RowTypes, LocalTypes, Locals
<1>2. LocalTypes'
  <2>1. my[th] \in Locals
    BY DEF LocalTypes
  <2> DEFINE next == [my[th] EXCEPT !.at = "drop"]
  <2>2. next \in Locals
    BY <2>1 DEF Locals, Labels
  <2>3. my' = [my EXCEPT ![th] = next]
    OBVIOUS
  <2> HIDE DEF next
  <2> QED BY <2>2, <2>3 DEF LocalTypes
<1>3. MarkTypes'
  BY DEF RowTypes, LocalTypes, MarkTypes, Locals
<1>4. GivenOut'
  BY DEF RowTypes, GivenOut
<1>5. InHand'
  BY DEF RowTypes, LocalTypes, GivenOut, Locals, InHand, OfTopic, OfDeleted,
      OfReply, OfItem
<1>6. RepliesHaveCause'
  BY DEF RowTypes, LocalTypes, MarkTypes, GivenOut, RepliesHaveCause, Locals,
      Sweeps, RepliesOf, InHand, OfTopic, OfDeleted, OfReply, OfItem
<1>7. LikesHaveCause'
  BY DEF RowTypes, LocalTypes, MarkTypes, LikesHaveCause, Locals, Drops, LikesOf,
      InHand, OfTopic, OfDeleted, OfReply, OfItem
<1>8. CachedReplyHasTopic'
  BY DEF RowTypes, LocalTypes, GivenOut, CachedReplyHasTopic, Locals, Forgets,
      InHand, OfTopic, OfDeleted, OfReply, OfItem
<1> QED BY <1>1, <1>2, <1>3, <1>4, <1>5, <1>6, <1>7, <1>8

\* DropLikes keeps IInv.
LEMMA DropLikesStep ==
    ASSUME IInv, NEW th \in Threads, DropLikes(th)
    PROVE  IInv'
<1> USE NoneAssumption, ItemsAssumption
    DEF IInv, Items, DropLikes, At, Keep, Idle, LikesOf, posts, marks, bounds,
        Do, Local
<1>0. PICK x : Resumes(th, x)
  BY Resumed
<1> USE <1>0 DEF Resumes
<1>1. RowTypes'
  BY DEF RowTypes, LocalTypes, Locals
<1>2. LocalTypes'
  BY <1>0 DEF LocalTypes
<1>3. MarkTypes'
  BY DEF RowTypes, LocalTypes, MarkTypes, Locals
<1>4. GivenOut'
  BY DEF RowTypes, GivenOut
<1>5. InHand'
  BY DEF RowTypes, LocalTypes, GivenOut, Locals, InHand, OfTopic, OfDeleted,
      OfReply, OfItem
<1>6. RepliesHaveCause'
  BY DEF RowTypes, LocalTypes, MarkTypes, GivenOut, RepliesHaveCause, Locals,
      Sweeps, RepliesOf, InHand, OfTopic, OfDeleted, OfReply, OfItem
<1>7. LikesHaveCause'
  BY DEF RowTypes, LocalTypes, MarkTypes, LikesHaveCause, Locals, Drops, LikesOf,
      InHand, OfTopic, OfDeleted, OfReply, OfItem
<1>8. CachedReplyHasTopic'
  BY DEF RowTypes, LocalTypes, GivenOut, CachedReplyHasTopic, Locals, Forgets,
      InHand, OfTopic, OfDeleted, OfReply, OfItem
<1> QED BY <1>1, <1>2, <1>3, <1>4, <1>5, <1>6, <1>7, <1>8

\* CreateLike keeps IInv.
LEMMA CreateLikeStep ==
    ASSUME IInv, NEW th \in Threads, CreateLike(th)
    PROVE  IInv'
<1> USE NoneAssumption, ItemsAssumption
    DEF IInv, Items, CreateLike, At, Keep, Do, posts, bounds, Local
<1>1. RowTypes'
  BY DEF RowTypes, LocalTypes, Locals, InHand, OfTopic, OfDeleted, OfReply, OfItem
<1>2. LocalTypes'
  BY BoundAssumption DEF RowTypes, LocalTypes, Locals, Labels
<1>3. MarkTypes'
  BY SMTT(30) DEF RowTypes, LocalTypes, MarkTypes, Locals, InHand, OfTopic, OfDeleted,
      OfReply, OfItem
<1>4. GivenOut'
  BY DEF RowTypes, GivenOut
<1>5. InHand'
  BY DEF RowTypes, LocalTypes, GivenOut, Locals, InHand, OfTopic, OfDeleted,
      OfReply, OfItem
<1>6. RepliesHaveCause'
  BY DEF RowTypes, LocalTypes, MarkTypes, GivenOut, RepliesHaveCause, Locals,
      Sweeps, RepliesOf, InHand, OfTopic, OfDeleted, OfReply, OfItem
<1>7. LikesHaveCause'
  <2>1. my[th].item \in Items /\ my[th].at = "like"
    BY DEF InHand, OfItem
  <2>2. \A i \in Items, d \in Threads : Drops(d, i) => Drops(d, i)'
    BY DEF LocalTypes, Locals, Drops
  <2>3. my[th].item \notin alive =>
          my[th].item \in stray'.likes \/ \E d \in Threads : Drops(d, my[th].item)
    BY DEF MarkTypes
  <2>4. \A i : i \in stray.likes => i \in stray'.likes
    BY DEF MarkTypes
  <2> SUFFICES ASSUME NEW l \in likes', l[1] \notin alive
               PROVE  l[1] \in stray'.likes \/ \E d \in Threads : Drops(d, l[1])'
    BY DEF LikesHaveCause
  <2>5. CASE l \in likes
    <3>1. l[1] \in Items
      BY <2>5 DEF RowTypes
    <3>2. l[1] \in stray.likes \/ \E d \in Threads : Drops(d, l[1])
      BY <2>5 DEF LikesHaveCause
    <3> QED BY <2>2, <2>4, <3>1, <3>2
  <2>6. CASE l = <<my[th].item, my[th].user, my[th].n>>
    <3>1. l[1] = my[th].item
      BY <2>6
    <3> QED BY <2>1, <2>2, <2>3, <3>1
  <2> QED BY <2>5, <2>6
<1>8. CachedReplyHasTopic'
  BY DEF RowTypes, LocalTypes, GivenOut, CachedReplyHasTopic, Locals, Forgets,
      InHand, OfTopic, OfDeleted, OfReply, OfItem
<1> QED BY <1>1, <1>2, <1>3, <1>4, <1>5, <1>6, <1>7, <1>8

\* AddLikes keeps IInv.
LEMMA AddLikesStep ==
    ASSUME IInv, NEW th \in Threads, AddLikes(th)
    PROVE  IInv'
<1> USE NoneAssumption, ItemsAssumption
    DEF IInv, Items, AddLikes, At, Keep, Do, posts, marks, bounds, Local
<1>1. RowTypes'
  BY DEF RowTypes, LocalTypes, Locals
<1>2. LocalTypes'
  BY BoundAssumption DEF RowTypes, LocalTypes, Locals, Labels
<1>3. MarkTypes'
  BY DEF RowTypes, LocalTypes, MarkTypes, Locals
<1>4. GivenOut'
  BY DEF RowTypes, GivenOut
<1>5. InHand'
  BY DEF RowTypes, LocalTypes, GivenOut, Locals, InHand, OfTopic, OfDeleted,
      OfReply, OfItem
<1>6. RepliesHaveCause'
  BY DEF RowTypes, LocalTypes, MarkTypes, GivenOut, RepliesHaveCause, Locals,
      Sweeps, RepliesOf, InHand, OfTopic, OfDeleted, OfReply, OfItem
<1>7. LikesHaveCause'
  BY DEF RowTypes, LocalTypes, MarkTypes, LikesHaveCause, Locals, Drops, LikesOf,
      InHand, OfTopic, OfDeleted, OfReply, OfItem
<1>8. CachedReplyHasTopic'
  BY DEF RowTypes, LocalTypes, GivenOut, CachedReplyHasTopic, Locals, Forgets,
      InHand, OfTopic, OfDeleted, OfReply, OfItem
<1> QED BY <1>1, <1>2, <1>3, <1>4, <1>5, <1>6, <1>7, <1>8

\* Purge keeps IInv.
LEMMA PurgeStep ==
    ASSUME IInv, NEW th \in Threads, Purge(th)
    PROVE  IInv'
<1> USE NoneAssumption, ItemsAssumption
    DEF IInv, Items, Purge, At, Keep, Idle, posts, bounds, Do, Local
<1>1. RowTypes'
  BY DEF RowTypes, LocalTypes, Locals
<1>2. LocalTypes'
  BY BoundAssumption DEF RowTypes, LocalTypes, Locals, Labels
<1>3. MarkTypes'
  BY DEF RowTypes, LocalTypes, MarkTypes, Locals
<1>4. GivenOut'
  BY DEF RowTypes, GivenOut
<1>5. InHand'
  BY DEF RowTypes, LocalTypes, GivenOut, Locals, InHand, OfTopic, OfDeleted,
      OfReply, OfItem
<1>6. RepliesHaveCause'
  BY DEF RowTypes, LocalTypes, MarkTypes, GivenOut, RepliesHaveCause, Locals,
      Sweeps, RepliesOf, InHand, OfTopic, OfDeleted, OfReply, OfItem
<1>7. LikesHaveCause'
  BY DEF RowTypes, LocalTypes, MarkTypes, LikesHaveCause, Locals, Drops, LikesOf,
      InHand, OfTopic, OfDeleted, OfReply, OfItem
<1>8. CachedReplyHasTopic'
  BY DEF RowTypes, LocalTypes, GivenOut, CachedReplyHasTopic, Locals, Forgets,
      InHand, OfTopic, OfDeleted, OfReply, OfItem
<1> QED BY <1>1, <1>2, <1>3, <1>4, <1>5, <1>6, <1>7, <1>8

\* GetTopic keeps IInv.
LEMMA GetTopicStep ==
    ASSUME IInv, NEW th \in Threads, NEW t \in Topics, GetTopic(th, t)
    PROVE  IInv'
<1> USE NoneAssumption, ItemsAssumption
    DEF IInv, Items, GetTopic, Begin, Keep, InForum, posts, marks, At, Local
<1>1. RowTypes'
  BY DEF RowTypes, LocalTypes, Locals
<1>2. LocalTypes'
  BY BoundAssumption DEF RowTypes, LocalTypes, Locals, Labels
<1>3. MarkTypes'
  BY DEF RowTypes, LocalTypes, MarkTypes, Locals
<1>4. GivenOut'
  BY DEF RowTypes, GivenOut
<1>5. InHand'
  BY DEF RowTypes, LocalTypes, GivenOut, Locals, InHand, OfTopic, OfDeleted,
      OfReply, OfItem
<1>6. RepliesHaveCause'
  BY SMTT(30) DEF RowTypes, LocalTypes, MarkTypes, GivenOut, RepliesHaveCause, Locals,
      Sweeps, RepliesOf, InHand, OfTopic, OfDeleted, OfReply, OfItem
<1>7. LikesHaveCause'
  BY SMTT(30) DEF RowTypes, LocalTypes, MarkTypes, LikesHaveCause, Locals, Drops, LikesOf,
      InHand, OfTopic, OfDeleted, OfReply, OfItem
<1>8. CachedReplyHasTopic'
  BY DEF RowTypes, LocalTypes, GivenOut, CachedReplyHasTopic, Locals, Forgets,
      InHand, OfTopic, OfDeleted, OfReply, OfItem
<1> QED BY <1>1, <1>2, <1>3, <1>4, <1>5, <1>6, <1>7, <1>8

\* InsertTopic keeps IInv.
LEMMA InsertTopicStep ==
    ASSUME IInv, NEW th \in Threads, NEW t \in Topics, NEW f \in Forums, InsertTopic(th, t, f)
    PROVE  IInv'
<1> USE NoneAssumption, ItemsAssumption
    DEF IInv, Items, InsertTopic, Begin, Keep, InForum, marks, At, Local
<1>1. RowTypes'
  BY DEF RowTypes, LocalTypes, Locals
<1>2. LocalTypes'
  BY BoundAssumption DEF RowTypes, LocalTypes, Locals, Labels
<1>3. MarkTypes'
  BY DEF RowTypes, LocalTypes, MarkTypes, Locals
<1>4. GivenOut'
  BY DEF RowTypes, GivenOut
<1>5. InHand'
  BY DEF RowTypes, LocalTypes, GivenOut, Locals, InHand, OfTopic, OfDeleted,
      OfReply, OfItem
<1>6. RepliesHaveCause'
  BY DEF RowTypes, LocalTypes, MarkTypes, GivenOut, RepliesHaveCause, Locals,
      Sweeps, RepliesOf, InHand, OfTopic, OfDeleted, OfReply, OfItem
<1>7. LikesHaveCause'
  <2>1. \A i : \A d \in Threads : Drops(d, i) => Drops(d, i)'
    BY DEF LocalTypes, Drops
  <2>2. likes' = likes /\ stray' = stray /\ alive \subseteq alive'
    OBVIOUS
  <2> QED BY <2>1, <2>2 DEF LikesHaveCause
<1>8. CachedReplyHasTopic'
  BY SMTT(30) DEF RowTypes, LocalTypes, GivenOut, CachedReplyHasTopic, Locals, Forgets,
      InHand, OfTopic, OfDeleted, OfReply, OfItem
<1> QED BY <1>1, <1>2, <1>3, <1>4, <1>5, <1>6, <1>7, <1>8

\* MoveTo keeps IInv.
LEMMA MoveToStep ==
    ASSUME IInv, NEW th \in Threads, NEW f \in Forums, MoveTo(th, f)
    PROVE  IInv'
<1> USE NoneAssumption, ItemsAssumption
    DEF IInv, Items, MoveTo, At, Keep, Do, bounds, Local
<1>1. RowTypes'
  BY DEF RowTypes, LocalTypes, Locals
<1>2. LocalTypes'
  BY BoundAssumption DEF RowTypes, LocalTypes, Locals, Labels
<1>3. MarkTypes'
  <2>1. my[th].item \in Topics
    BY DEF InHand, OfTopic
  <2>2. {forum[my[th].item], f} \subseteq Forums \cup {None}
    BY <2>1 DEF RowTypes
  <2>3. lost' = lost \/ lost' = [lost EXCEPT !.topics = lost.topics \cup {forum[my[th].item], f}]
    OBVIOUS
  <2>4. stray' = stray /\ raced' = raced
    OBVIOUS
  <2> HIDE DEF IInv, MoveTo
  <2> QED BY <2>2, <2>3, <2>4 DEF MarkTypes, IInv
<1>4. GivenOut'
  BY DEF RowTypes, GivenOut
<1>5. InHand'
  BY DEF RowTypes, LocalTypes, GivenOut, Locals, InHand, OfTopic, OfDeleted,
      OfReply, OfItem
<1>6. RepliesHaveCause'
  BY DEF RowTypes, LocalTypes, MarkTypes, GivenOut, RepliesHaveCause, Locals,
      Sweeps, RepliesOf, InHand, OfTopic, OfDeleted, OfReply, OfItem
<1>7. LikesHaveCause'
  BY DEF RowTypes, LocalTypes, MarkTypes, LikesHaveCause, Locals, Drops, LikesOf,
      InHand, OfTopic, OfDeleted, OfReply, OfItem
<1>8. CachedReplyHasTopic'
  BY DEF RowTypes, LocalTypes, GivenOut, CachedReplyHasTopic, Locals, Forgets,
      InHand, OfTopic, OfDeleted, OfReply, OfItem
<1> QED BY <1>1, <1>2, <1>3, <1>4, <1>5, <1>6, <1>7, <1>8

\* DeleteLikesForReply keeps IInv.
LEMMA DeleteLikesForReplyStep ==
    ASSUME IInv, NEW th \in Threads, NEW r \in Replies, DeleteLikesForReply(th, r)
    PROVE  IInv'
<1> USE NoneAssumption, ItemsAssumption
    DEF IInv, Items, DeleteLikesForReply, At, Keep, LikesOf, posts, marks,
        bounds
<1>1. RowTypes'
  BY DEF RowTypes, LocalTypes, Locals
<1>2. LocalTypes'
  <2>1. my[th] \in Locals
    BY DEF LocalTypes
  <2> DEFINE next == [my[th] EXCEPT !.left = @ \ {r}]
  <2>2. next \in Locals
    BY <2>1 DEF Locals
  <2>3. my' = [my EXCEPT ![th] = next]
    OBVIOUS
  <2> HIDE DEF next
  <2>4. LocalTypes /\ UNCHANGED <<boot, ops, restarts>>
    OBVIOUS
  <2> HIDE DEF IInv, DeleteLikesForReply
  <2> QED BY <2>2, <2>3, <2>4, KeepTyped
<1>3. MarkTypes'
  BY DEF RowTypes, LocalTypes, MarkTypes, Locals
<1>4. GivenOut'
  BY DEF RowTypes, GivenOut
<1>5. InHand'
  BY DEF RowTypes, LocalTypes, GivenOut, Locals, InHand, OfTopic, OfDeleted,
      OfReply, OfItem
<1>6. RepliesHaveCause'
  BY DEF RowTypes, LocalTypes, MarkTypes, GivenOut, RepliesHaveCause, Locals,
      Sweeps, RepliesOf, InHand, OfTopic, OfDeleted, OfReply, OfItem
<1>7. LikesHaveCause'
  BY DEF RowTypes, LocalTypes, MarkTypes, LikesHaveCause, Locals, Drops, LikesOf,
      InHand, OfTopic, OfDeleted, OfReply, OfItem
<1>8. CachedReplyHasTopic'
  BY DEF RowTypes, LocalTypes, GivenOut, CachedReplyHasTopic, Locals, Forgets,
      InHand, OfTopic, OfDeleted, OfReply, OfItem
<1> QED BY <1>1, <1>2, <1>3, <1>4, <1>5, <1>6, <1>7, <1>8

\* CreateActionReply keeps IInv.
LEMMA CreateActionReplyStep ==
    ASSUME IInv, NEW th \in Threads, NEW r \in Replies, CreateActionReply(th, r)
    PROVE  IInv'
<1> USE NoneAssumption, ItemsAssumption
    DEF IInv, Items, CreateActionReply, NewReply, Keep, Do, At, Local
<1>1. RowTypes'
  BY DEF RowTypes, LocalTypes, Locals, InHand, OfTopic, OfDeleted, OfReply, OfItem
<1>2. LocalTypes'
  BY BoundAssumption DEF RowTypes, LocalTypes, Locals, Labels
<1>3. MarkTypes'
  BY DEF RowTypes, LocalTypes, MarkTypes, Locals
<1>4. GivenOut'
  BY DEF RowTypes, GivenOut, LocalTypes, InHand, OfTopic, OfDeleted, OfReply, OfItem
<1>5. InHand'
  BY DEF RowTypes, LocalTypes, GivenOut, Locals, InHand, OfTopic, OfDeleted,
      OfReply, OfItem
<1>6. RepliesHaveCause'
  BY SMTT(30) DEF RowTypes, LocalTypes, MarkTypes, GivenOut, RepliesHaveCause, Locals,
      Sweeps, RepliesOf, InHand, OfTopic, OfDeleted, OfReply, OfItem
<1>7. LikesHaveCause'
  BY DEF RowTypes, LocalTypes, MarkTypes, LikesHaveCause, Locals, Drops, LikesOf,
      InHand, OfTopic, OfDeleted, OfReply, OfItem
<1>8. CachedReplyHasTopic'
  BY DEF RowTypes, LocalTypes, GivenOut, CachedReplyHasTopic, Locals, Forgets,
      InHand, OfTopic, OfDeleted, OfReply, OfItem
<1> QED BY <1>1, <1>2, <1>3, <1>4, <1>5, <1>6, <1>7, <1>8

\* GetReply keeps IInv.
LEMMA GetReplyStep ==
    ASSUME IInv, NEW th \in Threads, NEW r \in Replies, GetReply(th, r)
    PROVE  IInv'
<1> USE NoneAssumption, ItemsAssumption
    DEF IInv, Items, GetReply, Begin, Keep, Do, posts, marks, At, Local
<1>1. RowTypes'
  BY DEF RowTypes, LocalTypes, Locals
<1>2. LocalTypes'
  BY BoundAssumption DEF RowTypes, LocalTypes, Locals, Labels
<1>3. MarkTypes'
  BY DEF RowTypes, LocalTypes, MarkTypes, Locals
<1>4. GivenOut'
  BY DEF RowTypes, GivenOut
<1>5. InHand'
  BY DEF RowTypes, LocalTypes, GivenOut, Locals, InHand, OfTopic, OfDeleted,
      OfReply, OfItem
<1>6. RepliesHaveCause'
  BY DEF RowTypes, LocalTypes, MarkTypes, GivenOut, RepliesHaveCause, Locals,
      Sweeps, RepliesOf, InHand, OfTopic, OfDeleted, OfReply, OfItem
<1>7. LikesHaveCause'
  BY DEF RowTypes, LocalTypes, MarkTypes, LikesHaveCause, Locals, Drops, LikesOf,
      InHand, OfTopic, OfDeleted, OfReply, OfItem
<1>8. CachedReplyHasTopic'
  BY DEF RowTypes, LocalTypes, GivenOut, CachedReplyHasTopic, Locals, Forgets,
      InHand, OfTopic, OfDeleted, OfReply, OfItem
<1> QED BY <1>1, <1>2, <1>3, <1>4, <1>5, <1>6, <1>7, <1>8

\* DeleteReply keeps IInv.
LEMMA DeleteReplyStep ==
    ASSUME IInv, NEW th \in Threads, NEW r \in Replies, DeleteReply(th, r)
    PROVE  IInv'
<1> USE NoneAssumption, ItemsAssumption
    DEF IInv, Items, DeleteReply, Begin, Keep, Do, posts, At, Local,
        StrikeReply
<1>1. RowTypes'
  BY DEF RowTypes, LocalTypes, Locals
<1>2. LocalTypes'
  BY BoundAssumption DEF RowTypes, LocalTypes, Locals, Labels
<1>3. MarkTypes'
  <2>1. lost' = lost \/ lost' = [lost EXCEPT !.posts = lost.posts \cup {home[r]}]
    OBVIOUS
  <2>2. home[r] \in Topics \cup {None}
    BY DEF RowTypes
  <2>3. stray' = stray /\ raced' = raced
    OBVIOUS
  <2> HIDE DEF IInv, DeleteReply
  <2> QED BY <2>1, <2>2, <2>3 DEF MarkTypes, IInv
<1>4. GivenOut'
  BY DEF RowTypes, GivenOut
<1>5. InHand'
  BY DEF RowTypes, LocalTypes, GivenOut, Locals, InHand, OfTopic, OfDeleted,
      OfReply, OfItem
<1>6. RepliesHaveCause'
  BY DEF RowTypes, LocalTypes, MarkTypes, GivenOut, RepliesHaveCause, Locals,
      Sweeps, RepliesOf, InHand, OfTopic, OfDeleted, OfReply, OfItem
<1>7. LikesHaveCause'
  BY DEF RowTypes, LocalTypes, MarkTypes, LikesHaveCause, Locals, Drops, LikesOf,
      InHand, OfTopic, OfDeleted, OfReply, OfItem
<1>8. CachedReplyHasTopic'
  BY DEF RowTypes, LocalTypes, GivenOut, CachedReplyHasTopic, Locals, Forgets,
      InHand, OfTopic, OfDeleted, OfReply, OfItem
<1> QED BY <1>1, <1>2, <1>3, <1>4, <1>5, <1>6, <1>7, <1>8

\* CreateReply keeps IInv.
LEMMA CreateReplyStep ==
    ASSUME IInv, NEW th \in Threads, NEW r \in Replies, NEW t \in Topics,
           CreateReply(th, r, t)
    PROVE  IInv'
<1> USE NoneAssumption, ItemsAssumption
    DEF IInv, Items, CreateReply, Begin, NewReply, Keep, Do, At, Local
<1>1. RowTypes'
  BY DEF RowTypes, LocalTypes, Locals
<1>2. LocalTypes'
  BY BoundAssumption DEF RowTypes, LocalTypes, Locals, Labels
<1>3. MarkTypes'
  BY SMTT(30) DEF RowTypes, LocalTypes, MarkTypes, Locals
<1>4. GivenOut'
  BY DEF RowTypes, GivenOut
<1>5. InHand'
  BY DEF RowTypes, LocalTypes, GivenOut, Locals, InHand, OfTopic, OfDeleted,
      OfReply, OfItem
<1>6. RepliesHaveCause'
  <2> SUFFICES ASSUME NEW q \in Replies, q \in alive', home'[q] \notin alive'
               PROVE  q \in stray'.replies \/ \E d \in Threads : Sweeps(d, home[q])'
    BY DEF RepliesHaveCause
  <2>1. \A d \in Threads, z \in Topics \cup {None} : Sweeps(d, z) => Sweeps(d, z)'
    BY DEF LocalTypes, Locals, Sweeps
  <2>2. home'[q] = IF q = r THEN t ELSE home[q]
    BY DEF RowTypes
  <2>3. q \in stray.replies => q \in stray'.replies
    BY DEF MarkTypes
  <2>4. CASE q = r
    <3>1. t \notin alive
      BY <2>2, <2>4
    <3>2. CASE \E d \in Threads : Sweeps(d, t)
      BY <2>1, <2>2, <2>4, <3>2
    <3>3. CASE ~\E d \in Threads : Sweeps(d, t)
      BY <2>4, <3>1, <3>3 DEF MarkTypes
    <3> QED BY <3>2, <3>3
  <2>5. CASE q # r
    <3>1. q \in alive /\ home[q] \notin alive /\ home[q] \in Topics \cup {None}
      BY <2>2, <2>5 DEF RowTypes
    <3>2. q \in stray.replies \/ \E d \in Threads : Sweeps(d, home[q])
      BY <3>1 DEF RepliesHaveCause
    <3> QED BY <2>1, <2>3, <3>1, <3>2
  <2> QED BY <2>4, <2>5
<1>7. LikesHaveCause'
  BY SMTT(30) DEF RowTypes, LocalTypes, MarkTypes, LikesHaveCause, Locals, Drops, LikesOf,
      InHand, OfTopic, OfDeleted, OfReply, OfItem
<1>8. CachedReplyHasTopic'
  BY DEF RowTypes, LocalTypes, GivenOut, CachedReplyHasTopic, Locals, Forgets,
      InHand, OfTopic, OfDeleted, OfReply, OfItem
<1> QED BY <1>1, <1>2, <1>3, <1>4, <1>5, <1>6, <1>7, <1>8

\* DeletePosts keeps IInv.
LEMMA DeletePostsStep ==
    ASSUME IInv, NEW th \in Threads, NEW S \in SUBSET Topics, DeletePosts(th, S)
    PROVE  IInv'
<1> USE NoneAssumption, ItemsAssumption
    DEF IInv, Items, DeletePosts, Begin, Keep, posts, marks, At
<1>0. PICK x \in Locals : /\ my' = [my EXCEPT ![th] = x] /\ x.at = "posts"
                          /\ \A row \in x.todo : row[1] \in S
  <2> DEFINE todo == {<<t, forum[t], postCount[t]>> : t \in S}
             x == Posting(todo, {})
  <2>2. todo \in SUBSET (Topics \X Forums \X Int) /\ \A row \in todo : row[1] \in S
    BY DEF RowTypes, GivenOut
  <2>3. my' = [my EXCEPT ![th] = x]
    OBVIOUS
  <2> HIDE DEF todo
  <2>4. x \in Locals /\ x.at = "posts" /\ x.todo = todo
    BY <2>2, PostsType
  <2> QED BY <2>2, <2>3, <2>4
<1> USE <1>0
<1>1. RowTypes'
  BY DEF RowTypes, LocalTypes, Locals
<1>2. LocalTypes'
  BY BoundAssumption DEF LocalTypes
<1>3. MarkTypes'
  BY DEF RowTypes, LocalTypes, MarkTypes, Locals
<1>4. GivenOut'
  BY DEF RowTypes, GivenOut
<1>5. InHand'
  <2>1. \A row \in x.todo : forum[row[1]] # None
    BY DEF GivenOut
  <2>2. /\ my \in [Threads -> Locals] /\ my' = [my EXCEPT ![th] = x] /\ x.at = "posts"
        /\ forum' = forum /\ alive' = alive /\ InHand
    BY DEF LocalTypes
  <2> HIDE DEF IInv, DeletePosts
  <2> QED BY <2>1, <2>2 DEF InHand, OfTopic, OfDeleted, OfReply, OfItem
<1>6. RepliesHaveCause'
  BY DEF RowTypes, LocalTypes, MarkTypes, GivenOut, RepliesHaveCause, Locals,
      Sweeps, RepliesOf, InHand, OfTopic, OfDeleted, OfReply, OfItem
<1>7. LikesHaveCause'
  BY DEF RowTypes, LocalTypes, MarkTypes, LikesHaveCause, Locals, Drops, LikesOf,
      InHand, OfTopic, OfDeleted, OfReply, OfItem
<1>8. CachedReplyHasTopic'
  BY DEF RowTypes, LocalTypes, GivenOut, CachedReplyHasTopic, Locals, Forgets,
      InHand, OfTopic, OfDeleted, OfReply, OfItem
<1> QED BY <1>1, <1>2, <1>3, <1>4, <1>5, <1>6, <1>7, <1>8

\* DeletePost keeps IInv.
LEMMA DeletePostStep ==
    ASSUME IInv, NEW th \in Threads, NEW row \in my[th].todo, DeletePost(th, row)
    PROVE  IInv'
<1> USE NoneAssumption, ItemsAssumption
    DEF IInv, Items, DeletePost, Strike, Keep, RepliesOf, posts, bounds, At
<1>1. RowTypes'
  BY DEF RowTypes, LocalTypes, Locals
<1>2. LocalTypes'
  <2>1. my[th] \in Locals
    BY DEF LocalTypes
  <2>2. row[1] \in Items /\ row[3] \in Int /\ <<row[1], row[2]>> \in Topics \X Forums
    BY <2>1 DEF Locals
  <2> DEFINE todo == my[th].todo \ {row}
             owed == my[th].owed \cup {<<row[1], row[2]>>}
             next == [my[th] EXCEPT !.at = "unlike", !.item = row[1], !.n = row[3],
                                    !.todo = todo, !.owed = owed]
  <2>3. todo \in SUBSET (Topics \X Forums \X Int) /\ owed \in SUBSET (Topics \X Forums)
    BY <2>1, <2>2 DEF Locals
  <2>4. my' = [my EXCEPT ![th] = next]
    OBVIOUS
  <2> HIDE DEF todo, owed
  <2>5. next \in Locals
    BY <2>1, <2>2, <2>3 DEF Locals, Labels
  <2> HIDE DEF next
  <2> QED BY <2>4, <2>5 DEF LocalTypes
<1>3. MarkTypes'
  BY DEF RowTypes, LocalTypes, MarkTypes, Locals
<1>4. GivenOut'
  BY DEF RowTypes, GivenOut
<1>5. InHand'
  BY DEF RowTypes, LocalTypes, GivenOut, Locals, InHand, OfTopic, OfDeleted,
      OfReply, OfItem
<1>6. RepliesHaveCause'
  BY DEF RowTypes, LocalTypes, MarkTypes, GivenOut, RepliesHaveCause, Locals,
      Sweeps, RepliesOf, InHand, OfTopic, OfDeleted, OfReply, OfItem
<1>7. LikesHaveCause'
  BY DEF RowTypes, LocalTypes, MarkTypes, LikesHaveCause, Locals, Drops, LikesOf,
      InHand, OfTopic, OfDeleted, OfReply, OfItem
<1>8. CachedReplyHasTopic'
  BY DEF RowTypes, LocalTypes, GivenOut, CachedReplyHasTopic, Locals, Forgets,
      InHand, OfTopic, OfDeleted, OfReply, OfItem
<1> QED BY <1>1, <1>2, <1>3, <1>4, <1>5, <1>6, <1>7, <1>8

\* RemoveTopics keeps IInv.
LEMMA RemoveTopicsStep ==
    ASSUME IInv, NEW th \in Threads, NEW f \in Forums, RemoveTopics(th, f)
    PROVE  IInv'
<1> USE NoneAssumption, ItemsAssumption
    DEF IInv, Items, RemoveTopics, Keep, marks, bounds, At
<1>1. RowTypes'
  <2>1. my[th].owed \in SUBSET (Topics \X Forums)
    BY DEF LocalTypes, Locals
  <2>2. OwedTo(th, f) \subseteq Topics \X {f}
    BY <2>1 DEF OwedTo
  <2>3. Cardinality(OwedTo(th, f)) \in Nat
    BY <2>2, FiniteAssumption, FS_Subset, FS_Singleton, FS_Product, FS_CardinalityType
  <2> QED BY <2>3 DEF RowTypes
<1>2. LocalTypes'
  <2>1. my[th] \in Locals
    BY DEF LocalTypes
  <2> DEFINE next == [my[th] EXCEPT !.owed = @ \ OwedTo(th, f)]
  <2>2. next \in Locals
    BY <2>1 DEF Locals, OwedTo
  <2>3. my' = [my EXCEPT ![th] = next]
    OBVIOUS
  <2> HIDE DEF next
  <2> QED BY <2>2, <2>3, BoundAssumption DEF LocalTypes
<1>3. MarkTypes'
  BY DEF RowTypes, LocalTypes, MarkTypes, Locals
<1>4. GivenOut'
  BY DEF RowTypes, GivenOut
<1>5. InHand'
  BY DEF RowTypes, LocalTypes, GivenOut, Locals, InHand, OfTopic, OfDeleted,
      OfReply, OfItem
<1>6. RepliesHaveCause'
  BY DEF RowTypes, LocalTypes, MarkTypes, GivenOut, RepliesHaveCause, Locals,
      Sweeps, RepliesOf, InHand, OfTopic, OfDeleted, OfReply, OfItem
<1>7. LikesHaveCause'
  BY DEF RowTypes, LocalTypes, MarkTypes, LikesHaveCause, Locals, Drops, LikesOf,
      InHand, OfTopic, OfDeleted, OfReply, OfItem
<1>8. CachedReplyHasTopic'
  BY DEF RowTypes, LocalTypes, GivenOut, CachedReplyHasTopic, Locals, Forgets,
      InHand, OfTopic, OfDeleted, OfReply, OfItem
<1> QED BY <1>1, <1>2, <1>3, <1>4, <1>5, <1>6, <1>7, <1>8

\* GetPostedReplies keeps IInv.
LEMMA GetPostedRepliesStep ==
    ASSUME IInv, NEW th \in Threads, NEW S \in SUBSET Replies, GetPostedReplies(th, S)
    PROVE  IInv'
<1> USE NoneAssumption, ItemsAssumption
    DEF IInv, Items, GetPostedReplies, Keep, posts, marks, bounds, At
<1>0. PICK x \in Locals : /\ my' = [my EXCEPT ![th] = x]
                          /\ x.at \in {"idle", "posted"} /\ x.todo = {}
  BY WalkType
<1> USE <1>0
<1>1. RowTypes'
  BY DEF RowTypes, LocalTypes, Locals
<1>2. LocalTypes'
  BY DEF LocalTypes
<1>3. MarkTypes'
  BY DEF RowTypes, LocalTypes, MarkTypes, Locals
<1>4. GivenOut'
  BY DEF RowTypes, GivenOut
<1>5. InHand'
  BY DEF RowTypes, LocalTypes, GivenOut, Locals, InHand, OfTopic, OfDeleted,
      OfReply, OfItem
<1>6. RepliesHaveCause'
  BY DEF RowTypes, LocalTypes, MarkTypes, GivenOut, RepliesHaveCause, Locals,
      Sweeps, RepliesOf, InHand, OfTopic, OfDeleted, OfReply, OfItem
<1>7. LikesHaveCause'
  BY DEF RowTypes, LocalTypes, MarkTypes, LikesHaveCause, Locals, Drops, LikesOf,
      InHand, OfTopic, OfDeleted, OfReply, OfItem
<1>8. CachedReplyHasTopic'
  BY DEF RowTypes, LocalTypes, GivenOut, CachedReplyHasTopic, Locals, Forgets,
      InHand, OfTopic, OfDeleted, OfReply, OfItem
<1> QED BY <1>1, <1>2, <1>3, <1>4, <1>5, <1>6, <1>7, <1>8

\* DeletePostedReply keeps IInv.
LEMMA DeletePostedReplyStep ==
    ASSUME IInv, NEW th \in Threads, NEW r \in Replies, DeletePostedReply(th, r)
    PROVE  IInv'
<1> USE NoneAssumption, ItemsAssumption
    DEF IInv, Items, DeletePostedReply, StrikeReply, Keep, posts, At
<1>1. RowTypes'
  BY DEF RowTypes, LocalTypes, Locals
<1>2. LocalTypes'
  <2>1. my[th] \in Locals
    BY DEF LocalTypes
  <2> DEFINE next == [my[th] EXCEPT !.at = "uncount", !.item = r, !.left = @ \ {r}]
  <2>2. next \in Locals
    BY <2>1 DEF Locals, Labels
  <2>3. my' = [my EXCEPT ![th] = next]
    OBVIOUS
  <2> HIDE DEF next
  <2> QED BY <2>2, <2>3, BoundAssumption DEF LocalTypes
<1>3. MarkTypes'
  <2>1. lost' = lost \/ lost' = [lost EXCEPT !.posts = lost.posts \cup {home[r]}]
    OBVIOUS
  <2>2. home[r] \in Topics \cup {None}
    BY DEF RowTypes
  <2>3. stray' = stray /\ raced' = raced
    OBVIOUS
  <2> HIDE DEF IInv, DeletePostedReply, StrikeReply
  <2> QED BY <2>1, <2>2, <2>3 DEF MarkTypes, IInv
<1>4. GivenOut'
  BY DEF RowTypes, GivenOut
<1>5. InHand'
  BY DEF RowTypes, LocalTypes, GivenOut, Locals, InHand, OfTopic, OfDeleted,
      OfReply, OfItem
<1>6. RepliesHaveCause'
  BY DEF RowTypes, LocalTypes, MarkTypes, GivenOut, RepliesHaveCause, Locals,
      Sweeps, RepliesOf, InHand, OfTopic, OfDeleted, OfReply, OfItem
<1>7. LikesHaveCause'
  BY DEF RowTypes, LocalTypes, MarkTypes, LikesHaveCause, Locals, Drops, LikesOf,
      InHand, OfTopic, OfDeleted, OfReply, OfItem
<1>8. CachedReplyHasTopic'
  BY DEF RowTypes, LocalTypes, GivenOut, CachedReplyHasTopic, Locals, Forgets,
      InHand, OfTopic, OfDeleted, OfReply, OfItem
<1> QED BY <1>1, <1>2, <1>3, <1>4, <1>5, <1>6, <1>7, <1>8

\* Unlike keeps IInv.
LEMMA UnlikeStep ==
    ASSUME IInv, NEW th \in Threads, NEW i \in Items, Unlike(th, i)
    PROVE  IInv'
<1> USE NoneAssumption, ItemsAssumption
    DEF IInv, Items, Unlike, Begin, Known, Keep, Do, LikesOf, posts, At, Local
<1>1. RowTypes'
  BY DEF RowTypes, LocalTypes, Locals
<1>2. LocalTypes'
  BY BoundAssumption DEF RowTypes, LocalTypes, Locals, Labels
<1>3. MarkTypes'
  BY DEF RowTypes, LocalTypes, MarkTypes, Locals
<1>4. GivenOut'
  BY DEF RowTypes, GivenOut
<1>5. InHand'
  BY DEF RowTypes, LocalTypes, GivenOut, Locals, InHand, OfTopic, OfDeleted,
      OfReply, OfItem
<1>6. RepliesHaveCause'
  BY DEF RowTypes, LocalTypes, MarkTypes, GivenOut, RepliesHaveCause, Locals,
      Sweeps, RepliesOf, InHand, OfTopic, OfDeleted, OfReply, OfItem
<1>7. LikesHaveCause'
  BY DEF RowTypes, LocalTypes, MarkTypes, LikesHaveCause, Locals, Drops, LikesOf,
      InHand, OfTopic, OfDeleted, OfReply, OfItem
<1>8. CachedReplyHasTopic'
  BY DEF RowTypes, LocalTypes, GivenOut, CachedReplyHasTopic, Locals, Forgets,
      InHand, OfTopic, OfDeleted, OfReply, OfItem
<1> QED BY <1>1, <1>2, <1>3, <1>4, <1>5, <1>6, <1>7, <1>8

\* HasLiked keeps IInv.
LEMMA HasLikedStep ==
    ASSUME IInv, NEW th \in Threads, NEW i \in Items, NEW u \in Users, HasLiked(th, i, u)
    PROVE  IInv'
<1> USE NoneAssumption, ItemsAssumption
    DEF IInv, Items, HasLiked, Begin, Known, At, Keep, LikesBy, posts, Local
<1>1. RowTypes'
  BY DEF RowTypes, LocalTypes, Locals
<1>2. LocalTypes'
  BY BoundAssumption DEF RowTypes, LocalTypes, Locals, Labels
<1>3. MarkTypes'
  BY DEF RowTypes, LocalTypes, MarkTypes, Locals
<1>4. GivenOut'
  BY DEF RowTypes, GivenOut
<1>5. InHand'
  BY BoundAssumption DEF RowTypes, LocalTypes, GivenOut, Locals, InHand, OfTopic,
      OfDeleted, OfReply, OfItem
<1>6. RepliesHaveCause'
  BY DEF RowTypes, LocalTypes, MarkTypes, GivenOut, RepliesHaveCause, Locals,
      Sweeps, RepliesOf, InHand, OfTopic, OfDeleted, OfReply, OfItem
<1>7. LikesHaveCause'
  BY DEF RowTypes, LocalTypes, MarkTypes, LikesHaveCause, Locals, Drops, LikesOf,
      InHand, OfTopic, OfDeleted, OfReply, OfItem
<1>8. CachedReplyHasTopic'
  BY DEF RowTypes, LocalTypes, GivenOut, CachedReplyHasTopic, Locals, Forgets,
      InHand, OfTopic, OfDeleted, OfReply, OfItem
<1> QED BY <1>1, <1>2, <1>3, <1>4, <1>5, <1>6, <1>7, <1>8

\* What holds of strays when threads return with their walks undone.
LEMMA AbandonStrays ==
    ASSUME IInv, NEW S \in SUBSET Threads, Abandon(S),
           UNCHANGED <<alive, home, likes, raced>>,
           \A d \in Threads \ S : my'[d] = my[d]
    PROVE  MarkTypes' /\ RepliesHaveCause' /\ LikesHaveCause'
<1> USE NoneAssumption, ItemsAssumption DEF IInv, Items
<1>1. MarkTypes'
  <2>1. \A th \in Threads : my[th].at \in {"reply", "uncount"} =>
          home[my[th].item] \in Topics \cup {None}
    BY DEF InHand, OfReply, RowTypes
  <2>2. {home[my[th].item] : th \in {d \in S : my[d].at \in {"reply", "uncount"}}}
          \subseteq Topics \cup {None}
    BY <2>1
  <2>3. {my[th].item : th \in {d \in S : my[d].at \in {"count", "discount"}}}
          \subseteq Items \cup {None}
    BY DEF LocalTypes, Locals
  <2>4. {my[th].forum : th \in {d \in S : my[d].at \in {"enter", "leave"}}}
          \subseteq Forums \cup {None}
    BY DEF LocalTypes, Locals
  <2>5. UNION {{row[2] : row \in my[th].owed} : th \in S} \subseteq Forums \cup {None}
    BY DEF LocalTypes, Locals
  <2>6. lost' \in [posts : SUBSET (Topics \cup {None}), likes : SUBSET (Items \cup {None}),
                   topics : SUBSET (Forums \cup {None})]
    BY <2>2, <2>3, <2>4, <2>5 DEF Abandon, MarkTypes
  <2>7. stray' \in [replies : SUBSET Replies, likes : SUBSET Items]
    BY DEF Abandon, MarkTypes
  <2> QED BY <2>6, <2>7 DEF MarkTypes
<1>2. \A z : \A d \in Threads \ S : (Sweeps(d, z) => Sweeps(d, z)') /\ (Drops(d, z) => Drops(d, z)')
  BY DEF Sweeps, Drops, At
<1>3. RepliesHaveCause'
  <2>1. \A r \in Replies \cap alive : (\E th \in Threads : Sweeps(th, home[r])) =>
          r \in stray'.replies \/ \E d \in Threads \ S : Sweeps(d, home[r])
    BY DEF Abandon, MarkTypes
  <2>2. \A r : r \in stray.replies => r \in stray'.replies
    BY DEF Abandon, MarkTypes
  <2> HIDE DEF Abandon
  <2> QED BY <1>2, <2>1, <2>2 DEF RepliesHaveCause
<1>4. LikesHaveCause'
  <2>1. \A i \in Items \ alive : LikesOf(i) # {} /\ (\E th \in Threads : Drops(th, i)) =>
          i \in stray'.likes \/ \E d \in Threads \ S : Drops(d, i)
    BY DEF Abandon, MarkTypes
  <2>2. \A i : i \in stray.likes => i \in stray'.likes
    BY DEF Abandon, MarkTypes
  <2> HIDE DEF Abandon
  <2>3. SUFFICES ASSUME NEW l \in likes, l[1] \notin alive
                 PROVE  l[1] \in stray'.likes \/ \E d \in Threads : Drops(d, l[1])'
    BY DEF LikesHaveCause
  <2>4. l[1] \in Items /\ LikesOf(l[1]) # {}
    BY DEF RowTypes, LikesOf
  <2>5. l[1] \in stray.likes \/ \E d \in Threads : Drops(d, l[1])
    BY <2>3 DEF LikesHaveCause
  <2> QED BY <1>2, <2>1, <2>2, <2>3, <2>4, <2>5
<1> QED BY <1>1, <1>3, <1>4

\* GiveUp keeps IInv.
LEMMA GiveUpStep ==
    ASSUME IInv, NEW th \in Threads, GiveUp(th)
    PROVE  IInv'
<1> USE NoneAssumption, ItemsAssumption
    DEF IInv, Items, GiveUp, At, Keep, Idle, Do, posts, bounds, Local
<1>1. RowTypes'
  BY DEF RowTypes
<1>2. LocalTypes'
  BY DEF LocalTypes, Locals, Labels
<1>3. \A d \in Threads \ {th} : my'[d] = my[d]
  BY DEF LocalTypes
<1>4. MarkTypes' /\ RepliesHaveCause' /\ LikesHaveCause'
  <2>1. {th} \in SUBSET Threads /\ Abandon({th}) /\ UNCHANGED <<alive, home, likes, raced>>
    OBVIOUS
  <2> HIDE DEF IInv, GiveUp
  <2> QED BY <1>3, <2>1, AbandonStrays
<1>5. GivenOut'
  BY DEF GivenOut
<1>6. InHand'
  BY DEF RowTypes, LocalTypes, Locals, InHand, OfTopic, OfDeleted, OfReply, OfItem
<1>7. CachedReplyHasTopic'
  BY DEF RowTypes, LocalTypes, CachedReplyHasTopic, Forgets
<1> QED BY <1>1, <1>2, <1>4, <1>5, <1>6, <1>7

\* Restart keeps IInv.
LEMMA RestartStep ==
    ASSUME IInv, Restart
    PROVE  IInv'
<1> USE NoneAssumption, ItemsAssumption, BoundAssumption
    DEF IInv, Items, Restart, At, Idle, Do, Up, posts, Local
<1>1. RowTypes'
  BY DEF RowTypes
<1>2. LocalTypes'
  BY DEF LocalTypes, Locals, Labels
<1>3. MarkTypes' /\ RepliesHaveCause' /\ LikesHaveCause'
  <2>1. Threads \in SUBSET Threads /\ Abandon(Threads) /\ UNCHANGED <<alive, home, likes, raced>>
    OBVIOUS
  <2>2. \A d \in Threads \ Threads : my'[d] = my[d]
    OBVIOUS
  <2> HIDE DEF IInv, Restart
  <2> QED BY <2>1, <2>2, AbandonStrays
<1>4. GivenOut'
  BY DEF GivenOut
<1>5. InHand'
  BY DEF InHand, OfTopic, OfDeleted, OfReply, OfItem
<1>6. CachedReplyHasTopic'
  BY DEF CachedReplyHasTopic
<1> QED BY <1>1, <1>2, <1>3, <1>4, <1>5, <1>6

\* DeleteOrphan keeps IInv.
LEMMA DeleteOrphanStep ==
    ASSUME IInv, NEW r \in Replies, DeleteOrphan(r)
    PROVE  IInv'
<1> USE NoneAssumption, ItemsAssumption
    DEF IInv, Items, DeleteOrphan, Up, posts, bounds, RowTypes
<1>1. RowTypes'
  BY DEF LikesOf
<1>2. LocalTypes'
  BY DEF LocalTypes
<1>3. MarkTypes'
  BY DEF MarkTypes
<1>4. GivenOut'
  BY DEF GivenOut
<1>5. InHand'
  BY DEF InHand, OfTopic, OfDeleted, OfReply, OfItem
<1>6. RepliesHaveCause'
  BY DEF RepliesHaveCause, MarkTypes, Sweeps
<1>7. LikesHaveCause'
  BY DEF LikesHaveCause, LikesOf, MarkTypes, Drops, At
<1>8. CachedReplyHasTopic'
  BY DEF CachedReplyHasTopic, Forgets
<1> QED BY <1>1, <1>2, <1>3, <1>4, <1>5, <1>6, <1>7, <1>8

\* ResetTopicCount keeps IInv.
LEMMA ResetTopicCountStep ==
    ASSUME IInv, NEW f \in Forums, ResetTopicCount(f)
    PROVE  IInv'
<1> USE NoneAssumption, ItemsAssumption DEF IInv, ResetTopicCount, bounds
<1>1. Cardinality(TopicsOf(f)) \in Nat
  BY FiniteAssumption, FS_Subset, FS_CardinalityType DEF TopicsOf, Items
<1>2. RowTypes'
  BY <1>1 DEF RowTypes
<1>3. LocalTypes'
  BY DEF LocalTypes
<1>4. MarkTypes'
  BY DEF MarkTypes
<1>5. GivenOut' /\ InHand'
  BY DEF GivenOut, InHand
<1>6. RepliesHaveCause' /\ LikesHaveCause'
  BY DEF RepliesHaveCause, LikesHaveCause, Sweeps, Drops, At
<1>7. CachedReplyHasTopic'
  BY DEF CachedReplyHasTopic, Forgets
<1> QED BY <1>2, <1>3, <1>4, <1>5, <1>6, <1>7

\* The end of a recalculation, and stuttering, keep IInv.
LEMMA BootStep ==
    ASSUME IInv, RecalcForums \/ Serve \/ UNCHANGED vars
    PROVE  IInv'
<1> USE DEF IInv, RecalcForums, Serve, vars, posts, bounds, marks, Up
<1>1. RowTypes' /\ MarkTypes'
  BY DEF RowTypes, MarkTypes
<1>2. LocalTypes'
  BY DEF LocalTypes
<1>3. GivenOut' /\ InHand'
  BY DEF GivenOut, InHand
<1>4. RepliesHaveCause' /\ LikesHaveCause'
  BY DEF RepliesHaveCause, LikesHaveCause, Sweeps, Drops, At
<1>5. CachedReplyHasTopic'
  BY DEF CachedReplyHasTopic, Forgets
<1> QED BY <1>1, <1>2, <1>3, <1>4, <1>5

-----------------------------------------------------------------------------
(* The theorems.                                                            *)

\* IInv holds at the start: nothing is astray and nothing is cached.
LEMMA InitIInv == Init => IInv
<1> SUFFICES ASSUME Init PROVE IInv
  OBVIOUS
<1>1. Shape
  BY InitShape
<1>2. StraysHaveCause
  BY DEF Init, StraysHaveCause
<1>3. CachedReplyHasTopic
  BY DEF Init, CachedReplyHasTopic
<1> QED BY <1>1, <1>2, <1>3, Split

\* Every step keeps IInv.
LEMMA NextIInv == IInv /\ [Next]_vars => IInv'
<1> SUFFICES ASSUME IInv, [Next]_vars PROVE IInv'
  OBVIOUS
<1>1. ASSUME NEW th \in Threads,
             \/ GiveUp(th) \/ AddTopic(th) \/ DeleteTopic(th) \/ RemoveTopic(th)
             \/ DeleteLikesForTopic(th) \/ GetLikedReplies(th) \/ DeleteReplies(th)
      PROVE  IInv'
  BY <1>1, GiveUpStep, AddTopicStep, DeleteTopicStep, RemoveTopicStep,
     DeleteLikesForTopicStep, GetLikedRepliesStep, DeleteRepliesStep
<1>2. ASSUME NEW th \in Threads,
             \/ AddReply(th) \/ CacheSet(th) \/ RemoveRepliesFromTopic(th) \/ CacheRemove(th)
             \/ DropLikes(th) \/ CreateLike(th) \/ AddLikes(th) \/ Purge(th)
      PROVE  IInv'
  BY <1>2, AddReplyStep, CacheSetStep, RemoveRepliesFromTopicStep, CacheRemoveStep,
     DropLikesStep, CreateLikeStep, AddLikesStep, PurgeStep
<1>3. ASSUME NEW th \in Threads,
             \/ \E t \in Topics : GetTopic(th, t)
             \/ \E t \in Topics, f \in Forums : InsertTopic(th, t, f)
             \/ \E f \in Forums : MoveTo(th, f) \/ RemoveTopics(th, f)
             \/ \E S \in SUBSET Topics : DeletePosts(th, S)
             \/ \E row \in my[th].todo : DeletePost(th, row)
             \/ \E S \in SUBSET Replies : GetPostedReplies(th, S)
      PROVE  IInv'
  BY <1>3, GetTopicStep, InsertTopicStep, MoveToStep, RemoveTopicsStep, DeletePostsStep,
     DeletePostStep, GetPostedRepliesStep
<1>4. ASSUME NEW th \in Threads, NEW r \in Replies,
             \/ DeleteLikesForReply(th, r) \/ CreateActionReply(th, r)
             \/ GetReply(th, r) \/ DeleteReply(th, r) \/ DeletePostedReply(th, r)
             \/ \E t \in Topics : CreateReply(th, r, t)
      PROVE  IInv'
  BY <1>4, DeleteLikesForReplyStep, CreateActionReplyStep, GetReplyStep, DeleteReplyStep,
     DeletePostedReplyStep, CreateReplyStep
<1>5. ASSUME NEW th \in Threads, NEW i \in Items,
             Unlike(th, i) \/ \E u \in Users : HasLiked(th, i, u)
      PROVE  IInv'
  BY <1>5, UnlikeStep, HasLikedStep
<1>6. ASSUME \/ Restart \/ RecalcForums \/ Serve \/ UNCHANGED vars
             \/ \E r \in Replies : DeleteOrphan(r)
             \/ \E f \in Forums : ResetTopicCount(f)
      PROVE  IInv'
  BY <1>6, RestartStep, BootStep, DeleteOrphanStep, ResetTopicCountStep
<1> QED BY <1>1, <1>2, <1>3, <1>4, <1>5, <1>6 DEF Next

\* IInv is an invariant.
LEMMA InvariantIInv == Spec => []IInv
BY InitIInv, NextIInv, PTL DEF Spec

\* The tables, the cache and the threads keep their types whatever operations
\* overlap, fail or are cut off by a restart.
THEOREM TypeCorrect == Spec => []TypeOK
<1>1. IInv => TypeOK
  BY Split DEF Shape
<1> QED BY <1>1, InvariantIInv, PTL

\* A reply without its topic, or a like of something deleted, is about to be
\* deleted or was left by one of the sequences StraysHaveCause names, for every
\* number of requests, restarts, topics, replies and users.
THEOREM StraysHaveCauseAlways == Spec => []StraysHaveCause
<1>1. IInv => StraysHaveCause
  BY Split
<1> QED BY <1>1, InvariantIInv, PTL

\* A cached reply without a row is of a topic that is gone, is about to leave the
\* cache, or was cached late or left by a deletion that stopped: Topic.Delete,
\* which leaves the reply cache as it is, makes no other kind.
THEOREM CachedReplyHasTopicAlways == Spec => []CachedReplyHasTopic
<1>1. IInv => CachedReplyHasTopic
  BY Split
<1> QED BY <1>1, InvariantIInv, PTL

-----------------------------------------------------------------------------
(* What the counts rest on: what threads have in hand, beyond InHand.      *)

\* What a thread has in hand, beyond its types: rows given out, and deleted ones
\* where it deletes; owed topics only on the walk over topics.
LocalOK(l) ==
    /\ l.at \in {"reply", "uncount", "forget", "drop"} => home[l.item] # None
    /\ \A r \in l.left : home[r] # None
    /\ l.at \in {"uncount", "forget", "drop"} => l.item \notin alive
    /\ l.at = "sweep" => \A r \in l.left : home[r] = l.item
    /\ \A pair \in l.owed : pair[1] \notin alive /\ forum[pair[1]] # None
    /\ l.owed # {} => l.walk = "posts" /\ l.at \in {"posts", "unlike", "liked", "sweep"}
    /\ l.at = "posts" => l.walk = "posts"
    /\ l.at \in OfItem => Known(l.item)
    /\ l.at = "like" => l.n <= ops
ThreadsOK == \A th \in Threads : LocalOK(my[th])

\* Rows, likes and counts are of what was given out, likes of operations begun.
RowsOK ==
    /\ \A r \in Replies \cap alive : home[r] # None
    /\ \A l \in likes : Known(l[1]) /\ l[3] <= ops
    /\ \A i \in Items : ~Known(i) => likeCount[i] = 0

\* The server does not serve while it recalculates.
BootOK == boot # Up => \A th \in Threads : my[th] = Idle

Sound == ThreadsOK /\ RowsOK /\ BootOK

\* What is given out stays where it is, and what gets a row is new.
Monotone ==
    /\ \A r \in Replies : home[r] # None => home'[r] = home[r]
    /\ \A t \in Topics : forum[t] # None => forum'[t] # None
    /\ \A i \in alive' \ alive : ~Known(i)
    /\ \A i \in Items : Known(i) => Known(i)'
    /\ ops <= ops' /\ ops \in Int /\ ops' \in Int

\* What the other threads have in hand stays fit for where they are.
LEMMA OthersKeep ==
    ASSUME IInv, Sound, Monotone, NEW th \in Threads, NEW x, my' = [my EXCEPT ![th] = x],
           LocalOK(my[th])'
    PROVE  ThreadsOK'
<1> SUFFICES ASSUME NEW d \in Threads, d # th PROVE LocalOK(my[d])'
  BY DEF ThreadsOK
<1>1. my'[d] = my[d] /\ my[d] \in Locals /\ LocalOK(my[d])
  BY DEF IInv, LocalTypes, Sound, ThreadsOK
<1> DEFINE l == my[d]
<1>2. /\ l.at \in OfReply => l.item \in Replies
      /\ l.at \in OfItem => l.item \in Items
      /\ l.left \subseteq Replies /\ l.owed \subseteq Topics \X Forums /\ l.n \in Int
  BY <1>1 DEF IInv, InHand, Locals
<1>3. LocalOK(l)
  BY <1>1
<1>4. Topics \cap Replies = {}
  BY ItemsAssumption
<1> HIDE DEF l
<1>5. /\ l.at \in {"reply", "uncount", "forget", "drop"} => home'[l.item] # None
      /\ \A r \in l.left : home'[r] # None
      /\ l.at = "sweep" => \A r \in l.left : home'[r] = l.item
  <2>1. \A r \in Replies : home[r] # None => home'[r] = home[r]
    BY DEF Monotone
  <2>2. /\ l.at \in {"reply", "uncount", "forget", "drop"} => l.item \in Replies /\ home[l.item] # None
        /\ \A r \in l.left : r \in Replies /\ home[r] # None
        /\ l.at = "sweep" => \A r \in l.left : home[r] = l.item
    BY <1>2, <1>3 DEF LocalOK, OfReply
  <2> QED BY <2>1, <2>2
<1>9. /\ \A i : l.at \in OfItem /\ i = l.item => Known(i)'
      /\ l.at = "like" => l.n <= ops'
  <2>1. l.at = "like" => l.n <= ops
    BY <1>3 DEF LocalOK
  <2>2. l.at \in OfItem => l.item \in Items /\ Known(l.item)
    BY <1>2, <1>3 DEF LocalOK
  <2>3. \A i \in Items : Known(i) => Known(i)'
    BY DEF Monotone
  <2>4. ops <= ops' /\ ops \in Int /\ ops' \in Int
    BY DEF Monotone
  <2>5. \A i : l.at \in OfItem /\ i = l.item => Known(i)'
    BY <2>2, <2>3
  <2>6. l.n \in Int
    BY <1>2
  <2>7. l.at = "like" => l.n <= ops'
    BY <2>1, <2>4, <2>6
  <2> QED BY <2>5, <2>7
<1>6. l.at \in {"uncount", "forget", "drop"} => l.item \notin alive'
  BY <1>2, <1>3, <1>4 DEF LocalOK, Monotone, OfReply, Known
<1>7. \A pair \in l.owed : pair[1] \notin alive' /\ forum'[pair[1]] # None
  BY <1>2, <1>3 DEF LocalOK, Monotone, Known
<1> QED BY <1>1, <1>3, <1>5, <1>6, <1>7, <1>9 DEF LocalOK, l, Known

\* AddTopic keeps Sound.
LEMMA AddTopicSound ==
    ASSUME IInv, Sound, NEW th \in Threads, AddTopic(th)
    PROVE  Monotone /\ Sound'
<1> USE NoneAssumption, ItemsAssumption DEF IInv, Items, AddTopic, At, Keep, posts, marks,
   bounds, Sound
<1>1. Monotone
  BY DEF Monotone, Known, RowTypes, LocalTypes, GivenOut, InHand, RowsOK, OfTopic,
     OfReply, OfItem
<1>2. my' = [my EXCEPT ![th] = Idle]
  OBVIOUS
<1>3. LocalOK(my[th]) /\ my[th] \in Locals
  BY DEF ThreadsOK, LocalTypes
<1>4. LocalOK(my[th])'
  BY <1>3 DEF LocalOK, Idle, Do, InForum, Local, Locals, RowTypes, LocalTypes, GivenOut,
     InHand, Known,
     OfTopic, OfReply, OfItem, RowsOK
<1>7. RowsOK'
  BY DEF RowsOK, Known, RowTypes, LocalTypes, GivenOut, InHand, OfTopic, OfReply, OfItem,
     ThreadsOK, LocalOK
<1>8. BootOK'
  BY DEF BootOK, Idle, Do, Local
<1> QED BY <1>1, <1>2, <1>4, <1>7, <1>8, OthersKeep

\* DeleteTopic keeps Sound.
LEMMA DeleteTopicSound ==
    ASSUME IInv, Sound, NEW th \in Threads, DeleteTopic(th)
    PROVE  Monotone /\ Sound'
<1> USE NoneAssumption, ItemsAssumption DEF IInv, Items, DeleteTopic, Strike, At, Keep,
   posts, marks, bounds, Sound
<1>1. Monotone
  BY DEF Monotone, Known, RowTypes, LocalTypes, GivenOut, InHand, RowsOK, OfTopic,
     OfReply, OfItem
<1>2. my' = [my EXCEPT ![th] = [my[th] EXCEPT !.at = "leave"]]
  OBVIOUS
<1>3. LocalOK(my[th]) /\ my[th] \in Locals
  BY DEF ThreadsOK, LocalTypes
<1>4. LocalOK(my[th])'
  BY <1>3 DEF LocalOK, Idle, Do, InForum, Local, Locals, RowTypes, LocalTypes, GivenOut,
     InHand, Known,
     OfTopic, OfReply, OfItem, RowsOK
<1>7. RowsOK'
  BY DEF RowsOK, Known, RowTypes, LocalTypes, GivenOut, InHand, OfTopic, OfReply, OfItem,
     ThreadsOK, LocalOK
<1>8. BootOK'
  BY DEF BootOK, Idle, Do, Local
<1> QED BY <1>1, <1>2, <1>4, <1>7, <1>8, OthersKeep

\* RemoveTopic keeps Sound.
LEMMA RemoveTopicSound ==
    ASSUME IInv, Sound, NEW th \in Threads, RemoveTopic(th)
    PROVE  Monotone /\ Sound'
<1> USE NoneAssumption, ItemsAssumption DEF IInv, Items, RemoveTopic, At, Keep, posts,
   marks, bounds, Sound
<1>1. Monotone
  BY DEF Monotone, Known, RowTypes, LocalTypes, GivenOut, InHand, RowsOK, OfTopic,
     OfReply, OfItem
<1>2. my' = [my EXCEPT ![th] = [my[th] EXCEPT !.at = "unlike"]]
  OBVIOUS
<1>3. LocalOK(my[th]) /\ my[th] \in Locals
  BY DEF ThreadsOK, LocalTypes
<1>4. LocalOK(my[th])'
  BY <1>3 DEF LocalOK, Idle, Do, InForum, Local, Locals, RowTypes, LocalTypes, GivenOut,
     InHand, Known,
     OfTopic, OfReply, OfItem, RowsOK
<1>7. RowsOK'
  BY DEF RowsOK, Known, RowTypes, LocalTypes, GivenOut, InHand, OfTopic, OfReply, OfItem,
     ThreadsOK, LocalOK
<1>8. BootOK'
  BY DEF BootOK, Idle, Do, Local
<1> QED BY <1>1, <1>2, <1>4, <1>7, <1>8, OthersKeep

\* GetLikedReplies keeps Sound.
LEMMA GetLikedRepliesSound ==
    ASSUME IInv, Sound, NEW th \in Threads, GetLikedReplies(th)
    PROVE  Monotone /\ Sound'
<1> USE NoneAssumption, ItemsAssumption DEF IInv, Items, GetLikedReplies, At, Keep, posts,
   marks, bounds, Sound
<1>1. Monotone
  BY DEF Monotone, Known, RowTypes, LocalTypes, GivenOut, InHand, RowsOK, OfTopic,
     OfReply, OfItem
<1>2. my' = [my EXCEPT ![th] =
              [my[th] EXCEPT !.at = "sweep", !.left = {r \in RepliesOf(my[th].item) : likeCount[r] > 0}]]
  OBVIOUS
<1>3. LocalOK(my[th]) /\ my[th] \in Locals
  BY DEF ThreadsOK, LocalTypes
<1>4. LocalOK(my[th])'
  <2> DEFINE left == {r \in RepliesOf(my[th].item) : likeCount[r] > 0}
  <2>1. my[th].item \in Topics /\ forum[my[th].item] # None
    BY DEF InHand, OfTopic
  <2>2. \A r \in left : r \in Replies /\ home[r] = my[th].item /\ home[r] # None
    BY <2>1 DEF RepliesOf
  <2>3. my'[th].at = "sweep" /\ my'[th].left = left /\ my'[th].item = my[th].item /\ my'[th].owed = my[th].owed
        /\ my'[th].walk = my[th].walk
    BY <1>2, <1>3 DEF LocalTypes, Locals
  <2>4. alive' = alive /\ forum' = forum /\ home' = home /\ my[th].at = "liked"
    OBVIOUS
  <2> HIDE DEF left, IInv, GetLikedReplies
  <2> QED BY <1>3, <2>2, <2>3, <2>4 DEF LocalOK, OfItem
<1>7. RowsOK'
  BY DEF RowsOK, Known, RowTypes, LocalTypes, GivenOut, InHand, OfTopic, OfReply, OfItem,
     ThreadsOK, LocalOK
<1>8. BootOK'
  BY DEF BootOK, Idle, Do, Local
<1> QED BY <1>1, <1>2, <1>4, <1>7, <1>8, OthersKeep

\* AddReply keeps Sound.
LEMMA AddReplySound ==
    ASSUME IInv, Sound, NEW th \in Threads, AddReply(th)
    PROVE  Monotone /\ Sound'
<1> USE NoneAssumption, ItemsAssumption DEF IInv, Items, AddReply, At, Keep, posts, marks,
   bounds, Sound
<1>1. Monotone
  BY DEF Monotone, Known, RowTypes, LocalTypes, GivenOut, InHand, RowsOK, OfTopic,
     OfReply, OfItem
<1>2. my' = [my EXCEPT ![th] = Idle]
  OBVIOUS
<1>3. LocalOK(my[th]) /\ my[th] \in Locals
  BY DEF ThreadsOK, LocalTypes
<1>4. LocalOK(my[th])'
  BY <1>3 DEF LocalOK, Idle, Do, InForum, Local, Locals, RowTypes, LocalTypes, GivenOut,
     InHand, Known,
     OfTopic, OfReply, OfItem, RowsOK
<1>7. RowsOK'
  BY DEF RowsOK, Known, RowTypes, LocalTypes, GivenOut, InHand, OfTopic, OfReply, OfItem,
     ThreadsOK, LocalOK
<1>8. BootOK'
  BY DEF BootOK, Idle, Do, Local
<1> QED BY <1>1, <1>2, <1>4, <1>7, <1>8, OthersKeep

\* CacheSet keeps Sound.
LEMMA CacheSetSound ==
    ASSUME IInv, Sound, NEW th \in Threads, CacheSet(th)
    PROVE  Monotone /\ Sound'
<1> USE NoneAssumption, ItemsAssumption DEF IInv, Items, CacheSet, At, Keep, posts, marks,
   bounds, Sound
<1>1. Monotone
  BY DEF Monotone, Known, RowTypes, LocalTypes, GivenOut, InHand, RowsOK, OfTopic,
     OfReply, OfItem
<1>2. my' = [my EXCEPT ![th] = Idle]
  OBVIOUS
<1>3. LocalOK(my[th]) /\ my[th] \in Locals
  BY DEF ThreadsOK, LocalTypes
<1>4. LocalOK(my[th])'
  BY <1>3 DEF LocalOK, Idle, Do, InForum, Local, Locals, RowTypes, LocalTypes, GivenOut,
     InHand, Known,
     OfTopic, OfReply, OfItem, RowsOK
<1>7. RowsOK'
  BY DEF RowsOK, Known, RowTypes, LocalTypes, GivenOut, InHand, OfTopic, OfReply, OfItem,
     ThreadsOK, LocalOK
<1>8. BootOK'
  BY DEF BootOK, Idle, Do, Local
<1> QED BY <1>1, <1>2, <1>4, <1>7, <1>8, OthersKeep

\* RemoveRepliesFromTopic keeps Sound.
LEMMA RemoveRepliesFromTopicSound ==
    ASSUME IInv, Sound, NEW th \in Threads, RemoveRepliesFromTopic(th)
    PROVE  Monotone /\ Sound'
<1> USE NoneAssumption, ItemsAssumption DEF IInv, Items, RemoveRepliesFromTopic, At, Keep,
   posts, marks, bounds, Sound
<1>1. Monotone
  BY DEF Monotone, Known, RowTypes, LocalTypes, GivenOut, InHand, RowsOK, OfTopic,
     OfReply, OfItem
<1>2. my' = [my EXCEPT ![th] = [my[th] EXCEPT !.at = "forget"]]
  OBVIOUS
<1>3. LocalOK(my[th]) /\ my[th] \in Locals
  BY DEF ThreadsOK, LocalTypes
<1>4. LocalOK(my[th])'
  BY <1>3 DEF LocalOK, Idle, Do, InForum, Local, Locals, RowTypes, LocalTypes, GivenOut,
     InHand, Known,
     OfTopic, OfReply, OfItem, RowsOK
<1>7. RowsOK'
  BY DEF RowsOK, Known, RowTypes, LocalTypes, GivenOut, InHand, OfTopic, OfReply, OfItem,
     ThreadsOK, LocalOK
<1>8. BootOK'
  BY DEF BootOK, Idle, Do, Local
<1> QED BY <1>1, <1>2, <1>4, <1>7, <1>8, OthersKeep

\* CacheRemove keeps Sound.
LEMMA CacheRemoveSound ==
    ASSUME IInv, Sound, NEW th \in Threads, CacheRemove(th)
    PROVE  Monotone /\ Sound'
<1> USE NoneAssumption, ItemsAssumption DEF IInv, Items, CacheRemove, At, Keep, posts,
   marks, bounds, Sound
<1>1. Monotone
  BY DEF Monotone, Known, RowTypes, LocalTypes, GivenOut, InHand, RowsOK, OfTopic,
     OfReply, OfItem
<1>2. my' = [my EXCEPT ![th] = [my[th] EXCEPT !.at = "drop"]]
  OBVIOUS
<1>3. LocalOK(my[th]) /\ my[th] \in Locals
  BY DEF ThreadsOK, LocalTypes
<1>4. LocalOK(my[th])'
  BY <1>3 DEF LocalOK, Idle, Do, InForum, Local, Locals, RowTypes, LocalTypes, GivenOut,
     InHand, Known,
     OfTopic, OfReply, OfItem, RowsOK
<1>7. RowsOK'
  BY DEF RowsOK, Known, RowTypes, LocalTypes, GivenOut, InHand, OfTopic, OfReply, OfItem,
     ThreadsOK, LocalOK
<1>8. BootOK'
  BY DEF BootOK, Idle, Do, Local
<1> QED BY <1>1, <1>2, <1>4, <1>7, <1>8, OthersKeep

\* CreateLike keeps Sound.
LEMMA CreateLikeSound ==
    ASSUME IInv, Sound, NEW th \in Threads, CreateLike(th)
    PROVE  Monotone /\ Sound'
<1> USE NoneAssumption, ItemsAssumption DEF IInv, Items, CreateLike, At, Keep, posts,
   marks, bounds, Sound
<1>1. Monotone
  BY DEF Monotone, Known, RowTypes, LocalTypes, GivenOut, InHand, RowsOK, OfTopic,
     OfReply, OfItem
<1>2. my' = [my EXCEPT ![th] = Do("count", my[th].item)]
  OBVIOUS
<1>3. LocalOK(my[th]) /\ my[th] \in Locals
  BY DEF ThreadsOK, LocalTypes
<1>4. LocalOK(my[th])'
  BY <1>3 DEF LocalOK, Idle, Do, InForum, Local, Locals, RowTypes, LocalTypes, GivenOut,
     InHand, Known,
     OfTopic, OfReply, OfItem, RowsOK
<1>7. RowsOK'
  BY DEF RowsOK, Known, RowTypes, LocalTypes, GivenOut, InHand, OfTopic, OfReply, OfItem,
     ThreadsOK, LocalOK
<1>8. BootOK'
  BY DEF BootOK, Idle, Do, Local
<1> QED BY <1>1, <1>2, <1>4, <1>7, <1>8, OthersKeep

\* AddLikes keeps Sound.
LEMMA AddLikesSound ==
    ASSUME IInv, Sound, NEW th \in Threads, AddLikes(th)
    PROVE  Monotone /\ Sound'
<1> USE NoneAssumption, ItemsAssumption DEF IInv, Items, AddLikes, At, Keep, posts, marks,
   bounds, Sound
<1>1. Monotone
  BY DEF Monotone, Known, RowTypes, LocalTypes, GivenOut, InHand, RowsOK, OfTopic,
     OfReply, OfItem
<1>2. my' = [my EXCEPT ![th] = Do("purge", my[th].item)]
  OBVIOUS
<1>3. LocalOK(my[th]) /\ my[th] \in Locals
  BY DEF ThreadsOK, LocalTypes
<1>4. LocalOK(my[th])'
  BY <1>3 DEF LocalOK, Idle, Do, InForum, Local, Locals, RowTypes, LocalTypes, GivenOut,
     InHand, Known,
     OfTopic, OfReply, OfItem, RowsOK
<1>7. RowsOK'
  BY DEF RowsOK, Known, RowTypes, LocalTypes, GivenOut, InHand, OfTopic, OfReply, OfItem,
     ThreadsOK, LocalOK
<1>8. BootOK'
  BY DEF BootOK, Idle, Do, Local
<1> QED BY <1>1, <1>2, <1>4, <1>7, <1>8, OthersKeep

\* Purge keeps Sound.
LEMMA PurgeSound ==
    ASSUME IInv, Sound, NEW th \in Threads, Purge(th)
    PROVE  Monotone /\ Sound'
<1> USE NoneAssumption, ItemsAssumption DEF IInv, Items, Purge, At, Keep, posts, marks,
   bounds, Sound
<1>1. Monotone
  BY DEF Monotone, Known, RowTypes, LocalTypes, GivenOut, InHand, RowsOK, OfTopic,
     OfReply, OfItem
<1>2. my' = [my EXCEPT ![th] = Idle]
  OBVIOUS
<1>3. LocalOK(my[th]) /\ my[th] \in Locals
  BY DEF ThreadsOK, LocalTypes
<1>4. LocalOK(my[th])'
  BY <1>3 DEF LocalOK, Idle, Do, InForum, Local, Locals, RowTypes, LocalTypes, GivenOut,
     InHand, Known,
     OfTopic, OfReply, OfItem, RowsOK
<1>7. RowsOK'
  BY DEF RowsOK, Known, RowTypes, LocalTypes, GivenOut, InHand, OfTopic, OfReply, OfItem,
     ThreadsOK, LocalOK
<1>8. BootOK'
  BY DEF BootOK, Idle, Do, Local
<1> QED BY <1>1, <1>2, <1>4, <1>7, <1>8, OthersKeep

\* GiveUp keeps Sound.
LEMMA GiveUpSound ==
    ASSUME IInv, Sound, NEW th \in Threads, GiveUp(th)
    PROVE  Monotone /\ Sound'
<1> USE NoneAssumption, ItemsAssumption DEF IInv, Items, GiveUp, At, Keep, posts, marks,
   bounds, Sound
<1>1. Monotone
  BY DEF Monotone, Known, RowTypes, LocalTypes, GivenOut, InHand, RowsOK, OfTopic,
     OfReply, OfItem
<1>2. my' = [my EXCEPT ![th] = Idle]
  OBVIOUS
<1>3. LocalOK(my[th]) /\ my[th] \in Locals
  BY DEF ThreadsOK, LocalTypes
<1>4. LocalOK(my[th])'
  BY <1>3 DEF LocalOK, Idle, Do, InForum, Local, Locals, RowTypes, LocalTypes, GivenOut,
     InHand, Known,
     OfTopic, OfReply, OfItem, RowsOK
<1>7. RowsOK'
  BY DEF RowsOK, Known, RowTypes, LocalTypes, GivenOut, InHand, OfTopic, OfReply, OfItem,
     ThreadsOK, LocalOK
<1>8. BootOK'
  BY DEF BootOK, Idle, Do, Local
<1> QED BY <1>1, <1>2, <1>4, <1>7, <1>8, OthersKeep

\* GetTopic keeps Sound.
LEMMA GetTopicSound ==
    ASSUME IInv, Sound, NEW th \in Threads, NEW t \in Topics, GetTopic(th, t)
    PROVE  Monotone /\ Sound'
<1> USE NoneAssumption, ItemsAssumption DEF IInv, Items, GetTopic, Begin, At, Keep, posts,
   marks, bounds, Sound
<1>1. Monotone
  BY DEF Monotone, Known, RowTypes, LocalTypes, GivenOut, InHand, RowsOK, OfTopic,
     OfReply, OfItem
<1>2. my' = [my EXCEPT ![th] = InForum("held", t, forum[t], postCount[t])]
  OBVIOUS
<1>3. LocalOK(my[th]) /\ my[th] \in Locals
  BY DEF ThreadsOK, LocalTypes
<1>4. LocalOK(my[th])'
  BY <1>3 DEF LocalOK, Idle, Do, InForum, Local, Locals, RowTypes, LocalTypes, GivenOut,
     InHand, Known,
     OfTopic, OfReply, OfItem, RowsOK
<1>7. RowsOK'
  BY DEF RowsOK, Known, RowTypes, LocalTypes, GivenOut, InHand, OfTopic, OfReply, OfItem,
     ThreadsOK, LocalOK
<1>8. BootOK'
  BY DEF BootOK, Idle, Do, Local
<1> QED BY <1>1, <1>2, <1>4, <1>7, <1>8, OthersKeep

\* InsertTopic keeps Sound.
LEMMA InsertTopicSound ==
    ASSUME IInv, Sound, NEW th \in Threads, NEW t \in Topics, NEW f \in Forums,
           InsertTopic(th, t, f)
    PROVE  Monotone /\ Sound'
<1> USE NoneAssumption, ItemsAssumption DEF IInv, Items, InsertTopic, Begin, At, Keep,
   posts, marks, bounds, Sound
<1>1. Monotone
  BY DEF Monotone, Known, RowTypes, LocalTypes, GivenOut, InHand, RowsOK, OfTopic,
     OfReply, OfItem
<1>2. my' = [my EXCEPT ![th] = InForum("enter", t, f, 0)]
  OBVIOUS
<1>3. LocalOK(my[th]) /\ my[th] \in Locals
  BY DEF ThreadsOK, LocalTypes
<1>4. LocalOK(my[th])'
  BY <1>3 DEF LocalOK, Idle, Do, InForum, Local, Locals, RowTypes, LocalTypes, GivenOut,
     InHand, Known,
     OfTopic, OfReply, OfItem, RowsOK
<1>7. RowsOK'
  BY DEF RowsOK, Known, RowTypes, LocalTypes, GivenOut, InHand, OfTopic, OfReply, OfItem,
     ThreadsOK, LocalOK
<1>8. BootOK'
  BY DEF BootOK, Idle, Do, Local
<1> QED BY <1>1, <1>2, <1>4, <1>7, <1>8, OthersKeep

\* MoveTo keeps Sound.
LEMMA MoveToSound ==
    ASSUME IInv, Sound, NEW th \in Threads, NEW f \in Forums, MoveTo(th, f)
    PROVE  Monotone /\ Sound'
<1> USE NoneAssumption, ItemsAssumption DEF IInv, Items, MoveTo, At, Keep, posts, marks,
   bounds, Sound
<1>1. Monotone
  BY DEF Monotone, Known, RowTypes, LocalTypes, GivenOut, InHand, RowsOK, OfTopic,
     OfReply, OfItem
<1>2. my' = [my EXCEPT ![th] = Do("moved", my[th].item)]
  OBVIOUS
<1>3. LocalOK(my[th]) /\ my[th] \in Locals
  BY DEF ThreadsOK, LocalTypes
<1>4. LocalOK(my[th])'
  BY <1>3 DEF LocalOK, Idle, Do, InForum, Local, Locals, RowTypes, LocalTypes, GivenOut,
     InHand, Known,
     OfTopic, OfReply, OfItem, RowsOK
<1>7. RowsOK'
  BY DEF RowsOK, Known, RowTypes, LocalTypes, GivenOut, InHand, OfTopic, OfReply, OfItem,
     ThreadsOK, LocalOK
<1>8. BootOK'
  BY DEF BootOK, Idle, Do, Local
<1> QED BY <1>1, <1>2, <1>4, <1>7, <1>8, OthersKeep

\* RemoveTopics keeps Sound.
LEMMA RemoveTopicsSound ==
    ASSUME IInv, Sound, NEW th \in Threads, NEW f \in Forums, RemoveTopics(th, f)
    PROVE  Monotone /\ Sound'
<1> USE NoneAssumption, ItemsAssumption DEF IInv, Items, RemoveTopics, At, Keep, posts,
   marks, bounds, Sound
<1>1. Monotone
  BY DEF Monotone, Known, RowTypes, LocalTypes, GivenOut, InHand, RowsOK, OfTopic,
     OfReply, OfItem
<1>2. my' = [my EXCEPT ![th] = [my[th] EXCEPT !.owed = @ \ OwedTo(th, f)]]
  OBVIOUS
<1>3. LocalOK(my[th]) /\ my[th] \in Locals
  BY DEF ThreadsOK, LocalTypes
<1>4. LocalOK(my[th])'
  BY <1>3 DEF LocalOK, Idle, Do, InForum, Local, Locals, RowTypes, LocalTypes, GivenOut,
     InHand, Known,
     OfTopic, OfReply, OfItem, RowsOK
<1>7. RowsOK'
  BY DEF RowsOK, Known, RowTypes, LocalTypes, GivenOut, InHand, OfTopic, OfReply, OfItem,
     ThreadsOK, LocalOK
<1>8. BootOK'
  BY DEF BootOK, Idle, Do, Local
<1> QED BY <1>1, <1>2, <1>4, <1>7, <1>8, OthersKeep

\* DeletePosts keeps Sound.
LEMMA DeletePostsSound ==
    ASSUME IInv, Sound, NEW th \in Threads, NEW S \in SUBSET Topics, DeletePosts(th, S)
    PROVE  Monotone /\ Sound'
<1> USE NoneAssumption, ItemsAssumption DEF IInv, Items, DeletePosts, Begin, At, Keep,
   posts, marks, bounds, Sound
<1>1. Monotone
  BY DEF Monotone, Known, RowTypes, LocalTypes, GivenOut, InHand, RowsOK, OfTopic,
     OfReply, OfItem
<1>2. my' = [my EXCEPT ![th] = Posting({<<t, forum[t], postCount[t]>> : t \in S}, {})]
  OBVIOUS
<1>3. LocalOK(my[th]) /\ my[th] \in Locals
  BY DEF ThreadsOK, LocalTypes
<1>4. LocalOK(my[th])'
  <2>1. my'[th].at = "posts" /\ my'[th].walk = "posts" /\ my'[th].left = {} /\ my'[th].owed = {}
    BY <1>2 DEF Posting, LocalTypes
  <2> QED BY <2>1 DEF LocalOK, OfItem
<1>7. RowsOK'
  BY DEF RowsOK, Known, RowTypes, LocalTypes, GivenOut, InHand, OfTopic, OfReply, OfItem,
     ThreadsOK, LocalOK
<1>8. BootOK'
  BY DEF BootOK, Idle, Do, Local
<1> QED BY <1>1, <1>2, <1>4, <1>7, <1>8, OthersKeep

\* DeletePost keeps Sound.
LEMMA DeletePostSound ==
    ASSUME IInv, Sound, NEW th \in Threads, NEW row \in my[th].todo, DeletePost(th, row)
    PROVE  Monotone /\ Sound'
<1> USE NoneAssumption, ItemsAssumption DEF IInv, Items, DeletePost, Strike, At, Keep,
   posts, marks, bounds, Sound
<1>1. Monotone
  BY DEF Monotone, Known, RowTypes, LocalTypes, GivenOut, InHand, RowsOK, OfTopic,
     OfReply, OfItem
<1>2. my' = [my EXCEPT ![th] = [my[th] EXCEPT !.at = "unlike", !.item = row[1], !.n = row[3],
                                   !.todo = @ \ {row}, !.owed = @ \cup {<<row[1], row[2]>>}]]
  OBVIOUS
<1>3. LocalOK(my[th]) /\ my[th] \in Locals
  BY DEF ThreadsOK, LocalTypes
<1>4. LocalOK(my[th])'
  <2>1. row[1] \in Topics /\ forum[row[1]] # None
    BY <1>3 DEF InHand, Locals
  <2> DEFINE owed == my[th].owed \cup {<<row[1], row[2]>>}
  <2>2. my'[th].at = "unlike" /\ my'[th].left = my[th].left /\ my'[th].owed = owed
        /\ my'[th].walk = my[th].walk
    BY <1>2, <1>3 DEF LocalTypes, Locals
  <2>3. \A pair \in owed : pair[1] \notin alive' /\ forum'[pair[1]] # None
    BY <1>3, <2>1 DEF LocalOK
  <2>4. home' = home /\ my[th].at = "posts"
    OBVIOUS
  <2>5. my[th].walk = "posts"
    BY <2>4, <1>3 DEF LocalOK
  <2> HIDE DEF owed, IInv, DeletePost
  <2> QED BY <1>3, <2>2, <2>3, <2>4, <2>5 DEF LocalOK, OfItem
<1>7. RowsOK'
  BY DEF RowsOK, Known, RowTypes, LocalTypes, GivenOut, InHand, OfTopic, OfReply, OfItem,
     ThreadsOK, LocalOK
<1>8. BootOK'
  BY DEF BootOK, Idle, Do, Local
<1> QED BY <1>1, <1>2, <1>4, <1>7, <1>8, OthersKeep

\* GetPostedReplies keeps Sound.
LEMMA GetPostedRepliesSound ==
    ASSUME IInv, Sound, NEW th \in Threads, NEW S \in SUBSET Replies, GetPostedReplies(th, S)
    PROVE  Monotone /\ Sound'
<1> USE NoneAssumption, ItemsAssumption DEF IInv, Items, GetPostedReplies, At, Keep,
   posts, marks, bounds, Sound
<1>1. Monotone
  BY DEF Monotone, Known, RowTypes, LocalTypes, GivenOut, InHand, RowsOK, OfTopic,
     OfReply, OfItem
<1>2. my' = [my EXCEPT ![th] = Walk(S)]
  OBVIOUS
<1>3. LocalOK(my[th]) /\ my[th] \in Locals
  BY DEF ThreadsOK, LocalTypes
<1>4. LocalOK(my[th])'
  <2>1. my'[th].at \in {"idle", "posted"} /\ my'[th].left \subseteq S /\ my'[th].owed = {}
    BY <1>2 DEF Walk, Idle, Do, Local, LocalTypes
  <2>2. \A r \in S : home'[r] # None
    BY DEF RowsOK
  <2> QED BY <2>1, <2>2 DEF LocalOK, OfItem
<1>7. RowsOK'
  BY DEF RowsOK, Known, RowTypes, LocalTypes, GivenOut, InHand, OfTopic, OfReply, OfItem,
     ThreadsOK, LocalOK
<1>8. BootOK'
  BY DEF BootOK, Idle, Do, Local
<1> QED BY <1>1, <1>2, <1>4, <1>7, <1>8, OthersKeep

\* DeletePostedReply keeps Sound.
LEMMA DeletePostedReplySound ==
    ASSUME IInv, Sound, NEW th \in Threads, NEW r \in Replies, DeletePostedReply(th, r)
    PROVE  Monotone /\ Sound'
<1> USE NoneAssumption, ItemsAssumption DEF IInv, Items, DeletePostedReply, StrikeReply,
   At, Keep, posts, marks, bounds, Sound
<1>1. Monotone
  BY DEF Monotone, Known, RowTypes, LocalTypes, GivenOut, InHand, RowsOK, OfTopic,
     OfReply, OfItem
<1>2. my' = [my EXCEPT ![th] = [my[th] EXCEPT !.at = "uncount", !.item = r, !.left = @ \ {r}]]
  OBVIOUS
<1>3. LocalOK(my[th]) /\ my[th] \in Locals
  BY DEF ThreadsOK, LocalTypes
<1>4. LocalOK(my[th])'
  BY <1>3 DEF LocalOK, Idle, Do, InForum, Local, Locals, RowTypes, LocalTypes, GivenOut,
     InHand, Known,
     OfTopic, OfReply, OfItem, RowsOK
<1>7. RowsOK'
  BY DEF RowsOK, Known, RowTypes, LocalTypes, GivenOut, InHand, OfTopic, OfReply, OfItem,
     ThreadsOK, LocalOK
<1>8. BootOK'
  BY DEF BootOK, Idle, Do, Local
<1> QED BY <1>1, <1>2, <1>4, <1>7, <1>8, OthersKeep

\* DeleteLikesForReply keeps Sound.
LEMMA DeleteLikesForReplySound ==
    ASSUME IInv, Sound, NEW th \in Threads, NEW r \in Replies, DeleteLikesForReply(th, r)
    PROVE  Monotone /\ Sound'
<1> USE NoneAssumption, ItemsAssumption DEF IInv, Items, DeleteLikesForReply, At, Keep,
   posts, marks, bounds, Sound
<1>1. Monotone
  BY DEF Monotone, Known, RowTypes, LocalTypes, GivenOut, InHand, RowsOK, OfTopic,
     OfReply, OfItem
<1>2. my' = [my EXCEPT ![th] = [my[th] EXCEPT !.left = @ \ {r}]]
  OBVIOUS
<1>3. LocalOK(my[th]) /\ my[th] \in Locals
  BY DEF ThreadsOK, LocalTypes
<1>4. LocalOK(my[th])'
  BY <1>3 DEF LocalOK, Idle, Do, InForum, Local, Locals, RowTypes, LocalTypes, GivenOut,
     InHand, Known,
     OfTopic, OfReply, OfItem, RowsOK
<1>7. RowsOK'
  BY DEF RowsOK, Known, RowTypes, LocalTypes, GivenOut, InHand, OfTopic, OfReply, OfItem,
     ThreadsOK, LocalOK
<1>8. BootOK'
  BY DEF BootOK, Idle, Do, Local
<1> QED BY <1>1, <1>2, <1>4, <1>7, <1>8, OthersKeep

\* CreateActionReply keeps Sound.
LEMMA CreateActionReplySound ==
    ASSUME IInv, Sound, NEW th \in Threads, NEW r \in Replies, CreateActionReply(th, r)
    PROVE  Monotone /\ Sound'
<1> USE NoneAssumption, ItemsAssumption DEF IInv, Items, CreateActionReply, NewReply, At,
   Keep, posts, marks, bounds, Sound
<1>1. Monotone
  BY DEF Monotone, Known, RowTypes, LocalTypes, GivenOut, InHand, RowsOK, OfTopic,
     OfReply, OfItem
<1>2. my' = [my EXCEPT ![th] = Do("reply", r)]
  OBVIOUS
<1>3. LocalOK(my[th]) /\ my[th] \in Locals
  BY DEF ThreadsOK, LocalTypes
<1>4. LocalOK(my[th])'
  BY <1>3 DEF LocalOK, Idle, Do, InForum, Local, Locals, RowTypes, LocalTypes, GivenOut,
     InHand, Known,
     OfTopic, OfReply, OfItem, RowsOK
<1>7. RowsOK'
  BY DEF RowsOK, Known, RowTypes, LocalTypes, GivenOut, InHand, OfTopic, OfReply, OfItem,
     ThreadsOK, LocalOK
<1>8. BootOK'
  BY DEF BootOK, Idle, Do, Local
<1> QED BY <1>1, <1>2, <1>4, <1>7, <1>8, OthersKeep

\* CreateReply keeps Sound.
LEMMA CreateReplySound ==
    ASSUME IInv, Sound, NEW th \in Threads, NEW r \in Replies, NEW t \in Topics,
           CreateReply(th, r, t)
    PROVE  Monotone /\ Sound'
<1> USE NoneAssumption, ItemsAssumption DEF IInv, Items, CreateReply, Begin, NewReply, At,
   Keep, posts, marks, bounds, Sound
<1>1. Monotone
  BY DEF Monotone, Known, RowTypes, LocalTypes, GivenOut, InHand, RowsOK, OfTopic,
     OfReply, OfItem
<1>2. my' = [my EXCEPT ![th] = Do("reply", r)]
  OBVIOUS
<1>3. LocalOK(my[th]) /\ my[th] \in Locals
  BY DEF ThreadsOK, LocalTypes
<1>4. LocalOK(my[th])'
  BY <1>3 DEF LocalOK, Idle, Do, InForum, Local, Locals, RowTypes, LocalTypes, GivenOut,
     InHand, Known,
     OfTopic, OfReply, OfItem, RowsOK
<1>7. RowsOK'
  BY DEF RowsOK, Known, RowTypes, LocalTypes, GivenOut, InHand, OfTopic, OfReply, OfItem,
     ThreadsOK, LocalOK
<1>8. BootOK'
  BY DEF BootOK, Idle, Do, Local
<1> QED BY <1>1, <1>2, <1>4, <1>7, <1>8, OthersKeep

\* GetReply keeps Sound.
LEMMA GetReplySound ==
    ASSUME IInv, Sound, NEW th \in Threads, NEW r \in Replies, GetReply(th, r)
    PROVE  Monotone /\ Sound'
<1> USE NoneAssumption, ItemsAssumption DEF IInv, Items, GetReply, Begin, At, Keep, posts,
   marks, bounds, Sound
<1>1. Monotone
  BY DEF Monotone, Known, RowTypes, LocalTypes, GivenOut, InHand, RowsOK, OfTopic,
     OfReply, OfItem
<1>2. my' = [my EXCEPT ![th] = Do("set", r)]
  OBVIOUS
<1>3. LocalOK(my[th]) /\ my[th] \in Locals
  BY DEF ThreadsOK, LocalTypes
<1>4. LocalOK(my[th])'
  BY <1>3 DEF LocalOK, Idle, Do, InForum, Local, Locals, RowTypes, LocalTypes, GivenOut,
     InHand, Known,
     OfTopic, OfReply, OfItem, RowsOK
<1>7. RowsOK'
  BY DEF RowsOK, Known, RowTypes, LocalTypes, GivenOut, InHand, OfTopic, OfReply, OfItem,
     ThreadsOK, LocalOK
<1>8. BootOK'
  BY DEF BootOK, Idle, Do, Local
<1> QED BY <1>1, <1>2, <1>4, <1>7, <1>8, OthersKeep

\* DeleteReply keeps Sound.
LEMMA DeleteReplySound ==
    ASSUME IInv, Sound, NEW th \in Threads, NEW r \in Replies, DeleteReply(th, r)
    PROVE  Monotone /\ Sound'
<1> USE NoneAssumption, ItemsAssumption DEF IInv, Items, DeleteReply, Begin, StrikeReply,
   At, Keep, posts, marks, bounds, Sound
<1>1. Monotone
  BY DEF Monotone, Known, RowTypes, LocalTypes, GivenOut, InHand, RowsOK, OfTopic,
     OfReply, OfItem
<1>2. my' = [my EXCEPT ![th] = Do("uncount", r)]
  OBVIOUS
<1>3. LocalOK(my[th]) /\ my[th] \in Locals
  BY DEF ThreadsOK, LocalTypes
<1>4. LocalOK(my[th])'
  BY <1>3 DEF LocalOK, Idle, Do, InForum, Local, Locals, RowTypes, LocalTypes, GivenOut,
     InHand, Known,
     OfTopic, OfReply, OfItem, RowsOK
<1>7. RowsOK'
  BY DEF RowsOK, Known, RowTypes, LocalTypes, GivenOut, InHand, OfTopic, OfReply, OfItem,
     ThreadsOK, LocalOK
<1>8. BootOK'
  BY DEF BootOK, Idle, Do, Local
<1> QED BY <1>1, <1>2, <1>4, <1>7, <1>8, OthersKeep

\* Unlike keeps Sound.
LEMMA UnlikeSound ==
    ASSUME IInv, Sound, NEW th \in Threads, NEW i \in Items, Unlike(th, i)
    PROVE  Monotone /\ Sound'
<1> USE NoneAssumption, ItemsAssumption DEF IInv, Items, Unlike, Begin, At, Keep, posts,
   marks, bounds, Sound
<1>1. Monotone
  BY DEF Monotone, Known, RowTypes, LocalTypes, GivenOut, InHand, RowsOK, OfTopic,
     OfReply, OfItem
<1>2. my' = [my EXCEPT ![th] = Do("discount", i)]
  OBVIOUS
<1>3. LocalOK(my[th]) /\ my[th] \in Locals
  BY DEF ThreadsOK, LocalTypes
<1>4. LocalOK(my[th])'
  BY <1>3 DEF LocalOK, Idle, Do, InForum, Local, Locals, RowTypes, LocalTypes, GivenOut,
     InHand, Known,
     OfTopic, OfReply, OfItem, RowsOK
<1>7. RowsOK'
  BY DEF RowsOK, Known, RowTypes, LocalTypes, GivenOut, InHand, OfTopic, OfReply, OfItem,
     ThreadsOK, LocalOK
<1>8. BootOK'
  BY DEF BootOK, Idle, Do, Local
<1> QED BY <1>1, <1>2, <1>4, <1>7, <1>8, OthersKeep

\* HasLiked keeps Sound.
LEMMA HasLikedSound ==
    ASSUME IInv, Sound, NEW th \in Threads, NEW i \in Items, NEW u \in Users,
           HasLiked(th, i, u)
    PROVE  Monotone /\ Sound'
<1> USE NoneAssumption, ItemsAssumption DEF IInv, Items, HasLiked, Begin, At, Keep, posts,
   marks, bounds, Sound
<1>1. Monotone
  BY DEF Monotone, Known, RowTypes, LocalTypes, GivenOut, InHand, RowsOK, OfTopic,
     OfReply, OfItem
<1>2. my' = [my EXCEPT ![th] = Local("like", i, None, ops + 1, u)]
  OBVIOUS
<1>3. LocalOK(my[th]) /\ my[th] \in Locals
  BY DEF ThreadsOK, LocalTypes
<1>4. LocalOK(my[th])'
  BY <1>3 DEF LocalOK, Idle, Do, InForum, Local, Locals, RowTypes, LocalTypes, GivenOut,
     InHand, Known,
     OfTopic, OfReply, OfItem, RowsOK
<1>7. RowsOK'
  BY DEF RowsOK, Known, RowTypes, LocalTypes, GivenOut, InHand, OfTopic, OfReply, OfItem,
     ThreadsOK, LocalOK
<1>8. BootOK'
  BY DEF BootOK, Idle, Do, Local
<1> QED BY <1>1, <1>2, <1>4, <1>7, <1>8, OthersKeep


\* A thread that is done with its item takes the rest of its walk along.
LEMMA ResumesTo ==
    ASSUME IInv, NEW th \in Threads, LocalOK(my[th]), Resume(th)
    PROVE  /\ \E x : my' = [my EXCEPT ![th] = x]
           /\ my'[th].at \in {"idle", "posts", "posted"}
           /\ my'[th].left \subseteq my[th].left
           /\ my'[th].owed = my[th].owed
           /\ my'[th].owed # {} \/ my'[th].at = "posts" => my'[th].walk = "posts"
           /\ my'[th].owed # {} => my'[th].at = "posts"
<1>1. my[th] \in Locals /\ my \in [Threads -> Locals]
  BY DEF IInv, LocalTypes
<1>2. CASE my[th].walk = "posts"
  BY <1>1, <1>2 DEF Resume, Keep, Posting
<1>3. CASE my[th].walk # "posts"
  <2>1. my[th].owed = {}
    BY <1>3 DEF LocalOK
  <2>2. CASE my[th].walk = "idle"
    BY <1>1, <2>1, <2>2 DEF Resume, Keep, Idle, Do, Local
  <2>3. CASE my[th].walk = "posted"
    <3>1. my' = [my EXCEPT ![th] = Walk(my[th].left)]
      BY <2>3 DEF Resume, Keep
    <3>2. LET w == Walk(my[th].left)
          IN  w.at \in {"idle", "posted"} /\ w.left \subseteq my[th].left /\ w.owed = {}
      BY DEF Walk, Idle, Do, Local
    <3> QED BY <1>1, <2>1, <3>1, <3>2
  <2> QED BY <1>1, <1>3, <2>2, <2>3 DEF Locals
<1> QED BY <1>2, <1>3

\* DeleteReplies keeps Sound.
LEMMA DeleteRepliesSound ==
    ASSUME IInv, Sound, NEW th \in Threads, DeleteReplies(th)
    PROVE  Monotone /\ Sound'
<1> USE NoneAssumption, ItemsAssumption DEF IInv, Items, DeleteReplies, At, Keep, posts,
   marks, bounds, Sound
<1>1. Monotone
  BY DEF Monotone, Known, RowTypes, LocalTypes, GivenOut, InHand, RowsOK, OfTopic,
     OfReply, OfItem
<1>2. Resume(th)
  OBVIOUS
<1>3. LocalOK(my[th]) /\ my[th] \in Locals
  BY DEF ThreadsOK, LocalTypes
<1>4. LocalOK(my[th])'
  BY <1>2, <1>3, ResumesTo DEF LocalOK, OfItem
<1>7. RowsOK'
  BY DEF RowsOK, Known, RowTypes, LocalTypes, GivenOut, InHand, OfTopic, OfReply, OfItem,
     ThreadsOK, LocalOK
<1>8. BootOK'
  BY DEF BootOK, Idle, Do, Local
<1> QED BY <1>1, <1>2, <1>3, <1>4, <1>7, <1>8, ResumesTo, OthersKeep

\* DropLikes keeps Sound.
LEMMA DropLikesSound ==
    ASSUME IInv, Sound, NEW th \in Threads, DropLikes(th)
    PROVE  Monotone /\ Sound'
<1> USE NoneAssumption, ItemsAssumption DEF IInv, Items, DropLikes, At, Keep, posts,
   marks, bounds, Sound
<1>1. Monotone
  BY DEF Monotone, Known, RowTypes, LocalTypes, GivenOut, InHand, RowsOK, OfTopic,
     OfReply, OfItem
<1>2. Resume(th)
  OBVIOUS
<1>3. LocalOK(my[th]) /\ my[th] \in Locals
  BY DEF ThreadsOK, LocalTypes
<1>4. LocalOK(my[th])'
  BY <1>2, <1>3, ResumesTo DEF LocalOK, OfItem
<1>7. RowsOK'
  BY DEF RowsOK, Known, RowTypes, LocalTypes, GivenOut, InHand, OfTopic, OfReply, OfItem,
     ThreadsOK, LocalOK
<1>8. BootOK'
  BY DEF BootOK, Idle, Do, Local
<1> QED BY <1>1, <1>2, <1>3, <1>4, <1>7, <1>8, ResumesTo, OthersKeep

\* DeleteLikesForTopic keeps Sound.
LEMMA DeleteLikesForTopicSound ==
    ASSUME IInv, Sound, NEW th \in Threads, DeleteLikesForTopic(th)
    PROVE  Monotone /\ Sound'
<1> USE NoneAssumption, ItemsAssumption DEF IInv, Items, DeleteLikesForTopic, At, Keep,
   posts, marks, bounds, Sound
<1>1. Monotone
  BY DEF Monotone, Known, RowTypes, LocalTypes, GivenOut, InHand, RowsOK, OfTopic,
     OfReply, OfItem
<1>3. LocalOK(my[th]) /\ my[th] \in Locals
  BY DEF ThreadsOK, LocalTypes
<1>7. RowsOK'
  BY DEF RowsOK, Known, RowTypes, LocalTypes, GivenOut, InHand, OfTopic, OfReply, OfItem,
     ThreadsOK, LocalOK
<1>8. BootOK'
  BY DEF BootOK, Idle, Do, Local
<1>4. CASE my[th].n > 1
  <2>1. my' = [my EXCEPT ![th] = [my[th] EXCEPT !.at = "liked"]]
    BY <1>4
  <2>2. LocalOK(my[th])'
    BY <1>3, <2>1 DEF LocalOK, Locals, LocalTypes, OfItem
  <2> QED BY <1>1, <1>7, <1>8, <2>1, <2>2, OthersKeep
<1>5. CASE ~(my[th].n > 1)
  <2>1. Resume(th)
    BY <1>5
  <2>2. LocalOK(my[th])'
    BY <2>1, <1>3, ResumesTo DEF LocalOK, OfItem
  <2> QED BY <1>1, <1>3, <1>7, <1>8, <2>1, <2>2, ResumesTo, OthersKeep
<1> QED BY <1>4, <1>5


\* Restart keeps Sound.
LEMMA RestartSound ==
    ASSUME IInv, Sound, Restart
    PROVE  Monotone /\ Sound'
<1> USE BoundAssumption DEF IInv, Items, Restart, Sound, posts, marks, bounds
<1>1. Monotone
  BY DEF Monotone, Known, LocalTypes
<1>2. \A th \in Threads : my'[th] = Idle
  OBVIOUS
<1>3. ThreadsOK'
  BY <1>2 DEF ThreadsOK, LocalOK, Idle, Do, Local, OfItem
<1>4. RowsOK'
  BY DEF RowsOK, Known
<1>5. BootOK'
  BY <1>2 DEF BootOK, Idle, Do, Local
<1> QED BY <1>1, <1>3, <1>4, <1>5

\* The recalculation keeps Sound.
LEMMA BootSound ==
    ASSUME IInv, Sound,
           \/ RecalcForums \/ Serve \/ UNCHANGED vars
           \/ \E r \in Replies : DeleteOrphan(r)
           \/ \E f \in Forums : ResetTopicCount(f)
    PROVE  Monotone /\ Sound'
<1> USE DEF IInv, Items, Sound, RecalcForums, Serve, DeleteOrphan, ResetTopicCount, vars,
   posts, marks, bounds
<1>0. /\ my' = my /\ ops' = ops /\ alive' \subseteq alive /\ forum' = forum /\ home' = home
      /\ likes' \subseteq likes /\ likeCount' = likeCount
  OBVIOUS
<1>1. Monotone
  BY <1>0 DEF Monotone, Known, LocalTypes
<1>3. ThreadsOK'
  BY <1>0 DEF ThreadsOK, LocalOK, Known
<1>4. RowsOK'
  BY <1>0 DEF RowsOK, Known
<1>5. BootOK'
  BY DEF BootOK, Up
<1> QED BY <1>1, <1>3, <1>4, <1>5

\* At the start everything is sound.
LEMMA InitSound == Init => Sound
<1> SUFFICES ASSUME Init PROVE Sound
  OBVIOUS
<1>1. ThreadsOK
  BY DEF Init, ThreadsOK, LocalOK, Idle, Do, Local, OfItem
<1>2. RowsOK
  <2>1. \A i \in Items : ~Known(i) => LikesOf(i) = {}
    BY NoneAssumption, ItemsAssumption DEF Init, Known, LikesOf, Items
  <2>2. \A i \in Items : ~Known(i) => likeCount[i] = 0
    BY <2>1, FS_EmptySet DEF Init
  <2>3. \A r \in Replies \cap alive : home[r] # None
    BY NoneAssumption DEF Init, Items
  <2>4. \A l \in likes : l[1] \in Items \cap alive /\ l[3] = 0 /\ ops = 0
    BY DEF Init
  <2>5. \A i \in Items \cap alive : Known(i)
    BY <2>3, ItemsAssumption DEF Init, Known, Items
  <2> QED BY <2>2, <2>3, <2>4, <2>5 DEF RowsOK
<1>3. BootOK
  BY DEF Init, BootOK
<1> QED BY <1>1, <1>2, <1>3 DEF Sound

\* Every step keeps Sound.
LEMMA NextSound ==
    ASSUME IInv, Sound, [Next]_vars
    PROVE  Monotone /\ Sound'
<1>1. ASSUME NEW th \in Threads,
             \/ GiveUp(th) \/ AddTopic(th) \/ DeleteTopic(th) \/ RemoveTopic(th)
             \/ DeleteLikesForTopic(th) \/ GetLikedReplies(th) \/ DeleteReplies(th)
      PROVE  Monotone /\ Sound'
  BY <1>1, GiveUpSound, AddTopicSound, DeleteTopicSound, RemoveTopicSound,
     DeleteLikesForTopicSound, GetLikedRepliesSound, DeleteRepliesSound
<1>2. ASSUME NEW th \in Threads,
             \/ AddReply(th) \/ CacheSet(th) \/ RemoveRepliesFromTopic(th) \/ CacheRemove(th)
             \/ DropLikes(th) \/ CreateLike(th) \/ AddLikes(th) \/ Purge(th)
      PROVE  Monotone /\ Sound'
  BY <1>2, AddReplySound, CacheSetSound, RemoveRepliesFromTopicSound, CacheRemoveSound,
     DropLikesSound, CreateLikeSound, AddLikesSound, PurgeSound
<1>3. ASSUME NEW th \in Threads,
             \/ \E t \in Topics : GetTopic(th, t)
             \/ \E t \in Topics, f \in Forums : InsertTopic(th, t, f)
             \/ \E f \in Forums : MoveTo(th, f) \/ RemoveTopics(th, f)
             \/ \E S \in SUBSET Topics : DeletePosts(th, S)
             \/ \E row \in my[th].todo : DeletePost(th, row)
             \/ \E S \in SUBSET Replies : GetPostedReplies(th, S)
      PROVE  Monotone /\ Sound'
  BY <1>3, GetTopicSound, InsertTopicSound, MoveToSound, RemoveTopicsSound, DeletePostsSound,
     DeletePostSound, GetPostedRepliesSound
<1>4. ASSUME NEW th \in Threads, NEW r \in Replies,
             \/ DeleteLikesForReply(th, r) \/ CreateActionReply(th, r)
             \/ GetReply(th, r) \/ DeleteReply(th, r) \/ DeletePostedReply(th, r)
             \/ \E t \in Topics : CreateReply(th, r, t)
      PROVE  Monotone /\ Sound'
  BY <1>4, DeleteLikesForReplySound, CreateActionReplySound, GetReplySound, DeleteReplySound,
     DeletePostedReplySound, CreateReplySound
<1>5. ASSUME NEW th \in Threads, NEW i \in Items,
             Unlike(th, i) \/ \E u \in Users : HasLiked(th, i, u)
      PROVE  Monotone /\ Sound'
  BY <1>5, UnlikeSound, HasLikedSound
<1>6. CASE \/ Restart \/ RecalcForums \/ Serve \/ UNCHANGED vars
           \/ \E r \in Replies : DeleteOrphan(r)
           \/ \E f \in Forums : ResetTopicCount(f)
  BY <1>6, RestartSound, BootSound
<1> QED BY <1>1, <1>2, <1>3, <1>4, <1>5, <1>6 DEF Next

-----------------------------------------------------------------------------
(* postCount: a topic and its replies.                                     *)

\* One more and one fewer in a finite set.
LEMMA OneMore ==
    ASSUME NEW S, NEW x, IsFiniteSet(S), x \notin S
    PROVE  /\ Cardinality(S) \in Nat /\ Cardinality(S \cup {x}) \in Nat
           /\ Cardinality(S \cup {x}) = Cardinality(S) + 1
BY FS_AddElement, FS_CardinalityType

\* One fewer in a finite set.
LEMMA OneFewer ==
    ASSUME NEW S, NEW x, IsFiniteSet(S), x \in S
    PROVE  /\ Cardinality(S) \in Nat /\ Cardinality(S \ {x}) \in Nat
           /\ Cardinality(S \ {x}) = Cardinality(S) - 1
BY FS_RemoveElement, FS_CardinalityType

\* The threads that have still to count a reply of t, and to count one out.
Adding(t) == {th \in Threads : At(th, "reply") /\ home[my[th].item] = t}
Taking(t) == {th \in Threads : At(th, "uncount") /\ home[my[th].item] = t}
PostSum(t) ==
    postCount[t] = 1 + Cardinality(RepliesOf(t)) - Cardinality(Adding(t)) + Cardinality(Taking(t))

\* PostsCounted by topic.
LEMMA PostsBySum ==
    /\ PostsCounted <=> \A t \in Topics \cap alive : t \notin lost.posts => PostSum(t)
    /\ PostsCounted' <=> \A t \in Topics \cap alive' : t \notin lost'.posts => PostSum(t)'
BY DEF PostsCounted, PostSum, Adding, Taking

\* All the sets counted are finite.
LEMMA PostsFinite ==
    /\ IsFiniteSet(Threads) /\ IsFiniteSet(Topics) /\ IsFiniteSet(Replies)
    /\ \A t : IsFiniteSet(RepliesOf(t)) /\ IsFiniteSet(Adding(t)) /\ IsFiniteSet(Taking(t))
    /\ \A t : /\ Cardinality(RepliesOf(t)) \in Nat
              /\ Cardinality(Adding(t)) \in Nat /\ Cardinality(Taking(t)) \in Nat
<1>1. IsFiniteSet(Threads) /\ IsFiniteSet(Topics) /\ IsFiniteSet(Replies)
  BY FiniteAssumption, FS_Subset, Topics \subseteq Items, Replies \subseteq Items DEF Items
<1>2. ASSUME NEW t
      PROVE  /\ RepliesOf(t) \in SUBSET Replies
             /\ Adding(t) \in SUBSET Threads /\ Taking(t) \in SUBSET Threads
  BY DEF RepliesOf, Adding, Taking
<1>3. ASSUME NEW t
      PROVE  IsFiniteSet(RepliesOf(t)) /\ IsFiniteSet(Adding(t)) /\ IsFiniteSet(Taking(t))
  BY <1>1, <1>2, FS_Subset
<1> QED BY <1>1, <1>3, FS_CardinalityType

\* A topic of which nothing changes that its count depends on.
SamePosts(t) ==
    /\ postCount'[t] = postCount[t] /\ RepliesOf(t)' = RepliesOf(t)
    /\ Adding(t)' = Adding(t) /\ Taking(t)' = Taking(t)

\* Such a topic is counted as before.
LEMMA SameSum ==
    ASSUME NEW t, PostSum(t), SamePosts(t)
    PROVE  PostSum(t)'
BY DEF PostSum, SamePosts

\* Threads that are not at a count, before or after, do not matter to it.
LEMMA NobodyCounts ==
    ASSUME IInv, Sound, Monotone, NEW th \in Threads, \A d \in Threads \ {th} : my'[d] = my[d]
    PROVE  \A t : /\ Adding(t)' \ {th} = Adding(t) \ {th}
                  /\ Taking(t)' \ {th} = Taking(t) \ {th}
                  /\ my[th].at # "reply" => th \notin Adding(t)
                  /\ my[th].at # "uncount" => th \notin Taking(t)
                  /\ my'[th].at # "reply" => th \notin Adding(t)'
                  /\ my'[th].at # "uncount" => th \notin Taking(t)'
<1>1. \A d \in Threads : my[d].at \in {"reply", "uncount"} =>
        my[d].item \in Replies /\ home'[my[d].item] = home[my[d].item]
  BY DEF IInv, InHand, OfReply, Sound, ThreadsOK, LocalOK, Monotone
<1> QED BY <1>1 DEF Adding, Taking, At

\* A step that is none of the statements that count, insert or delete replies.
PostsAside(th) ==
    /\ \A d \in Threads \ {th} : my'[d] = my[d]
    /\ my[th].at \notin {"reply", "uncount"} /\ my'[th].at \notin {"reply", "uncount"}
    /\ postCount' = postCount /\ lost.posts \subseteq lost'.posts
    /\ \A t \in Topics \cap alive' : t \in alive /\ RepliesOf(t)' = RepliesOf(t)

\* It keeps PostsCounted.
LEMMA PostsElsewhere ==
    ASSUME IInv, Sound, Monotone, PostsCounted, NEW th \in Threads,
           PostsAside(th)
    PROVE  PostsCounted'
<1> USE DEF PostsAside
<1> SUFFICES ASSUME NEW t \in Topics \cap alive', t \notin lost'.posts PROVE PostSum(t)'
  BY PostsBySum
<1>1. PostSum(t)
  BY PostsBySum
<1>2. SamePosts(t)
  BY NobodyCounts DEF SamePosts
<1> QED BY <1>1, <1>2, SameSum

\* The statements that count.
LEMMA AddReplyPosts ==
    ASSUME IInv, Sound, Monotone, PostsCounted, NEW th \in Threads, AddReply(th)
    PROVE  PostsCounted'
<1> DEFINE s == home[my[th].item]
<1>1. /\ my[th].at = "reply" /\ my' = [my EXCEPT ![th] = Idle] /\ my \in [Threads -> Locals]
      /\ alive' = alive /\ home' = home /\ lost' = lost
      /\ postCount' = IF s \in alive THEN [postCount EXCEPT ![s] = @ + 1] ELSE postCount
      /\ postCount \in [Topics -> Int]
  BY DEF AddReply, At, Keep, marks, IInv, LocalTypes, RowTypes
<1>2. my'[th].at = "idle" /\ \A d \in Threads \ {th} : my'[d] = my[d]
  BY <1>1 DEF Idle, Do, Local
<1> SUFFICES ASSUME NEW t \in Topics \cap alive', t \notin lost'.posts PROVE PostSum(t)'
  BY PostsBySum
<1>3. PostSum(t) /\ RepliesOf(t)' = RepliesOf(t)
  BY <1>1, PostsBySum DEF RepliesOf
<1>4. /\ Adding(t)' \ {th} = Adding(t) \ {th} /\ th \notin Adding(t)'
      /\ Taking(t)' = Taking(t) /\ (th \in Adding(t) <=> t = s)
  <2>1. th \in Adding(t) <=> t = s
    BY <1>1 DEF Adding, At
  <2>2. /\ Adding(t)' \ {th} = Adding(t) \ {th} /\ Taking(t)' \ {th} = Taking(t) \ {th}
        /\ my[th].at # "reply" => th \notin Adding(t)
        /\ my[th].at # "uncount" => th \notin Taking(t)
        /\ my'[th].at # "reply" => th \notin Adding(t)'
        /\ my'[th].at # "uncount" => th \notin Taking(t)'
    BY <1>2, NobodyCounts
  <2>3. my[th].at = "reply" /\ my'[th].at = "idle"
    BY <1>1, <1>2
  <2> HIDE DEF s
  <2> QED BY <2>1, <2>2, <2>3
<1>5. CASE t = s
  <2>1. Adding(t)' = Adding(t) \ {th} /\ th \in Adding(t)
    BY <1>4, <1>5
  <2>2. Cardinality(Adding(t)') = Cardinality(Adding(t)) - 1
    BY <2>1, PostsFinite, OneFewer
  <2>3. postCount'[t] = postCount[t] + 1
    BY <1>1, <1>5
  <2>4. Cardinality(RepliesOf(t)) \in Nat /\ Cardinality(Adding(t)) \in Nat /\ Cardinality(Taking(t)) \in Nat
    BY PostsFinite
  <2> QED BY <1>1, <1>3, <1>4, <2>2, <2>3, <2>4 DEF PostSum
<1>6. CASE t # s
  <2>2. postCount'[t] = postCount[t]
    BY <1>1, <1>6
  <2>3. Adding(t)' = Adding(t) /\ Taking(t)' = Taking(t)
    BY <1>4, <1>6
  <2>1. SamePosts(t)
    BY <1>3, <2>2, <2>3 DEF SamePosts
  <2> QED BY <1>3, <2>1, SameSum
<1> QED BY <1>5, <1>6

\* RemoveReplies keeps PostsCounted.
LEMMA RemoveRepliesPosts ==
    ASSUME IInv, Sound, Monotone, PostsCounted, NEW th \in Threads, RemoveRepliesFromTopic(th)
    PROVE  PostsCounted'
<1> DEFINE s == home[my[th].item]
<1>1. /\ my[th].at = "uncount" /\ my' = [my EXCEPT ![th] = [my[th] EXCEPT !.at = "forget"]]
      /\ my \in [Threads -> Locals]
      /\ alive' = alive /\ home' = home /\ lost' = lost
      /\ postCount' = IF s \in alive THEN [postCount EXCEPT ![s] = @ - 1] ELSE postCount
      /\ postCount \in [Topics -> Int]
  BY DEF RemoveRepliesFromTopic, At, Keep, marks, IInv, LocalTypes, RowTypes
<1>2. my'[th].at = "forget" /\ \A d \in Threads \ {th} : my'[d] = my[d]
  BY <1>1 DEF Locals
<1> SUFFICES ASSUME NEW t \in Topics \cap alive', t \notin lost'.posts PROVE PostSum(t)'
  BY PostsBySum
<1>3. PostSum(t) /\ RepliesOf(t)' = RepliesOf(t)
  BY <1>1, PostsBySum DEF RepliesOf
<1>4. /\ Taking(t)' \ {th} = Taking(t) \ {th} /\ th \notin Taking(t)'
      /\ Adding(t)' = Adding(t) /\ (th \in Taking(t) <=> t = s)
  <2>1. th \in Taking(t) <=> t = s
    BY <1>1 DEF Taking, At
  <2>2. /\ Adding(t)' \ {th} = Adding(t) \ {th} /\ Taking(t)' \ {th} = Taking(t) \ {th}
        /\ my[th].at # "reply" => th \notin Adding(t)
        /\ my[th].at # "uncount" => th \notin Taking(t)
        /\ my'[th].at # "reply" => th \notin Adding(t)'
        /\ my'[th].at # "uncount" => th \notin Taking(t)'
    BY <1>2, NobodyCounts
  <2>3. my[th].at = "uncount" /\ my'[th].at = "forget"
    BY <1>1, <1>2
  <2> HIDE DEF s
  <2> QED BY <2>1, <2>2, <2>3
<1>5. CASE t = s
  <2>1. Taking(t)' = Taking(t) \ {th} /\ th \in Taking(t)
    BY <1>4, <1>5
  <2>2. Cardinality(Taking(t)') = Cardinality(Taking(t)) - 1
    BY <2>1, PostsFinite, OneFewer
  <2>3. postCount'[t] = postCount[t] - 1
    BY <1>1, <1>5
  <2>4. Cardinality(RepliesOf(t)) \in Nat /\ Cardinality(Adding(t)) \in Nat /\ Cardinality(Taking(t)) \in Nat
    BY PostsFinite
  <2> QED BY <1>1, <1>3, <1>4, <2>2, <2>3, <2>4 DEF PostSum
<1>6. CASE t # s
  <2>2. postCount'[t] = postCount[t]
    BY <1>1, <1>6
  <2>3. Adding(t)' = Adding(t) /\ Taking(t)' = Taking(t)
    BY <1>4, <1>6
  <2>1. SamePosts(t)
    BY <1>3, <2>2, <2>3 DEF SamePosts
  <2> QED BY <1>3, <2>1, SameSum
<1> QED BY <1>5, <1>6

\* A reply is inserted, and is still to be counted.
LEMMA NewReplyPosts ==
    ASSUME IInv, Sound, Monotone, PostsCounted, NEW th \in Threads, NEW r \in Replies,
           NEW s \in Topics,
           my[th].at \notin {"reply", "uncount"}, NewReply(th, r, s)
    PROVE  PostsCounted'
<1>1. /\ my' = [my EXCEPT ![th] = Do("reply", r)] /\ my \in [Threads -> Locals]
      /\ alive' = alive \cup {r} /\ home[r] = None /\ home' = [home EXCEPT ![r] = s]
      /\ lost' = lost /\ postCount' = postCount
      /\ home \in [Replies -> Topics \cup {None}] /\ r \notin Topics
  BY ItemsAssumption DEF NewReply, Keep, IInv, LocalTypes, RowTypes
<1>2. /\ my'[th].at = "reply" /\ my'[th].item = r /\ \A d \in Threads \ {th} : my'[d] = my[d]
  BY <1>1 DEF Do, Local
<1> SUFFICES ASSUME NEW t \in Topics \cap alive', t \notin lost'.posts PROVE PostSum(t)'
  BY PostsBySum
<1>3. t \in alive /\ PostSum(t) /\ t # None
  BY <1>1, PostsBySum, NoneAssumption DEF Items
<1>4. /\ Adding(t)' \ {th} = Adding(t) \ {th} /\ th \notin Adding(t)
      /\ Taking(t)' = Taking(t) /\ (th \in Adding(t)' <=> t = s)
  <2>1. th \in Adding(t)' <=> t = s
    BY <1>1, <1>2 DEF Adding, At
  <2>2. /\ Adding(t)' \ {th} = Adding(t) \ {th} /\ Taking(t)' \ {th} = Taking(t) \ {th}
        /\ my[th].at # "reply" => th \notin Adding(t)
        /\ my[th].at # "uncount" => th \notin Taking(t)
        /\ my'[th].at # "reply" => th \notin Adding(t)'
        /\ my'[th].at # "uncount" => th \notin Taking(t)'
    BY <1>2, NobodyCounts
  <2>3. my[th].at \notin {"reply", "uncount"} /\ my'[th].at = "reply"
    BY <1>1, <1>2
  <2> QED BY <2>1, <2>2, <2>3
<1>5. RepliesOf(t)' = IF t = s THEN RepliesOf(t) \cup {r} ELSE RepliesOf(t)
  BY <1>1, <1>3 DEF RepliesOf
<1>6. r \notin RepliesOf(t)
  BY <1>1, <1>3 DEF RepliesOf
<1>7. CASE t = s
  <2>1. Adding(t)' = Adding(t) \cup {th} /\ RepliesOf(t)' = RepliesOf(t) \cup {r}
    BY <1>4, <1>5, <1>7
  <2>2. Cardinality(Adding(t)') = Cardinality(Adding(t)) + 1
    BY <2>1, <1>4, PostsFinite, OneMore
  <2>3. Cardinality(RepliesOf(t)') = Cardinality(RepliesOf(t)) + 1
    BY <2>1, <1>6, PostsFinite, OneMore
  <2>4. Cardinality(RepliesOf(t)) \in Nat /\ Cardinality(Adding(t)) \in Nat /\ Cardinality(Taking(t)) \in Nat
    BY PostsFinite
  <2>5. postCount[t] \in Int
    BY DEF IInv, RowTypes
  <2> QED BY <1>1, <1>3, <1>4, <2>2, <2>3, <2>4, <2>5 DEF PostSum
<1>8. CASE t # s
  <2>1. SamePosts(t)
    BY <1>1, <1>4, <1>5, <1>8 DEF SamePosts
  <2> QED BY <1>3, <2>1, SameSum
<1> QED BY <1>7, <1>8

\* A reply is deleted, and is still counted.
LEMMA StrikeReplyPosts ==
    ASSUME IInv, Sound, Monotone, PostsCounted, NEW th \in Threads, NEW r \in Replies,
           my[th].at \notin {"reply", "uncount"}, home[r] # None, StrikeReply(r),
           \A d \in Threads \ {th} : my'[d] = my[d], my'[th].at = "uncount", my'[th].item = r
    PROVE  PostsCounted'
<1>1. /\ alive' = alive \ {r} /\ home' = home /\ postCount' = postCount
      /\ lost'.posts = IF r \in alive THEN lost.posts ELSE lost.posts \cup {home[r]}
      /\ r \notin Topics
  BY ItemsAssumption DEF StrikeReply, posts, IInv, MarkTypes
<1> SUFFICES ASSUME NEW t \in Topics \cap alive', t \notin lost'.posts PROVE PostSum(t)'
  BY PostsBySum
<1>3. t \in alive /\ t \notin lost.posts /\ PostSum(t)
  BY <1>1, PostsBySum
<1>4. /\ Taking(t)' \ {th} = Taking(t) \ {th} /\ th \notin Taking(t)
      /\ Adding(t)' = Adding(t) /\ (th \in Taking(t)' <=> t = home[r])
  <2>1. th \in Taking(t)' <=> t = home[r]
    BY <1>1 DEF Taking, At
  <2> QED BY <2>1, NobodyCounts
<1>5. RepliesOf(t)' = RepliesOf(t) \ {r}
  BY <1>1 DEF RepliesOf
<1>6. CASE t = home[r]
  <2>1. r \in RepliesOf(t)
    BY <1>1, <1>6 DEF RepliesOf
  <2>2. Cardinality(RepliesOf(t)') = Cardinality(RepliesOf(t)) - 1
    BY <2>1, <1>5, PostsFinite, OneFewer
  <2>3. Taking(t)' = Taking(t) \cup {th}
    BY <1>4, <1>6
  <2>4. Cardinality(Taking(t)') = Cardinality(Taking(t)) + 1
    BY <2>3, <1>4, PostsFinite, OneMore
  <2>5. Cardinality(RepliesOf(t)) \in Nat /\ Cardinality(Adding(t)) \in Nat /\ Cardinality(Taking(t)) \in Nat
    BY PostsFinite
  <2>6. postCount[t] \in Int
    BY DEF IInv, RowTypes
  <2> QED BY <1>1, <1>3, <1>4, <2>2, <2>4, <2>5, <2>6 DEF PostSum
<1>7. CASE t # home[r]
  <2>1. RepliesOf(t)' = RepliesOf(t) /\ Taking(t)' = Taking(t)
    BY <1>4, <1>5, <1>7 DEF RepliesOf
  <2> QED BY <1>1, <1>3, <1>4, <2>1, SameSum DEF SamePosts
<1> QED BY <1>6, <1>7

\* The steps that are none of these.
LEMMA PostsAsideSteps ==
    ASSUME IInv, Sound, NEW th \in Threads
    PROVE  /\ AddTopic(th) \/ RemoveTopic(th) \/ GetLikedReplies(th) \/ CacheSet(th) => PostsAside(th)
           /\ CacheRemove(th) \/ CreateLike(th) \/ AddLikes(th) \/ Purge(th) => PostsAside(th)
           /\ DropLikes(th) \/ DeleteLikesForTopic(th) \/ DeleteReplies(th) => PostsAside(th)
           /\ DeleteTopic(th) => PostsAside(th)
           /\ \A t \in Topics : GetTopic(th, t) => PostsAside(th)
           /\ \A f \in Forums : MoveTo(th, f) \/ RemoveTopics(th, f) => PostsAside(th)
           /\ \A S \in SUBSET Topics : DeletePosts(th, S) => PostsAside(th)
           /\ \A row \in my[th].todo : DeletePost(th, row) => PostsAside(th)
           /\ \A S \in SUBSET Replies : GetPostedReplies(th, S) => PostsAside(th)
           /\ \A r \in Replies : DeleteLikesForReply(th, r) \/ GetReply(th, r) => PostsAside(th)
           /\ \A i \in Items : Unlike(th, i) => PostsAside(th)
           /\ \A i \in Items, u \in Users : HasLiked(th, i, u) => PostsAside(th)
<1> USE DEF PostsAside, RepliesOf, At, Keep, Begin, Idle, Do, InForum, Local, posts, marks
<1>0. /\ my \in [Threads -> Locals] /\ my[th] \in Locals /\ Topics \cap Replies = {}
      /\ lost \in [posts : SUBSET (Topics \cup {None}), likes : SUBSET (Items \cup {None}),
                     topics : SUBSET (Forums \cup {None})]
  BY ItemsAssumption DEF IInv, LocalTypes, MarkTypes
<1>1. AddTopic(th) => PostsAside(th)
  BY <1>0 DEF AddTopic
<1>2. RemoveTopic(th) => PostsAside(th)
  BY <1>0 DEF RemoveTopic, Locals
<1>3. GetLikedReplies(th) => PostsAside(th)
  BY <1>0 DEF GetLikedReplies, Locals
<1>4. CacheSet(th) => PostsAside(th)
  BY <1>0 DEF CacheSet
<1>5. CacheRemove(th) => PostsAside(th)
  BY <1>0 DEF CacheRemove, Locals
<1>6. CreateLike(th) => PostsAside(th)
  BY <1>0 DEF CreateLike
<1>7. AddLikes(th) => PostsAside(th)
  BY <1>0 DEF AddLikes
<1>8. Purge(th) => PostsAside(th)
  BY <1>0 DEF Purge
<1>9. DropLikes(th) => PostsAside(th)
  BY <1>0, ResumesTo DEF DropLikes, Sound, ThreadsOK
<1>10. DeleteLikesForTopic(th) => PostsAside(th)
  BY <1>0, ResumesTo DEF DeleteLikesForTopic, Sound, ThreadsOK, Locals
<1>11. DeleteReplies(th) => PostsAside(th)
  BY <1>0, ResumesTo DEF DeleteReplies, Sound, ThreadsOK, IInv, InHand, OfDeleted
<1>12. DeleteTopic(th) => PostsAside(th)
  BY <1>0 DEF DeleteTopic, Strike, Locals, IInv, InHand, OfTopic
<1>13. \A t \in Topics : GetTopic(th, t) => PostsAside(th)
  BY <1>0 DEF GetTopic
<1>14. \A f \in Forums : MoveTo(th, f) => PostsAside(th)
  BY <1>0 DEF MoveTo
<1>15. \A f \in Forums : RemoveTopics(th, f) => PostsAside(th)
  BY <1>0 DEF RemoveTopics, Locals
<1>16. \A S \in SUBSET Topics : DeletePosts(th, S) => PostsAside(th)
  BY <1>0 DEF DeletePosts, Posting
<1>17. \A row \in my[th].todo : DeletePost(th, row) => PostsAside(th)
  BY <1>0 DEF DeletePost, Strike, Locals
<1>18. \A S \in SUBSET Replies : GetPostedReplies(th, S) => PostsAside(th)
  BY <1>0 DEF GetPostedReplies, Walk
<1>19. \A r \in Replies : DeleteLikesForReply(th, r) => PostsAside(th)
  BY <1>0 DEF DeleteLikesForReply, Locals
<1>20. \A r \in Replies : GetReply(th, r) => PostsAside(th)
  BY <1>0 DEF GetReply
<1>21. \A i \in Items : Unlike(th, i) => PostsAside(th)
  BY <1>0 DEF Unlike
<1>22. \A i \in Items, u \in Users : HasLiked(th, i, u) => PostsAside(th)
  BY <1>0 DEF HasLiked
<1> HIDE DEF PostsAside
<1> QED BY <1>1, <1>2, <1>3, <1>4, <1>5, <1>6, <1>7, <1>8, <1>9, <1>10, <1>11, <1>12,
     <1>13, <1>14, <1>15, <1>16, <1>17, <1>18, <1>19, <1>20, <1>21, <1>22

\* A new topic has no replies, and nobody is to count one.
LEMMA InsertTopicPosts ==
    ASSUME IInv, Sound, Monotone, PostsCounted, NEW th \in Threads, NEW s \in Topics,
           NEW f \in Forums,
           InsertTopic(th, s, f)
    PROVE  PostsCounted'
<1>1. /\ my[th].at = "idle" /\ my' = [my EXCEPT ![th] = InForum("enter", s, f, 0)]
      /\ my \in [Threads -> Locals] /\ forum[s] = None
      /\ alive' = alive \cup {s} /\ home' = home /\ lost' = lost
      /\ postCount' = [postCount EXCEPT ![s] = 1] /\ postCount \in [Topics -> Int]
      /\ s \notin Replies
  BY ItemsAssumption DEF InsertTopic, Begin, At, Keep, marks, IInv, LocalTypes, RowTypes
<1>2. my'[th].at = "enter" /\ \A d \in Threads \ {th} : my'[d] = my[d]
  BY <1>1 DEF InForum, Local
<1>3. \A t : Adding(t)' = Adding(t) /\ Taking(t)' = Taking(t) /\ RepliesOf(t)' = RepliesOf(t)
  <2>1. \A t : Adding(t)' = Adding(t) /\ Taking(t)' = Taking(t)
    <3>1. \A t : /\ Adding(t)' \ {th} = Adding(t) \ {th}
                /\ Taking(t)' \ {th} = Taking(t) \ {th}
      BY <1>2, NobodyCounts
    <3>2. \A t : /\ th \notin Adding(t) /\ th \notin Adding(t)'
                /\ th \notin Taking(t) /\ th \notin Taking(t)'
      BY <1>1, <1>2 DEF Adding, Taking, At
    <3> QED BY <3>1, <3>2
  <2>2. \A t : RepliesOf(t)' = RepliesOf(t)
    BY <1>1 DEF RepliesOf
  <2> QED BY <2>1, <2>2
<1> SUFFICES ASSUME NEW t \in Topics \cap alive', t \notin lost'.posts PROVE PostSum(t)'
  BY PostsBySum
<1>4. CASE t = s
  <2>1. \A r \in Replies : home[r] # s
    BY <1>1, NoneAssumption DEF IInv, GivenOut, Items
  <2>2. RepliesOf(s) = {} /\ Adding(s) = {} /\ Taking(s) = {}
    BY <2>1 DEF RepliesOf, Adding, Taking, At, IInv, InHand, OfReply
  <2>3. Cardinality(RepliesOf(t)') = 0 /\ Cardinality(Adding(t)') = 0 /\ Cardinality(Taking(t)') = 0
    BY <1>3, <1>4, <2>2, FS_EmptySet
  <2>4. postCount'[t] = 1
    BY <1>1, <1>4
  <2> QED BY <2>3, <2>4 DEF PostSum
<1>5. CASE t # s
  <2>1. t \in alive /\ PostSum(t) /\ postCount'[t] = postCount[t]
    BY <1>1, <1>5, PostsBySum
  <2> QED BY <1>3, <2>1, SameSum DEF SamePosts
<1> QED BY <1>4, <1>5

\* Threads that return: the topics whose replies they were to count are marked.
LEMMA AbandonPosts ==
    ASSUME IInv, Sound, PostsCounted, NEW S \in SUBSET Threads, Abandon(S),
           \A d \in Threads \ S : my'[d] = my[d], \A d \in S : my'[d].at = "idle",
           UNCHANGED <<alive, posts>>
    PROVE  PostsCounted'
<1>1. home' = home /\ postCount' = postCount /\ alive' = alive
  BY DEF posts
<1> SUFFICES ASSUME NEW t \in Topics \cap alive', t \notin lost'.posts PROVE PostSum(t)'
  BY PostsBySum
<1>2. lost'.posts = lost.posts \cup {home[my[d].item] : d \in {e \in S : my[e].at \in {"reply", "uncount"}}}
  BY DEF Abandon
<1>3. \A d \in S : d \notin Adding(t) /\ d \notin Taking(t)
  BY <1>2 DEF Adding, Taking, At
<1>4. Adding(t)' = Adding(t) /\ Taking(t)' = Taking(t)
  BY <1>1, <1>3 DEF Adding, Taking, At
<1>5. PostSum(t)
  BY <1>1, <1>2, PostsBySum
<1> QED BY <1>1, <1>4, <1>5, SameSum DEF SamePosts, RepliesOf

\* GiveUp keeps PostsCounted.
LEMMA GiveUpPosts ==
    ASSUME IInv, Sound, PostsCounted, NEW th \in Threads, GiveUp(th)
    PROVE  PostsCounted'
<1>1. Abandon({th}) /\ UNCHANGED <<alive, posts>> /\ my' = [my EXCEPT ![th] = Idle]
      /\ my \in [Threads -> Locals]
  BY DEF GiveUp, Keep, IInv, LocalTypes
<1>2. my'[th].at = "idle" /\ \A d \in Threads \ {th} : my'[d] = my[d]
  BY <1>1 DEF Idle, Do, Local
<1> QED BY <1>1, <1>2, AbandonPosts

\* Restart keeps PostsCounted.
LEMMA RestartPosts ==
    ASSUME IInv, Sound, PostsCounted, Restart
    PROVE  PostsCounted'
<1>1. Abandon(Threads) /\ UNCHANGED <<alive, posts>>
  BY DEF Restart
<1>2. \A d \in Threads : my'[d].at = "idle"
  BY DEF Restart, Idle, Do, Local
<1> QED BY <1>1, <1>2, AbandonPosts

\* The recalculation leaves postCount alone, and the replies of topics there are.
LEMMA BootPosts ==
    ASSUME PostsCounted, IInv,
           \/ RecalcForums \/ Serve \/ UNCHANGED vars
           \/ \E r \in Replies : DeleteOrphan(r)
           \/ \E f \in Forums : ResetTopicCount(f)
    PROVE  PostsCounted'
<1>1. /\ my' = my /\ home' = home /\ postCount' = postCount /\ lost'.posts = lost.posts
      /\ alive' \subseteq alive
      /\ \A r \in Replies : r \in alive \ alive' => home[r] \notin alive
  BY DEF RecalcForums, Serve, DeleteOrphan, ResetTopicCount, vars, posts, marks, IInv,
     MarkTypes
<1> SUFFICES ASSUME NEW t \in Topics \cap alive', t \notin lost'.posts PROVE PostSum(t)'
  BY PostsBySum
<1>2. PostSum(t) /\ RepliesOf(t)' = RepliesOf(t)
  BY <1>1, PostsBySum DEF RepliesOf
<1> QED BY <1>1, <1>2, SameSum DEF SamePosts, Adding, Taking, At

\* The counts are right at the start.
LEMMA InitPosts == Init => PostsCounted
<1> SUFFICES ASSUME Init, NEW t \in Topics \cap alive PROVE PostSum(t)
  BY PostsBySum
<1>1. Adding(t) = {} /\ Taking(t) = {}
  BY DEF Init, Adding, Taking, At, Idle, Do, Local
<1>2. postCount[t] = 1 + Cardinality(RepliesOf(t))
  BY DEF Init
<1> QED BY <1>1, <1>2, FS_EmptySet, PostsFinite DEF PostSum

\* Every step keeps PostsCounted.
LEMMA NextPosts ==
    ASSUME IInv, Sound, Monotone, PostsCounted, [Next]_vars
    PROVE  PostsCounted'
<1>1. ASSUME NEW th \in Threads, GiveUp(th) \/ AddReply(th) \/ RemoveRepliesFromTopic(th)
      PROVE  PostsCounted'
  BY <1>1, GiveUpPosts, AddReplyPosts, RemoveRepliesPosts
<1>2. ASSUME NEW th \in Threads, NEW r \in Replies,
             \/ CreateActionReply(th, r) \/ DeleteReply(th, r) \/ DeletePostedReply(th, r)
             \/ \E t \in Topics : CreateReply(th, r, t)
      PROVE  PostsCounted'
  <2>1. my[th] \in Locals /\ my \in [Threads -> Locals]
    BY DEF IInv, LocalTypes
  <2>2. CASE CreateActionReply(th, r)
    <3>1. my[th].item \in Topics /\ my[th].at = "moved" /\ NewReply(th, r, my[th].item)
      BY <2>2 DEF CreateActionReply, At, IInv, InHand, OfTopic
    <3> QED BY <3>1, NewReplyPosts
  <2>3. ASSUME NEW t \in Topics, CreateReply(th, r, t) PROVE PostsCounted'
    <3>1. my[th].at = "idle" /\ NewReply(th, r, t)
      BY <2>3 DEF CreateReply, Begin, At
    <3> QED BY <3>1, NewReplyPosts
  <2>4. CASE DeleteReply(th, r)
    <3>1. my[th].at = "idle" /\ home[r] # None /\ StrikeReply(r) /\ my' = [my EXCEPT ![th] = Do("uncount", r)]
      BY <2>4 DEF DeleteReply, Begin, At, Keep
    <3>2. my'[th].at = "uncount" /\ my'[th].item = r /\ \A d \in Threads \ {th} : my'[d] = my[d]
      BY <2>1, <3>1 DEF Do, Local
    <3> QED BY <3>1, <3>2, StrikeReplyPosts
  <2>5. CASE DeletePostedReply(th, r)
    <3>1. /\ my[th].at = "posted" /\ r \in my[th].left /\ StrikeReply(r)
          /\ my' = [my EXCEPT ![th] = [my[th] EXCEPT !.at = "uncount", !.item = r, !.left = @ \ {r}]]
      BY <2>5 DEF DeletePostedReply, At, Keep
    <3>2. my'[th].at = "uncount" /\ my'[th].item = r /\ \A d \in Threads \ {th} : my'[d] = my[d]
      BY <2>1, <3>1 DEF Locals
    <3>3. home[r] # None
      BY <3>1 DEF Sound, ThreadsOK, LocalOK
    <3> QED BY <3>1, <3>2, <3>3, StrikeReplyPosts
  <2> QED BY <1>2, <2>2, <2>3, <2>4, <2>5
<1>3. ASSUME NEW th \in Threads, PostsAside(th)
      PROVE  PostsCounted'
  BY <1>3, PostsElsewhere
<1>4. ASSUME NEW th \in Threads, NEW t \in Topics, NEW f \in Forums, InsertTopic(th, t, f)
      PROVE  PostsCounted'
  BY <1>4, InsertTopicPosts
<1>5. CASE \/ Restart \/ RecalcForums \/ Serve \/ UNCHANGED vars
           \/ \E r \in Replies : DeleteOrphan(r)
           \/ \E f \in Forums : ResetTopicCount(f)
  BY <1>5, RestartPosts, BootPosts
<1> QED BY <1>1, <1>2, <1>3, <1>4, <1>5, PostsAsideSteps DEF Next

-----------------------------------------------------------------------------
(* topicCount: a forum and its topics.                                     *)

\* The threads that have still to count a topic of forum f, and to count one out,
\* and the topics of the walks of User.DeletePosts that f has still to count out.
Entering(f) == {th \in Threads : At(th, "enter") /\ my[th].forum = f}
Departing(f) == {th \in Threads : At(th, "leave") /\ my[th].forum = f}
Owing(f) == {x \in Threads \X Topics : <<x[2], f>> \in my[x[1]].owed}
TopicSum(f) ==
    topicCount[f] = Cardinality(TopicsOf(f)) - Cardinality(Entering(f))
                      + Cardinality(Departing(f)) + Cardinality(Owing(f))

\* TopicsCounted by forum.
LEMMA TopicsBySum ==
    /\ TopicsCounted <=> \A f \in Forums : f \notin lost.topics => TopicSum(f)
    /\ TopicsCounted' <=> \A f \in Forums : f \notin lost'.topics => TopicSum(f)'
BY DEF TopicsCounted, TopicSum, Entering, Departing, Owing

\* All the sets counted are finite.
LEMMA TopicsFinite ==
    /\ \A f : /\ IsFiniteSet(TopicsOf(f)) /\ IsFiniteSet(Entering(f))
              /\ IsFiniteSet(Departing(f)) /\ IsFiniteSet(Owing(f))
    /\ \A f : /\ Cardinality(TopicsOf(f)) \in Nat /\ Cardinality(Entering(f)) \in Nat
              /\ Cardinality(Departing(f)) \in Nat /\ Cardinality(Owing(f)) \in Nat
<1>1. IsFiniteSet(Threads) /\ IsFiniteSet(Topics) /\ IsFiniteSet(Threads \X Topics)
  BY FiniteAssumption, FS_Subset, FS_Product, Topics \subseteq Items DEF Items
<1>2. ASSUME NEW f
      PROVE  /\ TopicsOf(f) \in SUBSET Topics /\ Owing(f) \in SUBSET (Threads \X Topics)
             /\ Entering(f) \in SUBSET Threads /\ Departing(f) \in SUBSET Threads
  BY DEF TopicsOf, Entering, Departing, Owing
<1>3. ASSUME NEW f
      PROVE  /\ IsFiniteSet(TopicsOf(f)) /\ IsFiniteSet(Entering(f))
             /\ IsFiniteSet(Departing(f)) /\ IsFiniteSet(Owing(f))
  BY <1>1, <1>2, FS_Subset
<1> QED BY <1>3, FS_CardinalityType

\* A forum of which nothing changes that its count depends on.
SameTopics(f) ==
    /\ topicCount'[f] = topicCount[f] /\ TopicsOf(f)' = TopicsOf(f)
    /\ Entering(f)' = Entering(f) /\ Departing(f)' = Departing(f) /\ Owing(f)' = Owing(f)

\* Such a forum is counted as before.
LEMMA SameTopicSum ==
    ASSUME NEW f, TopicSum(f), SameTopics(f)
    PROVE  TopicSum(f)'
BY DEF TopicSum, SameTopics

\* Only the thread that takes the step comes or goes.
LEMMA OthersEnter ==
    ASSUME NEW th \in Threads, \A d \in Threads \ {th} : my'[d] = my[d]
    PROVE  \A f : /\ Entering(f)' \ {th} = Entering(f) \ {th}
                  /\ Departing(f)' \ {th} = Departing(f) \ {th}
                  /\ th \in Entering(f) <=> my[th].at = "enter" /\ my[th].forum = f
                  /\ th \in Departing(f) <=> my[th].at = "leave" /\ my[th].forum = f
                  /\ th \in Entering(f)' <=> my'[th].at = "enter" /\ my'[th].forum = f
                  /\ th \in Departing(f)' <=> my'[th].at = "leave" /\ my'[th].forum = f
BY DEF Entering, Departing, At

\* Nor do the topics owed change.
LEMMA OthersOwe ==
    ASSUME NEW th \in Threads, \A d \in Threads \ {th} : my'[d] = my[d],
           my'[th].owed = my[th].owed
    PROVE  \A f : Owing(f)' = Owing(f)
BY DEF Owing

\* A step that changes no forum that is not marked.
TopicsAside(th) ==
    /\ \A d \in Threads \ {th} : my'[d] = my[d]
    /\ my[th].at \notin {"enter", "leave"} /\ my'[th].at \notin {"enter", "leave"}
    /\ my'[th].owed = my[th].owed
    /\ topicCount' = topicCount /\ lost.topics \subseteq lost'.topics
    /\ \A f \in Forums \ lost'.topics : TopicsOf(f)' = TopicsOf(f)

\* It keeps TopicsCounted.
LEMMA TopicsElsewhere ==
    ASSUME TopicsCounted, NEW th \in Threads, TopicsAside(th)
    PROVE  TopicsCounted'
<1> USE DEF TopicsAside
<1> SUFFICES ASSUME NEW f \in Forums, f \notin lost'.topics PROVE TopicSum(f)'
  BY TopicsBySum
<1>1. TopicSum(f)
  BY TopicsBySum
<1>2. SameTopics(f)
  <2>1. Entering(f)' = Entering(f) /\ Departing(f)' = Departing(f)
    BY OthersEnter
  <2>2. Owing(f)' = Owing(f)
    BY OthersOwe
  <2> QED BY <2>1, <2>2 DEF SameTopics
<1> QED BY <1>1, <1>2, SameTopicSum

\* The steps that are none of those that follow.
LEMMA TopicsAsideSteps ==
    ASSUME IInv, Sound, NEW th \in Threads
    PROVE  /\ CreateLike(th) => TopicsAside(th)
           /\ GetLikedReplies(th) => TopicsAside(th)
           /\ AddReply(th) => TopicsAside(th)
           /\ CacheSet(th) => TopicsAside(th)
           /\ RemoveRepliesFromTopic(th) => TopicsAside(th)
           /\ CacheRemove(th) => TopicsAside(th)
           /\ AddLikes(th) => TopicsAside(th)
           /\ Purge(th) => TopicsAside(th)
           /\ DropLikes(th) => TopicsAside(th)
           /\ DeleteLikesForTopic(th) => TopicsAside(th)
           /\ DeleteReplies(th) => TopicsAside(th)
           /\ \A t \in Topics : GetTopic(th, t) => TopicsAside(th)
           /\ \A f \in Forums : MoveTo(th, f) => TopicsAside(th)
           /\ \A S \in SUBSET Topics : DeletePosts(th, S) => TopicsAside(th)
           /\ \A S \in SUBSET Replies : GetPostedReplies(th, S) => TopicsAside(th)
           /\ \A r \in Replies : DeleteLikesForReply(th, r) => TopicsAside(th)
           /\ \A r \in Replies : CreateActionReply(th, r) => TopicsAside(th)
           /\ \A r \in Replies, t \in Topics : CreateReply(th, r, t) => TopicsAside(th)
           /\ \A r \in Replies : GetReply(th, r) => TopicsAside(th)
           /\ \A r \in Replies : DeleteReply(th, r) => TopicsAside(th)
           /\ \A r \in Replies : DeletePostedReply(th, r) => TopicsAside(th)
           /\ \A i \in Items : Unlike(th, i) => TopicsAside(th)
           /\ \A i \in Items, u \in Users : HasLiked(th, i, u) => TopicsAside(th)
<1> USE DEF TopicsAside, TopicsOf, At, Keep, Begin, Idle, Do, InForum, Local, posts, marks
<1>0. /\ my \in [Threads -> Locals] /\ my[th] \in Locals /\ Topics \cap Replies = {}
      /\ lost \in [posts : SUBSET (Topics \cup {None}), likes : SUBSET (Items \cup {None}),
                     topics : SUBSET (Forums \cup {None})]
      /\ LocalOK(my[th])
      /\ my[th].at \notin {"posts", "unlike", "liked", "sweep"} => my[th].owed = {}
  BY ItemsAssumption DEF IInv, LocalTypes, MarkTypes, Sound, ThreadsOK, LocalOK
<1>1. CreateLike(th) => TopicsAside(th)
  BY <1>0 DEF CreateLike
<1>2. GetLikedReplies(th) => TopicsAside(th)
  BY <1>0 DEF GetLikedReplies, Locals
<1>3. AddReply(th) => TopicsAside(th)
  BY <1>0 DEF AddReply
<1>4. CacheSet(th) => TopicsAside(th)
  BY <1>0 DEF CacheSet
<1>5. RemoveRepliesFromTopic(th) => TopicsAside(th)
  BY <1>0 DEF RemoveRepliesFromTopic, Locals
<1>6. CacheRemove(th) => TopicsAside(th)
  BY <1>0 DEF CacheRemove, Locals
<1>7. AddLikes(th) => TopicsAside(th)
  BY <1>0 DEF AddLikes
<1>8. Purge(th) => TopicsAside(th)
  BY <1>0 DEF Purge
<1>9. DropLikes(th) => TopicsAside(th)
  BY <1>0, ResumesTo DEF DropLikes
<1>10. DeleteLikesForTopic(th) => TopicsAside(th)
  BY <1>0, ResumesTo DEF DeleteLikesForTopic, Locals
<1>11. DeleteReplies(th) => TopicsAside(th)
  <2> SUFFICES ASSUME DeleteReplies(th) PROVE TopicsAside(th)
    OBVIOUS
  <2>1. /\ my[th].at = "sweep" /\ Resume(th) /\ topicCount' = topicCount /\ lost' = lost
        /\ forum' = forum /\ \A t \in Topics : t \in alive' <=> t \in alive
    BY <1>0 DEF DeleteReplies, RepliesOf
  <2>2. /\ \A d \in Threads \ {th} : my'[d] = my[d]
        /\ my'[th].at \notin {"enter", "leave"} /\ my'[th].owed = my[th].owed
    BY <1>0, <2>1, ResumesTo
  <2> QED BY <2>1, <2>2
<1>12. \A t \in Topics : GetTopic(th, t) => TopicsAside(th)
  BY <1>0 DEF GetTopic
<1>13. \A f \in Forums : MoveTo(th, f) => TopicsAside(th)
  BY <1>0 DEF MoveTo, IInv, InHand, OfTopic, RowTypes
<1>14. \A S \in SUBSET Topics : DeletePosts(th, S) => TopicsAside(th)
  BY <1>0 DEF DeletePosts, Posting
<1>15. \A S \in SUBSET Replies : GetPostedReplies(th, S) => TopicsAside(th)
  BY <1>0 DEF GetPostedReplies, Walk
<1>16. \A r \in Replies : DeleteLikesForReply(th, r) => TopicsAside(th)
  BY <1>0 DEF DeleteLikesForReply, Locals
<1>17. \A r \in Replies : CreateActionReply(th, r) => TopicsAside(th)
  BY <1>0 DEF CreateActionReply, NewReply
<1>18. \A r \in Replies, t \in Topics : CreateReply(th, r, t) => TopicsAside(th)
  BY <1>0 DEF CreateReply, NewReply
<1>19. \A r \in Replies : GetReply(th, r) => TopicsAside(th)
  BY <1>0 DEF GetReply
<1>20. \A r \in Replies : DeleteReply(th, r) => TopicsAside(th)
  BY <1>0 DEF DeleteReply, StrikeReply
<1>21. \A r \in Replies : DeletePostedReply(th, r) => TopicsAside(th)
  BY <1>0 DEF DeletePostedReply, StrikeReply, Locals
<1>22. \A i \in Items : Unlike(th, i) => TopicsAside(th)
  BY <1>0 DEF Unlike
<1>23. \A i \in Items, u \in Users : HasLiked(th, i, u) => TopicsAside(th)
  BY <1>0 DEF HasLiked
<1> HIDE DEF TopicsAside
<1> QED BY <1>1, <1>2, <1>3, <1>4, <1>5, <1>6, <1>7, <1>8, <1>9, <1>10, <1>11, <1>12,
     <1>13, <1>14, <1>15, <1>16, <1>17, <1>18, <1>19, <1>20, <1>21, <1>22, <1>23

\* The statements that count.
LEMMA AddTopicTopics ==
    ASSUME IInv, Sound, TopicsCounted, NEW th \in Threads, AddTopic(th)
    PROVE  TopicsCounted'
<1> DEFINE g == my[th].forum
<1>1. /\ my[th].at = "enter" /\ my' = [my EXCEPT ![th] = Idle] /\ my \in [Threads -> Locals]
      /\ alive' = alive /\ forum' = forum /\ lost' = lost
      /\ topicCount' = [topicCount EXCEPT ![g] = @ + 1] /\ topicCount \in [Forums -> Int]
  BY DEF AddTopic, At, Keep, marks, IInv, LocalTypes, RowTypes
<1>2. /\ my'[th].at = "idle" /\ \A d \in Threads \ {th} : my'[d] = my[d]
      /\ my'[th].owed = my[th].owed
  BY <1>1 DEF Idle, Do, Local, Sound, ThreadsOK, LocalOK
<1> SUFFICES ASSUME NEW f \in Forums, f \notin lost'.topics PROVE TopicSum(f)'
  BY TopicsBySum
<1>3. TopicSum(f) /\ TopicsOf(f)' = TopicsOf(f) /\ Owing(f)' = Owing(f)
  BY <1>1, <1>2, TopicsBySum, OthersOwe DEF TopicsOf
<1>4. /\ Entering(f)' \ {th} = Entering(f) \ {th} /\ Departing(f)' \ {th} = Departing(f) \ {th}
      /\ th \notin Entering(f)' /\ th \notin Departing(f)' /\ th \notin Departing(f)
      /\ th \in Entering(f) <=> f = g
  BY <1>1, <1>2, OthersEnter
<1> HIDE DEF g
<1>5. CASE f = g
  <2>1. Entering(f)' = Entering(f) \ {th} /\ th \in Entering(f) /\ Departing(f)' = Departing(f)
    BY <1>4, <1>5
  <2>2. Cardinality(Entering(f)') = Cardinality(Entering(f)) - 1
    BY <2>1, TopicsFinite, OneFewer
  <2>3. topicCount'[f] = topicCount[f] + 1
    BY <1>1, <1>5
  <2> QED BY <1>3, <2>1, <2>2, <2>3, TopicsFinite DEF TopicSum
<1>6. CASE f # g
  <2>1. topicCount'[f] = topicCount[f]
    BY <1>1, <1>6
  <2>2. Entering(f)' = Entering(f) /\ Departing(f)' = Departing(f)
    BY <1>4, <1>6
  <2> QED BY <1>3, <2>1, <2>2, SameTopicSum DEF SameTopics
<1> QED BY <1>5, <1>6

\* RemoveTopic keeps TopicsCounted.
LEMMA RemoveTopicTopics ==
    ASSUME IInv, Sound, TopicsCounted, NEW th \in Threads, RemoveTopic(th)
    PROVE  TopicsCounted'
<1> DEFINE g == my[th].forum
<1>1. /\ my[th].at = "leave" /\ my' = [my EXCEPT ![th] = [my[th] EXCEPT !.at = "unlike"]]
      /\ my \in [Threads -> Locals]
      /\ alive' = alive /\ forum' = forum /\ lost' = lost
      /\ topicCount' = [topicCount EXCEPT ![g] = @ - 1] /\ topicCount \in [Forums -> Int]
  BY DEF RemoveTopic, At, Keep, marks, IInv, LocalTypes, RowTypes
<1>2. /\ my'[th].at = "unlike" /\ \A d \in Threads \ {th} : my'[d] = my[d]
      /\ my'[th].owed = my[th].owed
  BY <1>1 DEF Locals
<1> SUFFICES ASSUME NEW f \in Forums, f \notin lost'.topics PROVE TopicSum(f)'
  BY TopicsBySum
<1>3. TopicSum(f) /\ TopicsOf(f)' = TopicsOf(f) /\ Owing(f)' = Owing(f)
  BY <1>1, <1>2, TopicsBySum, OthersOwe DEF TopicsOf
<1>4. /\ Entering(f)' \ {th} = Entering(f) \ {th} /\ Departing(f)' \ {th} = Departing(f) \ {th}
      /\ th \notin Entering(f)' /\ th \notin Departing(f)' /\ th \notin Entering(f)
      /\ th \in Departing(f) <=> f = g
  BY <1>1, <1>2, OthersEnter
<1> HIDE DEF g
<1>5. CASE f = g
  <2>1. Departing(f)' = Departing(f) \ {th} /\ th \in Departing(f) /\ Entering(f)' = Entering(f)
    BY <1>4, <1>5
  <2>2. Cardinality(Departing(f)') = Cardinality(Departing(f)) - 1
    BY <2>1, TopicsFinite, OneFewer
  <2>3. topicCount'[f] = topicCount[f] - 1
    BY <1>1, <1>5
  <2> QED BY <1>3, <2>1, <2>2, <2>3, TopicsFinite DEF TopicSum
<1>6. CASE f # g
  <2>1. topicCount'[f] = topicCount[f]
    BY <1>1, <1>6
  <2>2. Entering(f)' = Entering(f) /\ Departing(f)' = Departing(f)
    BY <1>4, <1>6
  <2> QED BY <1>3, <2>1, <2>2, SameTopicSum DEF SameTopics
<1> QED BY <1>5, <1>6

\* A topic is inserted, and is still to be counted.
LEMMA InsertTopicTopics ==
    ASSUME IInv, Sound, TopicsCounted, NEW th \in Threads, NEW t \in Topics, NEW g \in Forums,
           InsertTopic(th, t, g)
    PROVE  TopicsCounted'
<1>1. /\ my[th].at = "idle" /\ my' = [my EXCEPT ![th] = InForum("enter", t, g, 0)]
      /\ my \in [Threads -> Locals] /\ forum[t] = None /\ forum \in [Topics -> Forums \cup {None}]
      /\ alive' = alive \cup {t} /\ forum' = [forum EXCEPT ![t] = g] /\ lost' = lost
      /\ topicCount' = topicCount /\ topicCount \in [Forums -> Int]
  BY DEF InsertTopic, Begin, At, Keep, marks, IInv, LocalTypes, RowTypes
<1>2. /\ my'[th].at = "enter" /\ my'[th].forum = g /\ \A d \in Threads \ {th} : my'[d] = my[d]
      /\ my'[th].owed = my[th].owed
  BY <1>1 DEF InForum, Local, Sound, ThreadsOK, LocalOK
<1> SUFFICES ASSUME NEW f \in Forums, f \notin lost'.topics PROVE TopicSum(f)'
  BY TopicsBySum
<1>3. TopicSum(f) /\ Owing(f)' = Owing(f)
  BY <1>1, <1>2, TopicsBySum, OthersOwe
<1>4. /\ Entering(f)' \ {th} = Entering(f) \ {th} /\ Departing(f)' \ {th} = Departing(f) \ {th}
      /\ th \notin Entering(f) /\ th \notin Departing(f)' /\ th \notin Departing(f)
      /\ th \in Entering(f)' <=> f = g
  BY <1>1, <1>2, OthersEnter
<1>5. t \notin TopicsOf(f) /\ TopicsOf(f)' = IF f = g THEN TopicsOf(f) \cup {t} ELSE TopicsOf(f)
  BY <1>1, NoneAssumption DEF TopicsOf
<1>6. CASE f = g
  <2>1. Entering(f)' = Entering(f) \cup {th} /\ th \notin Entering(f) /\ Departing(f)' = Departing(f)
    BY <1>4, <1>6
  <2>2. Cardinality(Entering(f)') = Cardinality(Entering(f)) + 1
    BY <2>1, TopicsFinite, OneMore
  <2>3. Cardinality(TopicsOf(f)') = Cardinality(TopicsOf(f)) + 1
    BY <1>5, <1>6, TopicsFinite, OneMore
  <2> QED BY <1>1, <1>3, <2>1, <2>2, <2>3, TopicsFinite DEF TopicSum
<1>7. CASE f # g
  <2>1. Entering(f)' = Entering(f) /\ Departing(f)' = Departing(f) /\ TopicsOf(f)' = TopicsOf(f)
    BY <1>4, <1>5, <1>7
  <2> QED BY <1>1, <1>3, <2>1, SameTopicSum DEF SameTopics
<1> QED BY <1>6, <1>7

\* A row goes: the forum it was in is the one it will be counted out of, or both
\* are marked.
LEMMA StrikeTopics ==
    ASSUME IInv, NEW th \in Threads, NEW t \in Topics, NEW g \in Forums, NEW n,
           Strike(th, t, g, n)
    PROVE  \A f \in Forums : f \notin lost'.topics =>
             /\ f \notin lost.topics
             /\ f = g => t \in TopicsOf(f) /\ TopicsOf(f)' = TopicsOf(f) \ {t}
             /\ f # g => TopicsOf(f)' = TopicsOf(f)
<1>1. /\ alive' = alive \ {t} /\ forum' = forum
      /\ lost'.topics = IF t \in alive /\ forum[t] = g THEN lost.topics
                        ELSE lost.topics \cup {forum[t], g}
  BY DEF Strike, posts, IInv, MarkTypes
<1> QED BY <1>1 DEF TopicsOf

\* DeleteTopic keeps TopicsCounted.
LEMMA DeleteTopicTopics ==
    ASSUME IInv, Sound, TopicsCounted, NEW th \in Threads, DeleteTopic(th)
    PROVE  TopicsCounted'
<1> DEFINE g == my[th].forum
           t == my[th].item
<1>1. /\ my[th].at = "held" /\ my' = [my EXCEPT ![th] = [my[th] EXCEPT !.at = "leave"]]
      /\ my \in [Threads -> Locals] /\ Strike(th, t, g, my[th].n) /\ topicCount' = topicCount
      /\ topicCount \in [Forums -> Int]
  BY DEF DeleteTopic, Strike, posts, At, Keep, IInv, LocalTypes, RowTypes
<1>2. /\ my'[th].at = "leave" /\ my'[th].forum = g /\ \A d \in Threads \ {th} : my'[d] = my[d]
      /\ my'[th].owed = my[th].owed /\ g \in Forums /\ t \in Topics
  BY <1>1 DEF Locals, IInv, InHand, OfTopic
<1> HIDE DEF g, t
<1> SUFFICES ASSUME NEW f \in Forums, f \notin lost'.topics PROVE TopicSum(f)'
  BY TopicsBySum
<1>3. /\ f \notin lost.topics
      /\ f = g => t \in TopicsOf(f) /\ TopicsOf(f)' = TopicsOf(f) \ {t}
      /\ f # g => TopicsOf(f)' = TopicsOf(f)
  BY <1>1, <1>2, StrikeTopics
<1>4. TopicSum(f) /\ Owing(f)' = Owing(f)
  BY <1>2, <1>3, TopicsBySum, OthersOwe
<1>5. /\ Entering(f)' \ {th} = Entering(f) \ {th} /\ Departing(f)' \ {th} = Departing(f) \ {th}
      /\ th \notin Entering(f) /\ th \notin Entering(f)' /\ th \notin Departing(f)
      /\ th \in Departing(f)' <=> f = g
  BY <1>1, <1>2, OthersEnter
<1>6. CASE f = g
  <2>1. Departing(f)' = Departing(f) \cup {th} /\ th \notin Departing(f) /\ Entering(f)' = Entering(f)
    BY <1>5, <1>6
  <2>2. Cardinality(Departing(f)') = Cardinality(Departing(f)) + 1
    BY <2>1, TopicsFinite, OneMore
  <2>3. Cardinality(TopicsOf(f)') = Cardinality(TopicsOf(f)) - 1
    BY <1>3, <1>6, TopicsFinite, OneFewer
  <2> QED BY <1>1, <1>4, <2>1, <2>2, <2>3, TopicsFinite DEF TopicSum
<1>7. CASE f # g
  <2>1. Entering(f)' = Entering(f) /\ Departing(f)' = Departing(f)
    BY <1>5, <1>7
  <2> QED BY <1>1, <1>3, <1>4, <1>7, <2>1, SameTopicSum DEF SameTopics
<1> QED BY <1>6, <1>7

\* DeletePost keeps TopicsCounted.
LEMMA DeletePostTopics ==
    ASSUME IInv, Sound, TopicsCounted, NEW th \in Threads, NEW row \in my[th].todo,
           DeletePost(th, row)
    PROVE  TopicsCounted'
<1> DEFINE t == row[1]
           g == row[2]
<1>1. /\ my[th].at = "posts" /\ Strike(th, t, g, row[3]) /\ topicCount' = topicCount
      /\ my' = [my EXCEPT ![th] = [my[th] EXCEPT !.at = "unlike", !.item = t, !.n = row[3],
                                     !.todo = @ \ {row}, !.owed = @ \cup {<<t, g>>}]]
      /\ my \in [Threads -> Locals] /\ my[th] \in Locals /\ topicCount \in [Forums -> Int]
  BY DEF DeletePost, Strike, posts, At, Keep, IInv, LocalTypes, RowTypes
<1>2. /\ my'[th].at = "unlike" /\ \A d \in Threads \ {th} : my'[d] = my[d]
      /\ my'[th].owed = my[th].owed \cup {<<t, g>>} /\ g \in Forums /\ t \in Topics
  BY <1>1 DEF Locals
<1>3. \A pair \in my[th].owed : pair[1] \notin alive
  BY DEF Sound, ThreadsOK, LocalOK
<1> HIDE DEF g, t
<1> SUFFICES ASSUME NEW f \in Forums, f \notin lost'.topics PROVE TopicSum(f)'
  BY TopicsBySum
<1>4. /\ f \notin lost.topics
      /\ f = g => t \in TopicsOf(f) /\ TopicsOf(f)' = TopicsOf(f) \ {t}
      /\ f # g => TopicsOf(f)' = TopicsOf(f)
  BY <1>1, <1>2, StrikeTopics
<1>5. TopicSum(f)
  BY <1>4, TopicsBySum
<1>6. Entering(f)' = Entering(f) /\ Departing(f)' = Departing(f)
  <2>1. /\ th \notin Entering(f) /\ th \notin Entering(f)'
        /\ th \notin Departing(f) /\ th \notin Departing(f)'
    BY <1>1, <1>2, OthersEnter
  <2>2. Entering(f)' \ {th} = Entering(f) \ {th} /\ Departing(f)' \ {th} = Departing(f) \ {th}
    BY <1>2, OthersEnter
  <2> QED BY <2>1, <2>2
<1>7. Owing(f)' = IF f = g THEN Owing(f) \cup {<<th, t>>} ELSE Owing(f)
  <2>1. ASSUME NEW d \in Threads, NEW s \in Topics
        PROVE  <<d, s>> \in Owing(f)' <=> <<d, s>> \in Owing(f) \/ (f = g /\ d = th /\ s = t)
    BY <1>2 DEF Owing
  <2> QED BY <2>1, <1>2 DEF Owing
<1>8. CASE f = g
  <2>1. t \in alive
    BY <1>4, <1>8 DEF TopicsOf
  <2>2. <<th, t>> \notin Owing(f)
    BY <1>3, <2>1 DEF Owing
  <2>3. Cardinality(Owing(f)') = Cardinality(Owing(f)) + 1
    BY <1>7, <1>8, <2>2, TopicsFinite, OneMore
  <2>4. Cardinality(TopicsOf(f)') = Cardinality(TopicsOf(f)) - 1
    BY <1>4, <1>8, TopicsFinite, OneFewer
  <2> QED BY <1>1, <1>5, <1>6, <2>3, <2>4, TopicsFinite DEF TopicSum
<1>9. CASE f # g
  BY <1>1, <1>4, <1>5, <1>6, <1>7, <1>9, SameTopicSum DEF SameTopics
<1> QED BY <1>8, <1>9

\* The topics f has still to count out on th's walk are counted out.
LEMMA RemoveTopicsTopics ==
    ASSUME IInv, Sound, TopicsCounted, NEW th \in Threads, NEW g \in Forums,
           RemoveTopics(th, g)
    PROVE  TopicsCounted'
<1>1. /\ my[th].at = "posts" /\ my \in [Threads -> Locals] /\ my[th] \in Locals
      /\ my' = [my EXCEPT ![th] = [my[th] EXCEPT !.owed = @ \ OwedTo(th, g)]]
      /\ alive' = alive /\ forum' = forum /\ lost' = lost
      /\ topicCount' = [topicCount EXCEPT ![g] = @ - Cardinality(OwedTo(th, g))]
      /\ topicCount \in [Forums -> Int]
  BY DEF RemoveTopics, At, Keep, marks, IInv, LocalTypes, RowTypes
<1>2. /\ my'[th].at = "posts" /\ \A d \in Threads \ {th} : my'[d] = my[d]
      /\ my'[th].owed = my[th].owed \ OwedTo(th, g) /\ my[th].owed \subseteq Topics \X Forums
  BY <1>1 DEF Locals
<1> SUFFICES ASSUME NEW f \in Forums, f \notin lost'.topics PROVE TopicSum(f)'
  BY TopicsBySum
<1>3. TopicSum(f) /\ TopicsOf(f)' = TopicsOf(f)
  BY <1>1, TopicsBySum DEF TopicsOf
<1>4. Entering(f)' = Entering(f) /\ Departing(f)' = Departing(f)
  <2>1. /\ Entering(f)' \ {th} = Entering(f) \ {th} /\ Departing(f)' \ {th} = Departing(f) \ {th}
        /\ th \in Entering(f) <=> my[th].at = "enter" /\ my[th].forum = f
        /\ th \in Departing(f) <=> my[th].at = "leave" /\ my[th].forum = f
        /\ th \in Entering(f)' <=> my'[th].at = "enter" /\ my'[th].forum = f
        /\ th \in Departing(f)' <=> my'[th].at = "leave" /\ my'[th].forum = f
    BY <1>2, OthersEnter
  <2>2. my[th].at = "posts" /\ my'[th].at = "posts"
    BY <1>1, <1>2
  <2> QED BY <2>1, <2>2
<1>5. CASE f = g
  <2> DEFINE out == {x \in {th} \X Topics : <<x[2], f>> \in my[th].owed}
             owed == OwedTo(th, g)
  <2>1. out \subseteq Owing(f) /\ Owing(f)' = Owing(f) \ out
    <3>1. ASSUME NEW d \in Threads, NEW s \in Topics
          PROVE  <<d, s>> \in Owing(f)' <=> <<d, s>> \in Owing(f) /\ d # th
      BY <1>2, <1>5 DEF Owing, OwedTo
    <3> QED BY <3>1 DEF Owing
  <2>2. IsFiniteSet(out) /\ IsFiniteSet(Owing(f)')
    BY <2>1, TopicsFinite, FS_Subset
  <2>3. Cardinality(out) = Cardinality(owed) /\ Cardinality(owed) \in Nat
    <3> DEFINE b == [x \in out |-> <<x[2], f>>]
    <3>1. b \in Bijection(out, owed)
      <4>1. b \in [out -> owed]
        BY <1>5 DEF OwedTo
      <4>2. \A x, y \in out : b[x] = b[y] => x = y
        OBVIOUS
      <4>3. \A pair \in owed : \E x \in out : b[x] = pair
        <5> SUFFICES ASSUME NEW pair \in owed PROVE \E x \in out : b[x] = pair
          OBVIOUS
        <5>1. pair \in Topics \X Forums /\ pair[2] = f /\ pair \in my[th].owed
          BY <1>2, <1>5 DEF OwedTo
        <5>2. pair = <<pair[1], f>> /\ <<th, pair[1]>> \in out
          BY <5>1
        <5> QED BY <5>2
      <4> HIDE DEF b, out, owed
      <4> QED BY <4>1, <4>2, <4>3 DEF Bijection, Injection, Surjection, IsInjective
    <3>2. ExistsBijection(out, owed)
      BY <3>1 DEF ExistsBijection
    <3> QED BY <2>2, <3>2, FS_Bijection, FS_CardinalityType
  <2> HIDE DEF out, owed
  <2>4. Cardinality(Owing(f)) = Cardinality(Owing(f)') + Cardinality(out)
    <3>1. Owing(f) = Owing(f)' \cup out /\ Owing(f)' \cap out = {}
      BY <2>1
    <3> QED BY <2>2, <3>1, FS_Union, FS_EmptySet, FS_CardinalityType
  <2>5. topicCount'[f] = topicCount[f] - Cardinality(owed)
    BY <1>1, <1>5 DEF owed
  <2>6. Cardinality(Owing(f)') \in Nat
    BY <2>2, FS_CardinalityType
  <2> QED BY <1>1, <1>3, <1>4, <2>3, <2>4, <2>5, <2>6, TopicsFinite DEF TopicSum
<1>6. CASE f # g
  <2>1. Owing(f)' = Owing(f)
    <3>1. ASSUME NEW d \in Threads, NEW s \in Topics
          PROVE  <<d, s>> \in Owing(f)' <=> <<d, s>> \in Owing(f)
      BY <1>2, <1>6 DEF Owing, OwedTo
    <3> QED BY <3>1 DEF Owing
  <2> QED BY <1>1, <1>3, <1>4, <1>6, <2>1, SameTopicSum DEF SameTopics
<1> QED BY <1>5, <1>6

\* Threads that return: the forums that were to count are marked.
LEMMA AbandonTopics ==
    ASSUME IInv, Sound, TopicsCounted, NEW S \in SUBSET Threads, Abandon(S),
           \A d \in Threads \ S : my'[d] = my[d], \A d \in S : my'[d].at = "idle" /\ my'[d].owed = {},
           UNCHANGED <<alive, posts>>
    PROVE  TopicsCounted'
<1>1. forum' = forum /\ topicCount' = topicCount /\ alive' = alive
  BY DEF posts
<1> SUFFICES ASSUME NEW f \in Forums, f \notin lost'.topics PROVE TopicSum(f)'
  BY TopicsBySum
<1>2. lost'.topics = lost.topics \cup {my[d].forum : d \in {e \in S : my[e].at \in {"enter", "leave"}}}
                       \cup UNION {{row[2] : row \in my[d].owed} : d \in S}
  BY DEF Abandon
<1>3. \A d \in S : d \notin Entering(f) /\ d \notin Departing(f)
  BY <1>2 DEF Entering, Departing, At
<1>4. Entering(f)' = Entering(f) /\ Departing(f)' = Departing(f)
  BY <1>3 DEF Entering, Departing, At
<1>5. Owing(f)' = Owing(f)
  <2>1. \A d \in S : \A s \in Topics : <<s, f>> \notin my[d].owed
    BY <1>2
  <2>2. ASSUME NEW d \in Threads, NEW s \in Topics
        PROVE  <<s, f>> \in my'[d].owed <=> <<s, f>> \in my[d].owed
    BY <2>1
  <2> QED BY <2>2 DEF Owing
<1>6. TopicSum(f)
  BY <1>2, TopicsBySum
<1> QED BY <1>1, <1>4, <1>5, <1>6, SameTopicSum DEF SameTopics, TopicsOf

\* GiveUp keeps TopicsCounted.
LEMMA GiveUpTopics ==
    ASSUME IInv, Sound, TopicsCounted, NEW th \in Threads, GiveUp(th)
    PROVE  TopicsCounted'
<1>1. Abandon({th}) /\ UNCHANGED <<alive, posts>> /\ my' = [my EXCEPT ![th] = Idle]
      /\ my \in [Threads -> Locals]
  BY DEF GiveUp, Keep, IInv, LocalTypes
<1>2. my'[th].at = "idle" /\ my'[th].owed = {} /\ \A d \in Threads \ {th} : my'[d] = my[d]
  BY <1>1 DEF Idle, Do, Local
<1> QED BY <1>1, <1>2, AbandonTopics

\* Restart keeps TopicsCounted.
LEMMA RestartTopics ==
    ASSUME IInv, Sound, TopicsCounted, Restart
    PROVE  TopicsCounted'
<1>1. Abandon(Threads) /\ UNCHANGED <<alive, posts>>
  BY DEF Restart
<1>2. \A d \in Threads : my'[d].at = "idle" /\ my'[d].owed = {}
  BY DEF Restart, Idle, Do, Local
<1> QED BY <1>1, <1>2, AbandonTopics

\* The recalculation counts the topics while nobody is to count any.
LEMMA ResetTopics ==
    ASSUME IInv, Sound, TopicsCounted, NEW g \in Forums, ResetTopicCount(g)
    PROVE  TopicsCounted'
<1>1. /\ boot # Up /\ my' = my /\ alive' = alive /\ forum' = forum
      /\ topicCount' = [topicCount EXCEPT ![g] = Cardinality(TopicsOf(g))]
      /\ topicCount \in [Forums -> Int] /\ lost'.topics = lost.topics \ {g}
  BY DEF ResetTopicCount, Up, IInv, RowTypes, MarkTypes
<1>2. \A d \in Threads : my[d].at = "idle" /\ my[d].owed = {}
  BY <1>1 DEF Sound, BootOK, Idle, Do, Local
<1> SUFFICES ASSUME NEW f \in Forums, f \notin lost'.topics PROVE TopicSum(f)'
  BY TopicsBySum
<1>3. Entering(f)' = {} /\ Departing(f)' = {} /\ Owing(f)' = {}
  BY <1>1, <1>2 DEF Entering, Departing, Owing, At
<1>4. TopicsOf(f)' = TopicsOf(f)
  BY <1>1 DEF TopicsOf
<1>5. CASE f = g
  <2>1. topicCount'[f] = Cardinality(TopicsOf(f))
    BY <1>1, <1>5
  <2> QED BY <1>3, <1>4, <2>1, FS_EmptySet, TopicsFinite DEF TopicSum
<1>6. CASE f # g
  <2>1. TopicSum(f) /\ topicCount'[f] = topicCount[f]
    BY <1>1, <1>6, TopicsBySum
  <2>2. Entering(f)' = Entering(f) /\ Departing(f)' = Departing(f) /\ Owing(f)' = Owing(f)
    BY <1>1 DEF Entering, Departing, Owing, At
  <2> QED BY <1>4, <2>1, <2>2, SameTopicSum DEF SameTopics
<1> QED BY <1>5, <1>6

\* The rest of the recalculation leaves forums and topics alone.
LEMMA BootTopics ==
    ASSUME TopicsCounted,
           \/ RecalcForums \/ Serve \/ UNCHANGED vars \/ \E r \in Replies : DeleteOrphan(r)
    PROVE  TopicsCounted'
<1>1. /\ my' = my /\ forum' = forum /\ topicCount' = topicCount /\ lost' = lost
      /\ Topics \cap alive' = Topics \cap alive
  BY ItemsAssumption DEF RecalcForums, Serve, DeleteOrphan, vars, posts, marks
<1> SUFFICES ASSUME NEW f \in Forums, f \notin lost'.topics PROVE TopicSum(f)'
  BY TopicsBySum
<1>2. TopicSum(f) /\ TopicsOf(f)' = TopicsOf(f)
  BY <1>1, TopicsBySum DEF TopicsOf
<1> QED BY <1>1, <1>2, SameTopicSum DEF SameTopics, Entering, Departing, Owing, At

\* The counts are right at the start.
LEMMA InitTopics == Init => TopicsCounted
<1> SUFFICES ASSUME Init, NEW f \in Forums PROVE TopicSum(f)
  BY TopicsBySum
<1>1. Entering(f) = {} /\ Departing(f) = {} /\ Owing(f) = {}
  BY DEF Init, Entering, Departing, Owing, At, Idle, Do, Local
<1>2. topicCount[f] = Cardinality(TopicsOf(f))
  BY DEF Init
<1> QED BY <1>1, <1>2, FS_EmptySet, TopicsFinite DEF TopicSum

\* Every step keeps TopicsCounted.
LEMMA NextTopics ==
    ASSUME IInv, Sound, TopicsCounted, [Next]_vars
    PROVE  TopicsCounted'
<1>1. ASSUME NEW th \in Threads, GiveUp(th) \/ AddTopic(th) \/ RemoveTopic(th) \/ DeleteTopic(th)
      PROVE  TopicsCounted'
  BY <1>1, GiveUpTopics, AddTopicTopics, RemoveTopicTopics, DeleteTopicTopics
<1>2. ASSUME NEW th \in Threads, NEW row \in my[th].todo, DeletePost(th, row)
      PROVE  TopicsCounted'
  BY <1>2, DeletePostTopics
<1>3. ASSUME NEW th \in Threads, TopicsAside(th)
      PROVE  TopicsCounted'
  BY <1>3, TopicsElsewhere
<1>4. ASSUME NEW th \in Threads, NEW f \in Forums,
             RemoveTopics(th, f) \/ \E t \in Topics : InsertTopic(th, t, f)
      PROVE  TopicsCounted'
  BY <1>4, RemoveTopicsTopics, InsertTopicTopics
<1>5. CASE \/ Restart \/ RecalcForums \/ Serve \/ UNCHANGED vars
           \/ \E r \in Replies : DeleteOrphan(r)
           \/ \E f \in Forums : ResetTopicCount(f)
  BY <1>5, RestartTopics, BootTopics, ResetTopics
<1> QED BY <1>1, <1>2, <1>3, <1>4, <1>5, TopicsAsideSteps DEF Next

-----------------------------------------------------------------------------
(* likeCount: a topic or reply and its likes.                              *)

\* The threads that have still to count a like of item i, and to count one out.
Counting(i) == {th \in Threads : At(th, "count") /\ my[th].item = i}
Discounting(i) == {th \in Threads : At(th, "discount") /\ my[th].item = i}
LikeSum(i) ==
    likeCount[i] = Cardinality(LikesOf(i)) - Cardinality(Counting(i)) + Cardinality(Discounting(i))

\* Two likes of one item by one user: the second half of LikesCounted.
RacesMarked ==
    \A k, l \in likes : k # l /\ k[1] = l[1] /\ k[2] = l[2] => <<k[1], k[2]>> \in raced

\* Who has found no like and will insert one has a number of its own, and has
\* nobody beside it for the same item and user unless that is marked.
Meet(th, d) == my[d].item = my[th].item /\ my[d].user = my[th].user
RaceOK ==
    /\ \A th \in Threads, l \in likes : At(th, "like") =>
         /\ l[3] # my[th].n
         /\ l[1] = my[th].item /\ l[2] = my[th].user => <<l[1], l[2]>> \in raced
    /\ \A th, d \in Threads : th # d /\ At(th, "like") /\ At(d, "like") =>
         /\ my[d].n # my[th].n
         /\ Meet(th, d) => <<my[th].item, my[th].user>> \in raced

\* LikesCounted by item.
LEMMA LikesBySum ==
    /\ LikesCounted <=> /\ \A i \in Items : Rooted(i) /\ i \notin lost.likes => LikeSum(i)
                        /\ RacesMarked
    /\ LikesCounted' <=> /\ \A i \in Items : Rooted(i)' /\ i \notin lost'.likes => LikeSum(i)'
                         /\ RacesMarked'
BY DEF LikesCounted, LikeSum, Counting, Discounting, RacesMarked

\* All the sets counted are finite.
LEMMA LikesFinite ==
    ASSUME IInv
    PROVE  /\ \A i : IsFiniteSet(LikesOf(i)) /\ IsFiniteSet(Counting(i)) /\ IsFiniteSet(Discounting(i))
           /\ \A i : /\ Cardinality(LikesOf(i)) \in Nat
                     /\ Cardinality(Counting(i)) \in Nat /\ Cardinality(Discounting(i)) \in Nat
<1>1. IsFiniteSet(likes)
  <2> DEFINE nums == 0 .. MaxOps
             tagged == (Items \X Users) \X nums
             triple == [p \in tagged |-> <<p[1][1], p[1][2], p[2]>>]
             triples == {triple[p] : p \in tagged}
  <2>1. IsFiniteSet(tagged)
    <3>1. IsFiniteSet(nums)
      BY BoundAssumption, FS_Interval
    <3>2. IsFiniteSet(Items \X Users)
      BY FiniteAssumption, FS_Product
    <3> HIDE DEF nums
    <3> QED BY <3>1, <3>2, FS_Product
  <2>2. IsFiniteSet(triples)
    <3>1. triple \in Surjection(tagged, triples)
      BY DEF Surjection
    <3> HIDE DEF tagged, triple, triples
    <3> QED BY <2>1, <3>1, FS_Surjection
  <2>3. Items \X Users \X nums \subseteq triples
    <3> SUFFICES ASSUME NEW i \in Items, NEW u \in Users, NEW n \in nums
                 PROVE <<i, u, n>> \in triples
      OBVIOUS
    <3>1. <<<<i, u>>, n>> \in tagged /\ triple[<<<<i, u>>, n>>] = <<i, u, n>>
      OBVIOUS
    <3> QED BY <3>1
  <2>4. likes \subseteq Items \X Users \X nums
    BY DEF IInv, RowTypes
  <2> HIDE DEF triples, nums
  <2> QED BY <2>2, <2>3, <2>4, FS_Subset
<1>2. IsFiniteSet(Threads)
  BY FiniteAssumption
<1>3. ASSUME NEW i
      PROVE  /\ LikesOf(i) \in SUBSET likes
             /\ Counting(i) \in SUBSET Threads /\ Discounting(i) \in SUBSET Threads
  BY DEF LikesOf, Counting, Discounting
<1>4. ASSUME NEW i
      PROVE  IsFiniteSet(LikesOf(i)) /\ IsFiniteSet(Counting(i)) /\ IsFiniteSet(Discounting(i))
  BY <1>1, <1>2, <1>3, FS_Subset
<1> QED BY <1>4, FS_CardinalityType

\* What was never given out has no likes and no count of any.
LEMMA ReadySum ==
    ASSUME IInv, Sound, LikesCounted, NEW i \in Items, i \notin lost.likes,
           Rooted(i) \/ ~Known(i)
    PROVE  LikeSum(i)
<1>1. CASE Rooted(i)
  BY <1>1, LikesBySum
<1>2. CASE ~Known(i)
  <2>1. LikesOf(i) = {} /\ likeCount[i] = 0
    BY <1>2 DEF Sound, RowsOK, LikesOf
  <2>2. Counting(i) = {} /\ Discounting(i) = {}
    BY <1>2 DEF Sound, ThreadsOK, LocalOK, Counting, Discounting, At, OfItem
  <2> QED BY <2>1, <2>2, FS_EmptySet DEF LikeSum
<1> QED BY <1>1, <1>2

\* An item of which nothing changes that its count depends on.
SameLikes(i) ==
    /\ likeCount'[i] = likeCount[i] /\ LikesOf(i)' = LikesOf(i)
    /\ Counting(i)' = Counting(i) /\ Discounting(i)' = Discounting(i)

\* Such an item is counted as before.
LEMMA SameLikeSum ==
    ASSUME NEW i, LikeSum(i), SameLikes(i)
    PROVE  LikeSum(i)'
BY DEF LikeSum, SameLikes

\* Only the thread that takes the step is to count, or has counted.
LEMMA OthersLike ==
    ASSUME NEW th \in Threads, \A d \in Threads \ {th} : my'[d] = my[d]
    PROVE  \A i : /\ Counting(i)' \ {th} = Counting(i) \ {th}
                  /\ Discounting(i)' \ {th} = Discounting(i) \ {th}
                  /\ th \in Counting(i) <=> my[th].at = "count" /\ my[th].item = i
                  /\ th \in Discounting(i) <=> my[th].at = "discount" /\ my[th].item = i
                  /\ th \in Counting(i)' <=> my'[th].at = "count" /\ my'[th].item = i
                  /\ th \in Discounting(i)' <=> my'[th].at = "discount" /\ my'[th].item = i
BY DEF Counting, Discounting, At

\* A step that has nothing to do with likes: it may delete those of what cannot be
\* reached any more, and give out what has none yet.
LikesAside ==
    /\ \A d \in Threads : \/ my'[d] = my[d]
                          \/ /\ my[d].at \notin {"like", "count", "discount"}
                             /\ my'[d].at \notin {"like", "count", "discount"}
    /\ likes' \subseteq likes /\ likeCount' = likeCount
    /\ raced' = raced /\ lost.likes \subseteq lost'.likes
    /\ \A i \in Items : Rooted(i)' => (Rooted(i) \/ ~Known(i)) /\ LikesOf(i)' = LikesOf(i)

\* It keeps LikesCounted.
LEMMA LikesElsewhere ==
    ASSUME IInv, Sound, LikesCounted, RaceOK, LikesAside
    PROVE  LikesCounted' /\ RaceOK'
<1> USE DEF LikesAside
<1>1. ASSUME NEW i \in Items, Rooted(i)', i \notin lost'.likes PROVE LikeSum(i)'
  <2>1. LikeSum(i)
    BY <1>1, ReadySum
  <2>2. Counting(i)' = Counting(i) /\ Discounting(i)' = Discounting(i)
    BY DEF Counting, Discounting, At
  <2> QED BY <1>1, <2>1, <2>2, SameLikeSum DEF SameLikes
<1>2. RacesMarked'
  BY LikesBySum DEF RacesMarked
<1>3. RaceOK'
  <2>1. \A d \in Threads : my'[d].at = "like" => my'[d] = my[d]
    OBVIOUS
  <2>2. likes' \subseteq likes /\ raced' = raced
    OBVIOUS
  <2> HIDE DEF LikesAside
  <2> QED BY <2>1, <2>2 DEF RaceOK, At, Meet
<1> QED BY <1>1, <1>2, <1>3, LikesBySum

\* The steps that are none of those that follow.
LEMMA LikesAsideSteps ==
    ASSUME IInv, Sound, NEW th \in Threads
    PROVE  /\ AddTopic(th) => LikesAside
           /\ RemoveTopic(th) => LikesAside
           /\ GetLikedReplies(th) => LikesAside
           /\ AddReply(th) => LikesAside
           /\ CacheSet(th) => LikesAside
           /\ RemoveRepliesFromTopic(th) => LikesAside
           /\ CacheRemove(th) => LikesAside
           /\ Purge(th) => LikesAside
           /\ DropLikes(th) => LikesAside
           /\ DeleteLikesForTopic(th) => LikesAside
           /\ DeleteReplies(th) => LikesAside
           /\ DeleteTopic(th) => LikesAside
           /\ \A t \in Topics : GetTopic(th, t) => LikesAside
           /\ \A f \in Forums : MoveTo(th, f) => LikesAside
           /\ \A f \in Forums : RemoveTopics(th, f) => LikesAside
           /\ \A t \in Topics, f \in Forums : InsertTopic(th, t, f) => LikesAside
           /\ \A S \in SUBSET Topics : DeletePosts(th, S) => LikesAside
           /\ \A row \in my[th].todo : DeletePost(th, row) => LikesAside
           /\ \A S \in SUBSET Replies : GetPostedReplies(th, S) => LikesAside
           /\ \A r \in Replies : DeleteLikesForReply(th, r) => LikesAside
           /\ \A r \in Replies : CreateActionReply(th, r) => LikesAside
           /\ \A r \in Replies, t \in Topics : CreateReply(th, r, t) => LikesAside
           /\ \A r \in Replies : GetReply(th, r) => LikesAside
           /\ \A r \in Replies : DeleteReply(th, r) => LikesAside
           /\ \A r \in Replies : DeletePostedReply(th, r) => LikesAside
<1> USE DEF LikesAside, LikesOf, Rooted, At, Keep, Begin, Idle, Do, InForum, Local, posts,
   marks
<1>0. /\ my \in [Threads -> Locals] /\ my[th] \in Locals /\ Topics \cap Replies = {} /\ Items = Topics \cup Replies
      /\ lost \in [posts : SUBSET (Topics \cup {None}), likes : SUBSET (Items \cup {None}),
                     topics : SUBSET (Forums \cup {None})]
      /\ LocalOK(my[th])
  BY ItemsAssumption DEF IInv, LocalTypes, MarkTypes, Sound, ThreadsOK, Items
<1>1. AddTopic(th) => LikesAside
  BY <1>0 DEF AddTopic
<1>2. RemoveTopic(th) => LikesAside
  BY <1>0 DEF RemoveTopic, Locals
<1>3. GetLikedReplies(th) => LikesAside
  <2> SUFFICES ASSUME GetLikedReplies(th) PROVE LikesAside
    OBVIOUS
  <2>1. /\ my[th].at = "liked" /\ my'[th].at = "sweep" /\ \A d \in Threads \ {th} : my'[d] = my[d]
    BY <1>0 DEF GetLikedReplies, Locals
  <2>2. /\ alive' = alive /\ home' = home /\ likes' = likes /\ likeCount' = likeCount
        /\ raced' = raced /\ lost' = lost
    BY DEF GetLikedReplies
  <2> QED BY <2>1, <2>2
<1>4. AddReply(th) => LikesAside
  BY <1>0 DEF AddReply
<1>5. CacheSet(th) => LikesAside
  BY <1>0 DEF CacheSet
<1>6. RemoveRepliesFromTopic(th) => LikesAside
  BY <1>0 DEF RemoveRepliesFromTopic, Locals
<1>7. CacheRemove(th) => LikesAside
  BY <1>0 DEF CacheRemove, Locals
<1>8. Purge(th) => LikesAside
  BY <1>0 DEF Purge
<1>9. DropLikes(th) => LikesAside
  BY <1>0, ResumesTo DEF DropLikes, LocalOK
<1>10. DeleteLikesForTopic(th) => LikesAside
  BY <1>0, ResumesTo DEF DeleteLikesForTopic, Locals, IInv, InHand, OfDeleted
<1>11. DeleteReplies(th) => LikesAside
  BY <1>0, ResumesTo DEF DeleteReplies
<1>12. DeleteTopic(th) => LikesAside
  BY <1>0 DEF DeleteTopic, Strike, Locals
<1>13. \A t \in Topics : GetTopic(th, t) => LikesAside
  BY <1>0 DEF GetTopic
<1>14. \A f \in Forums : MoveTo(th, f) => LikesAside
  BY <1>0 DEF MoveTo
<1>15. \A f \in Forums : RemoveTopics(th, f) => LikesAside
  BY <1>0 DEF RemoveTopics, Locals
<1>16. \A t \in Topics, f \in Forums : InsertTopic(th, t, f) => LikesAside
  BY <1>0 DEF InsertTopic, Known, IInv, GivenOut
<1>17. \A S \in SUBSET Topics : DeletePosts(th, S) => LikesAside
  BY <1>0 DEF DeletePosts, Posting
<1>18. \A row \in my[th].todo : DeletePost(th, row) => LikesAside
  BY <1>0 DEF DeletePost, Strike, Locals
<1>19. \A S \in SUBSET Replies : GetPostedReplies(th, S) => LikesAside
  BY <1>0 DEF GetPostedReplies, Walk
<1>20. \A r \in Replies : DeleteLikesForReply(th, r) => LikesAside
  BY <1>0 DEF DeleteLikesForReply, Locals, LocalOK, IInv, InHand, OfDeleted
<1>21. \A r \in Replies : CreateActionReply(th, r) => LikesAside
  <2> SUFFICES ASSUME NEW r \in Replies, CreateActionReply(th, r) PROVE LikesAside
    OBVIOUS
  <2>1. /\ home[r] = None /\ home' = [home EXCEPT ![r] = my[th].item] /\ alive' = alive \cup {r}
        /\ home \in [Replies -> Topics \cup {None}] /\ r # None
        /\ likes' = likes /\ likeCount' = likeCount /\ raced' = raced /\ lost' = lost
    BY NoneAssumption, <1>0 DEF CreateActionReply, NewReply, IInv, RowTypes
  <2>2. /\ \A d \in Threads \ {th} : my'[d] = my[d]
        /\ my[th].at \notin {"like", "count", "discount"} /\ my'[th].at = "reply"
    BY <1>0 DEF CreateActionReply, NewReply
  <2>3. \A i \in Items : Rooted(i)' => Rooted(i) \/ ~Known(i)
    BY <1>0, <2>1 DEF Known
  <2> QED BY <2>1, <2>2, <2>3
<1>22. \A r \in Replies, t \in Topics : CreateReply(th, r, t) => LikesAside
  <2> SUFFICES ASSUME NEW r \in Replies, NEW t \in Topics, CreateReply(th, r, t) PROVE LikesAside
    OBVIOUS
  <2>1. /\ home[r] = None /\ home' = [home EXCEPT ![r] = t] /\ alive' = alive \cup {r}
        /\ home \in [Replies -> Topics \cup {None}] /\ r # None
        /\ likes' = likes /\ likeCount' = likeCount /\ raced' = raced /\ lost' = lost
    BY NoneAssumption, <1>0 DEF CreateReply, NewReply, IInv, RowTypes
  <2>2. /\ \A d \in Threads \ {th} : my'[d] = my[d]
        /\ my[th].at \notin {"like", "count", "discount"} /\ my'[th].at = "reply"
    BY <1>0 DEF CreateReply, NewReply
  <2>3. \A i \in Items : Rooted(i)' => Rooted(i) \/ ~Known(i)
    BY <1>0, <2>1 DEF Known
  <2> QED BY <2>1, <2>2, <2>3
<1>23. \A r \in Replies : GetReply(th, r) => LikesAside
  BY <1>0 DEF GetReply
<1>24. \A r \in Replies : DeleteReply(th, r) => LikesAside
  BY <1>0 DEF DeleteReply, StrikeReply
<1>25. \A r \in Replies : DeletePostedReply(th, r) => LikesAside
  BY <1>0 DEF DeletePostedReply, StrikeReply, Locals
<1> HIDE DEF LikesAside
<1> QED BY <1>1, <1>2, <1>3, <1>4, <1>5, <1>6, <1>7, <1>8, <1>9, <1>10, <1>11, <1>12,
     <1>13, <1>14, <1>15, <1>16, <1>17, <1>18, <1>19, <1>20, <1>21, <1>22, <1>23, <1>24, <1>25

\* The recalculation deletes likes only of replies that have no topic.
LEMMA BootLikes ==
    ASSUME IInv,
           \/ RecalcForums \/ Serve \/ UNCHANGED vars
           \/ \E r \in Replies : DeleteOrphan(r)
           \/ \E f \in Forums : ResetTopicCount(f)
    PROVE  LikesAside
<1>1. CASE \E r \in Replies : DeleteOrphan(r)
  <2>1. PICK r \in Replies : DeleteOrphan(r)
    BY <1>1
  <2>2. /\ my' = my /\ home[r] \notin alive /\ alive' = alive \ {r} /\ home' = home /\ lost' = lost
        /\ raced' = raced /\ likeCount' = likeCount /\ (likes' = likes \/ likes' = likes \ LikesOf(r))
    BY <2>1 DEF DeleteOrphan, posts
  <2> QED BY <2>2 DEF LikesAside, Rooted, LikesOf
<1>2. CASE RecalcForums \/ Serve \/ UNCHANGED vars \/ \E f \in Forums : ResetTopicCount(f)
  BY <1>2 DEF RecalcForums, Serve, ResetTopicCount, vars, posts, marks, LikesAside,
     Rooted, LikesOf,
              IInv, MarkTypes
<1> QED BY <1>1, <1>2

\* The query that finds no like.
LEMMA HasLikedLikes ==
    ASSUME IInv, Sound, LikesCounted, RaceOK, NEW th \in Threads, NEW j \in Items,
           NEW u \in Users,
           HasLiked(th, j, u)
    PROVE  LikesCounted' /\ RaceOK'
<1>1. /\ my[th].at = "idle" /\ my' = [my EXCEPT ![th] = Local("like", j, None, ops + 1, u)]
      /\ my \in [Threads -> Locals] /\ alive' = alive /\ home' = home /\ lost' = lost
      /\ likes' = likes /\ likeCount' = likeCount /\ LikesBy(j, u) = {}
      /\ raced' = IF \E d \in Threads : At(d, "like") /\ my[d].item = j /\ my[d].user = u
                  THEN raced \cup {<<j, u>>} ELSE raced
  BY DEF HasLiked, Begin, At, Keep, posts, IInv, LocalTypes
<1>2. /\ my'[th].at = "like" /\ my'[th].item = j /\ my'[th].user = u /\ my'[th].n = ops + 1
      /\ \A d \in Threads \ {th} : my'[d] = my[d]
  BY <1>1 DEF Local
<1>3. raced \subseteq raced'
  BY <1>1
<1>4. ASSUME NEW i \in Items, Rooted(i)', i \notin lost'.likes PROVE LikeSum(i)'
  <2>1. Rooted(i) /\ LikeSum(i) /\ LikesOf(i)' = LikesOf(i)
    BY <1>1, <1>4, LikesBySum DEF Rooted, LikesOf
  <2>2. Counting(i)' = Counting(i) /\ Discounting(i)' = Discounting(i)
    BY <1>1, <1>2, OthersLike
  <2> QED BY <1>1, <2>1, <2>2, SameLikeSum DEF SameLikes
<1>5. RacesMarked'
  BY <1>1, <1>3, LikesBySum DEF RacesMarked
<1>6. /\ ops \in Int /\ \A l \in likes : l[3] \in Int /\ l[3] <= ops
      /\ \A d \in Threads : my[d].at = "like" => my[d].n \in Int /\ my[d].n <= ops
  BY DEF IInv, LocalTypes, RowTypes, Locals, Sound, RowsOK, ThreadsOK, LocalOK
<1>7. RaceOK'
  <2>1. ASSUME NEW d \in Threads, NEW l \in likes', my'[d].at = "like"
        PROVE  /\ l[3] # my'[d].n
               /\ l[1] = my'[d].item /\ l[2] = my'[d].user => <<l[1], l[2]>> \in raced'
    <3>1. CASE d = th
      <4>1. l[3] # my'[d].n
        BY <1>1, <1>2, <1>6, <3>1
      <4>2. ~(l[1] = j /\ l[2] = u)
        BY <1>1 DEF LikesBy
      <4> QED BY <1>2, <3>1, <4>1, <4>2
    <3>2. CASE d # th
      BY <1>1, <1>2, <1>3, <2>1, <3>2 DEF RaceOK, At
    <3> QED BY <3>1, <3>2
  <2>2. ASSUME NEW c \in Threads, NEW d \in Threads, c # d, my'[c].at = "like", my'[d].at = "like"
        PROVE  /\ my'[d].n # my'[c].n
               /\ Meet(c, d)' => <<my'[c].item, my'[c].user>> \in raced'
    <3>1. CASE c = th
      <4>1. my'[d] = my[d] /\ my[d].at = "like"
        BY <1>2, <2>2, <3>1
      <4>2. my'[d].n # my'[c].n
        BY <1>2, <1>6, <3>1, <4>1
      <4>3. my[d].item = j /\ my[d].user = u => <<j, u>> \in raced'
        BY <1>1, <4>1 DEF At
      <4> QED BY <1>2, <3>1, <4>1, <4>2, <4>3 DEF Meet
    <3>2. CASE d = th
      <4>1. my'[c] = my[c] /\ my[c].at = "like"
        BY <1>2, <2>2, <3>2
      <4>2. my'[d].n # my'[c].n
        BY <1>2, <1>6, <3>2, <4>1
      <4>3. my[c].item = j /\ my[c].user = u => <<j, u>> \in raced'
        BY <1>1, <4>1 DEF At
      <4> QED BY <1>2, <3>2, <4>1, <4>2, <4>3 DEF Meet
    <3>3. CASE c # th /\ d # th
      BY <1>2, <1>3, <2>2, <3>3 DEF RaceOK, At, Meet
    <3> QED BY <3>1, <3>2, <3>3
  <2> QED BY <2>1, <2>2 DEF RaceOK, At
<1> QED BY <1>4, <1>5, <1>7, LikesBySum

\* The like is inserted, and is still to be counted.
LEMMA CreateLikeLikes ==
    ASSUME IInv, Sound, LikesCounted, RaceOK, NEW th \in Threads, CreateLike(th)
    PROVE  LikesCounted' /\ RaceOK'
<1> DEFINE j == my[th].item
           u == my[th].user
           new == <<j, u, my[th].n>>
<1>1. /\ my[th].at = "like" /\ my' = [my EXCEPT ![th] = Do("count", j)]
      /\ my \in [Threads -> Locals] /\ alive' = alive /\ home' = home /\ lost' = lost
      /\ likes' = likes \cup {new} /\ likeCount' = likeCount /\ raced' = raced
  BY DEF CreateLike, At, Keep, posts, IInv, LocalTypes
<1>2. /\ my'[th].at = "count" /\ my'[th].item = j /\ \A d \in Threads \ {th} : my'[d] = my[d]
  BY <1>1 DEF Do, Local
<1>3. /\ \A l \in likes : l[3] # new[3]
      /\ \A l \in likes : l[1] = new[1] /\ l[2] = new[2] => <<new[1], new[2]>> \in raced
      /\ \A d \in Threads \ {th} : my[d].at = "like" =>
           /\ my[d].n # new[3]
           /\ my[d].item = new[1] /\ my[d].user = new[2] => <<new[1], new[2]>> \in raced
  BY <1>1 DEF RaceOK, At, Meet
<1>4. new[1] = j
  OBVIOUS
<1> HIDE DEF new
<1>5. new \notin likes
  BY <1>3
<1>6. ASSUME NEW i \in Items, Rooted(i)', i \notin lost'.likes PROVE LikeSum(i)'
  <2>1. Rooted(i) /\ LikeSum(i)
    BY <1>1, <1>6, LikesBySum DEF Rooted
  <2>2. /\ Counting(i)' \ {th} = Counting(i) \ {th} /\ Discounting(i)' = Discounting(i)
        /\ th \notin Counting(i) /\ (th \in Counting(i)' <=> i = j)
    <3>1. /\ Counting(i)' \ {th} = Counting(i) \ {th} /\ Discounting(i)' \ {th} = Discounting(i) \ {th}
          /\ th \in Counting(i) <=> my[th].at = "count" /\ my[th].item = i
          /\ th \in Discounting(i) <=> my[th].at = "discount" /\ my[th].item = i
          /\ th \in Counting(i)' <=> my'[th].at = "count" /\ my'[th].item = i
          /\ th \in Discounting(i)' <=> my'[th].at = "discount" /\ my'[th].item = i
      BY <1>2, OthersLike
    <3>2. my[th].at = "like" /\ my'[th].at = "count" /\ my'[th].item = j
      BY <1>1, <1>2
    <3> HIDE DEF j
    <3> QED BY <3>1, <3>2
  <2>3. LikesOf(i)' = IF i = j THEN LikesOf(i) \cup {new} ELSE LikesOf(i)
    BY <1>1, <1>4 DEF LikesOf
  <2> HIDE DEF j
  <2>4. CASE i = j
    <3>0. LikesOf(i)' = LikesOf(i) \cup {new} /\ new \notin LikesOf(i)
      BY <1>5, <2>3, <2>4 DEF LikesOf
    <3>1. Cardinality(LikesOf(i)') = Cardinality(LikesOf(i)) + 1
      BY <3>0, LikesFinite, OneMore
    <3>2. Counting(i)' = Counting(i) \cup {th}
      BY <2>2, <2>4
    <3>3. Cardinality(Counting(i)') = Cardinality(Counting(i)) + 1
      BY <2>2, <3>2, LikesFinite, OneMore
    <3>4. likeCount[i] \in Int
      BY DEF IInv, RowTypes
    <3> QED BY <1>1, <2>1, <2>2, <3>1, <3>3, <3>4, LikesFinite DEF LikeSum
  <2>5. CASE i # j
    <3>1. Counting(i)' = Counting(i)
      BY <2>2, <2>5
    <3> QED BY <1>1, <2>1, <2>2, <2>3, <2>5, <3>1, SameLikeSum DEF SameLikes
  <2> QED BY <2>4, <2>5
<1>7. RacesMarked'
  BY <1>1, <1>3, LikesBySum DEF RacesMarked
<1>8. RaceOK'
  <2>1. \A d \in Threads : my'[d].at = "like" => d # th /\ my'[d] = my[d]
    BY <1>2
  <2>2. ASSUME NEW d \in Threads, NEW l \in likes', my'[d].at = "like"
        PROVE  /\ l[3] # my'[d].n
               /\ l[1] = my'[d].item /\ l[2] = my'[d].user => <<l[1], l[2]>> \in raced'
    <3>1. CASE l = new
      BY <1>1, <1>3, <2>1, <2>2, <3>1
    <3>2. CASE l \in likes
      BY <1>1, <2>1, <2>2, <3>2 DEF RaceOK, At
    <3> QED BY <1>1, <3>1, <3>2
  <2>3. ASSUME NEW c \in Threads, NEW d \in Threads, c # d, my'[c].at = "like", my'[d].at = "like"
        PROVE  /\ my'[d].n # my'[c].n
               /\ Meet(c, d)' => <<my'[c].item, my'[c].user>> \in raced'
    BY <1>1, <2>1, <2>3 DEF RaceOK, At, Meet
  <2> QED BY <2>2, <2>3 DEF RaceOK, At
<1> QED BY <1>6, <1>7, <1>8, LikesBySum

\* All likes of an item go, and one is still to be counted out.
LEMMA UnlikeLikes ==
    ASSUME IInv, Sound, LikesCounted, RaceOK, NEW th \in Threads, NEW j \in Items,
           Unlike(th, j)
    PROVE  LikesCounted' /\ RaceOK'
<1>1. /\ my[th].at = "idle" /\ my' = [my EXCEPT ![th] = Do("discount", j)]
      /\ my \in [Threads -> Locals] /\ alive' = alive /\ home' = home
      /\ likes' = likes \ LikesOf(j) /\ likeCount' = likeCount /\ raced' = raced
      /\ lost'.likes = IF Cardinality(LikesOf(j)) = 1 THEN lost.likes ELSE lost.likes \cup {j}
  BY DEF Unlike, Begin, At, Keep, posts, IInv, LocalTypes, MarkTypes
<1>2. /\ my'[th].at = "discount" /\ my'[th].item = j /\ \A d \in Threads \ {th} : my'[d] = my[d]
  BY <1>1 DEF Do, Local
<1>3. ASSUME NEW i \in Items, Rooted(i)', i \notin lost'.likes PROVE LikeSum(i)'
  <2>1. Rooted(i) /\ LikeSum(i)
    BY <1>1, <1>3, LikesBySum DEF Rooted
  <2>2. /\ Counting(i)' = Counting(i) /\ Discounting(i)' \ {th} = Discounting(i) \ {th}
        /\ th \notin Discounting(i) /\ (th \in Discounting(i)' <=> i = j)
    BY <1>1, <1>2, OthersLike
  <2>3. LikesOf(i)' = IF i = j THEN {} ELSE LikesOf(i)
    BY <1>1 DEF LikesOf
  <2>4. CASE i = j
    <3>1. Cardinality(LikesOf(i)) = 1 /\ Cardinality(LikesOf(i)') = 0
      BY <1>1, <1>3, <2>3, <2>4, FS_EmptySet
    <3>2. Discounting(i)' = Discounting(i) \cup {th}
      BY <2>2, <2>4
    <3>3. Cardinality(Discounting(i)') = Cardinality(Discounting(i)) + 1
      BY <2>2, <3>2, LikesFinite, OneMore
    <3> QED BY <1>1, <2>1, <2>2, <3>1, <3>3, LikesFinite DEF LikeSum
  <2>5. CASE i # j
    <3>1. Discounting(i)' = Discounting(i)
      BY <2>2, <2>5
    <3> QED BY <1>1, <2>1, <2>2, <2>3, <2>5, <3>1, SameLikeSum DEF SameLikes
  <2> QED BY <2>4, <2>5
<1>4. RacesMarked'
  BY <1>1, LikesBySum DEF RacesMarked
<1>5. RaceOK'
  <2>1. \A d \in Threads : my'[d].at = "like" => my'[d] = my[d]
    BY <1>2
  <2> QED BY <1>1, <2>1 DEF RaceOK, At, Meet
<1> QED BY <1>3, <1>4, <1>5, LikesBySum

\* The statement that counts.
LEMMA AddLikesLikes ==
    ASSUME IInv, Sound, LikesCounted, RaceOK, NEW th \in Threads, AddLikes(th)
    PROVE  LikesCounted' /\ RaceOK'
<1> DEFINE j == my[th].item
           up == my[th].at = "count"
<1>1. /\ my[th].at \in {"count", "discount"} /\ my' = [my EXCEPT ![th] = Do("purge", j)]
      /\ my \in [Threads -> Locals] /\ alive' = alive /\ home' = home /\ lost' = lost
      /\ likes' = likes /\ raced' = raced
      /\ likeCount' = IF j \notin alive THEN likeCount
                      ELSE [likeCount EXCEPT ![j] = IF up THEN @ + 1 ELSE @ - 1]
      /\ likeCount \in [Items -> Int]
  BY DEF AddLikes, At, Keep, posts, marks, IInv, LocalTypes, RowTypes
<1>2. my'[th].at = "purge" /\ \A d \in Threads \ {th} : my'[d] = my[d]
  BY <1>1 DEF Do, Local
<1>3. ASSUME NEW i \in Items, Rooted(i)', i \notin lost'.likes PROVE LikeSum(i)'
  <2>1. Rooted(i) /\ LikeSum(i) /\ LikesOf(i)' = LikesOf(i) /\ i \in alive
    BY <1>1, <1>3, LikesBySum DEF Rooted, LikesOf
  <2>2. /\ Counting(i)' = Counting(i) \ {th} /\ Discounting(i)' = Discounting(i) \ {th}
        /\ th \in Counting(i) <=> i = j /\ up
        /\ th \in Discounting(i) <=> i = j /\ ~up
    <3>1. /\ Counting(i)' \ {th} = Counting(i) \ {th} /\ Discounting(i)' \ {th} = Discounting(i) \ {th}
          /\ th \in Counting(i) <=> my[th].at = "count" /\ my[th].item = i
          /\ th \in Discounting(i) <=> my[th].at = "discount" /\ my[th].item = i
          /\ th \notin Counting(i)' /\ th \notin Discounting(i)'
      BY <1>2, OthersLike
    <3>2. my[th].at \in {"count", "discount"}
      BY <1>1
    <3> QED BY <3>1, <3>2
  <2>3. likeCount'[i] = IF i # j THEN likeCount[i] ELSE IF up THEN likeCount[i] + 1 ELSE likeCount[i] - 1
    BY <1>1, <2>1
  <2>4. likeCount[i] \in Int
    BY <1>1
  <2> HIDE DEF j, up
  <2>5. CASE i # j
    <3>1. Counting(i)' = Counting(i) /\ Discounting(i)' = Discounting(i)
      BY <2>2, <2>5
    <3> QED BY <2>1, <2>3, <2>5, <3>1, SameLikeSum DEF SameLikes
  <2>6. CASE i = j /\ up
    <3>1. Cardinality(Counting(i)') = Cardinality(Counting(i)) - 1 /\ Discounting(i)' = Discounting(i)
      BY <2>2, <2>6, LikesFinite, OneFewer
    <3> QED BY <2>1, <2>3, <2>4, <2>6, <3>1, LikesFinite DEF LikeSum
  <2>7. CASE i = j /\ ~up
    <3>1. Cardinality(Discounting(i)') = Cardinality(Discounting(i)) - 1 /\ Counting(i)' = Counting(i)
      BY <2>2, <2>7, LikesFinite, OneFewer
    <3> QED BY <2>1, <2>3, <2>4, <2>7, <3>1, LikesFinite DEF LikeSum
  <2> QED BY <2>5, <2>6, <2>7
<1>4. RacesMarked'
  BY <1>1, LikesBySum DEF RacesMarked
<1>5. RaceOK'
  <2>1. \A d \in Threads : my'[d].at = "like" => my'[d] = my[d]
    BY <1>2
  <2> QED BY <1>1, <2>1 DEF RaceOK, At, Meet
<1> QED BY <1>3, <1>4, <1>5, LikesBySum

\* Threads that return: the items whose likes they were to count are marked.
LEMMA AbandonLikes ==
    ASSUME IInv, Sound, LikesCounted, RaceOK, NEW S \in SUBSET Threads, Abandon(S),
           \A d \in Threads \ S : my'[d] = my[d], \A d \in S : my'[d].at = "idle",
           UNCHANGED <<alive, posts, likes, likeCount, raced>>
    PROVE  LikesCounted' /\ RaceOK'
<1>1. home' = home /\ alive' = alive /\ likes' = likes /\ likeCount' = likeCount /\ raced' = raced
  BY DEF posts
<1>2. lost'.likes = lost.likes \cup {my[d].item : d \in {e \in S : my[e].at \in {"count", "discount"}}}
  BY DEF Abandon
<1>3. ASSUME NEW i \in Items, Rooted(i)', i \notin lost'.likes PROVE LikeSum(i)'
  <2>1. LikeSum(i) /\ LikesOf(i)' = LikesOf(i)
    BY <1>1, <1>2, <1>3, LikesBySum DEF Rooted, LikesOf
  <2>2. \A d \in S : d \notin Counting(i) /\ d \notin Discounting(i)
    BY <1>2, <1>3 DEF Counting, Discounting, At
  <2>3. Counting(i)' = Counting(i) /\ Discounting(i)' = Discounting(i)
    BY <2>2 DEF Counting, Discounting, At
  <2> QED BY <1>1, <2>1, <2>3, SameLikeSum DEF SameLikes
<1>4. RacesMarked'
  BY <1>1, LikesBySum DEF RacesMarked
<1>5. RaceOK'
  <2>1. \A d \in Threads : my'[d].at = "like" => my'[d] = my[d]
    OBVIOUS
  <2> QED BY <1>1, <2>1 DEF RaceOK, At, Meet
<1> QED BY <1>3, <1>4, <1>5, LikesBySum

\* GiveUp keeps LikesCounted.
LEMMA GiveUpLikes ==
    ASSUME IInv, Sound, LikesCounted, RaceOK, NEW th \in Threads, GiveUp(th)
    PROVE  LikesCounted' /\ RaceOK'
<1>1. /\ Abandon({th}) /\ UNCHANGED <<alive, posts, likes, likeCount, raced>>
      /\ my' = [my EXCEPT ![th] = Idle] /\ my \in [Threads -> Locals]
  BY DEF GiveUp, Keep, IInv, LocalTypes
<1>2. my'[th].at = "idle" /\ \A d \in Threads \ {th} : my'[d] = my[d]
  BY <1>1 DEF Idle, Do, Local
<1> QED BY <1>1, <1>2, AbandonLikes

\* Restart keeps LikesCounted.
LEMMA RestartLikes ==
    ASSUME IInv, Sound, LikesCounted, RaceOK, Restart
    PROVE  LikesCounted' /\ RaceOK'
<1>1. Abandon(Threads) /\ UNCHANGED <<alive, posts, likes, likeCount, raced>>
  BY DEF Restart
<1>2. \A d \in Threads : my'[d].at = "idle"
  BY DEF Restart, Idle, Do, Local
<1> QED BY <1>1, <1>2, AbandonLikes

\* The counts are right at the start.
LEMMA InitLikes == Init => LikesCounted /\ RaceOK
<1> SUFFICES ASSUME Init PROVE LikesCounted /\ RaceOK
  OBVIOUS
<1>1. ASSUME NEW i \in Items PROVE LikeSum(i)
  <2>1. Counting(i) = {} /\ Discounting(i) = {}
    BY DEF Init, Counting, Discounting, At, Idle, Do, Local
  <2>2. likeCount[i] = Cardinality(LikesOf(i))
    BY DEF Init
  <2>3. Cardinality(LikesOf(i)) \in Nat
    BY InitIInv, LikesFinite
  <2> QED BY <2>1, <2>2, <2>3, FS_EmptySet DEF LikeSum
<1>2. RacesMarked
  BY DEF Init, RacesMarked
<1>3. RaceOK
  BY DEF Init, RaceOK, At, Idle, Do, Local
<1> QED BY <1>1, <1>2, <1>3, LikesBySum

\* Every step keeps LikesCounted.
LEMMA NextLikes ==
    ASSUME IInv, Sound, LikesCounted, RaceOK, [Next]_vars
    PROVE  LikesCounted' /\ RaceOK'
<1>1. ASSUME NEW th \in Threads, GiveUp(th) \/ CreateLike(th) \/ AddLikes(th)
      PROVE  LikesCounted' /\ RaceOK'
  BY <1>1, GiveUpLikes, CreateLikeLikes, AddLikesLikes
<1>2. ASSUME NEW th \in Threads, NEW i \in Items, Unlike(th, i) \/ \E u \in Users : HasLiked(th, i, u)
      PROVE  LikesCounted' /\ RaceOK'
  BY <1>2, UnlikeLikes, HasLikedLikes
<1>3. CASE LikesAside
  BY <1>3, LikesElsewhere
<1>4. CASE \/ Restart \/ RecalcForums \/ Serve \/ UNCHANGED vars
           \/ \E r \in Replies : DeleteOrphan(r)
           \/ \E f \in Forums : ResetTopicCount(f)
  BY <1>4, RestartLikes, BootLikes, LikesElsewhere
<1> QED BY <1>1, <1>2, <1>3, <1>4, LikesAsideSteps DEF Next

-----------------------------------------------------------------------------
\* The inductive invariant of the counts, and that it is one.
CountsInv == IInv /\ Sound /\ PostsCounted /\ TopicsCounted /\ LikesCounted /\ RaceOK

LEMMA InvariantCountsInv == Spec => []CountsInv
<1>1. Init => CountsInv
  BY InitIInv, InitSound, InitPosts, InitTopics, InitLikes DEF CountsInv
<1>2. CountsInv /\ [Next]_vars => CountsInv'
  <2> SUFFICES ASSUME CountsInv, [Next]_vars PROVE CountsInv'
    OBVIOUS
  <2>1. IInv /\ Sound /\ PostsCounted /\ TopicsCounted /\ LikesCounted /\ RaceOK
    BY DEF CountsInv
  <2>2. IInv'
    BY <2>1, NextIInv
  <2>3. Monotone /\ Sound'
    BY <2>1, NextSound
  <2>4. PostsCounted' /\ TopicsCounted' /\ LikesCounted' /\ RaceOK'
    BY <2>1, <2>3, NextPosts, NextTopics, NextLikes
  <2> QED BY <2>2, <2>3, <2>4 DEF CountsInv
<1> QED BY <1>1, <1>2, PTL DEF Spec

\* postCount is right up to the statements still to come, unless an operation has
\* stopped between inserting or deleting a reply and counting it, or has deleted
\* one that was gone: requests that only overlap, however many, do not upset it.
THEOREM PostsCountedAlways == Spec => []PostsCounted
<1>1. CountsInv => PostsCounted
  BY DEF CountsInv
<1> QED BY <1>1, InvariantCountsInv, PTL

\* topicCount is right up to the statements still to come, those of a walk of
\* User.DeletePosts among them, unless one of the sequences TopicsCounted names has
\* happened since the last recalculation.
THEOREM TopicsCountedAlways == Spec => []TopicsCounted
<1>1. CountsInv => TopicsCounted
  BY DEF CountsInv
<1> QED BY <1>1, InvariantCountsInv, PTL

\* likeCount is right up to the statements still to come, unless an operation has
\* stopped or somebody has unliked for others too; and a user likes a thing twice
\* only where two of his requests have both found no like.
THEOREM LikesCountedAlways == Spec => []LikesCounted
<1>1. CountsInv => LikesCounted
  BY DEF CountsInv
<1> QED BY <1>1, InvariantCountsInv, PTL

=============================================================================
