------------------------------ MODULE Content ------------------------------
(***************************************************************************)
(* The tables topics, replies, likes and forums as the operations on       *)
(* content change them (src/common/topic.go, reply.go, reply_store.go,     *)
(* topic_store.go, user.go, likes.go), and the reply cache                 *)
(* (reply_cache.go).                                                       *)
(*                                                                         *)
(* Three columns repeat what the rows of other tables say: postCount of a  *)
(* topic (one more than its replies), likeCount of a topic or reply, and   *)
(* topicCount of a forum.  No operation uses a transaction: it is a        *)
(* sequence of statements, each a step of this module, and returns at the  *)
(* first that fails; the server may stop between any two.  When it starts  *)
(* again it may be told to recalculate (src/tickloop.go, recalc.go) before *)
(* it serves anybody.                                                      *)
(*                                                                         *)
(* A request works on the copy of a topic or reply that a store has        *)
(* answered with some time before, so what it has in hand may be gone.     *)
(* Statistics of users, attachments, polls, subscriptions and activities   *)
(* are not followed; what the forum store makes of the forums is in        *)
(* ForumStore.                                                             *)
(***************************************************************************)
EXTENDS Integers, FiniteSets

CONSTANTS
    Threads,      \* request goroutines
    Forums,
    Topics,       \* topic IDs, those not yet given out included
    Replies,      \* reply IDs, likewise
    Users,        \* those who like
    None,
    MaxOps,       \* bound: how many operations begin
    MaxRestarts   \* bound: how often the server starts again

Items == Topics \cup Replies

ASSUME NoneAssumption == None \notin Threads \cup Forums \cup Items \cup Users
ASSUME ItemsAssumption == Topics \cap Replies = {}
ASSUME FiniteAssumption == IsFiniteSet(Threads) /\ IsFiniteSet(Items) /\ IsFiniteSet(Users)
ASSUME BoundAssumption == MaxOps \in Nat /\ MaxRestarts \in Nat

Labels == {"idle", "enter", "reply", "held", "moved", "leave", "unlike", "liked", "sweep",
           "uncount", "forget", "drop", "set", "like", "count", "discount", "purge",
           "posts", "posted"}

VARIABLES
    alive,      \* the topics and replies that have a row
    forum,      \* parentID of each topic given out
    home,       \* tid of each reply given out
    postCount,  \* by topic
    topicCount, \* by forum
    likes,      \* the table likes: <<item, user, number of the operation>>
    likeCount,  \* by item
    cached,     \* the reply cache
    my,         \* by thread: where it is and its local variables
    boot,       \* is the server up, or which recalculation is it at?
    ops,        \* how many operations have begun
    restarts,   \* how often the server has started again
    lost,       \* history: forums, topics and items whose counts were left wrong
    stray,      \* history: replies, and items of likes, left without what they belong to
    kept,       \* history: replies left in the cache
    raced       \* history: <<item, user>> whose two likes have both found none

posts == <<forum, home, postCount, topicCount>>
marks == <<lost, stray, kept, raced>>
bounds == <<ops, restarts>>
vars == <<alive, posts, likes, likeCount, cached, my, boot, bounds, marks>>

\* The locals: the item at hand, the forum and postCount of the copy, who likes and
\* the number of the operation, and the replies left of a walk; and for a thread
\* that deletes all a user has posted the walk it goes on with, the topics that are
\* left of it, and those that are deleted and still counted by their forum.
Local(label, item, f, n, user) ==
    [at |-> label, item |-> item, forum |-> f, n |-> n, user |-> user, left |-> {},
     walk |-> "idle", todo |-> {}, owed |-> {}]
Do(label, item) == Local(label, item, None, 0, None)
InForum(label, t, f, n) == Local(label, t, f, n, None)
Idle == Do("idle", None)

Up == [at |-> "up", left |-> {}]

TopicsOf(f) == {t \in Topics \cap alive : forum[t] = f}
RepliesOf(t) == {r \in Replies \cap alive : home[r] = t}
LikesOf(i) == {l \in likes : l[1] = i}
LikesBy(i, u) == {l \in likes : l[1] = i /\ l[2] = u}

\* A row that is found through a topic that has one.
Rooted(i) == i \in alive /\ (i \in Replies => home[i] \in alive)

NoLosses == [posts |-> {}, likes |-> {}, topics |-> {}]
NoStrays == [replies |-> {}, likes |-> {}]

\* Any content whose counts are right, an empty cache, and no request.
Init ==
    /\ alive \in SUBSET Items
    /\ forum \in [Topics -> Forums \cup {None}]
    /\ home \in [Replies -> Topics \cup {None}]
    /\ \A t \in Topics : t \in alive <=> forum[t] # None
    /\ \A r \in Replies : IF r \in alive THEN home[r] \in alive ELSE home[r] = None
    /\ postCount = [t \in Topics |-> IF t \in alive THEN 1 + Cardinality(RepliesOf(t)) ELSE 0]
    /\ topicCount = [f \in Forums |-> Cardinality(TopicsOf(f))]
    /\ likes \in SUBSET ((Items \cap alive) \X Users \X {0})
    /\ likeCount = [i \in Items |-> Cardinality(LikesOf(i))]
    /\ cached = {}
    /\ my = [th \in Threads |-> Idle]
    /\ boot = Up
    /\ ops = 0 /\ restarts = 0
    /\ lost = NoLosses /\ stray = NoStrays
    /\ kept = {} /\ raced = {}

-----------------------------------------------------------------------------
(* What threads are on their way to do, and what is lost when they are not. *)

At(th, label) == my[th].at = label
Keep(th, fields) == my' = [my EXCEPT ![th] = fields]

\* The walk over a user's topics, of which todo are left and owed are not counted out.
Posting(todo, owed) ==
    [at |-> "posts", item |-> None, forum |-> None, n |-> 0, user |-> None, left |-> {},
     walk |-> "posts", todo |-> todo, owed |-> owed]

\* The walk over a user's replies: it ends with the last.
Walk(replies) ==
    IF replies = {} THEN Idle ELSE [Idle EXCEPT !.at = "posted", !.walk = "posted", !.left = replies]

\* th is done with its item: it returns, or goes on with its walk.
Resume(th) ==
    Keep(th, CASE my[th].walk = "idle" -> Idle
               [] my[th].walk = "posts" -> Posting(my[th].todo, my[th].owed)
               [] my[th].walk = "posted" -> Walk(my[th].left))

\* An operation begins.
Begin(th) ==
    /\ At(th, "idle") /\ boot = Up
    /\ ops < MaxOps
    /\ ops' = ops + 1

\* th will delete the replies of t.
Sweeps(th, t) ==
    /\ my[th].at \in {"leave", "unlike", "liked", "sweep"}
    /\ my[th].item = t /\ my[th].n > 1

\* th will delete the likes of i.
Drops(th, i) ==
    \/ my[th].at \in {"leave", "unlike", "uncount", "forget", "drop"} /\ my[th].item = i
    \/ At(th, "sweep") /\ i \in my[th].left

\* th will take the deleted reply r off the cache.
Forgets(th, r) == my[th].at \in {"uncount", "forget"} /\ my[th].item = r

\* The threads in S return, and what they were to do is not done.
Abandon(S) ==
    LET others == Threads \ S
        at(labels) == {th \in S : my[th].at \in labels}
    IN  /\ lost' = [posts |-> lost.posts \cup {home[my[th].item] : th \in at({"reply", "uncount"})},
                    likes |-> lost.likes \cup {my[th].item : th \in at({"count", "discount"})},
                    topics |-> lost.topics \cup {my[th].forum : th \in at({"enter", "leave"})}
                                \cup UNION {{row[2] : row \in my[th].owed} : th \in S}]
        /\ stray' = [replies |-> stray.replies \cup
                        {r \in Replies \cap alive : /\ \E th \in S : Sweeps(th, home[r])
                                                    /\ ~\E th \in others : Sweeps(th, home[r])},
                     likes |-> stray.likes \cup
                        {i \in Items \ alive : /\ \E th \in S : Drops(th, i)
                                               /\ ~\E th \in others : Drops(th, i)
                                               /\ LikesOf(i) # {}}]

\* A statement fails, or a check before the first one does.
GiveUp(th) ==
    /\ ~At(th, "idle")
    /\ Abandon({th})
    /\ kept' = kept \cup {r \in cached \ alive : Forgets(th, r)}
    /\ Keep(th, Idle)
    /\ UNCHANGED <<alive, posts, likes, likeCount, cached, boot, bounds, raced>>

-----------------------------------------------------------------------------
(* Topics: Create, MoveTo, Delete.                                          *)

InsertTopic(th, t, f) ==
    /\ Begin(th)
    /\ forum[t] = None
    /\ alive' = alive \cup {t}
    /\ forum' = [forum EXCEPT ![t] = f]
    /\ postCount' = [postCount EXCEPT ![t] = 1]
    /\ Keep(th, InForum("enter", t, f, 0))
    /\ UNCHANGED <<home, topicCount, likes, likeCount, cached, boot, restarts, marks>>

\* Forums.AddTopic
AddTopic(th) ==
    LET f == my[th].forum IN
    /\ At(th, "enter")
    /\ topicCount' = [topicCount EXCEPT ![f] = @ + 1]
    /\ Keep(th, Idle)
    /\ UNCHANGED <<alive, forum, home, postCount, likes, likeCount, cached, boot, bounds, marks>>

\* Topics.Get, for a request that is to move or delete the topic.
GetTopic(th, t) ==
    /\ Begin(th)
    /\ t \in alive
    /\ Keep(th, InForum("held", t, forum[t], postCount[t]))
    /\ UNCHANGED <<alive, posts, likes, likeCount, cached, boot, restarts, marks>>

\* MoveTo: neither forum's count is changed.
MoveTo(th, f) ==
    LET t == my[th].item IN
    /\ At(th, "held")
    /\ forum' = IF t \in alive THEN [forum EXCEPT ![t] = f] ELSE forum
    /\ Keep(th, Do("moved", t))
    /\ lost' = IF t \in alive /\ forum[t] # f
               THEN [lost EXCEPT !.topics = @ \cup {forum[t], f}] ELSE lost
    /\ UNCHANGED <<alive, home, postCount, topicCount, likes, likeCount, cached, boot, bounds,
                   stray, kept, raced>>

\* The row of topic t goes, in whose copy the forum is f and the postCount n.
Strike(th, t, f, n) ==
    /\ alive' = alive \ {t}
    /\ lost' = IF t \in alive /\ forum[t] = f THEN lost
               ELSE [lost EXCEPT !.topics = @ \cup {forum[t], f}]
    /\ stray' = [replies |-> stray.replies \cup
                    (IF n > 1 \/ \E d \in Threads \ {th} : Sweeps(d, t)
                     THEN {} ELSE RepliesOf(t)),
                 likes |-> stray.likes]
    /\ UNCHANGED <<posts, likes, likeCount, cached, boot, bounds, kept, raced>>

\* Delete: the row, then the count of the forum the copy is in.
DeleteTopic(th) ==
    /\ At(th, "held")
    /\ Strike(th, my[th].item, my[th].forum, my[th].n)
    /\ Keep(th, [my[th] EXCEPT !.at = "leave"])

\* Forums.RemoveTopic
RemoveTopic(th) ==
    /\ At(th, "leave")
    /\ topicCount' = [topicCount EXCEPT ![my[th].forum] = @ - 1]
    /\ Keep(th, [my[th] EXCEPT !.at = "unlike"])
    /\ UNCHANGED <<alive, forum, home, postCount, likes, likeCount, cached, boot, bounds, marks>>

\* Mutant: the replies are kept, however many the copy has counted.
DeleteLikesForTopicOnly(th) ==
    /\ At(th, "unlike")
    /\ likes' = likes \ LikesOf(my[th].item)
    /\ Resume(th)
    /\ UNCHANGED <<alive, posts, likeCount, cached, boot, bounds, marks>>

\* The likes of the topic; its replies only if the copy has counted any.
DeleteLikesForTopic(th) ==
    LET t == my[th].item IN
    /\ At(th, "unlike")
    /\ likes' = likes \ LikesOf(t)
    /\ IF my[th].n > 1 THEN Keep(th, [my[th] EXCEPT !.at = "liked"]) ELSE Resume(th)
    /\ UNCHANGED <<alive, posts, likeCount, cached, boot, bounds, marks>>

\* handleLikedTopicReplies: the query, and the statement for each of its rows.
GetLikedReplies(th) ==
    /\ At(th, "liked")
    /\ Keep(th, [my[th] EXCEPT !.at = "sweep",
                               !.left = {r \in RepliesOf(my[th].item) : likeCount[r] > 0}])
    /\ UNCHANGED <<alive, posts, likes, likeCount, cached, boot, bounds, marks>>

DeleteLikesForReply(th, r) ==
    /\ At(th, "sweep") /\ r \in my[th].left
    /\ likes' = likes \ LikesOf(r)
    /\ Keep(th, [my[th] EXCEPT !.left = @ \ {r}])
    /\ UNCHANGED <<alive, posts, likeCount, cached, boot, bounds, marks>>

\* deleteReplies.  The reply cache is left as it is.
DeleteReplies(th) ==
    LET gone == RepliesOf(my[th].item) IN
    /\ At(th, "sweep") /\ my[th].left = {}
    /\ alive' = alive \ gone
    /\ Resume(th)
    /\ stray' = [replies |-> stray.replies \ gone,
                 likes |-> stray.likes \cup
                    {r \in gone : LikesOf(r) # {} /\ ~\E d \in Threads : Drops(d, r)}]
    /\ UNCHANGED <<posts, likes, likeCount, cached, boot, bounds, lost, kept, raced>>

-----------------------------------------------------------------------------
(* Replies: Rstore.Create, CreateActionReply, Get, Delete.                  *)

\* The insert, for a topic that may be gone meanwhile.
NewReply(th, r, t) ==
    /\ home[r] = None
    /\ alive' = alive \cup {r}
    /\ home' = [home EXCEPT ![r] = t]
    /\ Keep(th, Do("reply", r))
    /\ stray' = IF t \in alive \/ \E d \in Threads : Sweeps(d, t) THEN stray
                ELSE [stray EXCEPT !.replies = @ \cup {r}]
    /\ UNCHANGED <<forum, postCount, topicCount, likes, likeCount, cached, boot, restarts,
                   lost, kept, raced>>

CreateReply(th, r, t) ==
    /\ Begin(th)
    /\ forum[t] # None
    /\ NewReply(th, r, t)

\* addTopicAction after MoveTo (after locking and pinning, which change nothing
\* here, it is CreateReply to this module).
CreateActionReply(th, r) ==
    /\ At(th, "moved")
    /\ NewReply(th, r, my[th].item)
    /\ UNCHANGED ops

\* AddReply
AddReply(th) ==
    LET t == home[my[th].item] IN
    /\ At(th, "reply")
    /\ postCount' = IF t \in alive THEN [postCount EXCEPT ![t] = @ + 1] ELSE postCount
    /\ Keep(th, Idle)
    /\ UNCHANGED <<alive, forum, home, topicCount, likes, likeCount, cached, boot, bounds, marks>>

\* Get of a reply that is not in the cache: the query, and Set.
GetReply(th, r) ==
    /\ Begin(th)
    /\ r \in alive \ cached
    /\ Keep(th, Do("set", r))
    /\ UNCHANGED <<alive, posts, likes, likeCount, cached, boot, restarts, marks>>

\* Mutant: the reply is stored under the ID of its topic.
CacheSetByTopic(th) ==
    /\ At(th, "set")
    /\ cached' = cached \cup {home[my[th].item]}
    /\ Keep(th, Idle)
    /\ UNCHANGED <<alive, posts, likes, likeCount, boot, bounds, marks>>

CacheSet(th) ==
    LET r == my[th].item IN
    /\ At(th, "set")
    /\ cached' = cached \cup {r}
    /\ Keep(th, Idle)
    /\ kept' = IF r \in alive \/ \E d \in Threads : Forgets(d, r) THEN kept ELSE kept \cup {r}
    /\ UNCHANGED <<alive, posts, likes, likeCount, boot, bounds, lost, stray, raced>>

\* The row of reply r goes: nothing asks whether it was still there.
StrikeReply(r) ==
    /\ alive' = alive \ {r}
    /\ lost' = IF r \in alive THEN lost ELSE [lost EXCEPT !.posts = @ \cup {home[r]}]
    /\ UNCHANGED <<posts, likes, likeCount, cached, boot, restarts, stray, kept, raced>>

\* Reply.Delete
DeleteReply(th, r) ==
    /\ Begin(th)
    /\ home[r] # None
    /\ StrikeReply(r)
    /\ Keep(th, Do("uncount", r))

\* Mutant: the topic goes on counting the reply.
RemoveNothingFromTopic(th) ==
    /\ At(th, "uncount")
    /\ Keep(th, [my[th] EXCEPT !.at = "forget"])
    /\ UNCHANGED <<alive, posts, likes, likeCount, cached, boot, bounds, marks>>

RemoveRepliesFromTopic(th) ==
    LET t == home[my[th].item] IN
    /\ At(th, "uncount")
    /\ postCount' = IF t \in alive THEN [postCount EXCEPT ![t] = @ - 1] ELSE postCount
    /\ Keep(th, [my[th] EXCEPT !.at = "forget"])
    /\ UNCHANGED <<alive, forum, home, topicCount, likes, likeCount, cached, boot, bounds, marks>>

\* Mutant: only the topic is purged.
CacheRemoveTopic(th) ==
    /\ At(th, "forget")
    /\ Keep(th, [my[th] EXCEPT !.at = "drop"])
    /\ UNCHANGED <<alive, posts, likes, likeCount, cached, boot, bounds, marks>>

\* The purge comes after the topic's last reply has been set anew.
CacheRemove(th) ==
    LET r == my[th].item IN
    /\ At(th, "forget")
    /\ cached' = cached \ {r} /\ kept' = kept \ {r}
    /\ Keep(th, [my[th] EXCEPT !.at = "drop"])
    /\ UNCHANGED <<alive, posts, likes, likeCount, boot, bounds, lost, stray, raced>>

DropLikes(th) ==
    /\ At(th, "drop")
    /\ likes' = likes \ LikesOf(my[th].item)
    /\ Resume(th)
    /\ UNCHANGED <<alive, posts, likeCount, cached, boot, bounds, marks>>

-----------------------------------------------------------------------------
(* User.DeletePosts: the topics a user has created, then his replies to      *)
(* others.  Who has created what is not followed: it may be any of them.     *)

DeletePosts(th, S) ==
    /\ Begin(th)
    /\ S \subseteq Topics \cap alive
    /\ Keep(th, Posting({<<t, forum[t], postCount[t]>> : t \in S}, {}))
    /\ UNCHANGED <<alive, posts, likes, likeCount, cached, boot, restarts, marks>>

\* One row of the query: the topic goes at once, the count of its forum later.
DeletePost(th, row) ==
    /\ At(th, "posts") /\ row \in my[th].todo
    /\ Strike(th, row[1], row[2], row[3])
    /\ Keep(th, [my[th] EXCEPT !.at = "unlike", !.item = row[1], !.n = row[3],
                               !.todo = @ \ {row}, !.owed = @ \cup {<<row[1], row[2]>>}])

OwedTo(th, f) == {row \in my[th].owed : row[2] = f}

\* Mutant: however many topics the forum has lost, it counts one fewer.
RemoveTopicsOne(th, f) ==
    /\ At(th, "posts") /\ my[th].todo = {} /\ OwedTo(th, f) # {}
    /\ topicCount' = [topicCount EXCEPT ![f] = @ - 1]
    /\ Keep(th, [my[th] EXCEPT !.owed = @ \ OwedTo(th, f)])
    /\ UNCHANGED <<alive, forum, home, postCount, likes, likeCount, cached, boot, bounds, marks>>

\* Forums.RemoveTopics, for one of the updated forums.
RemoveTopics(th, f) ==
    /\ At(th, "posts") /\ my[th].todo = {} /\ OwedTo(th, f) # {}
    /\ topicCount' = [topicCount EXCEPT ![f] = @ - Cardinality(OwedTo(th, f))]
    /\ Keep(th, [my[th] EXCEPT !.owed = @ \ OwedTo(th, f)])
    /\ UNCHANGED <<alive, forum, home, postCount, likes, likeCount, cached, boot, bounds, marks>>

\* The query for his replies.
GetPostedReplies(th, S) ==
    /\ At(th, "posts") /\ my[th].todo = {} /\ my[th].owed = {}
    /\ S \subseteq Replies \cap alive
    /\ Keep(th, Walk(S))
    /\ UNCHANGED <<alive, posts, likes, likeCount, cached, boot, bounds, marks>>

DeletePostedReply(th, r) ==
    /\ At(th, "posted") /\ r \in my[th].left
    /\ StrikeReply(r)
    /\ Keep(th, [my[th] EXCEPT !.at = "uncount", !.item = r, !.left = @ \ {r}])
    /\ UNCHANGED ops

-----------------------------------------------------------------------------
(* Like and Unlike, of topics and of replies.                               *)

\* A row of the item there has been once.
Known(i) == IF i \in Topics THEN forum[i] # None ELSE home[i] # None

\* Mutant: whatever the query answers.
HasLikedOrNot(th, i, u) ==
    /\ Begin(th)
    /\ Known(i)
    /\ Keep(th, Local("like", i, None, ops + 1, u))
    /\ UNCHANGED <<alive, posts, likes, likeCount, cached, boot, restarts, marks>>

\* The query whether u likes i already; it answers no.
HasLiked(th, i, u) ==
    /\ Begin(th)
    /\ Known(i)
    /\ LikesBy(i, u) = {}
    /\ Keep(th, Local("like", i, None, ops + 1, u))
    /\ raced' = IF \E d \in Threads : At(d, "like") /\ my[d].item = i /\ my[d].user = u
                THEN raced \cup {<<i, u>>} ELSE raced
    /\ UNCHANGED <<alive, posts, likes, likeCount, cached, boot, restarts, lost, stray, kept>>

CreateLike(th) ==
    LET i == my[th].item IN
    /\ At(th, "like")
    /\ likes' = likes \cup {<<i, my[th].user, my[th].n>>}
    /\ Keep(th, Do("count", i))
    /\ stray' = IF i \in alive \/ \E d \in Threads : Drops(d, i) THEN stray
                ELSE [stray EXCEPT !.likes = @ \cup {i}]
    /\ UNCHANGED <<alive, posts, likeCount, cached, boot, bounds, lost, kept, raced>>

\* Unlike deletes the likes everybody has given the item, and counts one.
Unlike(th, i) ==
    /\ Begin(th)
    /\ Known(i)
    /\ likes' = likes \ LikesOf(i)
    /\ Keep(th, Do("discount", i))
    /\ lost' = IF Cardinality(LikesOf(i)) = 1 THEN lost
               ELSE [lost EXCEPT !.likes = @ \cup {i}]
    /\ UNCHANGED <<alive, posts, likeCount, cached, boot, restarts, stray, kept, raced>>

AddLikes(th) ==
    LET i == my[th].item IN
    /\ my[th].at \in {"count", "discount"}
    /\ likeCount' = IF i \notin alive THEN likeCount
                    ELSE [likeCount EXCEPT ![i] = IF At(th, "count") THEN @ + 1 ELSE @ - 1]
    /\ Keep(th, Do("purge", i))
    /\ UNCHANGED <<alive, posts, likes, cached, boot, bounds, marks>>

\* After the count of the user, whether that failed or not.
Purge(th) ==
    LET i == my[th].item IN
    /\ At(th, "purge")
    /\ cached' = cached \ {i} /\ kept' = kept \ {i}
    /\ Keep(th, Idle)
    /\ UNCHANGED <<alive, posts, likes, likeCount, boot, bounds, lost, stray, raced>>

-----------------------------------------------------------------------------
(* The server stops anywhere, and starts again; sched() has Recalc put right *)
(* what it can when the database asks for it.                               *)

Restart ==
    /\ restarts < MaxRestarts
    /\ restarts' = restarts + 1
    /\ Abandon(Threads)
    /\ my' = [th \in Threads |-> Idle]
    /\ cached' = {} /\ kept' = {}
    /\ boot' \in {Up, [at |-> "orphans", left |-> Replies \cap alive]}
    /\ UNCHANGED <<alive, posts, likes, likeCount, ops, raced>>

\* Recalc.Replies deletes a reply without a topic, as Reply.Delete does; a
\* statement after the first may fail, and sched returns.
DeleteOrphan(r) ==
    /\ boot.at = "orphans" /\ r \in boot.left
    /\ home[r] \notin alive
    /\ alive' = alive \ {r}
    /\ \/ /\ likes' = likes \ LikesOf(r)
          /\ boot' = [boot EXCEPT !.left = @ \ {r}]
          /\ stray' = [stray EXCEPT !.replies = @ \ {r}]
       \/ /\ boot' = Up
          /\ stray' = [replies |-> stray.replies \ {r},
                       likes |-> stray.likes \cup {i \in {r} : LikesOf(i) # {}}]
          /\ UNCHANGED likes
    /\ UNCHANGED <<posts, likeCount, cached, my, bounds, lost, kept, raced>>

\* Recalc.Forums, once no reply is left that has none.
RecalcForums ==
    /\ boot.at = "orphans"
    /\ \A r \in boot.left : home[r] \in alive
    /\ boot' = [at |-> "forums", left |-> Forums]
    /\ UNCHANGED <<alive, posts, likes, likeCount, cached, my, bounds, marks>>

ResetTopicCount(f) ==
    /\ boot.at = "forums" /\ f \in boot.left
    /\ topicCount' = [topicCount EXCEPT ![f] = Cardinality(TopicsOf(f))]
    /\ boot' = [boot EXCEPT !.left = @ \ {f}]
    /\ lost' = [lost EXCEPT !.topics = @ \ {f}]
    /\ UNCHANGED <<alive, forum, home, postCount, likes, likeCount, cached, my, bounds,
                   stray, kept, raced>>

\* The end of it, or a statement that fails: the server starts all the same.
Serve ==
    /\ boot # Up
    /\ boot' = Up
    /\ UNCHANGED <<alive, posts, likes, likeCount, cached, my, bounds, marks>>

-----------------------------------------------------------------------------
Next ==
    \/ \E th \in Threads :
         \/ GiveUp(th) \/ AddTopic(th) \/ DeleteTopic(th) \/ RemoveTopic(th)
         \/ DeleteLikesForTopic(th) \/ GetLikedReplies(th) \/ DeleteReplies(th)
         \/ AddReply(th) \/ CacheSet(th) \/ RemoveRepliesFromTopic(th) \/ CacheRemove(th)
         \/ DropLikes(th) \/ CreateLike(th) \/ AddLikes(th) \/ Purge(th)
         \/ \E t \in Topics : GetTopic(th, t)
         \/ \E t \in Topics, f \in Forums : InsertTopic(th, t, f)
         \/ \E f \in Forums : MoveTo(th, f) \/ RemoveTopics(th, f)
         \/ \E S \in SUBSET Topics : DeletePosts(th, S)
         \/ \E row \in my[th].todo : DeletePost(th, row)
         \/ \E S \in SUBSET Replies : GetPostedReplies(th, S)
         \/ \E r \in Replies :
              \/ DeleteLikesForReply(th, r) \/ CreateActionReply(th, r)
              \/ GetReply(th, r) \/ DeleteReply(th, r) \/ DeletePostedReply(th, r)
         \/ \E r \in Replies, t \in Topics : CreateReply(th, r, t)
         \/ \E i \in Items : Unlike(th, i) \/ \E u \in Users : HasLiked(th, i, u)
    \/ Restart \/ RecalcForums \/ Serve
    \/ \E r \in Replies : DeleteOrphan(r)
    \/ \E f \in Forums : ResetTopicCount(f)

Spec == Init /\ [][Next]_vars

-----------------------------------------------------------------------------
(* Properties.                                                              *)

Locals == [at : Labels, item : Items \cup {None}, forum : Forums \cup {None}, n : Int,
           user : Users \cup {None}, left : SUBSET Replies, walk : {"idle", "posts", "posted"},
           todo : SUBSET (Topics \X Forums \X Int), owed : SUBSET (Topics \X Forums)]

\* The variables have their types: rows are of IDs that were given out, and a
\* thread is at one of its labels with its locals.
TypeOK ==
    /\ alive \subseteq Items
    /\ forum \in [Topics -> Forums \cup {None}]
    /\ home \in [Replies -> Topics \cup {None}]
    /\ postCount \in [Topics -> Int] /\ topicCount \in [Forums -> Int]
    /\ likes \subseteq Items \X Users \X (0 .. MaxOps)
    /\ likeCount \in [Items -> Int]
    /\ cached \subseteq Replies /\ kept \subseteq Replies
    /\ my \in [Threads -> Locals]
    /\ boot \in [at : {"up", "orphans", "forums"}, left : SUBSET (Replies \cup Forums)]
    /\ ops \in 0 .. MaxOps /\ restarts \in 0 .. MaxRestarts
    /\ lost \in [posts : SUBSET (Topics \cup {None}), likes : SUBSET (Items \cup {None}),
                 topics : SUBSET (Forums \cup {None})]
    /\ stray \in [replies : SUBSET Replies, likes : SUBSET Items]
    /\ raced \subseteq Items \X Users

\* postCount is one more than the replies of the topic, those whose statement is
\* still to come left out or in, unless an operation has stopped between the two
\* statements or has deleted a reply that was deleted already.
PostsCounted ==
    \A t \in Topics \cap alive : t \notin lost.posts =>
      postCount[t] = 1 + Cardinality(RepliesOf(t))
        - Cardinality({th \in Threads : At(th, "reply") /\ home[my[th].item] = t})
        + Cardinality({th \in Threads : At(th, "uncount") /\ home[my[th].item] = t})

\* topicCount is the number of topics in the forum, those whose statement is still
\* to come left out or in, unless an operation has stopped between the two
\* statements, a topic was deleted twice or from a forum it had left, or one was
\* moved; a recalculation puts it right.
TopicsCounted ==
    \A f \in Forums : f \notin lost.topics =>
      topicCount[f] = Cardinality(TopicsOf(f))
        - Cardinality({th \in Threads : At(th, "enter") /\ my[th].forum = f})
        + Cardinality({th \in Threads : At(th, "leave") /\ my[th].forum = f})
        + Cardinality({x \in Threads \X Topics : <<x[2], f>> \in my[x[1]].owed})

\* likeCount is the number of likes, those whose statement is still to come left out
\* or in, unless an operation has stopped between the two statements or somebody
\* has unliked what he was not the only one to like; and nobody likes a thing
\* twice unless two requests of his have both found no like.
LikesCounted ==
    /\ \A i \in Items : Rooted(i) /\ i \notin lost.likes =>
         likeCount[i] = Cardinality(LikesOf(i))
           - Cardinality({th \in Threads : At(th, "count") /\ my[th].item = i})
           + Cardinality({th \in Threads : At(th, "discount") /\ my[th].item = i})
    /\ \A k, l \in likes : k # l /\ k[1] = l[1] /\ k[2] = l[2] => <<k[1], k[2]>> \in raced

\* A reply has a topic and a like has what is liked, unless somebody is about to
\* delete it, its deletion stopped half way, it was made for a topic or reply that
\* was gone, or its topic was deleted by a request that knew of no replies.
StraysHaveCause ==
    /\ \A r \in Replies \cap alive : home[r] \notin alive =>
         r \in stray.replies \/ \E th \in Threads : Sweeps(th, home[r])
    /\ \A l \in likes : l[1] \notin alive =>
         l[1] \in stray.likes \/ \E th \in Threads : Drops(th, l[1])

\* A reply that is cached although its row is gone is of a topic that is gone, so
\* that requests for it are refused, unless somebody is about to take it off the
\* cache, its deletion stopped before it did, or it was cached late.
CachedReplyHasTopic ==
    \A r \in cached \ alive :
      home[r] \notin alive \/ r \in kept \/ \E th \in Threads : Forgets(th, r)

=============================================================================
