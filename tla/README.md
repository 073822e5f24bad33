# Gosora in TLA+

TLA+ specifications of Gosora, the forum software in this repository: what its
caches, stores, tables, WebSocket hub and pages, topic lists, permissions, counters
and tick loop do, step by step, and what must hold of them. TLC checks the specifications on small
instances; TLAPS proves the theorems of the `*Proofs` modules for every value of
the constants. Line numbers below are those of the files in this repository.

Contents: [the system](#the-system), [inventory](#inventory),
[modules](#modules), [runs](#runs), [fairness](#fairness), [proofs](#proofs),
[disagreements](#where-the-code-disagrees-with-its-comments-and-tests),
[not modelled](#not-modelled), [plan](#plan).

## The system

Gosora is one Go process in front of a SQL database. HTTP handlers (`routes/`)
run in one goroutine each and share process-wide stores (`common/*_store.go`),
which answer from in-memory caches (`common/*_cache.go`) and fall back to the
database. Three groups of goroutines run beside them:

- the tick loop (`tickloop.go`, `common/tickloop.go`, `common/tasks.go`): twice a
  second, once a second, every quarter of an hour, every hour and every day it
  runs the tasks registered for that period, among them the rebuilding of the
  topic lists and the flushing of the view counters;
- the WebSocket goroutines (`common/ws_hub.go`, `ws_user.go`, `websockets.go`):
  one read loop per connection, one goroutine that pings everybody, one that
  pushes topic-list changes, and short-lived ones that push alerts;
- the resource goroutine of `main.go`, which evicts users from the user cache
  once a second, and the shutdown goroutine that the signal handler starts.

How the parts interact:

- *Stores and caches.* A store asks its cache, then the database, then puts the
  answer into the cache. An update writes the database and then takes the record
  off the cache. Nothing holds a lock over both.
- *Permissions.* A change of the permissions of a forum or group is a write, a
  reload of what it touched (forum rows or group) and, for forum rows, a
  recalculation of `CanSee` of every group. `CanSee` decides which topics the
  topic list shows.
- *Thaw.* Whatever changes what a group can see calls `TopicListThaw.Thaw`, and so
  do most changes of topics; deleting a reply (reply.go:143) and storing views
  (counters/topics_views.go:203) do not, and locking topics or writing an action
  reply do not when a statement fails half way. The tick loop rebuilds the topic
  lists while the counter that `Thaw` sets is above zero.
- *WebSockets.* Alerts reach a user through the sockets the hub has for him; a
  connected user is not evicted from the user cache.
- *Forums.* Changing the topics of a forum changes its row, then its entry in the
  forum store and the view built from all entries; the permissions of a forum
  are recalculated by way of the same store.
- *Pages.* A connection is on a page; the goroutines that push changes of the topic
  list and figures for the panel go by who watches a page.
- *Shutdown.* The signal handler runs the shutdown tasks on a goroutine of its
  own, among them a last tick of the counters, while the tick loop goes on.

## Inventory

State, operations, what is hard, and what makes the component correct. "Modelled"
and "partly" name the module; the others are in [Not modelled](#not-modelled).

### User cache (`common/user_cache.go`, `main.go`): modelled, `UserCache`

- State: a map from user ID to user behind a read-write lock; `length`, a counter
  adjusted with atomic adds; `capacity`. The resource goroutine keeps
  `couldNotDealloc`.
- Operations: `Get`, `Set`, `Add`, `Remove`, `BulkRemove`, `Flush`,
  `SetCapacity`, `DeallocOverflow`.
- Hard: `Set`, `Remove` and `BulkRemove` adjust `length` after they have released
  the lock, and `Set` compares `length` with the capacity; an eviction pass
  chooses users under the read lock and removes them later under the write lock.
- Correct when: `length` is off by the adjustments still owed and by nothing
  else; the map outgrows the capacity by a bounded number of entries; a cache that
  is too full is drained again as long as it holds somebody who may go.

### Topic and reply caches (`common/topic_cache.go`, `reply_cache.go`): modelled, `TopicCache`

- State: map and counter as above. `Set` and `RemoveMany` count under the lock,
  `Add` and `Remove` after it.
- Hard: `Remove` is in two steps while `Set` checks the counter; `Add` counts a
  topic again that is cached already.
- Correct when: the counter never understates the map, hence the capacity is
  respected.

### User and topic stores (`common/user_store.go`, `topic_store.go`, updates in `user.go`, `topic.go`, `reply.go`, `attachments.go`): partly, `RecordStore`

- State: the rows of the database; the records of the two caches; for every
  request, the answer it holds between its query and its `Set`.
- Operations: `Get`, `DirtyGet`, `Getn`, `GetByName`, `BulkGetMap`, `BulkGetByName`,
  `GetOffset`, `SearchOffset`, `Reload`, the updates with their `CacheRemove`,
  `LockMany`.
- Hard: query and `Set` are apart, write and removal are apart, `Set` of a cached
  user copies into the struct after the unlock, and updates of several
  statements return before they purge the cache when a later one fails.
- Correct when: a cached record that is older than its row is about to be purged
  or reloaded.
- Further hazards that no module reaches yet: `Like` changes the user who likes
  and purges the topic only (topic.go:332); a promotion moves many users and
  purges one (promotions.go:113); two registrations of a name both find it free
  (user_store.go:436); `DecreasePostStats` computes the level from the score minus
  a negative number (user.go:676).

### Chunk counters (`common/counters/requests.go`, `posts.go`, `topics.go`): modelled, `ChunkCounter`

- State: two buckets, the index of the current one, the chunks in the database.
- Operations: `Bump`; `Tick`, run by the tick loop and once more at shutdown.
- Hard: a bump reads the index and adds later; the tick folds, clears, switches,
  takes and inserts in steps of their own; two ticks may overlap at shutdown; the
  insert may fail after the count has been taken off the bucket.
- Correct when: no bump is counted twice; every bump is in a bucket, in flight,
  in the database, or lost for a cause that is named; none stays behind.

### WebSocket hub (`common/ws_hub.go`, `ws_user.go`, `websockets.go`): partly, `WsHub`

- State: `onlineUsers` of two shards by parity of the user ID, each behind a lock;
  each `WSUser`'s list of sockets behind a lock of its own; guests.
- Operations: `AddConn`, `RemoveConn`, `removeUser`, `AddSocket`, `RemoveSocket`,
  the ping round, `pushAlert`, `WriteAll`.
- Hard: the hub is unlocked before the socket is added; `removeUser` deletes by
  user ID whatever is there; the sweep that removes sockets copies from the end;
  the list is cut after the unlock; two locks are taken in both orders; senders
  walk the list without the lock.
- Correct when: a live open connection is reachable from the hub; a user whose
  connections have ended is not online; connections that begin to leave get away.
- A hazard without a property: `Ping` leaves a socket in the list after it has set
  its conn to nil, and the next sender's write to it ends the process
  (ws_user.go:51 and 65); the first socket that fails keeps an alert from the
  others (ws_user.go:67).

### Topic list and thaw (`common/topic_list.go`, `thaw.go`): partly, `TopicList`

- State: the lists published for groups (one map per parity) and for forums; the
  thaw counter.
- Operations: `Thaw`, the countdown once a second, `Tick` twice a second.
- Hard: the countdown reads and stores in two steps; a rebuild may fail while the
  countdown goes on; the list of a group that sees one forum comes from the
  forum lists of the tick before; groups share lists by a key made of bytes;
  some changes of topics are never announced.
- Correct when: once the counter is at zero every published list shows all that a
  `Thaw` has announced, each group's list is of the forums it sees or of forums
  that look the same byte for byte, and the countdown ends.

### Forum permissions, groups and what they see (`common/forum_perms_store.go`, `forum_perms.go`, `forum.go`, `group.go`, `group_store.go`): partly, `Visibility`

- State: rows of `forums_permissions`, permissions of the groups, the cached rows
  per forum, the cached groups with their `CanSee`.
- Operations: `SetPerms`, `PermmapToQuery`, `UpdatePerms`, `ChangeRank`, `Update`,
  the reloads and the recalculation they end in.
- Hard: every one of these is read-then-store without a lock over both, a
  group is copied before two queries and stored after them, and a reload that is
  cut short takes the rows that came for all there are (forum_perms_store.go:102).
- Correct when: with nobody changing permissions, each group sees the forums the
  database says it does.

### WebSocket pages and live topic list (`websockets.go`, `ws_hub.go`, `widget_wol_context.go`): partly, `WsPages`

- State: the `Page` of each socket and `currentPage` of each read loop; the
  watchers of the topic list and of each topic; the watchers of the panel and the
  goroutine that feeds them.
- Operations: entering and leaving a page, the tick of the topic list, the ticker
  of the panel, the end of a connection.
- Hard: a user is a watcher before his socket is on the page (:144); leaving asks
  for his sockets before the one that leaves has been taken off (:253, :277); the
  panel can be left and entered again while its ticker sleeps (:198); a
  connection that fails stays among the watchers (:73); pages are compared as
  strings, while the watchers of a topic are kept by its ID (:253).
- Correct when: who is on a page is among its watchers; who is not leaves those of
  the topic list and of the panel in the end (those of a topic he may never leave,
  see :253 above); the panel is fed while somebody looks at it.

### Forum store (`common/forum_store.go`, `forum.go`): modelled, `ForumStore`

- State: the table `forums`; a `sync.Map` of all forums; `forumView`, the list of
  those that are shown; `forumCreateMutex`.
- Operations: `LoadForums`, `Get`, `BypassGet`, `Reload`, `Create`, `Delete`,
  `CacheDelete`, `AddTopic`, `RemoveTopic`, `RefreshTopic`, `UpdateOrder`, `Update`.
- Hard: a forum is read, then stored, while it may be deleted (:246); a rebuild
  ranges over the map entry by entry and stores the view at the end, so an older
  one may come last (:159); `Delete` purges although the statement failed (:319);
  `UpdateOrder` stops half way (:424).
- Correct when: the view is that of the map and the map that of the table, unless
  somebody is about to put it right or one of these has happened.

### Topics, replies and likes in the database (`topic.go`, `reply.go`, `reply_store.go`, `likes.go`, `user.go`, `recalc.go`): partly, `Content`

- State: the tables `topics`, `replies`, `likes` and `forums`, of which `postCount`,
  `likeCount` and `topicCount` repeat what other rows say; the reply cache.
- Operations: `Create`, `MoveTo`, `Delete`, `Like` and `Unlike` of topics and replies,
  action replies, `User.DeletePosts`, and the recalculation at the start of the server.
- Hard: no operation uses a transaction: it stops at the first statement that
  fails, and at a restart; two likes of one user pass the check at once
  (topic.go:318); `Unlike` deletes everybody's likes and takes off one (:338); a
  reply may be deleted twice (reply.go:155); a moved topic is counted where it was
  (topic.go:284); a deleted topic leaves its replies in the cache (:439);
  `DeletePosts` lowers the counts of forums after the last topic (user.go:427).
- Correct when: the counts agree with the rows up to the statements that are still
  to come, nothing is left without what it belongs to, and the cache holds no
  reply that can be reached and has no row, but for causes that are named.

### Topic and forum view counters (`counters/topics_views.go`, `forums.go`): partly, `ViewCounter`

- State: a bucket for each topic or forum that was viewed since the last tick.
- Operations: `Bump`; `Tick`, run by the tick loop and once more at shutdown.
- Hard: the tick reads a bucket under its lock and deletes it later under that of
  the map (topics_views.go:119); of two first views one overwrites the other's
  bucket (:240); the loop ends at the first insert that fails (:128).
- Correct when: a view is stored once or lost for good, and none stays behind.

### Tick loop and tick watch (`tickloop.go`, `common/tickloop.go`, `common/tasks.go`, `main.go`): partly, `TickLoop`

- State: `IsDBDown`; for each tick its `TickWatch` with `DBCheck` and `EndChan`, and
  the goroutine that watches it.
- Operations: the start, the ping of the database, the tasks and the end of a tick;
  the watcher's looks every five seconds and its deadline.
- Hard: past the deadline the watcher closes the channel the tick sends on (:327);
  watcher and tick set `IsDBDown` in either order (:320).
- Correct when: every tick ends or the process does, and the database counts as
  down only for a reason.
- Hazards no property covers: the send on `OutEndChan`, which nothing reads, leaves
  a goroutine behind for each tick (:342); a task that always fails keeps those
  after it from running (tasks.go:43); goroutines that wake the thumbnailer pile
  up (root tickloop.go:132); a failed rotation of the session key leaves two equal
  keys (root tickloop.go:176).

### The other components

| Component | State and operations | What is hard | Correct when |
|---|---|---|---|
| Other bucket counters (`counters/routes.go`, `agents.go`, `systems.go`, `langs.go`, `referrers.go`; the week in `topics_views.go`) | a bucket per route, agent, ...; `Bump`, `Tick`, `WeekShift` | the week moves on although the reset failed (topics_views.go:178); a count is swapped out before an insert that may fail (routes.go:61) | a view is counted once or lost for a cause that can be named |
| Performance and memory counters | samples for the panel | lost and overwritten by design | |
| Scheduled groups (`common/tasks.go`) | `users_groups_scheduler` | a new schedule is deleted with the expired one (:173) | a user returns to his group once and only when it is due |
| Server synchronisation | reloads after changes by another server | runs only with several servers, `lastSync` never moves | |
| Hooks and plugins (`common/extend.go`) | lists of hooks by name, the table requests use | hooks are removed by an index that shifts (:552); two tables are read without the mutex (:622) | a hook runs exactly while its plugin is active |
| Alerts, activity stream, subscriptions | activities and their matches | the clean-up falls between activity and match (alerts.go:319) | a match points to an activity |
| Polls | polls, options, votes | a vote without its counts (poll.go:35); a poll without a parent (poll_store.go:231) | counts agree with votes |
| Reports | topics in the report forum | two reports of one item (report_store.go:39) | one report an item |
| Attachments | rows, counts, files | a file is removed whose rows have just grown (attachments.go:319); the smaller count is written last (:260) | a row has its file |
| Settings, word filters, themes, menus, widgets, pages | small tables read into memory | an older reload is stored last (word_filters.go:77); the map in use is changed before the database (settings.go:166); a map is written while it is read (menu_store.go:69) | memory agrees with the table |
| Rate limiter | counts per name | durations in the wrong unit, counts never stored (ratelimit.go:39) | the limit holds |
| Sessions, passwords, two-factor codes, email verification | single rows | a used code is written back (mfa_store.go:47) | a code works once |
| Conversations, profile replies, relations, promotions | rows without a cache | a conversation deleted before its posts (conversations.go:316) | no orphans |
| Thumbnailer | a queue of files | a condition no extension meets (thumbnailer.go:55) | the queue drains |
| Forum actions, recalculation, logs; parser, templates, phrases; routes; query builder, installer, patcher; plugins | passes over tables, text, tools | | |

## Modules

| Module | Models | Extended by |
|---|---|---|
| `UserCache` | `MemoryUserCache` and the resource goroutine | `BackgroundProofs`, `MCUserCache` |
| `TopicCache` | `MemoryTopicCache`; `MemoryReplyCache` is the same without `RemoveMany` | `CountProofs`, `MCTopicCache` |
| `RecordStore` | `DefaultUserStore` and `DefaultTopicStore` between database and cache, with the updates | `RecordStoreProofs`, `MCRecordStore` |
| `Ledger` | what counters promise: an event is stored once or lost for good | instantiated by `ChunkCounter`, `ViewCounter` |
| `ChunkCounter` | the request, post and topic counters | `CountProofs`, `MCChunkCounter` |
| `ViewCounter` | the view counters with a bucket for each topic or forum | `TickLoop` |
| `TickLoop` | the ticks and their watchers, with `ViewCounter` as the task | `BackgroundProofs`, `MCTickLoop` |
| `WsHub` | one shard of the hub, the sockets of its users, the read loops, the ping goroutine, the senders | `WsPages`, `MCWsHub` |
| `WsPages` | the pages of the connections of `WsHub`, their watchers, the live topic list and the panel | `WsPagesProofs`, `MCWsPages` |
| `TopicList` | `DefaultTopicList.Tick` and `DefaultThaw` | `TopicListProofs`, `MCTopicList` |
| `Visibility` | `MemoryForumPermsStore`, `MemoryGroupStore` and the changes of permissions | `VisibilityProofs`, `MCVisibility` |
| `ForumStore` | `MemoryForumStore` between table, map and view | `ForumStoreProofs`, `MCForumStore` |
| `Content` | the tables of topics, replies and likes, statement by statement, and the reply cache | `ContentProofs`, `MCContent` |

The `MC` modules only give symmetry sets and constants that a `.cfg` cannot write.
Conventions common to all modules:

- A step is what a goroutine does while it holds a lock, one statement on the
  database, or one access to shared memory, whichever the code makes atomic. What
  lies between two steps is open to every other goroutine.
- An operation that changes nothing (a read that hits the cache, an early return)
  is not a step.
- Variables commented *history* are read by no guard. They record causes ("has a
  bump hit a bucket while a tick was emptying it?") so that a property can say
  exactly which sequences lead to which loss, and nothing else does.
- Definitions marked *Mutant* are plausible mistakes (a dropped guard, a missing
  reset). They are not part of any specification; each property fails when one of
  them takes the place of the definition it imitates.
- Bounds are constants named `Max...`; they limit how often the environment acts
  (writes, bumps, changes). One of them limits the code as well: `MaxTickers` of
  `WsPages` keeps a connection from entering the panel when the code would start
  one more ticker beside those that are still asleep.

### UserCache

`items`, `length` and `capacity` are those of the cache. `pc[t]` is what request
goroutine `t` still owes to `length`: `"inc"` after `SetInsert`, `"dec"` after
`RemoveDelete`; `Settle` is the atomic add. `Add` and `Flush` recompute `length`
under the lock. The data of a user is reduced to `class`, how evictable
`DeallocOverflow` finds him, which `Activity` changes at any time. The pass is
`Tick`, `PickCold`, `PickWarm`, `BulkRemove`, `BulkAdjust`: the two picks read the
map and the classes at once under the read lock, `Trimmed` is the loop over the
unused slots as it is written, with the slots it fails to trim. With more than one
slot that loop leaves a slot, so the pass never reports that it found nobody and
`PickWarm` is never taken: `NoSecondPass` proves it, and with it that the second pass
of the code, whose list has ten slots (user_cache.go:45), is never run. `PickWarm` is in
the module since it is in the code. A `Set` of a cached user changes neither map nor
counter and is left to `RecordStore`.

### TopicCache

The same state without eviction. `Set` and `RemoveMany` are one step, `Add` and
`Remove` two. `added` records whether `Add`, which no store calls, has run.

### RecordStore

A record is its version, the number of writes that have changed its row; `cached`
holds versions. A request goes through `pc`: query, answer, `Set`; or write,
purge. Users and topics are in one module since the stores differ in three
places only: `SetPointer` replaces a cached topic under the lock, `SetFound` and
`Overwrite` are the two halves of copying into a cached user, and `LockMany` is
for topics. `WriteGivesUp` is an update of several statements that returns before
its `CacheRemove` (`CreateActionReply`, `Reply.Delete`). `BulkGetMap` asks for what is
not cached, `BulkQuery` for whatever the names or the page say, cached or not. `Evict` stands for the
eviction pass, `Remove` and `Flush` of others. Columns that some writer changes
without ever purging the cache are not part of the version; the header of the
module names them.

### ChunkCounter

One action per access to memory in `Tick`, in the order of posts.go:33-50, for
each of two goroutines, `"loop"` and `"shutdown"`. `old`, `next` and `carry` are
their locals. `BumpAim` reads the index and `BumpAdd` adds. `TickInsertFails` is
an insert that returns an error. `failed` and `erased` sum up what is lost and how.

`Ledger` is what the counter promises: events are counted, stored or lost, and what
is stored or lost never exceeds what was counted. `BumpsAreAccounted` says that
`ChunkCounter` implements it with `failed + erased` as what is lost. It promises
nothing once two ticks have overlapped (`void`), since both may then store the
same bumps.

### ViewCounter and TickLoop

A bucket is named after the view that created it, so that a bucket which is read
while another has taken its place is a different one. `BumpFind` looks it up,
`BumpAdd` or `BumpStore` count; `TickVisit`, `TickRead`, `TickDelete` and `TickInsert`
are one round of the loop over the map, which visits what was in the map at its
start (`due`) and may visit what has come since, as a Go `range` does.
`ViewsAreAccounted` says that the counter implements `Ledger`; lost is what is
neither in the database nor on its way there. What is on its way (`Pending`) is the
sum over the buckets in the map, but for one that a tick is about to take out of it,
and what the two ticks have in hand.

`TickLoop` puts the tick under its watch: `Start`, `Ping` (`StartTick`), `Set`, the
task, `Stop`; `Look` and `Mark` are the two halves of what the watcher does when the
database has not been asked in five seconds, and `Deadline` closes `EndChan` an
hour on. `Stop` is the send on that channel, which needs the watcher or a closed
channel; on a closed one it panics, and the process ends (`dead`).

### WsHub

A `WSUser` is named after the connection whose `AddConn` created it, a socket
after its connection. `AddConnNew` or `AddConnFound` and `AddSocket` connect;
`ReadError`, `RemoveSocket`, `CheckEmpty`, `RemoveUser` disconnect; `PingRound`,
`PingSweep`, `PingTruncate`, `PingWrite`, `PingNil`, `PingUserDone`, `PingDone` are
a round of pings; `PushAlert`, `SendWrite`, `SendDone` push an alert. `Sweep` is the
removal loop of ws_user.go as written. The process ends (`Up` is false) where
the code ends it: on a nil conn in a sender, and on a slice out of bounds in a ping.

### WsPages

Extends `WsHub`, whose steps go on as they are while those of the pages interleave
with them: a read loop that is between two steps of a page (`at`) does not read,
so `ReadError` waits for it. `Leave`, `Reset`, `Refuse`, `Watch`, `WatchPanel` and
`SetPage` are what a read loop does from one page to the next, in the order of
`wsLeavePage` and `wsPageResponses`. A page is the string the client has sent, by
which sockets are compared; `WatchKey` is what its watchers are kept by, for a
topic the ID that `ParseSEOURL` takes from it, so that two slugs of a topic are
two pages with one set of watchers. `TickCopy`, `TickWrite` and `TickForget` are the
tick of the topic list: it copies the watchers, walks their sockets and takes off
those it has found without one on the page. `TickerSkip`, `TickerWrite` and
`TickerEnds` are the ends of a round of `adminStatsTicker`: no figure has changed
and nothing is written, the figures are written to all who watch, or nobody does.
The first write to a connection that is gone fails unnoticed (`failed`) and the
next one takes it off. `cut` records who was taken off the watchers while a socket
of his was on a page of theirs or entering one, as when a page of a topic is
refused, or left, that is open by another slug.

`OpenPageIsWatched` speaks of every open socket where no ping runs, and of those in
their user's list where one does: a ping that fails closes the conn (ws_user.go:49)
and the next one sweeps the socket out of the list (ws_user.go:32), while the read loop
may have yet to return; the tick may then find that the user has no socket on the page.

### TopicList

`version` stands for everything in the tables that a list shows. A list is what
it was made for (`sees`) and the version it shows. `Edit` and `SetCanSee` are
changes by a writer. After `SetCanSee` he reaches `Thaw`; after `Edit` he does or, by
`Unannounced`, does not: `Reply.Delete` never thaws, and `LockMany` and
`CreateActionReply` return before it when a statement fails. `promised` is the
version at the last `Thaw`, up to which the lists are to be current; a change that
nobody announces may stay unseen until the next `Thaw`. The tick loop is one
goroutine: `Collect` reads what the groups see, `List` makes the list of a key,
`PublishOdd` and `PublishEven` store the maps, `ListForum` and `SetForumList` the
lists of forums; `SecRead` and `SecStore` are the two halves of the countdown.
`Key` cuts every forum ID to one of `KeySize` values, 256 in the code.

### Visibility

Only `ViewTopic` is followed, the permission `CanSee` is made of. A thread is on its
way through one change: `SetPerms` or `PermmapToQuery` write rows, `Query` and
`Store` reload them (`QueryCutShort` when the connection fails before all rows have
come, which the code does not notice), `ReadGroups`, `ReadMap` and `SetCanSee` recalculate;
`UpdatePerms` and `ChangeRank` write a group, `ReloadGet`, `ReloadScan` and
`CacheSet` reload it. `GiveUp` and `ReloadFails` are the errors in between. The
`lost...` and `forgotten` histories are marked by the step that stores something
out of date and cleared by the step that stores something current.

### ForumStore

A forum is its stage (never created, shown, hidden, blanked by `Delete`) and a
version. `Create`, `Update`, `Touch` (`AddTopic` and the like), `Delete` and
`OrderOne` are the statements, `Fetch` and `Put` the reload that follows,
`Rebuild`, `Range` and `Publish` the rebuilding of the view, which reads the map
entry by entry. `LoadQuery`, `LoadRow` and `LoadFails` are `LoadForums`. `my` holds
where a thread is and what it has read. `overtaken`, `cutShort`, `late` and `behind`
record which entries were left wrong by whom.

### Content

`alive` is the set of topics and replies that have a row, `forum` and `home` where
they belong; IDs are given out once. Each operation is a chain of statements, one
action each, named after the statement; `GiveUp` is a statement that fails, at
which the operation returns, and `Restart` ends all of them. `boot` is the
recalculation after a restart. A request deletes, moves or likes the copy of a
topic it has read earlier (`held`), so what it has in hand may be gone. A like is
told from another of the same user by the operation that inserted it. `DeletePosts`
walks over any of the topics (`todo`) and then any of the replies (`left`), since who
has created what is not followed; with each it goes through the statements of
`Topic.Delete` and `Reply.Delete`, at the end of which `Resume` takes it back to its
walk. `owed` are the topics whose forums it has not lowered yet. `Abandon`
records in `lost` and `stray` what an operation that stops leaves undone.

## Runs

Each run is a `.cfg` of the same name. Passing runs:

| Run | Instance | States | What it shows |
|---|---|---|---|
| `MCUserCache` | 2 threads, 3 users, capacities 0 and 1, 1 eviction slot and 2 in the second pass, 1 `Add` or `Flush` while an adjustment is owed | 592k | `LengthAccounts`, `OverrunBounded`, `OverflowDrains` |
| `MCTopicCache` | 3 threads, 4 topics, capacity 3, 1 `Flush` while an adjustment is owed | 413 | `LengthAccounts`, `CapacityRespected` |
| `MCRecordStore` | 2 threads, 1 user, 2 topics, room for one record in a cache, 2 writes of a row | 466k | `StaleHasCause` |
| `MCChunkCounter` | 2 requests, 2 bumps, both tickers | 429k | `TypeOK`, `BumpsConserved`, `LossIsLate`, the refinement `BumpsAreAccounted`, `BumpsSettle` |
| `MCTickLoop` | 2 views of one topic and 1 of another, both ticks, that of the loop may take an hour | 301k | `LoopTypeOK`, `DownHasCause`, the refinement `ViewsAreAccounted`, `TicksEnd`, `ViewsSettle` |
| `MCWsHub` | 3 connections of one user, each of which may break, pings and alerts | 755k | `TypeOK`, `OpenIsReachable`, `NoGhostUsers` |
| `MCWsPages` | 2 connections of one user, each of which may break, no pings, at most 2 panel tickers; both go to one topic, by a slug each, one to the panel besides and the other to the topic list | 235k | `PagesTypeOK`, `OpenPageIsWatched`, `PanelIsServed`, `ClosingEnds`, `GoneLeavesPanel`, `ListForgets` |
| `MCTopicList` | 1 writer, 2 groups, 2 forums, 2 changes, announced or not, bytes of 2 values | 1.1M | `ColdIsCurrent`, `ColdForumsCurrent`, `SharersSeeAlike`, `GoesCold` |
| `MCVisibility` | 2 threads, 1 group, 2 forums, 3 writes | 1.2M | `RowsHaveCause`, `PermsHaveCause`, `SeenHasCause` |
| `MCForumStore` | 2 threads, 2 forums, 2 writes | 2.4M | `ViewHasCause`, `MapHasCause` |
| `MCContent` | 2 threads, 2 forums, 2 topics, 2 replies, 2 users, 3 operations, 1 restart | 569k | `TypeOK`, `PostsCounted`, `TopicsCounted`, `LikesCounted`, `StraysHaveCause`, `CachedReplyHasTopic` |

Type invariants that no run checks are theorems (`TypeCorrect`).
One run finds a violation; it is described
[below](#where-the-code-disagrees-with-its-comments-and-tests).

Why these bounds are enough for the interesting cases to happen:

- `MCUserCache`: with two threads one can owe an adjustment while the other passes
  the check in `Set`, so the map outgrows the capacity by exactly the one entry
  `OverrunBounded` allows. Capacity 0 makes every insert refused once nothing is
  owed, capacity 1 lets one through; `SetCapacity` moves between the two. A list
  of one slot is the only length whose empty result is reported as empty, so that
  every action of the module runs. The passes of the code, with ten slots, are the
  first kind only (`NoSecondPass`); the theorems hold for lists of any length.
- `MCTopicCache`: three threads can have two deletions in flight while the third
  inserts; `Add` makes the counter too high for good.
- `MCRecordStore`: two requests are one reader and one writer on the same record,
  the least that makes a stale record; two topics are the least for `LockMany`
  and `BulkGetMap` to stop in the middle; room for one record makes a full cache
  refuse the other; two writes of a row let an answer be two versions behind.
- `MCChunkCounter`: two bumps can be in both buckets at once, and hit a bucket
  before and after it is emptied; every interleaving with both ticks is there. A
  tick is repeated without bound.
- `MCWsHub`: three connections are the least for a list whose sweep meets two
  doomed sockets and a live one, and for a user who leaves while another
  connection has found his `WSUser` and a third makes a new one.
- `MCWsPages`: two connections of one user are the least for him to stay among the
  watchers of a topic with one when the other leaves them, and each page can be left
  and entered again. The two open one topic by different slugs, which is where
  pages and watchers are told apart differently; that they are on one and the same
  page is not in the instance. One goes to the panel besides, so that its ticker may
  sleep through a visit; the other opens and leaves the topic list, against the tick.
  `MaxTickers` of 2 lets a ticker of an earlier visit meet the next one. Without
  pings every connection that leaves gets away (with them it may not, see
  `WsHubDead`), which is what `ClosingEnds` and the liveness of the pages rest on.
- `MCTickLoop`: two views of one topic find its bucket, miss it, and overwrite it in
  every order; the view of another topic is in the same map, so that a tick visits
  one and fails before the other. A tick of the loop is repeated without bound.
  The deadline is left to the tick of the loop; that of the shutdown comes once.
- `MCTopicList`: two groups can share a list or not, one can see a single forum;
  the second change falls anywhere into the countdown of the first, and either may
  go unannounced. Groups 1 and 2 are of both parities. Forums 1 and 3 are the same
  in a byte of two values, so that a group that sees one shares a list with a group
  that sees the other. The countdown and the ticks are unbounded.
- `MCVisibility`: two threads overtake each other at every statement; the third
  write comes from a thread that has finished its first change, so that a loss is
  put right again. One group is enough for a thread to be overtaken within it;
  two forums make a recalculation that reads the rows of one before and of the
  other after a change.
- `MCForumStore`: two threads overtake each other at every statement and every
  entry of the map, and two forums are the least for a rebuild to read one before
  and one after a change. One of them is the report forum, which is always there;
  the other may not exist yet, or be deleted.
- `MCContent`: two operations overlap at every statement and a third follows, or
  begins when one of them is over, before or after a restart. It starts with one
  topic and one reply, each liked by one user, so that IDs are left to give out and
  the other user may still like; what is made later has no likes at first. Two
  forums are the least for moving, and two topics for `DeletePosts` to owe one forum
  more than one.

`CHECK_DEADLOCK FALSE` is set where the system really may stop: a connection ends
for good, and once all have ended, or the process is down, nothing is left to do
(`WsHub`, `WsPages`); a send on a closed channel ends the process (`TickLoop`);
`Content` has made all the operations of its bound. That a leaving connection and a
ping round wait for each other for ever, or that a tick waits for its watcher, is
a property (`DeadSocketsHandled`, `ClosingEnds`, `TicksEnd`), not left to the
deadlock check.

## Fairness

Safety is checked without fairness. The liveness properties assume the following.

- `ChunkCounter!Fairness` (`BumpsSettle`): the tick loop keeps ticking and ends a
  tick it has begun, since it is a loop over tickers (tickloop.go); a tick of the
  shutdown that has begun ends; a request that has read the index goes on to add,
  since nothing blocks it. Nothing makes a request bump or a server stop.
- `UserCache!CacheFairSpec` (`OverflowDrains`): the resource goroutine goes on, since its
  ticker fires every second and it does nothing else. Nothing makes a request come,
  and nothing keeps users from becoming active, or requests from filling the cache
  again.
- `TopicList!Fairness` (`GoesCold`): a writer that has changed something reaches
  `Thaw` or returns without it, since the calls follow each other; a tick that has begun ends; the
  countdown is taken again and again when its ticker is ready again and again
  (strong fairness), since Go's `select` chooses at random among ready channels.
  Nothing makes a writer write.
- `TickLoop!Fairness` (`TicksEnd`, `ViewsSettle`): the goroutines of both ticks and a
  watcher that has made up its mind go on, and so does a request that has begun to
  bump. Strong fairness says that the database answers again and again and that
  the insert and the tasks before it do not fail each time. Nothing makes a view
  come or a server stop, and nothing keeps the deadline from passing.
- `WsPages!PagesFairness` (`ClosingEnds`, `GoneLeavesPanel`, `ListForgets`): the read
  loop of a connection, the ticker of the panel and the tick of the topic list go
  on. The ticker skips a round in which no figure has changed (websockets.go:345),
  so it writes again and again only if some figure of the panel changes again and
  again: that is assumed (weak fairness of `TickerWrite`), and without it a
  connection that is gone stays on the panel. The tick leaves out a user whose permissions it fails to load, and is taken
  to succeed for each now and then (strong fairness of `TickWrite`). Nothing makes a
  connection ask for a page or leave one.
- `WsHub!Fairness` (`DeadSocketsHandled`): a goroutine that adds or
  removes its socket goes on when the lock it waits for is free, and so does the
  ping goroutine. The read of a socket whose conn has been closed returns an
  error. Nothing makes a peer vanish or a read of an open conn return. Weak
  fairness is enough where a lock, once free, stays free until it is taken by
  somebody who waits; where it does not, as between pings and leaving
  connections, the run is the one in which the property fails.

## Proofs

The `*Proofs` modules hold theorems for every value of the constants that meets
the named assumptions of the module proved about: finite sets of threads, users,
topics or forums where something is counted, natural bounds, `None` and `NoUser`
outside the sets they are added to. They assume no more about the instance: any
number of goroutines, any capacity, any number of writes, groups and forums.

| Theorem | Says, in every reachable state |
|---|---|
| `BackgroundProofs!TypeCorrect` | `TypeOK` of `UserCache` |
| `BackgroundProofs!LengthAccountsAlways` | `length` is off by exactly what goroutines owe |
| `BackgroundProofs!OverrunBoundedAlways` | the map overruns the capacity by less than the number of request threads |
| `BackgroundProofs!NoSecondPass` | with a list of two slots or more the resource goroutine never runs its second, more aggressive pass |
| `CountProofs!TopicTypeCorrect`, `TopicLengthAccounts`, `TopicCapacityRespected` | the counter of the topic cache never understates the map, so the capacity holds |
| `RecordStoreProofs!TypeCorrect`, `StaleHasCauseAlways` | a stale record is about to be purged or reloaded, was cached late, or left by a writer that gave up |
| `CountProofs!ChunkTypes`, `ChunkConserves` | no bump is counted twice or lost without a trace |
| `CountProofs!ChunkNeverOvercounts`, `ChunkLosesLate` | without overlapping ticks nothing is overcounted, and only late bumps are lost |
| `CountProofs!ChunkImplementsLedger` | `ChunkCounter!Spec => BumpsAreAccounted`: the two-bucket counter implements the ledger |
| `BackgroundProofs!TickLoopTypes`, `DownAlwaysHasCause` | types; the database counts as down only after a failed ping or a watcher that found no answer |
| `BackgroundProofs!ViewsImplementLedger` | `LoopSpec => ViewsAreAccounted`: the view counter under the tick loop implements the ledger |
| `WsPagesProofs!HubTypesHold`, `OpenStaysReachable`, `NobodyHaunts` | an open connection with a live peer is reachable from the hub, and nobody stays in it whose connections have ended, but for `mishap` |
| `WsPagesProofs!PagesImplementHub` | `PagesSpec => Spec`: the pages leave the hub what it was, so the theorems above hold under them |
| `WsPagesProofs!PagesTypesHold`, `PagesAreWatched`, `PanelStaysServed` | whatever pages share their watchers, an open page is watched but for `cut`, and the panel has a ticker as long as anybody is on it |
| `TopicListProofs!TypeCorrect`, `ColdIsCurrentAlways`, `ColdForumsCurrentAlways` | a cold list shows all that a `Thaw` has announced, unless one was lost or a second passed without a rebuild |
| `TopicListProofs!SharersSeeAlikeAlways` | whatever the forum IDs, a cold list of a group is of its own forums, or of those of another group that are the same byte for byte |
| `VisibilityProofs!TypeCorrect`, `RowsHaveCauseAlways`, `PermsHaveCauseAlways`, `SeenHasCauseAlways`, `QuietIsRightAlways` | what a group sees is wrong only for the causes named; with nobody changing permissions it is right but for those that are not put right by themselves |
| `ForumStoreProofs!TypeCorrect`, `ViewHasCauseAlways`, `MapHasCauseAlways`, `QuietListsForumsAlways` | view and map of the forums are wrong only for the causes named; with nobody in the store the view lists the active forums of the table but for four of them |
| `ContentProofs!TypeCorrect`, `StraysHaveCauseAlways`, `CachedReplyHasTopicAlways` | replies and likes without what they belong to, and cached replies without a row, have one of the causes named |
| `ContentProofs!PostsCountedAlways`, `TopicsCountedAlways`, `LikesCountedAlways` | the three counts kept beside the rows are right up to the statements still to come, but for the causes named |

The arguments:

- *User cache.* `IInv` is `TypeOK`, `LengthAccounts` and `OverrunBounded` with
  `OwedWhileAdjusting`: `BulkRemove` sets `evOwed` and does not add to it, so nothing
  may be owed when it runs. The accounting turns the check `length < capacity`
  into a bound on the map: the one who passes it owes nothing himself
  (`IdleLeavesRoom`), so at most all the others owe an increment. That the second
  pass is never run rests on the trimming: of a list of two slots or more it always
  keeps one, so what it returns is never empty, and only an empty list sets
  `couldNotDealloc`.
- *Topic cache.* As long as `Add` and a bad `Flush` have not run (`Plain`, which
  no step establishes again: `PlainBefore`), nobody owes an increment (`NoIncs`),
  the counter is too high by the deletions in flight, and it is at most the
  capacity.
- *Record store.* `StaleHasCause` is inductive with the types and with `OneRow`: a
  `Reload` asks for one record and is answered with one row, so it does replace
  what it was about to. The step that caches an answer older than its row puts the
  record into `spoiled` itself.
- *Chunk counters.* `BumpsConserved` is inductive with the types: every step moves a
  count between its terms. The two others need `Solo`: without overlap a ticker
  between two of its steps empties the bucket that was current and folds from the
  one that was not, and carries no more than is in it.
- *Refinement of the ledger.* The initial states map to initial states. With
  `TypeOK`, `BumpsConserved` and `Solo`, what is in buckets and in hand is not
  negative, so what is stored or lost is covered by what was counted
  (`SettledIsCovered`), and each action maps to one of `Count`, `Store` and `Lose`, to
  a stutter, or to a step into `void`.
- *Tick loop.* `TickInv` is `LoopTypeOK` with what each label of a tick and of a bump has
  in hand (`InHand`), that a bucket in the map or about to be read is of the topic it
  is kept for (`InPlace`), that ticks take turns unless `overlap` is set (`Turns`), and
  that a watcher about to mark the database as down has cause to (`MarksHaveCause`).
  TLC checked it on the instance of `MCTickLoop` before it was proved. `DownHasCause`
  is a part of it.
- *Sums.* `Pending` is a sum over the topics in the map, a recursive function of the
  library. What it answers comes from induction over the size of a set: the
  elements may be taken in any order (`SumTake`), sets with the same values have the
  same sum (`SumAgree`), and a sum splits off one element (`SumRest`). A step of the
  counter changes one bucket, so it moves views between the terms of `Pending` and
  the database (`Moves`), and that is a step of `Ledger` or a stutter.
- *Sweep.* The loop of ws_user.go that removes doomed sockets is a recursive function
  as well. Its answer, for a list of any length, is found by induction over the slots
  (`SweepTurns`): it keeps the length and invents no socket (`SweepShape`), leaves a
  list without doomed sockets alone (`SweepNone`), and copies the last socket over a
  single doomed one (`SweepOne`), so that cutting the end off loses nobody else
  (`SafeSweep`, `CutSweep`). With two doomed sockets it may lose others; the step then puts the
  user into `mishap`.
- *Hub.* `HubInv` says what each label of a connection, of the ping goroutine and of
  the senders implies about locks, lists and owners; `ReachInv`, inductive with it, is
  `OpenIsReachable` and `NoGhostUsers` for users without a `mishap`, with what they
  need: their lists hold no socket that has been removed (`ListsLive`), and the last
  entry of a list that a ping is about to cut is dead or there twice (`CutIsSpare`).
- *Topic list.* The invariant follows the rebuilds since the last `Thaw`: a tick that
  began after it has gathered what the groups see and makes lists that show what was
  promised; one such rebuild makes the forum lists current, and a second the lists of
  groups that see a single forum, which are taken from them. A countdown that was not
  disturbed has a rebuild behind it, so the counter says how many there were.
- *Pages.* `PagesStepsTheHub` shows each step of the pages to be one of the hub or to
  leave it alone, so that `PagesSpec` inherits the invariants of the hub. `PagesInv`
  adds that a read loop between two pages is that of an open connection, and that
  a socket about to get its page has its user among the watchers. Without pings each
  open connection is in its user's list (`UnpingedInv`), which gives
  `OpenPageIsWatched` its stronger half.

`CountProofs` and `BackgroundProofs` are each about two modules that share nothing; the
names both would have (`Init`, `Next`, `Spec`, `TypeOK`) carry a prefix in one of them
(`TopicSpec`, `LoopSpec`). A theorem about one of the two does not use the assumptions
of the other.

Every invariant and refinement that a run checks is stated by a theorem. Only
model-checked are the liveness properties `OverflowDrains`, `BumpsSettle`, `ViewsSettle`, `TicksEnd`,
`GoesCold`, `ClosingEnds`, `GoneLeavesPanel` and `ListForgets`, which TLAPS cannot prove
(nor anything about `ENABLED`), and the violation of `DeadSocketsHandled`.

No module uses `RECURSIVE`. The library's induction theorems take an operator as a
parameter, which the provers at hand cannot instantiate; induction is therefore
stated for a set (`Induction`: a set of naturals that has 0 and, with each, the next
has them all), which follows from the well-foundedness of `<` (`LeastNat`).

## Where the code disagrees with its comments and tests

One run checks a property that states what the repository says, and finds a
behaviour of the code that breaks it.

| Run | Says | Does |
|---|---|---|
| `WsHubDead` (`DeadSocketsHandled`) | "Skip dead sockets, a dedicated goroutine handles those" (ws_user.go:91) | a leaving connection holds its user's lock and waits for the hub's (ws_hub.go:464), a ping round holds the hub's and waits for the user's: the shard is stuck |

The instance is the smallest that shows it, one connection. The counterexample is a
lasso under `WsHub!Fairness`; without fairness it would refute nothing.

Other disagreements that are hazards with a property, and that a history variable
keeps apart so that the rest of the property holds: a sweep with two doomed
sockets (ws_user.go:160), `removeUser` on a newer entry (ws_hub.go:405), the
lost `Thaw` (thaw.go:68) and the change without one (reply.go:142), `CanSee` that survives `UpdatePerms` (group.go:87), the
overlapping ticks at shutdown (main.go:616), a query answered before an update that
is cached after it (misc_test.go:265 calls that "a sign of a cache bug"), forum IDs
that are the same in the key of a list (topic_list.go:124), a socket that is cut
off the page it is entering or, by another slug, still has (websockets.go:144, :253), the reload
that is cut short (forum_perms_store.go:102), the rebuild that comes last
(forum_store.go:159), the second like (topic.go:318).

## Not modelled

Within the modelled components:

- *User cache and stores*: the contents of a record other than its version;
  creating, counting, `Each` and `RawBulkGetByNameForConvo`, which leave the caches alone;
  the `Unsafe` variants, which are the locked ones without the lock.
- *Hub and pages*: guests, a set behind a lock of its own, and their pages; the
  broadcasts; what is rendered and pushed, with the two panics that may come of it
  (the tick cuts the last byte off a topic list without a row, ws_hub.go:273, and
  processor figures that cannot be read); resuming a page; the other shard, which
  shares nothing with this one.
- *Content*: the statistics of users, attachments, polls, profile replies,
  subscriptions and activities, which are further statements in the same chains.
- *View counters*: the shift of the week, the counts of cached topics, and the
  counters with a fixed array of buckets.
- *Tick loop*: the hourly and daily tasks; the other tasks are those of
  `ChunkCounter`, `TopicList` and `UserCache`.
- *Forum store*: columns other than name and activity, which are behind the version.
- *Topic list*: the queries, the prepared statements by length, the choice of the
  first eight forums that get a list, every page but the first.
- *Permissions*: permissions other than `ViewTopic`; creating groups and forums and
  deleting forums, so that the sets of both are fixed.

Other components are not modelled for one of these reasons:

- *planned*: the tables of polls, the other bucket counters, scheduled groups, hooks;
- *nothing concurrent and no state of its own*: parser, templates, phrases, query
  builder, installer, patcher, generators, routes (which call the stores);
- *samples that are lost by design*: performance and memory counters;
- *single rows, or an insert after a check*: sessions, two-factor codes, reports,
  conversations, profile replies, relations, logs;
- *the same race as a modelled one*: word filters, settings, menus, widgets and
  themes reload a table and store the result, as `Visibility` does for the rows of
  a forum;
- *files or the network*: attachments, thumbnailer, email.

## Plan

The order is that of what a forum depends on most.

1. `ForumStore` composed with `Visibility`, whose fixed set of forums it replaces: no
   group sees a forum that is gone.
2. `HookTable`: hooks added and removed by index (extend.go:552); a hook runs exactly
   while its plugin is active.
3. The statistics of users, polls and attachments in `Content`.
4. Scheduled groups and the hourly tasks with `TickLoop`; the counters with a fixed
   array of buckets and the shift of the week with `ViewCounter`.
5. Abstract specifications: `CountedSet` (a set with a size that may lag), which
   `UserCache` and `TopicCache` implement; `Permissions` (each group sees what the
   database says as of some moment since the last quiet one), which `Visibility`
   implements. Each becomes a PROPERTY of the run there is, and a theorem.
6. Proofs: the abstract specifications of 5; and of each module that the steps above
   add, its invariants along with its run.
