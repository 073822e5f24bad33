------------------------------ MODULE WsPages ------------------------------
(***************************************************************************)
(* The pages WebSocket connections are on and who watches them             *)
(* (src/common/websockets.go), on top of the connections and the hub of    *)
(* WsHub: the live topic list and the tick that pushes it                  *)
(* (src/common/ws_hub.go), the pages of topics, whose watchers the widget  *)
(* of online users lists, and the panel with the goroutine that feeds it.  *)
(*                                                                         *)
(* A connection's read loop asks for a page, leaves the one it is on and   *)
(* enters the new one.  Watchers are WSUsers, behind locks of their own,   *)
(* which nobody holds while waiting for another lock; whether a user is    *)
(* still on a page is asked of the Page of his sockets, under his lock.    *)
(* A page is what the client sent, slug and all; the watchers of a topic   *)
(* are kept by the ID that ParseSEOURL takes from it, so that two pages    *)
(* may share their watchers.                                               *)
(*                                                                         *)
(* Whether a topic or the panel may be seen is left open at each visit.    *)
(* What is pushed is not modelled, nor is the page of guests: a topic list *)
(* without a row to send, off which the tick would cut the last byte, and  *)
(* processor figures that cannot be read would each end the process.       *)
(***************************************************************************)
EXTENDS WsHub

CONSTANTS
    ListPage,    \* "/topics/"
    TopicPages,  \* pages "/topic/slug.id"; without an ID behind a dot they are NoPage
    Topics,      \* topic IDs
    TopicOf,     \* the ID ParseSEOURL takes from each page of a topic
    PanelPage,   \* "/panel/"
    NoPage,      \* "", and any page that is not one of the others
    Visits,      \* bound: the pages each connection asks for
    MaxTickers   \* bound: panel tickers at one time

Watchable == {ListPage} \cup TopicPages
Pages == Watchable \cup {PanelPage, NoPage}

\* The sets of watchers there are, and the one a page belongs to.
WatchKeys == {ListPage} \cup Topics
WatchKey(p) == IF p = ListPage THEN ListPage ELSE TopicOf[p]

ASSUME PagesAssumption ==
    /\ {ListPage, PanelPage, NoPage} \cap TopicPages = {}
    /\ ListPage # PanelPage /\ NoPage \notin {ListPage, PanelPage}
    /\ TopicOf \in [TopicPages -> Topics] /\ ListPage \notin Topics
    /\ Visits \in [Conns -> SUBSET Pages]
    /\ MaxTickers \in Nat \ {0}

VARIABLES
    page,        \* Page of each connection's socket
    at,          \* where the read loop of each connection is
    current,     \* currentPage of each read loop
    want,        \* the page it has been asked for
    watchers,    \* topicListWatchers and topicWatchers: the WSUsers of the list and of each topic
    panel,       \* adminStatsWatchers
    failed,      \* those among them whose connection is closed and has met a write
    tickers,     \* how many goroutines run adminStatsTicker
    tick,        \* wsTopicListTick
    cut          \* history: users taken off watchers that a socket of theirs counts on

pageVars == <<page, at, current, want, watchers, panel, failed, tickers, tick, cut>>
allVars == <<vars, pageVars>>

TickIdle == [at |-> "wait", todo |-> {}, user |-> None]

PagesInit ==
    /\ page = [c \in Conns |-> NoPage]
    /\ at = [c \in Conns |-> "read"]
    /\ current = [c \in Conns |-> NoPage]
    /\ want = [c \in Conns |-> NoPage]
    /\ watchers = [k \in WatchKeys |-> {}]
    /\ panel = {}
    /\ failed = {}
    /\ tickers = 0
    /\ tick = TickIdle
    /\ cut = {}

\* Is one of the user's sockets on the page?
OnPage(w, p) == \E i \in 1 .. Len(sockets[w]) : page[sockets[w][i]] = p

\* SetPageForSocket looks for the socket in the list by its conn, which a ping that
\* failed has set to nil.
Found(c) == InList(c, owner[c]) /\ c \notin nilled

\* A socket of the user has been let in and its Page is not set yet.
Entering(w, p) == \E c \in Conns : owner[c] = w /\ at[c] = "set" /\ current[c] = p

\* A socket of the user is on a page with these watchers, or about to be.
CountsOn(w, k) == \E p \in Watchable : WatchKey(p) = k /\ (OnPage(w, p) \/ Entering(w, p))

\* FinalizePage with a handler that takes the user off the watchers of p: it asks
\* after the page, and not after others of the same topic.
FinalizePage(w, p) ==
    LET k == WatchKey(p)
    IN  IF OnPage(w, p)
        THEN UNCHANGED <<watchers, cut>>
        ELSE /\ watchers' = [watchers EXCEPT ![k] = @ \ {w}]
             /\ cut' = IF w \in watchers[k] /\ CountsOn(w, k) THEN cut \cup {<<w, k>>} ELSE cut

-----------------------------------------------------------------------------
\* The read loop of a connection.

\* "page p" and "resume p ..." for a page that is not the current one.
Ask(c, p) ==
    /\ pc[c] = "open" /\ at[c] = "read" /\ c \notin broken
    /\ p # current[c]
    /\ want' = [want EXCEPT ![c] = p]
    /\ at' = [at EXCEPT ![c] = "leave"]
    /\ UNCHANGED <<vars, page, current, watchers, panel, failed, tickers, tick, cut>>

\* The socket that leaves is still on its page while FinalizePage looks.
Leave(c) ==
    LET p == current[c]
        w == owner[c]
    IN  /\ at[c] = "leave"
        /\ p \in Watchable => Unlocked(w)
        /\ IF p \in Watchable THEN FinalizePage(w, p) ELSE UNCHANGED <<watchers, cut>>
        /\ panel' = IF p = PanelPage THEN panel \ {c} ELSE panel
        /\ at' = [at EXCEPT ![c] = "reset"]
        /\ UNCHANGED <<vars, page, current, want, failed, tickers, tick>>

\* SetPageForSocket(conn, "") ends wsLeavePage.
Reset(c) ==
    /\ at[c] = "reset"
    /\ Unlocked(owner[c])
    /\ page' = IF Found(c) THEN [page EXCEPT ![c] = NoPage] ELSE page
    /\ current' = [current EXCEPT ![c] = want[c]]
    /\ want' = [want EXCEPT ![c] = NoPage]
    /\ at' = [at EXCEPT ![c] = IF want[c] = NoPage THEN "read" ELSE "enter"]
    /\ UNCHANGED <<vars, watchers, panel, failed, tickers, tick, cut>>

\* A topic that is gone or may not be seen, or a panel that may not: the page is
\* current, and the socket on none.
Refuse(c) ==
    /\ at[c] = "enter"
    /\ current[c] # ListPage
    /\ at' = [at EXCEPT ![c] = "read"]
    /\ UNCHANGED <<vars, page, current, want, watchers, panel, failed, tickers, tick, cut>>

\* The user is put among the watchers, and entering afresh undoes a cut.
Watch(c) ==
    LET p == current[c]
        k == WatchKey(p)
        w == owner[c]
    IN  /\ at[c] = "enter"
        /\ p \in Watchable
        /\ watchers' = [watchers EXCEPT ![k] = @ \cup {w}]
        /\ cut' = cut \ {<<w, k>>}
        /\ at' = [at EXCEPT ![c] = "set"]
        /\ UNCHANGED <<vars, page, current, want, panel, failed, tickers, tick>>

\* Mutant: the ticker is started for the second watcher.
WatchPanelLate(c) ==
    /\ at[c] = "enter"
    /\ current[c] = PanelPage
    /\ tickers < MaxTickers
    /\ panel' = panel \cup {c}
    /\ tickers' = IF Cardinality(panel) = 1 THEN tickers + 1 ELSE tickers
    /\ at' = [at EXCEPT ![c] = "set"]
    /\ UNCHANGED <<vars, page, current, want, watchers, failed, tick, cut>>

\* The first connection on the panel starts a ticker, though the last one may
\* still be asleep and go on.
WatchPanel(c) ==
    /\ at[c] = "enter"
    /\ current[c] = PanelPage
    /\ panel = {} => tickers < MaxTickers
    /\ panel' = panel \cup {c}
    /\ tickers' = IF panel = {} THEN tickers + 1 ELSE tickers
    /\ at' = [at EXCEPT ![c] = "set"]
    /\ UNCHANGED <<vars, page, current, want, watchers, failed, tick, cut>>

\* SetPageForSocket ends wsPageResponses.
SetPage(c) ==
    /\ at[c] = "set"
    /\ Unlocked(owner[c])
    /\ page' = IF Found(c) THEN [page EXCEPT ![c] = current[c]] ELSE page
    /\ at' = [at EXCEPT ![c] = "read"]
    /\ UNCHANGED <<vars, current, want, watchers, panel, failed, tickers, tick, cut>>

Loop(c) == Leave(c) \/ Reset(c) \/ Refuse(c) \/ Watch(c) \/ WatchPanel(c) \/ SetPage(c)

-----------------------------------------------------------------------------
\* adminStatsTicker.

\* Mutant: a connection that cannot be written to is skipped and kept.
TickerWriteKeeps ==
    /\ tickers > 0
    /\ panel # {}
    /\ failed' = {c \in panel : pc[c] = "gone"}
    /\ UNCHANGED <<vars, page, at, current, want, watchers, panel, tickers, tick, cut>>

\* One round of pushes, under the write lock.  NextWriter reports a write that failed
\* before: the first push to a closed connection is lost in silence and the next one
\* takes it off.  What else writes to it, or finds the peer gone, may do so sooner.
TickerWrite ==
    /\ tickers > 0
    /\ panel # {}
    /\ \E lost \in SUBSET (panel \cap broken) :
        /\ panel \cap failed \subseteq lost
        /\ panel' = panel \ lost
        /\ failed' = {c \in panel \ lost : pc[c] = "gone"}
    /\ UNCHANGED <<vars, page, at, current, want, watchers, tickers, tick, cut>>

\* A round that finds all figures as they were writes to nobody.
TickerSkip ==
    /\ tickers > 0
    /\ panel # {}
    /\ UNCHANGED allVars

\* Mutant: a ticker that has ended already ends again.
TickerEndsTwice ==
    /\ panel = {}
    /\ tickers' = tickers - 1
    /\ UNCHANGED <<vars, page, at, current, want, watchers, panel, failed, tick, cut>>

\* A ticker finds the panel without watchers and ends.
TickerEnds ==
    /\ tickers > 0
    /\ panel = {}
    /\ tickers' = tickers - 1
    /\ UNCHANGED <<vars, page, at, current, want, watchers, panel, failed, tick, cut>>

-----------------------------------------------------------------------------
\* wsTopicListTick, once the list has been found to have changed.

TickCopy ==
    /\ tick.at = "wait"
    /\ watchers[ListPage] # {}
    /\ tick' = [TickIdle EXCEPT !.at = "next", !.todo = watchers[ListPage]]
    /\ UNCHANGED <<vars, page, at, current, want, watchers, panel, failed, tickers, cut>>

\* WriteToPageBytes walks the sockets without the user's lock, so the pages it goes
\* by may be of different moments: only with a single live socket is it sure to
\* find the one on the page.  A socket whose peer is gone may still take a write.
TickWrite(w) ==
    /\ tick.at = "next"
    /\ w \in tick.todo
    /\ \E hit \in BOOLEAN :
        /\ hit => OnPage(w, ListPage)
        /\ (\E c \in Conns \ broken : sockets[w] = <<c>> /\ page[c] = ListPage) => hit
        /\ tick' = [tick EXCEPT !.at = IF hit THEN "next" ELSE "missed", !.todo = @ \ {w},
                                !.user = IF hit THEN None ELSE w]
    /\ UNCHANGED <<vars, page, at, current, want, watchers, panel, failed, tickers, cut>>

\* Mutant: the user is dropped because the walk found no socket, without asking
\* again under his lock.
TickForgetBlindly ==
    /\ tick.at = "missed"
    /\ Unlocked(tick.user)
    /\ watchers' = [watchers EXCEPT ![ListPage] = @ \ {tick.user}]
    /\ tick' = [tick EXCEPT !.at = "next", !.user = None]
    /\ UNCHANGED <<vars, page, at, current, want, panel, failed, tickers, cut>>

\* Mutant: the user whom the walk has not found stays.
TickForgetNobody ==
    /\ tick.at = "missed"
    /\ tick' = [tick EXCEPT !.at = "next", !.user = None]
    /\ UNCHANGED <<vars, page, at, current, want, watchers, panel, failed, tickers, cut>>

\* ErrNoneOnPage: the user is asked about once more, under his lock.
TickForget ==
    /\ tick.at = "missed"
    /\ Unlocked(tick.user)
    /\ FinalizePage(tick.user, ListPage)
    /\ tick' = [tick EXCEPT !.at = "next", !.user = None]
    /\ UNCHANGED <<vars, page, at, current, want, panel, failed, tickers>>

\* The end of the watchers, or an error of the permissions store in their midst.
TickDone ==
    /\ tick.at = "next"
    /\ tick' = TickIdle
    /\ UNCHANGED <<vars, page, at, current, want, watchers, panel, failed, tickers, cut>>

-----------------------------------------------------------------------------
\* The read loop reads between two messages only; with it ends what it knew.
EndLoop(c) ==
    /\ Up /\ at[c] = "read" /\ ReadError(c)
    /\ current' = [current EXCEPT ![c] = NoPage]
    /\ UNCHANGED <<page, at, want, watchers, panel, failed, tickers, tick, cut>>

\* The other steps of the hub, which know of no pages.
HubStep ==
    /\ Up
    /\ \/ \E c \in Conns : \/ AddConnNew(c) \/ AddConnFound(c) \/ AddSocket(c)
                           \/ RemoveSocket(c) \/ CheckEmpty(c) \/ RemoveUser(c)
                           \/ Break(c)
       \/ Ping
    /\ UNCHANGED pageVars

PagesNext ==
    \/ HubStep
    \/ \E c \in Conns : Loop(c) \/ EndLoop(c) \/ \E p \in Visits[c] : Ask(c, p)
    \/ TickerWrite \/ TickerSkip \/ TickerEnds
    \/ TickCopy \/ (\E w \in Conns : TickWrite(w)) \/ TickForget \/ TickDone

PagesSpec == Init /\ PagesInit /\ [][PagesNext]_allVars

\* The goroutine of a connection that has been accepted goes on as long as it can.
Goroutine(c) ==
    \/ Loop(c)
    \/ Up /\ (AddSocket(c) \/ RemoveSocket(c) \/ CheckEmpty(c) \/ RemoveUser(c))
          /\ UNCHANGED pageVars

\* So do tickers and the tick.  It is assumed of what they look at that the figures
\* of the panel change again and again, so that not every round is skipped, that the
\* topic list does, and that the permissions store does not fail before the same
\* user for ever.
PagesFairness ==
    /\ \A c \in Conns : WF_allVars(Goroutine(c)) /\ SF_allVars(TickWrite(c))
    /\ WF_allVars(TickerWrite) /\ WF_allVars(TickerEnds)
    /\ WF_allVars(TickCopy \/ TickForget \/ TickDone)

PagesFairSpec == PagesSpec /\ PagesFairness

-----------------------------------------------------------------------------
\* The type invariant of the pages.
PagesTypeOK ==
    /\ page \in [Conns -> Pages]
    /\ at \in [Conns -> {"read", "leave", "reset", "enter", "set"}]
    /\ current \in [Conns -> Pages]
    /\ want \in [Conns -> Pages]
    /\ watchers \in [WatchKeys -> SUBSET Conns]
    /\ panel \subseteq Conns
    /\ failed \subseteq Conns
    /\ tickers \in 0 .. MaxTickers
    /\ tick.at \in {"wait", "next", "missed"}
    /\ tick.todo \subseteq Conns
    /\ tick.user \in Conns \cup {None}
    /\ cut \subseteq Conns \X WatchKeys

\* A connection whose socket is on the topic list or on a topic has its user among
\* the watchers of the list or of that topic, so that pushes reach it, unless he was
\* taken off while a socket of his counted on them: the tick or a leaving connection
\* looked after he was added and before the socket's Page was set, or left one page
\* of the topic while another of its pages was open.  With pings this is only said of
\* sockets in the user's list, the ones a push looks at: the ping after one that
\* failed takes a socket off the list, whether or not its read loop has ended.
OpenPageIsWatched ==
    \A c \in Conns :
        (pc[c] = "open" /\ page[c] \in Watchable /\ (Pinging => InList(c, owner[c])))
            => \/ owner[c] \in watchers[WatchKey(page[c])]
               \/ <<owner[c], WatchKey(page[c])>> \in cut

\* As long as a connection is on the panel some goroutine feeds it: a ticker that
\* has seen the panel empty ends, and one that comes later starts the next.
PanelIsServed == panel # {} => tickers > 0

\* A connection that has ended leaves the panel, though its read loop does not take
\* it off ("Make sure the admin is removed from the admin stats list in the case
\* that an error happens", websockets.go:73).
GoneLeavesPanel == []<>(\A c \in panel : pc[c] # "gone")

\* A user with no socket left on the topic list is taken off its watchers, though
\* leaving the page does not do it: the tick that finds nobody does.
ListForgets ==
    \A w \in Conns : []<>(w \in watchers[ListPage] => OnPage(w, ListPage))
=============================================================================
