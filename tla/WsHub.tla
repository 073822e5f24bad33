------------------------------- MODULE WsHub -------------------------------
(***************************************************************************)
(* One shard of the WebSocket hub (src/common/ws_hub.go), the sockets of   *)
(* each connected user (src/common/ws_user.go) and the read loop of a      *)
(* connection (src/common/websockets.go).                                  *)
(*                                                                         *)
(* The hub maps a user ID to a WSUser, which holds the list of the user's  *)
(* sockets behind a lock of its own.  Three kinds of goroutine touch them: *)
(* one read loop per connection, which adds and removes its socket; the    *)
(* ping goroutine, which holds the hub's read lock over a whole round; and *)
(* senders of alerts, which walk the list without the user's lock.  The    *)
(* steps of this module are split where a lock is taken or released.       *)
(*                                                                         *)
(* A WSUser is named after the connection whose AddConn created it, and a  *)
(* socket is named after its connection.  Guests are kept elsewhere and    *)
(* are not modelled.                                                       *)
(***************************************************************************)
EXTENDS Integers, Sequences, FiniteSets

CONSTANTS
    Conns,      \* WebSocket connections, each served by one goroutine
    Users,      \* user IDs of one shard
    UserOf,     \* the user each connection belongs to
    Fragile,    \* the connections whose peer may vanish
    Pinging,    \* does the ping goroutine run?
    None

ASSUME UserOfAssumption == UserOf \in [Conns -> Users]
ASSUME FragileAssumption == Fragile \subseteq Conns /\ Pinging \in BOOLEAN
ASSUME NoneAssumption == None \notin Conns

VARIABLES
    hub,       \* onlineUsers: the WSUser of each user ID, or None
    userLock,  \* the connection whose goroutine holds a WSUser's lock over a step
    sockets,   \* Sockets of each WSUser
    nilled,    \* sockets whose conn pointer the ping goroutine has set to nil
    broken,    \* connections whose peer is gone
    pc,        \* where the goroutine of each connection is
    owner,     \* the WSUser each connection's AddConn returned
    ping,      \* the ping goroutine
    send,      \* the goroutine that pushes an alert
    mishap     \* history: users whose sockets met a step known to lose some

connVars == <<pc, owner>>
vars == <<hub, userLock, sockets, nilled, broken, connVars, ping, send, mishap>>

PingIdle == [at |-> "wait", todo |-> {}, user |-> None, live |-> {}, del |-> 0,
             seen |-> <<>>, cur |-> None]
SendIdle == [at |-> "idle", list |-> <<>>]

Init ==
    /\ hub = [u \in Users |-> None]
    /\ userLock = [w \in Conns |-> None]
    /\ sockets = [w \in Conns |-> <<>>]
    /\ nilled = {}
    /\ broken = {}
    /\ pc = [c \in Conns |-> "new"]
    /\ owner = [c \in Conns |-> None]
    /\ ping = PingIdle
    /\ send = SendIdle
    /\ mishap = {}

\* The hub's write lock can be taken: writers hold it within one step, and the
\* ping goroutine holds the read lock for a round.
HubFree == ping.at = "wait"
Unlocked(w) == userLock[w] = None

-----------------------------------------------------------------------------
\* Sweeping a list of sockets, shared by Ping and RemoveSocket.

\* For every doomed slot met the loop copies the entry del places from the end
\* over it and moves on; the copy itself is not looked at in this slot.
Sweep(list, doomed) ==
    LET state[i \in 0 .. Len(list)] ==
            IF i = 0 THEN [list |-> list, del |-> 0, live |-> {}]
            ELSE LET s == state[i - 1]
                 IN  IF s.list[i] \in doomed
                     THEN [s EXCEPT !.list[i] = s.list[Len(list) - s.del],
                                    !.del = s.del + 1]
                     ELSE [s EXCEPT !.live = @ \cup {s.list[i]}]
    IN  state[Len(list)]

Truncated(list, del) == SubSeq(list, 1, Len(list) - del)

\* A sweep that meets more than one doomed socket can copy a doomed one down or
\* cut a live one off.
Doomed(list, doomed) == {i \in 1 .. Len(list) : list[i] \in doomed}
SweepIsRisky(list, doomed) == Cardinality(Doomed(list, doomed)) > 1

-----------------------------------------------------------------------------
\* The goroutine of a connection.

\* AddConn of a user who is not connected yet.
AddConnNew(c) ==
    LET u == UserOf[c]
    IN  /\ pc[c] = "new"
        /\ HubFree
        /\ hub[u] = None
        /\ hub' = [hub EXCEPT ![u] = c]
        /\ sockets' = [sockets EXCEPT ![c] = <<c>>]
        /\ owner' = [owner EXCEPT ![c] = c]
        /\ pc' = [pc EXCEPT ![c] = "open"]
        /\ UNCHANGED <<userLock, nilled, broken, ping, send, mishap>>

\* AddConn of a connected user: the hub is unlocked before AddSocket.
AddConnFound(c) ==
    LET u == UserOf[c]
    IN  /\ pc[c] = "new"
        /\ HubFree
        /\ hub[u] # None
        /\ owner' = [owner EXCEPT ![c] = hub[u]]
        /\ pc' = [pc EXCEPT ![c] = "adding"]
        /\ UNCHANGED <<hub, userLock, sockets, nilled, broken, ping, send, mishap>>

AddSocket(c) ==
    LET w == owner[c]
    IN  /\ pc[c] = "adding"
        /\ Unlocked(w)
        /\ sockets' = [sockets EXCEPT ![w] = Append(@, c)]
        /\ pc' = [pc EXCEPT ![c] = "open"]
        /\ mishap' = IF hub[UserOf[c]] = w THEN mishap ELSE mishap \cup {UserOf[c]}
        /\ UNCHANGED <<hub, userLock, nilled, broken, owner, ping, send>>

\* The peer vanishes: from now on reads and writes may fail.
Break(c) ==
    /\ pc[c] = "open"
    /\ c \in Fragile \ broken
    /\ broken' = broken \cup {c}
    /\ UNCHANGED <<hub, userLock, sockets, nilled, connVars, ping, send, mishap>>

ReadError(c) ==
    /\ pc[c] = "open"
    /\ c \in broken
    /\ pc' = [pc EXCEPT ![c] = "remove"]
    /\ UNCHANGED <<hub, userLock, sockets, nilled, broken, owner, ping, send, mishap>>

\* RemoveConn, first half.
RemoveSocket(c) ==
    LET w == owner[c]
        doomed == nilled \cup {c}
        swept == Sweep(sockets[w], doomed)
    IN  /\ pc[c] = "remove"
        /\ Unlocked(w)
        /\ sockets' = [sockets EXCEPT ![w] = Truncated(swept.list, swept.del)]
        /\ pc' = [pc EXCEPT ![c] = "check"]
        /\ mishap' = IF SweepIsRisky(sockets[w], doomed)
                     THEN mishap \cup {UserOf[c]} ELSE mishap
        /\ UNCHANGED <<hub, userLock, nilled, broken, owner, ping, send>>

\* Mutant: the user leaves the hub with any of his sockets.
CheckEmptyAlways(c) ==
    LET w == owner[c]
    IN  /\ pc[c] = "check"
        /\ Unlocked(w)
        /\ userLock' = [userLock EXCEPT ![w] = c]
        /\ pc' = [pc EXCEPT ![c] = "leave"]
        /\ UNCHANGED <<hub, sockets, nilled, broken, owner, ping, send, mishap>>

\* RemoveConn, second half: the user's lock is held while the hub's is awaited.
CheckEmpty(c) ==
    LET w == owner[c]
    IN  /\ pc[c] = "check"
        /\ Unlocked(w)
        /\ IF sockets[w] = <<>>
           THEN /\ userLock' = [userLock EXCEPT ![w] = c]
                /\ pc' = [pc EXCEPT ![c] = "leave"]
           ELSE /\ pc' = [pc EXCEPT ![c] = "gone"]
                /\ UNCHANGED userLock
        /\ UNCHANGED <<hub, sockets, nilled, broken, owner, ping, send, mishap>>

\* Mutant: the user stays in the hub with an empty list.
RemoveUserLeavesEntry(c) ==
    LET w == owner[c]
    IN  /\ pc[c] = "leave"
        /\ HubFree
        /\ userLock' = [userLock EXCEPT ![w] = None]
        /\ pc' = [pc EXCEPT ![c] = "gone"]
        /\ UNCHANGED <<hub, sockets, nilled, broken, owner, ping, send, mishap>>

\* Mutant: the user's lock is not released.
RemoveUserKeepsLock(c) ==
    /\ pc[c] = "leave"
    /\ HubFree
    /\ hub' = [hub EXCEPT ![UserOf[c]] = None]
    /\ pc' = [pc EXCEPT ![c] = "gone"]
    /\ UNCHANGED <<userLock, sockets, nilled, broken, owner, ping, send, mishap>>

\* removeUser deletes by user ID, whichever WSUser the map holds by then.
RemoveUser(c) ==
    LET w == owner[c]
    IN  /\ pc[c] = "leave"
        /\ HubFree
        /\ hub' = [hub EXCEPT ![UserOf[c]] = None]
        /\ userLock' = [userLock EXCEPT ![w] = None]
        /\ pc' = [pc EXCEPT ![c] = "gone"]
        /\ mishap' = IF hub[UserOf[c]] \in {w, None}
                     THEN mishap ELSE mishap \cup {UserOf[c]}
        /\ UNCHANGED <<sockets, nilled, broken, owner, ping, send>>

-----------------------------------------------------------------------------
\* The ping goroutine: a round every five minutes, under the hub's read lock.

PingRound ==
    /\ Pinging
    /\ ping.at = "wait"
    /\ ping' = [PingIdle EXCEPT !.at = "next",
                                !.todo = {hub[u] : u \in Users} \ {None}]
    /\ UNCHANGED <<hub, userLock, sockets, nilled, broken, connVars, send, mishap>>

\* Ping takes the user's lock, sweeps and releases it; with nothing to remove
\* the round goes straight to the writes.
PingSweep(w) ==
    LET swept == Sweep(sockets[w], nilled)
    IN  /\ ping.at = "next"
        /\ w \in ping.todo
        /\ Unlocked(w)
        /\ sockets' = [sockets EXCEPT ![w] = swept.list]
        /\ ping' = [ping EXCEPT !.at = IF swept.del > 0 THEN "truncate" ELSE "write",
                                !.todo = @ \ {w}, !.user = w, !.live = swept.live,
                                !.del = swept.del, !.seen = swept.list]
        /\ mishap' = IF SweepIsRisky(sockets[w], nilled)
                     THEN mishap \cup {UserOf[w]} ELSE mishap
        /\ UNCHANGED <<hub, userLock, nilled, broken, connVars, send>>

\* The cut happens after the unlock, with del from before it.
PingTruncate ==
    LET w == ping.user
    IN  /\ ping.at = "truncate"
        /\ IF ping.del <= Len(sockets[w])
           THEN /\ sockets' = [sockets EXCEPT ![w] = Truncated(@, ping.del)]
                /\ ping' = [ping EXCEPT !.at = "write", !.del = 0, !.seen = <<>>]
           ELSE \* slice bounds out of range: EatPanics logs it and ends the process
                /\ ping' = [PingIdle EXCEPT !.at = "dead"]
                /\ UNCHANGED sockets
        /\ mishap' = IF sockets[w] = ping.seen THEN mishap ELSE mishap \cup {UserOf[w]}
        /\ UNCHANGED <<hub, userLock, nilled, broken, connVars, send>>

\* Mutant: every socket is given up on, whether or not the ping went through.
PingWriteFails(s) ==
    /\ ping.at = "write"
    /\ s \in ping.live
    /\ ping' = [ping EXCEPT !.at = "nil", !.live = @ \ {s}, !.cur = s]
    /\ UNCHANGED <<hub, userLock, sockets, nilled, broken, connVars, send, mishap>>

\* A ping to a live socket; one that fails closes the connection.
PingWrite(s) ==
    /\ ping.at = "write"
    /\ s \in ping.live
    /\ ping' = IF s \in broken
               THEN [ping EXCEPT !.at = "nil", !.live = @ \ {s}, !.cur = s]
               ELSE [ping EXCEPT !.live = @ \ {s}]
    /\ UNCHANGED <<hub, userLock, sockets, nilled, broken, connVars, send, mishap>>

PingNil ==
    /\ ping.at = "nil"
    /\ Unlocked(ping.user)
    /\ nilled' = nilled \cup {ping.cur}
    /\ ping' = [ping EXCEPT !.at = "write", !.cur = None]
    /\ UNCHANGED <<hub, userLock, sockets, broken, connVars, send, mishap>>

PingUserDone ==
    /\ ping.at = "write"
    /\ ping.live = {}
    /\ ping' = [ping EXCEPT !.at = "next", !.user = None]
    /\ UNCHANGED <<hub, userLock, sockets, nilled, broken, connVars, send, mishap>>

PingDone ==
    /\ ping.at = "next"
    /\ ping.todo = {}
    /\ ping' = PingIdle
    /\ UNCHANGED <<hub, userLock, sockets, nilled, broken, connVars, send, mishap>>

-----------------------------------------------------------------------------
\* WriteAll and WriteToPageBytes: a walk over the list as it was at the start,
\* without the user's lock (what a sweep moves within the array during the walk
\* is not followed).

PushAlert(u) ==
    /\ send.at = "idle"
    /\ hub[u] # None
    /\ send' = [at |-> "write", list |-> sockets[hub[u]]]
    /\ UNCHANGED <<hub, userLock, sockets, nilled, broken, connVars, ping, mishap>>

SendWrite ==
    /\ send.at = "write"
    /\ send.list # <<>>
    /\ send' = IF Head(send.list) \in nilled
               THEN [send EXCEPT !.at = "panic"]   \* conn is nil, and EatPanics ends the process
               ELSE [send EXCEPT !.list = Tail(@)]
    /\ UNCHANGED <<hub, userLock, sockets, nilled, broken, connVars, ping, mishap>>

\* The end of the list, or a write error, at which WriteAll gives up.
SendDone ==
    /\ send.at = "write"
    /\ send.list # <<>> => Head(send.list) \in broken \ nilled
    /\ send' = SendIdle
    /\ UNCHANGED <<hub, userLock, sockets, nilled, broken, connVars, ping, mishap>>

-----------------------------------------------------------------------------
Conn(c) ==
    \/ AddConnNew(c) \/ AddConnFound(c) \/ AddSocket(c)
    \/ ReadError(c) \/ RemoveSocket(c) \/ CheckEmpty(c) \/ RemoveUser(c)

Ping ==
    \/ PingRound \/ PingTruncate \/ PingNil \/ PingUserDone \/ PingDone
    \/ \E w \in Conns : PingSweep(w) \/ PingWrite(w)

\* No goroutine has met a panic, which EatPanics turns into the end of all.
Up == ping.at # "dead" /\ send.at # "panic"

Next ==
    /\ Up
    /\ \/ \E c \in Conns : Conn(c) \/ Break(c)
       \/ Ping
       \/ \E u \in Users : PushAlert(u)
       \/ SendWrite \/ SendDone

\* Goroutines that can run do run; a peer need never vanish, and a connection
\* whose peer vanished is only sure to notice once the ping has closed it.
Fairness ==
    /\ \A c \in Conns :
        /\ WF_vars(Up /\ (AddSocket(c) \/ RemoveSocket(c) \/ CheckEmpty(c) \/ RemoveUser(c)))
        /\ WF_vars(Up /\ c \in nilled /\ ReadError(c))
    /\ WF_vars(Up /\ Ping)

Spec == Init /\ [][Next]_vars
FairSpec == Spec /\ Fairness

-----------------------------------------------------------------------------
InList(c, w) == \E i \in 1 .. Len(sockets[w]) : sockets[w][i] = c

\* The type invariant of the hub.
TypeOK ==
    /\ hub \in [Users -> Conns \cup {None}]
    /\ userLock \in [Conns -> Conns \cup {None}]
    /\ sockets \in [Conns -> Seq(Conns)]
    /\ nilled \subseteq broken /\ broken \subseteq Fragile
    /\ pc \in [Conns -> {"new", "adding", "open", "remove", "check", "leave", "gone"}]
    /\ owner \in [Conns -> Conns \cup {None}]
    /\ ping.at \in {"wait", "next", "truncate", "write", "nil", "dead"}
    /\ send.at \in {"idle", "write", "panic"}
    /\ mishap \subseteq Users

\* An open connection with a live peer is reachable from the hub, so that alerts
\* and pings find it, unless its user met one of the four steps that lose
\* sockets: AddSocket on a WSUser that has left the hub meanwhile, removeUser
\* when the hub holds another WSUser by then, a sweep that meets two doomed
\* sockets, or a list that changed before Ping cut it.
OpenIsReachable ==
    \A c \in Conns :
        (pc[c] = "open" /\ c \notin broken /\ UserOf[c] \notin mishap)
            => hub[UserOf[c]] = owner[c] /\ InList(c, owner[c])

\* Without such a step no user stays online once his connections have ended:
\* HasUser would otherwise keep him in the user cache for good.
NoGhostUsers ==
    \A u \in Users \ mishap :
        hub[u] # None => \E c \in Conns : UserOf[c] = u /\ pc[c] \notin {"new", "gone"}

\* Without the ping goroutine, whose read lock the leaving users wait for, every
\* connection that starts to leave gets away.
ClosingEnds == \A c \in Conns : []<>(pc[c] \notin {"remove", "check", "leave"})

\* "Skip dead sockets, a dedicated goroutine handles those", as WriteToPageBytes
\* says of the sockets whose conn the ping goroutine has set to nil: they are
\* handled, by the goroutine that has closed it and the read loop the close wakes,
\* which takes it off the list.
DeadSocketsHandled ==
    \A c \in Conns : (pc[c] = "open" /\ c \in nilled) ~> (pc[c] = "gone" \/ ~Up)
=============================================================================
