------------------------------ MODULE TickLoop ------------------------------
(***************************************************************************)
(* A tick of the tick loop and the one at shutdown (src/tickloop.go,       *)
(* src/main.go) under their watchers (TickWatch in                         *)
(* src/common/tickloop.go), with the tick of ViewCounter as their task.    *)
(*                                                                         *)
(* A tick starts a watcher, asks the database whether it is there, runs    *)
(* its tasks and tells the watcher that it has ended.  A watcher that is   *)
(* five seconds old and finds the database unasked marks it as down, and   *)
(* one that is an hour old gives up and closes the channel the end of the  *)
(* tick is told on.                                                        *)
(*                                                                         *)
(* Each tick of the loop has a channel its watcher tells on in turn, which *)
(* nobody listens to.  Time is not modelled: what takes long can happen at *)
(* any moment, the deadline only if Slow says so.                          *)
(***************************************************************************)
EXTENDS ViewCounter

CONSTANTS
    Slow   \* the ticks that may run for an hour

ASSUME SlowAssumption == Slow \subseteq Tickers

VARIABLES
    down,      \* IsDBDown
    checked,   \* is DBCheck of each tick's watch set?
    watch,     \* the watcher of each tick
    downOnce,  \* has the watcher marked the database once?
    overdue,   \* history: a watcher has found its tick without an answer, and no ping
               \*   has been answered since it marked the database
    refused,   \* history: did the last ping fail?
    dead       \* has a goroutine panicked?

watchVars == <<down, checked, watch, downOnce, overdue, refused, dead>>
allVars == <<viewVars, watchVars>>

LoopInit ==
    /\ ViewInit
    /\ down = FALSE
    /\ checked = [k \in Tickers |-> FALSE]
    /\ watch = [k \in Tickers |-> "none"]
    /\ downOnce = [k \in Tickers |-> FALSE]
    /\ overdue = FALSE
    /\ refused = FALSE
    /\ dead = FALSE

\* A tick goes on while the tasks' part of the state stays as it is.
Goto(k, label) ==
    /\ at' = [at EXCEPT ![k] = label]
    /\ UNCHANGED <<buckets, counter, bumpVars, loopVars, db, overlap>>

\* A new watch, and its goroutine.  The tick at shutdown has DBCheck set first.
Start(k) ==
    /\ at[k] = "idle"
    /\ Goto(k, IF k = "shutdown" THEN "run" ELSE "check")
    /\ checked' = [checked EXCEPT ![k] = (k = "shutdown")]
    /\ watch' = [watch EXCEPT ![k] = "on"]
    /\ downOnce' = [downOnce EXCEPT ![k] = FALSE]
    /\ UNCHANGED <<down, overdue, refused, dead>>

\* StartTick.
Ping(k) ==
    /\ at[k] = "check"
    /\ \E up \in BOOLEAN :
        /\ Goto(k, IF up THEN "set" ELSE "stop")
        /\ down' = ~up
        /\ refused' = ~up
    /\ overdue' = (\E j \in Tickers : watch[j] = "mark")
    /\ UNCHANGED <<checked, watch, downOnce, dead>>

Set(k) ==
    /\ at[k] = "set"
    /\ Goto(k, "run")
    /\ checked' = [checked EXCEPT ![k] = TRUE]
    /\ UNCHANGED <<down, watch, downOnce, overdue, refused, dead>>

\* An error of a hook or of a task before this one.
RunFails(k) ==
    /\ at[k] = "run"
    /\ Goto(k, "stop")
    /\ UNCHANGED watchVars

\* Stop waits for the watcher, and panics when that has closed the channel; the
\* tick at shutdown comes once.
Stop(k) ==
    /\ at[k] = "stop"
    /\ watch[k] \in {"on", "closed"}
    /\ IF watch[k] = "closed"
       THEN dead' = TRUE /\ UNCHANGED <<viewVars, watch>>
       ELSE /\ Goto(k, IF k = "shutdown" THEN "over" ELSE "idle")
            /\ watch' = [watch EXCEPT ![k] = "none"]
            /\ UNCHANGED dead
    /\ UNCHANGED <<down, checked, downOnce, overdue, refused>>

-----------------------------------------------------------------------------
\* The watcher.

\* Mutant: the database is marked again and again, whether or not it was asked.
LookAgain(k) ==
    /\ watch[k] = "on"
    /\ watch' = [watch EXCEPT ![k] = "mark"]
    /\ UNCHANGED <<viewVars, down, checked, downOnce, overdue, refused, dead>>

\* Five seconds on the database has not been asked: the watcher will mark it,
\* whatever the answer is by then.
Look(k) ==
    /\ watch[k] = "on"
    /\ ~checked[k] /\ ~downOnce[k]
    /\ watch' = [watch EXCEPT ![k] = "mark"]
    /\ overdue' = TRUE
    /\ UNCHANGED <<viewVars, down, checked, downOnce, refused, dead>>

Mark(k) ==
    /\ watch[k] = "mark"
    /\ watch' = [watch EXCEPT ![k] = "on"]
    /\ down' = TRUE
    /\ downOnce' = [downOnce EXCEPT ![k] = TRUE]
    /\ UNCHANGED <<viewVars, checked, overdue, refused, dead>>

\* Mutant: the watcher ends at the deadline and leaves the channel open.
DeadlineLeaves(k) ==
    /\ watch[k] = "on"
    /\ k \in Slow
    /\ watch' = [watch EXCEPT ![k] = "left"]
    /\ UNCHANGED <<viewVars, down, checked, downOnce, overdue, refused, dead>>

\* An hour on the watcher ends and closes EndChan.
Deadline(k) ==
    /\ watch[k] = "on"
    /\ k \in Slow
    /\ watch' = [watch EXCEPT ![k] = "closed"]
    /\ UNCHANGED <<viewVars, down, checked, downOnce, overdue, refused, dead>>

-----------------------------------------------------------------------------
LoopStep(k) ==
    ~dead /\ ( \/ Start(k) \/ Ping(k) \/ Set(k) \/ RunFails(k) \/ Stop(k)
               \/ ViewTick(k) /\ UNCHANGED watchVars )

Watch(k) == ~dead /\ (Look(k) \/ Mark(k) \/ Deadline(k))

LoopNext ==
    \/ \E k \in Tickers : LoopStep(k) \/ Watch(k)
    \/ ~dead /\ (\E v \in Views : Bump(v)) /\ UNCHANGED watchVars

\* The goroutines go on while the process is up, a watcher that has made up its
\* mind included; a view need never come and the server need never be stopped.
\* The database answers again and again, and its tasks do not fail for ever.
Fairness ==
    /\ WF_allVars(LoopStep("loop"))
    /\ WF_allVars(at["shutdown"] # "idle" /\ LoopStep("shutdown"))
    /\ SF_allVars(~dead /\ ViewTick("loop") /\ UNCHANGED watchVars)
    /\ SF_allVars(~dead /\ at["loop"] = "check" /\ Ping("loop") /\ ~down')
    /\ \A k \in Tickers : WF_allVars(~dead /\ Mark(k))
    /\ \A v \in Views : WF_allVars(~dead /\ bump[v] # "new" /\ Bump(v) /\ UNCHANGED watchVars)

LoopSpec == LoopInit /\ [][LoopNext]_allVars
FairSpec == LoopSpec /\ Fairness

-----------------------------------------------------------------------------
\* The type invariant of the loop and its watchers.
LoopTypeOK ==
    /\ ViewTypeOK
    /\ checked \in [Tickers -> BOOLEAN] /\ downOnce \in [Tickers -> BOOLEAN]
    /\ watch \in [Tickers -> {"none", "on", "mark", "closed"}]
    /\ {down, overdue, refused, dead} \subseteq BOOLEAN

\* The database counts as down only if the last ping failed or a watcher has found
\* its tick without an answer; the mark may come after the answer, and stays until
\* the next ping.
DownHasCause == down => refused \/ overdue

\* A tick that is over ends, unless the process does: none waits for ever for a
\* watcher that has gone.
TicksEnd == \A k \in Tickers : []<>(at[k] # "stop" \/ dead)

\* While the server runs, views do not stay in their buckets once no more come.
ViewsSettle == []<>(Keys = {} \/ dead \/ at["shutdown"] # "idle")
=============================================================================
