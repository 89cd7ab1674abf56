------------------------------- MODULE Ticker -------------------------------
(***************************************************************************)
(* service.TickerService: every Start begins a loop that runs the work     *)
(* function at once and then at each tick, until its context is cancelled; *)
(* Stop cancels the context of the last Start and does not wait, so that   *)
(* the loop of an earlier Start may still be at work during the next.      *)
(***************************************************************************)
EXTENDS Integers

CONSTANT MaxStarts   \* bound: calls of Start

ASSUME TickerAssumption == MaxStarts \in Nat

Loops == 1 .. MaxStarts

VARIABLES
    starts,    \* calls of Start so far; the last one's loop is the one ts.cancel ends
    loop,      \* where the goroutine of each Start stands
    done,      \* its context is cancelled
    tick,      \* its ticker.C: not made yet, empty, or holding a tick
    outcome,   \* how its last call of work ended
    healthy,   \* ts.healthy
    lastErr    \* ts.lastErr

report == <<healthy, lastErr>>
vars == <<starts, loop, done, tick, outcome, report>>

TypeOK ==
    /\ starts \in 0 .. MaxStarts
    /\ loop \in [Loops -> {"none", "work", "record", "recover", "select", "exited"}]
    /\ \A l \in Loops : loop[l] # "none" <=> l <= starts
    /\ done \in [Loops -> BOOLEAN] /\ tick \in [Loops -> {"none", "empty", "full"}]
    /\ outcome \in [Loops -> {"nil", "error", "panic"}]
    /\ healthy \in BOOLEAN
    /\ lastErr \in {"nil", "error", "panic"}

Init ==
    /\ starts = 0
    /\ loop = [l \in Loops |-> "none"]
    /\ done = [l \in Loops |-> FALSE] /\ tick = [l \in Loops |-> "none"]
    /\ outcome = [l \in Loops |-> "nil"]
    /\ healthy = TRUE /\ lastErr = "nil"

Goto(l, from, to) == loop[l] = from /\ loop' = [loop EXCEPT ![l] = to]

\* ts.cancel is overwritten, and the loop begins with runOnce.
Start ==
    /\ starts < MaxStarts /\ starts' = starts + 1
    /\ Goto(starts + 1, "none", "work")
    /\ UNCHANGED <<done, tick, outcome, report>>

Stop ==
    /\ starts > 0
    /\ done' = [done EXCEPT ![starts] = TRUE]
    /\ UNCHANGED <<starts, loop, tick, outcome, report>>

\* The context handed to Start is cancelled, and with it those of all loops so far.
ParentCancelled ==
    /\ done' = [l \in Loops |-> done[l] \/ l <= starts]
    /\ UNCHANGED <<starts, loop, tick, outcome, report>>

\* The channel holds one tick; further ones are dropped.
Fires(l) ==
    /\ loop[l] # "exited"
    /\ tick[l] = "empty" /\ tick' = [tick EXCEPT ![l] = "full"]
    /\ UNCHANGED <<starts, loop, done, outcome, report>>

\* work returns nil or an error, or panics.
WorkEnds(l) ==
    \E o \in {"nil", "error", "panic"} :
        /\ Goto(l, "work", IF o = "panic" THEN "recover" ELSE "record")
        /\ outcome' = [outcome EXCEPT ![l] = o]
        /\ UNCHANGED <<starts, done, tick, report>>

\* time.NewTicker, after the first runOnce.  The interval is positive: any other makes
\* NewTicker panic here, outside the recover of runOnce, and ends the process.
MakeTicker(l) == tick' = [tick EXCEPT ![l] = IF @ = "none" THEN "empty" ELSE @]

Record(l) ==
    /\ Goto(l, "record", "select")
    /\ lastErr' = outcome[l]
    /\ healthy' = (outcome[l] = "nil")
    /\ MakeTicker(l)
    /\ outcome' = [outcome EXCEPT ![l] = "nil"]
    /\ UNCHANGED <<starts, done>>

\* The deferred recover.
Recover(l) ==
    /\ Goto(l, "recover", "select")
    /\ lastErr' = "panic" /\ healthy' = FALSE
    /\ MakeTicker(l)
    /\ outcome' = [outcome EXCEPT ![l] = "nil"]
    /\ UNCHANGED <<starts, done>>

\* A bug: the loop does not listen to its context.
SeesDoneNever(l) == FALSE

SeesDone(l) == done[l]

Exit(l) ==
    /\ SeesDone(l)
    /\ Goto(l, "select", "exited")
    /\ tick' = [tick EXCEPT ![l] = "none"]
    /\ UNCHANGED <<starts, done, outcome, report>>

\* Ready at the same time as ctx.Done(), a tick may be the one select takes.
Ticks(l) ==
    /\ tick[l] = "full" /\ tick' = [tick EXCEPT ![l] = "empty"]
    /\ Goto(l, "select", "work")
    /\ UNCHANGED <<starts, done, outcome, report>>

Runs(l) == WorkEnds(l) \/ Record(l) \/ Recover(l) \/ Ticks(l)

Next ==
    \/ Start \/ Stop \/ ParentCancelled
    \/ \E l \in Loops : Fires(l) \/ Runs(l) \/ Exit(l)

\* work returns, the ticker fires, and a select that finds ctx.Done() ready again
\* and again takes it at some point, since it chooses at random.
Fairness ==
    \A l \in Loops : WF_vars(Runs(l)) /\ WF_vars(Fires(l)) /\ SF_vars(Exit(l))

Spec == Init /\ [][Next]_vars /\ Fairness

----------------------------------------------------------------------------
(* Properties *)

(* A loop whose context is cancelled ends, even if a tick is ready each time   *)
(* it looks, and even if another Start has begun since.                        *)
CancelledLoopEnds ==
    \A l \in Loops : (done[l] /\ loop[l] # "none") ~> loop[l] = "exited"
=============================================================================
