----------------------------- MODULE PeerBudget -----------------------------
(***************************************************************************)
(* What a token bucket limiter promises, without its bookkeeping: every    *)
(* peer has a level that rises with time up to Capacity, a request is      *)
(* admitted exactly when the level covers its cost, and a rejection names  *)
(* a wait after which the level would cover it, or no wait at all when no  *)
(* wait would do.  No peer is ever forgotten.                              *)
(***************************************************************************)
EXTENDS Integers

CONSTANTS
    Peers,
    Costs,      \* the request sizes, in tokens
    Capacity,   \* the level of a peer that has been quiet for long
    Inflow,     \* how much the level rises per tick
    CostOf(_)   \* the level a request of n tokens takes

VARIABLES level, verdict

vars == <<level, verdict>>

AtMost(limit, x) == IF x > limit THEN limit ELSE x

NoVerdict == [peer |-> "none", n |-> 0, ok |-> TRUE, wait |-> 0]

Init ==
    /\ level = [p \in Peers |-> Capacity]
    /\ verdict = NoVerdict

Tick ==
    /\ level' = [p \in Peers |-> AtMost(Capacity, level[p] + Inflow)]
    /\ UNCHANGED verdict

Admit(p, n) ==
    /\ n > 0 => level[p] >= CostOf(n)
    /\ level' = [level EXCEPT ![p] = IF n > 0 THEN @ - CostOf(n) ELSE @]
    /\ verdict' = [peer |-> p, n |-> n, ok |-> TRUE, wait |-> 0]

Reject(p, n, wait) ==
    /\ n > 0 /\ level[p] < CostOf(n)
    /\ IF CostOf(n) > Capacity
         THEN wait = 0
         ELSE wait > 0 /\ level[p] + wait * Inflow >= CostOf(n)
    /\ verdict' = [peer |-> p, n |-> n, ok |-> FALSE, wait |-> wait]
    /\ UNCHANGED level

Next ==
    \/ Tick
    \/ \E p \in Peers, n \in Costs :
         Admit(p, n) \/ Reject(p, n, verdict'.wait)

Spec == Init /\ [][Next]_vars
=============================================================================
