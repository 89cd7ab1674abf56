---------------------------- MODULE WindowBudget ----------------------------
(***************************************************************************)
(* What a sliding window limiter promises, without its bookkeeping: every  *)
(* request that was admitted stays on record for good, and a call is       *)
(* admitted exactly when its requests and those admitted within the window *)
(* that ends now are no more than the bucket's limit.                      *)
(***************************************************************************)
EXTENDS Integers

CONSTANTS
    Peers,
    Buckets,       \* each with a limit of its own
    Costs,         \* how many requests a call asks for
    MaxRequests,   \* limit of each bucket
    MaxTime,       \* bound: the clock stops here
    InWindow(_, _) \* how many requests of a record lie in the window that ends at a time

VARIABLES
    now,       \* the clock
    log,       \* per bucket and peer, how many requests were admitted at each tick
    verdict    \* the last call and what it returned

vars == <<now, log, verdict>>

Times == 0 .. MaxTime

NoVerdict == [ok |-> TRUE, n |-> 0, bucket |-> "none", peer |-> "none"]

Init ==
    /\ now = 0
    /\ log = [b \in Buckets |-> [p \in Peers |-> [t \in Times |-> 0]]]
    /\ verdict = NoVerdict

Tick ==
    /\ now < MaxTime /\ now' = now + 1
    /\ UNCHANGED <<log, verdict>>

\* A call that asks for nothing is always admitted.
HasRoom(b, p, n) == n > 0 => InWindow(log[b][p], now) + n <= MaxRequests[b]

Admit(b, p, n) ==
    /\ HasRoom(b, p, n)
    /\ log' = [log EXCEPT ![b][p][now] = IF n > 0 THEN @ + n ELSE @]
    /\ verdict' = [ok |-> TRUE, n |-> n, bucket |-> b, peer |-> p]
    /\ UNCHANGED now

Refuse(b, p, n) ==
    /\ ~ HasRoom(b, p, n)
    /\ verdict' = [ok |-> FALSE, n |-> n, bucket |-> b, peer |-> p]
    /\ UNCHANGED <<now, log>>

Next ==
    \/ Tick
    \/ \E b \in Buckets, p \in Peers, n \in Costs : Admit(b, p, n) \/ Refuse(b, p, n)

Spec == Init /\ [][Next]_vars
=============================================================================
