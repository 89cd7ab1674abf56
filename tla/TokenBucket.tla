---------------------------- MODULE TokenBucket -----------------------------
(***************************************************************************)
(* middleware.TokenBucket with a positive rate: lazily refilled per-peer   *)
(* buckets in locked shards, and the background sweep that forgets idle    *)
(* peers.                                                                  *)
(*                                                                         *)
(* Time is a tick counter read by time.Now().  Tokens are counted exactly, *)
(* in units of 1/window token: a request of n tokens costs n * window and  *)
(* a tick refills rate units, so rate/window needs no fractions (the code  *)
(* rounds in float64).  AllowNWithRetry holds the shard's lock and reads   *)
(* the clock under it, so it is one step; the sweep reads the clock once   *)
(* and then locks one shard after another.                                 *)
(***************************************************************************)
EXTENDS Integers

CONSTANTS
    Peers,
    Costs,         \* arguments n of AllowN that callers use
    Window,        \* the arguments of NewTokenBucket: window in ticks,
    Rate,          \*   tokens per window,
    Burst,         \*   tokens a quiet peer may accumulate
    Minute,        \* time.Minute in ticks
    Millisecond,   \* time.Millisecond in ticks
    NumShards,     \* len(b.shards)
    ShardOf,       \* fnvHash(key) % shardCount
    MaxTime        \* bound: the clock stops here

ASSUME TokenBucketAssumption ==
    /\ Costs \subseteq Int
    /\ Window \in Int /\ Rate \in Nat \ {0} /\ Burst \in Int
    /\ Minute \in Nat \ {0} /\ Millisecond \in Nat \ {0}
    /\ NumShards \in Nat /\ ShardOf \in [Peers -> 0 .. NumShards - 1]
    /\ MaxTime \in Nat
    /\ "none" \notin Peers

VARIABLES
    now,       \* the clock
    tracked,   \* peers with an entry in their shard's map
    tokens,    \* st.tokens of a tracked peer, 0 otherwise
    last,      \* st.last of a tracked peer, 0 otherwise
    cleaner,   \* the cleanupLoop goroutine
    sweepNow,  \* now of the evictIdle under way
    shard,     \* the shard it locks next
    closed,    \* stopCleanup is closed
    verdict,   \* the last call and what it returned
    owed,      \* history: per peer, the last retry hint not used up yet
    mark,      \* history: an arbitrary moment, chosen at the start
    spent      \* history: units admitted per peer since mark

bucket == <<tracked, tokens, last>>
sweep == <<cleaner, sweepNow, shard, closed>>
history == <<owed, mark, spent>>
vars == <<now, bucket, sweep, verdict, history>>

\* NewTokenBucket's defaults.
window == IF Window <= 0 THEN Minute ELSE Window
burst == IF Burst <= 0 THEN Rate ELSE Burst
Capacity == burst * window
idleTTL == 2 * window

Cost(n) == n * window

AtMost(limit, x) == IF x > limit THEN limit ELSE x

TypeOK ==
    /\ now \in 0 .. MaxTime
    /\ tracked \subseteq Peers
    /\ tokens \in [Peers -> 0 .. Capacity]
    /\ last \in [Peers -> 0 .. MaxTime]
    /\ cleaner \in {"waiting", "sweeping", "exited"}
    /\ sweepNow \in 0 .. MaxTime
    /\ shard \in 0 .. NumShards
    /\ closed \in BOOLEAN
    /\ verdict \in [peer : Peers \cup {"none"}, n : Costs \cup {0}, ok : BOOLEAN, wait : Nat]
    /\ owed \in [Peers -> [n : Costs \cup {0}, due : Nat]]
    /\ mark \in 0 .. MaxTime
    /\ spent \in [Peers -> Nat]

Init ==
    /\ now = 0
    /\ tracked = {} /\ tokens = [p \in Peers |-> 0] /\ last = [p \in Peers |-> 0]
    /\ cleaner = "waiting" /\ sweepNow = 0 /\ shard = 0 /\ closed = FALSE
    /\ verdict = [peer |-> "none", n |-> 0, ok |-> TRUE, wait |-> 0]
    /\ owed = [p \in Peers |-> [n |-> 0, due |-> 0]]
    /\ mark \in 0 .. MaxTime
    /\ spent = [p \in Peers |-> 0]

Tick ==
    /\ now < MaxTime
    /\ now' = now + 1
    /\ UNCHANGED <<bucket, sweep, verdict, history>>

----------------------------------------------------------------------------
(* AllowNWithRetry *)

\* The tokens of p's entry brought up to date at time t.
Refilled(p, t) == AtMost(Capacity, tokens[p] + (t - last[p]) * Rate)

\* What the bucket of p holds now; a peer without an entry starts full.
Level(p) == IF p \in tracked THEN Refilled(p, now) ELSE Capacity

\* time.Duration.Round: to the nearest multiple of m, halves away from zero.
Round(d, m) == IF 2 * (d % m) < m THEN d - (d % m) ELSE d - (d % m) + m

\* A bug: the millisecond that makes up for rounding down is missing.
refillWaitRounded(shortfall) ==
    IF shortfall \div Rate <= 0 THEN Millisecond
    ELSE Round(shortfall \div Rate, Millisecond)

refillWait(shortfall) ==
    IF shortfall \div Rate <= 0 THEN Millisecond
    ELSE Round(shortfall \div Rate, Millisecond) + Millisecond

Answer(p, n, ok, wait) == verdict' = [peer |-> p, n |-> n, ok |-> ok, wait |-> wait]

\* n <= 0: nothing to charge.
AllowFree(p, n) ==
    /\ n <= 0
    /\ Answer(p, n, TRUE, 0)
    /\ UNCHANGED <<now, bucket, sweep, history>>

\* The cost exceeds the whole bucket: refused without touching it.
AllowTooLarge(p, n) ==
    /\ n > 0 /\ Cost(n) > Capacity
    /\ Answer(p, n, FALSE, 0)
    /\ UNCHANGED <<now, bucket, sweep, history>>

Charged(p, level) ==
    /\ tracked' = tracked \cup {p}
    /\ tokens' = [tokens EXCEPT ![p] = level]
    /\ last' = [last EXCEPT ![p] = now]

AllowOk(p, n) ==
    /\ n > 0 /\ Cost(n) <= Capacity
    /\ Level(p) >= Cost(n)
    /\ Charged(p, Level(p) - Cost(n))
    /\ Answer(p, n, TRUE, 0)
    /\ owed' = [owed EXCEPT ![p] = [n |-> 0, due |-> 0]]
    /\ spent' = [spent EXCEPT ![p] = IF now >= mark THEN @ + Cost(n) ELSE @]
    /\ UNCHANGED <<now, sweep, mark>>

\* A bug: a rejected call stores the refilled tokens but not the time of the refill.
RejectedKeepsLast(p) ==
    /\ tracked' = tracked \cup {p}
    /\ tokens' = [tokens EXCEPT ![p] = Level(p)]
    /\ last' = IF p \in tracked THEN last ELSE [last EXCEPT ![p] = now]

\* A rejected call leaves the refilled bucket behind.
Rejected(p) == Charged(p, Level(p))

AllowRejected(p, n) ==
    /\ n > 0 /\ Cost(n) <= Capacity
    /\ Level(p) < Cost(n)
    /\ Rejected(p)
    /\ LET wait == refillWait(Cost(n) - Level(p))
       IN  /\ Answer(p, n, FALSE, wait)
           /\ owed' = [owed EXCEPT ![p] = [n |-> n, due |-> now + wait]]
    /\ UNCHANGED <<now, sweep, mark, spent>>

AllowN(p, n) ==
    AllowFree(p, n) \/ AllowTooLarge(p, n) \/ AllowOk(p, n) \/ AllowRejected(p, n)

----------------------------------------------------------------------------
(* cleanupLoop *)

\* The ticker fires; evictIdle reads the clock once for all the shards.
SweepBegins ==
    /\ cleaner = "waiting" /\ cleaner' = "sweeping"
    /\ sweepNow' = now
    /\ shard' = 0
    /\ UNCHANGED <<now, bucket, closed, verdict, history>>

\* A bug: idle peers are forgotten whether or not their buckets have refilled.
EvictableIdle(p) == p \in tracked /\ sweepNow - last[p] >= idleTTL

Evictable(p) ==
    /\ p \in tracked
    /\ sweepNow - last[p] >= idleTTL
    /\ tokens[p] + (sweepNow - last[p]) * Rate >= Capacity

ShardsLeft == shard < NumShards

EvictShard ==
    /\ cleaner = "sweeping" /\ ShardsLeft
    /\ LET gone == {p \in Peers : ShardOf[p] = shard /\ Evictable(p)}
       IN  /\ tracked' = tracked \ gone
           /\ tokens' = [p \in Peers |-> IF p \in gone THEN 0 ELSE tokens[p]]
           /\ last' = [p \in Peers |-> IF p \in gone THEN 0 ELSE last[p]]
    /\ shard' = shard + 1
    /\ UNCHANGED <<now, cleaner, sweepNow, closed, verdict, history>>

SweepEnds ==
    /\ cleaner = "sweeping" /\ ~ ShardsLeft
    /\ cleaner' = "waiting"
    /\ sweepNow' = 0 /\ shard' = 0
    /\ UNCHANGED <<now, bucket, closed, verdict, history>>

\* Close, any number of times (closeOnce).
Close ==
    /\ closed' = TRUE
    /\ UNCHANGED <<now, bucket, cleaner, sweepNow, shard, verdict, history>>

CleanerExits ==
    /\ cleaner = "waiting" /\ closed
    /\ cleaner' = "exited"
    /\ UNCHANGED <<now, bucket, sweepNow, shard, closed, verdict, history>>

----------------------------------------------------------------------------

Sweep == SweepBegins \/ EvictShard \/ SweepEnds \/ CleanerExits

Next ==
    \/ Tick
    \/ \E p \in Peers, n \in Costs : AllowN(p, n)
    \/ Sweep
    \/ Close

Spec == Init /\ [][Next]_vars

----------------------------------------------------------------------------
(* Properties *)

(* "rounding down would hand back a wait that is still too short": a peer that *)
(* waits as long as its rejection said, without being admitted in between, has *)
(* the tokens for the same request, whether or not it was evicted meanwhile.   *)
RetryHintHonoured ==
    \A p \in Peers : now >= owed[p].due => Level(p) >= Cost(owed[p].n)

(* From any moment on, a peer is admitted no more than a full bucket and what  *)
(* flowed in since: neither a forgotten entry nor a refill mints tokens.       *)
SustainedRate ==
    \A p \in Peers : now >= mark => spent[p] <= Capacity + (now - mark) * Rate

(* Forgetting a peer "changes no decision": with its lazy refill and its sweep *)
(* the limiter implements the budget in which no peer is ever forgotten.       *)
Budget == INSTANCE PeerBudget WITH
            level <- [p \in Peers |-> Level(p)], Inflow <- Rate, CostOf <- Cost
ForgettingChangesNoDecision == Budget!Spec
=============================================================================
