--------------------------- MODULE SlidingWindow ----------------------------
(***************************************************************************)
(* middleware.SingleBucket: a per-peer sliding window limiter in locked    *)
(* shards, with a background sweep, and DualBucket, which is two of them   *)
(* side by side (Buckets has one member or two).                           *)
(*                                                                         *)
(* Time is a tick counter.  A slice of time stamps is the number of        *)
(* requests recorded at each tick; a key that is absent from the map and a *)
(* key with an empty slice are the same to every caller.                   *)
(***************************************************************************)
EXTENDS Integers, FiniteSets

CONSTANTS
    Peers,
    Buckets,       \* {"only"}, or {"read", "write"} for a DualBucket
    Costs,         \* arguments n of AllowN that callers use
    Window,        \* window, in ticks
    MaxRequests,   \* maxRequests of each bucket
    NumShards,     \* len(b.shards)
    ShardOf,       \* fnvHash(key) % shardCount
    MaxTime        \* bound: the clock stops here

ASSUME SlidingWindowAssumption ==
    /\ Costs \subseteq Int
    /\ Window \in Nat \ {0} /\ MaxRequests \in [Buckets -> Int]
    /\ NumShards \in Nat /\ ShardOf \in [Peers -> 0 .. NumShards - 1]
    /\ MaxTime \in Nat

VARIABLES
    now,       \* the clock
    history,   \* per bucket and peer, how many requests each tick has on record
    cutoff,    \* per bucket, cutoff of the cleanup under way
    shard,     \* per bucket, the shard it locks next; NumShards between cleanups
    log,       \* history: the requests admitted at each tick, nothing forgotten
    verdict    \* the last call and what it returned

vars == <<now, history, cutoff, shard, log, verdict>>

Times == 0 .. MaxTime
Record == [Times -> Nat]
Nothing == [t \in Times |-> 0]

\* The time stamps of a record from the given times, the i-th of its time each.
Stamps(record, times) == UNION {{<<t, i>> : i \in 1 .. record[t]} : t \in times}

NoVerdict == [ok |-> TRUE, n |-> 0, bucket |-> "none", peer |-> "none"]

TypeOK ==
    /\ now \in Times
    /\ history \in [Buckets -> [Peers -> Record]]
    /\ cutoff \in [Buckets -> - Window .. MaxTime]
    /\ shard \in [Buckets -> 0 .. NumShards]
    /\ log \in [Buckets -> [Peers -> Record]]
    /\ verdict.ok \in BOOLEAN /\ verdict.n \in Costs \cup {0}

Init ==
    /\ now = 0
    /\ history = [b \in Buckets |-> [p \in Peers |-> Nothing]]
    /\ cutoff = [b \in Buckets |-> 0]
    /\ shard = [b \in Buckets |-> NumShards]
    /\ log = history
    /\ verdict = NoVerdict

Tick ==
    /\ now < MaxTime
    /\ now' = now + 1
    /\ UNCHANGED <<history, cutoff, shard, log, verdict>>

\* A bug: a request exactly one window old still counts.
FilteredInclusive(record, cut) == [t \in Times |-> IF t >= cut THEN record[t] ELSE 0]

\* The time stamps ts of a record with ts.After(cut).
Filtered(record, cut) == [t \in Times |-> IF t > cut THEN record[t] ELSE 0]

Answer(b, p, n, ok) == verdict' = [ok |-> ok, n |-> n, bucket |-> b, peer |-> p]

\* AllowN, under the shard's lock.  n <= 0 changes nothing.
AllowFree(b, p, n) ==
    /\ n <= 0
    /\ Answer(b, p, n, TRUE)
    /\ UNCHANGED <<now, history, cutoff, shard, log>>

\* len(filtered)
Length(record) == Cardinality(Stamps(record, Times))

Fits(b, record, n) == Length(record) + n <= MaxRequests[b]

AllowN(b, p, n) ==
    /\ n > 0
    /\ LET filtered == Filtered(history[b][p], now - Window)
           ok == Fits(b, filtered, n)
       IN  /\ history' = [history EXCEPT ![b][p] =
                            IF ok THEN [filtered EXCEPT ![now] = @ + n] ELSE filtered]
           /\ log' = [log EXCEPT ![b][p][now] = IF ok THEN @ + n ELSE @]
           /\ Answer(b, p, n, ok)
    /\ UNCHANGED <<now, cutoff, shard>>

\* The ticker fires; cleanup reads the clock once for all the shards.
CleanupBegins(b) ==
    /\ shard[b] = NumShards
    /\ cutoff' = [cutoff EXCEPT ![b] = now - Window]
    /\ shard' = [shard EXCEPT ![b] = 0]
    /\ UNCHANGED <<now, history, log, verdict>>

\* A bug: a peer whose oldest time stamp is stale is deleted with all the others.
KeptAllOrNothing(record, cut) ==
    IF \E t \in Times : t <= cut /\ record[t] > 0 THEN Nothing ELSE record

\* What cleanup leaves of a record; one with nothing left is deleted.
Kept(record, cut) == Filtered(record, cut)

ShardsLeft(b) == shard[b] < NumShards

CleanupShard(b) ==
    /\ ShardsLeft(b)
    /\ history' = [history EXCEPT ![b] = [p \in Peers |->
                     IF ShardOf[p] = shard[b] THEN Kept(@[p], cutoff[b]) ELSE @[p]]]
    /\ shard' = [shard EXCEPT ![b] = @ + 1]
    /\ UNCHANGED <<now, cutoff, log, verdict>>

Next ==
    \/ Tick
    \/ \E b \in Buckets, p \in Peers, n \in Costs : AllowFree(b, p, n) \/ AllowN(b, p, n)
    \/ \E b \in Buckets : CleanupBegins(b) \/ CleanupShard(b)

Spec == Init /\ [][Next]_vars

----------------------------------------------------------------------------
(* Properties *)

\* The window that ends at t.
WindowTo(t) == {u \in Times : t - Window < u /\ u <= t}

\* The requests of a record in the window that ends at t.
InWindow(record, t) == Cardinality(Stamps(record, WindowTo(t)))

(* "allows maxRequests within each sliding window": in no window, ending at    *)
(* any moment so far, were more requests admitted, whatever the cleanup        *)
(* forgot with a cutoff computed earlier.                                      *)
WindowRespected ==
    \A b \in Buckets, p \in Peers, t \in 0 .. now :
        LET used == InWindow(log[b][p], t) IN used = 0 \/ used <= MaxRequests[b]

(* A call is admitted exactly when the window that ends now has room for all  *)
(* of it: time stamps that AllowN and the cleanup drop, refused calls, other   *)
(* peers and the other bucket change no decision, since with all of them the   *)
(* limiter implements the one that keeps every request on record.              *)
Whole == INSTANCE WindowBudget
ForgettingChangesNoAnswer == Whole!Spec
=============================================================================
