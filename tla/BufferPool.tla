----------------------------- MODULE BufferPool -----------------------------
(***************************************************************************)
(* codec.BufferPool: byte arrays recycled through one sync.Pool per size   *)
(* tier, each lent out inside a PoolBuffer that any number of goroutines   *)
(* may Release any number of times.  A sync.Pool is external: Get returns  *)
(* any item that was Put, or a new one, and items may be dropped at any    *)
(* time.  The Hits and Misses counters, which no path reads, are left out. *)
(***************************************************************************)
EXTENDS Integers, FiniteSets

CONSTANTS
    Buffers,     \* bound: the PoolBuffers of a behaviour
    Arrays,      \* bound: the arrays the sync.Pools can allocate
    Asked,       \* sizes asked for
    TierSize     \* tierSmall, tierMedium, tierLarge

ASSUME BufferPoolAssumption ==
    /\ Asked \subseteq Nat
    /\ TierSize \in [0 .. 2 -> Nat \ {0}]
    /\ TierSize[0] < TierSize[1] /\ TierSize[1] < TierSize[2]
    /\ "none" \notin Arrays

VARIABLES
    capacity,  \* the capacity of each allocated array, 0 before
    free,      \* per tier, how many times each array sits in its sync.Pool
    buf,       \* the PoolBuffers: data (an array), length, tier
    state      \* of each PoolBuffer: not handed out, lent, releasing, released

poolVars == <<capacity, free, buf, state>>

NoBuffer == [data |-> "none", size |-> 0, tier |-> -1]

PoolTypeOK ==
    /\ capacity \in [Arrays -> {0, TierSize[0], TierSize[1], TierSize[2]}]
    /\ free \in [0 .. 2 -> [Arrays -> Nat]]
    /\ buf \in [Buffers -> [data : Arrays \cup {"none"}, size : Asked \cup {0}, tier : -1 .. 2]]
    /\ \A b \in Buffers : buf[b].tier = -1 <=> buf[b].data = "none"
    /\ state \in [Buffers -> {"unused", "lent", "releasing", "released"}]

PoolInit ==
    /\ capacity = [a \in Arrays |-> 0]
    /\ free = [t \in 0 .. 2 |-> [a \in Arrays |-> 0]]
    /\ buf = [b \in Buffers |-> NoBuffer]
    /\ state = [b \in Buffers |-> "unused"]

TierOf(size) ==
    IF size <= TierSize[0] THEN 0
    ELSE IF size <= TierSize[1] THEN 1
    ELSE IF size <= TierSize[2] THEN 2 ELSE -1

Lend(b, a, size) ==
    /\ state[b] = "unused" /\ state' = [state EXCEPT ![b] = "lent"]
    /\ buf' = [buf EXCEPT ![b] = [data |-> a, size |-> size, tier |-> TierOf(size)]]

\* Get finds an array in the tier's sync.Pool ...
GetPooled(b, a, size) ==
    LET t == TierOf(size) IN
    /\ t # -1
    /\ free[t][a] > 0 /\ free' = [free EXCEPT ![t][a] = @ - 1]
    /\ Lend(b, a, size)
    /\ UNCHANGED capacity

\* ... or has it make one ...
GetNew(b, a, size) ==
    LET t == TierOf(size) IN
    /\ t # -1
    /\ capacity[a] = 0 /\ capacity' = [capacity EXCEPT ![a] = TierSize[t]]
    /\ Lend(b, a, size)
    /\ UNCHANGED free

\* ... or allocates outside the pools.
GetUnmanaged(b, size) ==
    /\ TierOf(size) = -1
    /\ Lend(b, "none", size)
    /\ UNCHANGED <<capacity, free>>

\* A bug: Release puts the array back without looking at released.
WinsSwapAlways(b) == TRUE

\* released.CompareAndSwap(false, true)
WinsSwap(b) == state[b] = "lent"

\* Release by any goroutine that has the buffer; only the first goes on.
Release(b) ==
    /\ state[b] # "unused"
    /\ WinsSwap(b)
    /\ state' = [state EXCEPT ![b] = "releasing"]
    /\ UNCHANGED <<capacity, free, buf>>

\* A bug: medium buffers are put with the large ones.
PutTierMixed(b) == IF buf[b].tier = 1 THEN 2 ELSE buf[b].tier

PutTier(b) == buf[b].tier

\* Put data[:cap(data)] into the sync.Pool of the buffer's tier.
Put(b) ==
    /\ state[b] = "releasing" /\ state' = [state EXCEPT ![b] = "released"]
    /\ free' = IF PutTier(b) = -1 THEN free ELSE [free EXCEPT ![PutTier(b)][buf[b].data] = @ + 1]
    /\ UNCHANGED <<capacity, buf>>

\* The garbage collector empties a place of a sync.Pool.
Drop(t, a) ==
    /\ free[t][a] > 0 /\ free' = [free EXCEPT ![t][a] = @ - 1]
    /\ UNCHANGED <<capacity, buf, state>>

PoolNext ==
    \/ \E b \in Buffers, size \in Asked :
         \/ GetUnmanaged(b, size)
         \/ \E a \in Arrays : GetPooled(b, a, size) \/ GetNew(b, a, size)
    \/ \E b \in Buffers : Release(b) \/ Put(b)
    \/ \E t \in 0 .. 2, a \in Arrays : Drop(t, a)

PoolSpec == PoolInit /\ [][PoolNext]_poolVars

----------------------------------------------------------------------------
(* Properties *)

\* The PoolBuffers that stand for the array a and have not put it back.
Holders(a) == {b \in Buffers : state[b] \in {"lent", "releasing"} /\ buf[b].data = a}

(* No array is in two hands: it has one holder that has not released it, or    *)
(* lies in one sync.Pool once, never both, however often and by whomever the   *)
(* PoolBuffers that carried it are released ("Safe to call multiple times").   *)
ExclusiveArrays ==
    \A a \in Arrays :
        /\ \A b, c \in Holders(a) : b = c
        /\ free[0][a] + free[1][a] + free[2][a] <= IF Holders(a) = {} THEN 1 ELSE 0

(* The array of a lent buffer has room for the size asked for, also after it   *)
(* has gone through the pool for other sizes: Get never slices out of range.   *)
ArraysFit ==
    \A b \in Buffers :
        (state[b] = "lent" /\ buf[b].data # "none") => buf[b].size <= capacity[buf[b].data]
=============================================================================
