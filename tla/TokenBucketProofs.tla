------------------------- MODULE TokenBucketProofs --------------------------
EXTENDS TokenBucket, TLAPS

(* The derived constants of NewTokenBucket are positive.                       *)
LEMMA Constants ==
    /\ window \in Nat \ {0} /\ burst \in Nat \ {0}
    /\ Capacity \in Nat \ {0} /\ idleTTL \in Nat /\ Rate \in Nat \ {0}
    /\ \A n \in Int : Cost(n) \in Int /\ (n > 0 => Cost(n) > 0)
    /\ Cost(0) = 0
<1>1. window \in Nat \ {0} /\ burst \in Nat \ {0} /\ Rate \in Nat \ {0}
  BY TokenBucketAssumption DEF window, burst
<1>2. Capacity \in Nat \ {0}
  <2>1. \A a, b \in Nat \ {0} : a * b \in Nat \ {0}
    OBVIOUS
  <2> QED BY <1>1, <2>1 DEF Capacity
<1>3. ASSUME NEW n \in Int PROVE Cost(n) \in Int /\ (n > 0 => Cost(n) > 0)
  BY <1>1 DEF Cost
<1> QED BY <1>1, <1>2, <1>3 DEF idleTTL, Cost

(* "rounds up to the millisecond": the wait of a rejection is positive and     *)
(* refills at least the shortfall.                                             *)
LEMMA WaitCoversShortfall ==
    ASSUME NEW sf \in Nat, sf > 0
    PROVE  refillWait(sf) \in Nat \ {0} /\ refillWait(sf) * Rate >= sf
<1> DEFINE d == sf \div Rate
           r == d % Millisecond
<1>0. Rate \in Nat \ {0} /\ Millisecond \in Nat \ {0}
  BY TokenBucketAssumption
<1>1. d \in Nat /\ sf < (d + 1) * Rate
  BY <1>0
<1>2. r \in 0 .. Millisecond - 1 /\ r <= d
  BY <1>0, <1>1
<1>3. refillWait(sf) \in Nat /\ refillWait(sf) >= d + 1
  <2>1. CASE d <= 0
    BY <1>0, <1>1, <2>1 DEF refillWait
  <2>2. CASE d > 0
    <3>1. refillWait(sf) = Round(d, Millisecond) + Millisecond
      BY <2>2, <1>1 DEF refillWait
    <3>2. Round(d, Millisecond) = IF 2 * r < Millisecond THEN d - r ELSE d - r + Millisecond
      BY DEF Round
    <3> HIDE DEF d, r
    <3> QED BY <1>0, <1>1, <1>2, <3>1, <3>2
  <2> QED BY <1>1, <2>1, <2>2
<1>4. \A a, b, c \in Nat : a >= b => a * c >= b * c
  OBVIOUS
<1> HIDE DEF d
<1>5. refillWait(sf) * Rate >= (d + 1) * Rate
  BY <1>0, <1>1, <1>3, <1>4
<1>6. refillWait(sf) * Rate \in Int /\ (d + 1) * Rate \in Int
  BY <1>0, <1>1, <1>3
<1> QED BY <1>1, <1>3, <1>5, <1>6

(* "rounds up to the millisecond" costs a peer little: the wait it is told     *)
(* exceeds the time its shortfall takes to refill by at most one and a half    *)
(* milliseconds, half of one from Round and one that refillWait adds.          *)
THEOREM RetryHintIsTight ==
    \A sf \in Nat \ {0} : (2 * refillWait(sf) - 3 * Millisecond) * Rate <= 2 * sf
<1> SUFFICES ASSUME NEW sf \in Nat \ {0}
             PROVE  (2 * refillWait(sf) - 3 * Millisecond) * Rate <= 2 * sf
  OBVIOUS
<1>0. Rate \in Nat \ {0} /\ Millisecond \in Nat \ {0}
  BY TokenBucketAssumption
<1>1. PICK d \in Nat : d = sf \div Rate /\ d * Rate <= sf
  <2>1. sf \div Rate \in Nat /\ (sf \div Rate) * Rate <= sf
    BY <1>0
  <2> QED BY <2>1
<1>2. PICK r \in 0 .. Millisecond - 1 : r = d % Millisecond
  <2>1. d % Millisecond \in 0 .. Millisecond - 1
    BY <1>0
  <2> QED BY <2>1
<1>3. PICK w \in Int : w = refillWait(sf) /\ 2 * w <= 2 * d + 3 * Millisecond
  <2>1. CASE d <= 0
    BY <1>0, <1>1, <2>1 DEF refillWait
  <2>2. CASE d > 0
    <3>1. refillWait(sf) = Round(d, Millisecond) + Millisecond
      BY <1>1, <2>2 DEF refillWait
    <3>2. Round(d, Millisecond) = IF 2 * r < Millisecond THEN d - r ELSE d - r + Millisecond
      BY <1>2 DEF Round
    <3> QED BY <1>0, <1>1, <1>2, <3>1, <3>2
  <2> QED BY <1>1, <2>1, <2>2
<1>4. PICK k \in Nat : 2 * d = (2 * w - 3 * Millisecond) + k
  <2>1. 2 * d - (2 * w - 3 * Millisecond) \in Nat
    BY <1>0, <1>3
  <2> QED BY <1>0, <1>1, <1>3, <2>1
<1>5. PICK e \in Int : e = 2 * w - 3 * Millisecond
  <2>1. 2 * w - 3 * Millisecond \in Int
    BY <1>0
  <2> QED BY <2>1
<1>6. (2 * d) * Rate = e * Rate + k * Rate /\ k * Rate \in Nat /\ e * Rate \in Int
  BY <1>0, <1>4, <1>5
<1>7. (2 * d) * Rate = 2 * (d * Rate) /\ d * Rate \in Nat
  BY <1>0
<1>8. e * Rate <= 2 * sf
  BY <1>1, <1>6, <1>7
<1> QED BY <1>3, <1>5, <1>8

----------------------------------------------------------------------------
(* What each step does to the level of a bucket *)

(* No entry is dated in the future, and neither is the sweep under way.        *)
Dated ==
    /\ sweepNow <= now
    /\ \A p \in tracked : last[p] <= now

(* A bucket holds between nothing and Capacity, refilled or not.             *)
LEMMA LevelType ==
    ASSUME TypeOK, Dated, NEW p \in Peers
    PROVE  Level(p) \in 0 .. Capacity
<1>1. Capacity \in Nat /\ Rate \in Nat
  BY Constants
<1>2. ASSUME p \in tracked
      PROVE  tokens[p] \in Nat /\ (now - last[p]) * Rate \in Nat
  <2>1. now - last[p] \in Nat /\ tokens[p] \in Nat
    BY <1>1, <1>2, TokenBucketAssumption DEF TypeOK, Dated
  <2> QED BY <1>1, <2>1
<1> QED BY <1>1, <1>2 DEF Level, Refilled, AtMost

(* A tick lets Rate units into every bucket that is not full.                  *)
LEMMA LevelTick ==
    ASSUME TypeOK, Dated, Tick, NEW p \in Peers
    PROVE  Level(p)' = AtMost(Capacity, Level(p) + Rate)
<1>1. Capacity \in Nat /\ Rate \in Nat
  BY Constants
<1>2. CASE p \notin tracked
  BY <1>1, <1>2 DEF Level, AtMost, Tick, bucket
<1>3. CASE p \in tracked
  <2>1. now - last[p] \in Nat /\ tokens[p] \in Nat /\ now \in Nat /\ last[p] \in Nat
    BY <1>1, <1>3, TokenBucketAssumption DEF TypeOK, Dated
  <2>2. (now + 1 - last[p]) * Rate = (now - last[p]) * Rate + Rate
    BY <1>1, <2>1
  <2>3. (now - last[p]) * Rate \in Nat
    BY <1>1, <2>1
  <2> QED BY <1>1, <1>3, <2>1, <2>2, <2>3 DEF Level, Refilled, AtMost, Tick, bucket
<1> QED BY <1>2, <1>3

(* A request leaves the bucket it asked at the level it computed, and only     *)
(* that one changes.                                                           *)
LEMMA LevelCharged ==
    ASSUME TypeOK, Dated, NEW p \in Peers, NEW lev \in 0 .. Capacity,
           Charged(p, lev), now' = now, NEW q \in Peers
    PROVE  Level(q)' = IF q = p THEN lev ELSE Level(q)
<1>1. Capacity \in Nat /\ Rate \in Nat
  BY Constants
<1>2. CASE q = p
  <2>1. p \in tracked' /\ tokens'[p] = lev /\ last'[p] = now /\ now \in Int
    BY TokenBucketAssumption DEF Charged, TypeOK
  <2>2. (now' - last'[p]) * Rate = 0
    BY <1>1, <2>1
  <2> QED BY <1>1, <1>2, <2>1, <2>2 DEF Level, Refilled, AtMost
<1>3. CASE q # p
  BY <1>3 DEF Charged, TypeOK, Level, Refilled
<1> QED BY <1>2, <1>3

(* The sweep forgets only buckets that are full by now: no level changes.      *)
LEMMA LevelEvict ==
    ASSUME TypeOK, Dated, EvictShard, NEW p \in Peers
    PROVE  Level(p)' = Level(p)
<1>1. Capacity \in Nat /\ Rate \in Nat
  BY Constants
<1>2. CASE p \in tracked /\ p \notin tracked'
  <2>1. Evictable(p)
    BY <1>2 DEF EvictShard
  <2>2. /\ tokens[p] \in Nat /\ last[p] \in Nat /\ now \in Nat /\ sweepNow \in Nat
        /\ last[p] <= sweepNow /\ sweepNow <= now
    <3>1. idleTTL \in Nat
      BY Constants
    <3> QED BY <2>1, <3>1, TokenBucketAssumption DEF TypeOK, Dated, Evictable
  <2>3. (now - last[p]) * Rate \in Nat /\ (sweepNow - last[p]) * Rate \in Nat
    BY <1>1, <2>2
  <2>4. (now - last[p]) * Rate >= (sweepNow - last[p]) * Rate
    <3>1. \A a, b, c \in Nat : a >= b => a * c >= b * c
      OBVIOUS
    <3> QED BY <1>1, <2>2, <3>1
  <2>5. tokens[p] + (sweepNow - last[p]) * Rate >= Capacity
    BY <2>1 DEF Evictable
  <2>6. Level(p) = Capacity
    <3> DEFINE x == (now - last[p]) * Rate
               y == (sweepNow - last[p]) * Rate
    <3>1. x \in Nat /\ y \in Nat /\ x >= y /\ tokens[p] + y >= Capacity
      BY <2>3, <2>4, <2>5
    <3>2. Level(p) = AtMost(Capacity, tokens[p] + x)
      BY <1>2 DEF Level, Refilled
    <3> HIDE DEF x, y
    <3> QED BY <1>1, <2>2, <3>1, <3>2 DEF AtMost
  <2> QED BY <1>2, <2>6 DEF Level
<1>3. CASE p \notin tracked
  BY <1>3 DEF EvictShard, Level, Evictable
<1>4. CASE p \in tracked /\ p \in tracked'
  <2>1. tokens'[p] = tokens[p] /\ last'[p] = last[p] /\ now' = now
    BY <1>4 DEF EvictShard
  <2> QED BY <1>4, <2>1 DEF Level, Refilled
<1> QED BY <1>2, <1>3, <1>4

----------------------------------------------------------------------------
(* The inductive invariant *)

(* What was admitted since mark and what is left came from a full bucket and   *)
(* the inflow since mark.                                                      *)
Accounted(p) ==
    IF now < mark THEN spent[p] = 0
    ELSE spent[p] + Level(p) <= Capacity + (now - mark) * Rate

(* A hint not used up is for a request that fits the bucket, and either the    *)
(* tokens are there or the time left brings them in.                           *)
Promised(p) ==
    /\ owed[p].n >= 0 /\ Cost(owed[p].n) <= Capacity
    /\ \/ Level(p) >= Cost(owed[p].n)
       \/ /\ now < owed[p].due
          /\ Level(p) + (owed[p].due - now) * Rate >= Cost(owed[p].n)

IInv ==
    /\ TypeOK
    /\ Dated
    /\ \A p \in Peers : Accounted(p) /\ Promised(p)

(* The steps that touch no bucket and no history.                              *)
Quiet ==
    \/ \E p \in Peers, n \in Costs : AllowFree(p, n) \/ AllowTooLarge(p, n)
    \/ SweepBegins \/ SweepEnds \/ CleanerExits \/ Close
    \/ UNCHANGED vars

(* Answers that charge nothing, and the bookkeeping of the sweep, touch no bucket. *)
LEMMA QuietSteps ==
    ASSUME Quiet
    PROVE  /\ UNCHANGED <<now, tracked, tokens, last, owed, mark, spent>>
           /\ \A p \in Peers : Level(p)' = Level(p)
<1>1. UNCHANGED <<now, tracked, tokens, last, owed, mark, spent>>
  BY Zenon DEF Quiet, AllowFree, AllowTooLarge, SweepBegins, SweepEnds, CleanerExits, Close,
         vars, bucket, sweep, history
<1> QED BY <1>1 DEF Level, Refilled

(* The steps, sorted by what they do to the buckets.                         *)
LEMMA NextCases ==
    ASSUME [Next]_vars
    PROVE  \/ Quiet \/ Tick \/ EvictShard
           \/ \E p \in Peers, n \in Costs : AllowOk(p, n) \/ AllowRejected(p, n)
BY DEF Next, AllowN, Sweep, Quiet

(* An admitted request fits its bucket, which it leaves that much lower.       *)
LEMMA LevelOk ==
    ASSUME TypeOK, Dated, NEW p \in Peers, NEW n \in Costs, AllowOk(p, n)
    PROVE  /\ Level(p) - Cost(n) \in 0 .. Capacity /\ Cost(n) \in Nat
           /\ \A q \in Peers : Level(q)' = IF q = p THEN Level(p) - Cost(n) ELSE Level(q)
<1>1. Capacity \in Nat /\ Cost(n) \in Nat
  BY Constants, TokenBucketAssumption DEF AllowOk
<1>2. Level(p) - Cost(n) \in 0 .. Capacity
  BY <1>1, LevelType DEF AllowOk
<1>3. Charged(p, Level(p) - Cost(n)) /\ now' = now
  BY DEF AllowOk
<1> HIDE DEF Charged, Level
<1> QED BY <1>1, <1>2, <1>3, LevelCharged

(* A rejected request changes no level, and its wait brings in what it lacks.  *)
LEMMA LevelRejected ==
    ASSUME TypeOK, Dated, NEW p \in Peers, NEW n \in Costs, AllowRejected(p, n)
    PROVE  LET wait == refillWait(Cost(n) - Level(p)) IN
           /\ \A q \in Peers : Level(q)' = Level(q)
           /\ wait \in Nat \ {0} /\ Level(p) + wait * Rate >= Cost(n)
           /\ n > 0 /\ Cost(n) \in Nat
<1>1. Capacity \in Nat /\ Cost(n) \in Nat /\ n > 0 /\ Rate \in Nat
  BY Constants, TokenBucketAssumption DEF AllowRejected
<1>2. Level(p) \in 0 .. Capacity
  BY LevelType
<1>3. \A q \in Peers : Level(q)' = Level(q)
  <2>1. Charged(p, Level(p)) /\ now' = now
    BY DEF AllowRejected, Rejected
  <2> QED BY <1>2, <2>1, LevelCharged
<1> DEFINE sf == Cost(n) - Level(p)
           wait == refillWait(sf)
<1>4. sf \in Nat /\ sf > 0
  BY <1>1, <1>2 DEF AllowRejected
<1> HIDE DEF sf
<1>5. wait \in Nat \ {0} /\ wait * Rate >= sf
  BY <1>4, WaitCoversShortfall
<1>6. Level(p) + wait * Rate >= Cost(n)
  <2> HIDE DEF wait
  <2>1. wait * Rate \in Nat
    BY <1>1, <1>5
  <2> QED BY <1>1, <1>2, <1>5, <2>1 DEF sf
<1> QED BY <1>1, <1>3, <1>5, <1>6 DEF sf

----------------------------------------------------------------------------
(* The steps preserve it *)

(* NewTokenBucket establishes the invariant: no entry, no promise, nothing spent. *)
LEMMA InitIInv == Init => IInv
<1> SUFFICES ASSUME Init PROVE IInv
  OBVIOUS
<1>1. Capacity \in Nat /\ Cost(0) = 0 /\ Rate \in Nat
  BY Constants
<1>2. 0 \in 0 .. Capacity /\ 0 \in 0 .. MaxTime /\ 0 \in 0 .. NumShards
  BY <1>1, TokenBucketAssumption
<1>3. TypeOK
  BY <1>2, Zenon DEF Init, TypeOK
<1>4. \A p \in Peers : Level(p) = Capacity
  BY Zenon DEF Init, Level
<1>5. ASSUME NEW p \in Peers PROVE Accounted(p)
  <2>1. now = 0 /\ mark \in 0 .. MaxTime /\ spent[p] = 0
    BY DEF Init
  <2> QED BY <1>1, <1>4, <2>1, TokenBucketAssumption DEF Accounted
<1>6. ASSUME NEW p \in Peers PROVE Promised(p)
  BY <1>1, <1>4 DEF Init, Promised
<1>7. Dated
  BY DEF Init, Dated
<1> QED BY <1>3, <1>5, <1>6, <1>7 DEF IInv

(* Every step keeps the types; tokens stay within the bucket.                *)
LEMMA StepType == IInv /\ [Next]_vars => TypeOK'
<1> SUFFICES ASSUME IInv, [Next]_vars PROVE TypeOK'
  OBVIOUS
<1>0. TypeOK /\ Dated
  BY DEF IInv
<1>1. CASE Quiet
  <2>1. 0 \in 0 .. MaxTime /\ 0 \in 0 .. NumShards
    BY TokenBucketAssumption
  <2>2. UNCHANGED <<now, tracked, tokens, last, owed, mark, spent>>
    BY <1>1, QuietSteps
  <2>3. CASE \E p \in Peers, n \in Costs : AllowFree(p, n) \/ AllowTooLarge(p, n)
    <3>1. PICK p \in Peers, n \in Costs, ok \in BOOLEAN :
            verdict' = [peer |-> p, n |-> n, ok |-> ok, wait |-> 0]
      BY <2>3, Zenon DEF AllowFree, AllowTooLarge, Answer
    <3>2. UNCHANGED <<cleaner, sweepNow, shard, closed>>
      BY <2>3, Zenon DEF AllowFree, AllowTooLarge, sweep
    <3> QED BY <1>0, <2>2, <3>1, <3>2 DEF TypeOK
  <2>4. CASE SweepBegins \/ SweepEnds
    BY <1>0, <2>1, <2>2, <2>4 DEF TypeOK, SweepBegins, SweepEnds
  <2>5. CASE CleanerExits \/ Close \/ UNCHANGED vars
    BY <1>0, <2>2, <2>5, Zenon DEF TypeOK, CleanerExits, Close, vars, sweep
  <2> QED BY <1>1, <2>3, <2>4, <2>5 DEF Quiet
<1>2. CASE Tick
  BY <1>0, <1>2, TokenBucketAssumption DEF TypeOK, Tick, bucket, sweep, history
<1>3. CASE EvictShard
  <2>1. 0 \in 0 .. Capacity /\ 0 \in 0 .. MaxTime
    BY Constants, TokenBucketAssumption
  <2>2. tracked' \subseteq Peers /\ tokens' \in [Peers -> 0 .. Capacity]
        /\ last' \in [Peers -> 0 .. MaxTime]
    BY <1>0, <1>3, <2>1 DEF TypeOK, EvictShard
  <2>3. shard' \in 0 .. NumShards
    BY <1>0, <1>3, TokenBucketAssumption DEF TypeOK, EvictShard, ShardsLeft
  <2> QED BY <1>0, <1>3, <2>2, <2>3 DEF TypeOK, EvictShard, history
<1>4. ASSUME NEW p \in Peers, NEW n \in Costs, AllowOk(p, n) PROVE TypeOK'
  <2>1. Level(p) - Cost(n) \in 0 .. Capacity /\ Cost(n) \in Nat
    BY <1>0, <1>4, LevelOk
  <2>2. tracked' \subseteq Peers /\ tokens' \in [Peers -> 0 .. Capacity]
        /\ last' \in [Peers -> 0 .. MaxTime]
    BY <1>0, <1>4, <2>1 DEF TypeOK, AllowOk, Charged
  <2>3. owed' \in [Peers -> [n : Costs \cup {0}, due : Nat]] /\ spent' \in [Peers -> Nat]
    BY <1>0, <1>4, <2>1 DEF TypeOK, AllowOk
  <2> QED BY <1>0, <1>4, <2>2, <2>3 DEF TypeOK, AllowOk, Answer, sweep
<1>5. ASSUME NEW p \in Peers, NEW n \in Costs, AllowRejected(p, n) PROVE TypeOK'
  <2> DEFINE wait == refillWait(Cost(n) - Level(p))
  <2>1. wait \in Nat
    BY <1>0, <1>5, LevelRejected
  <2>2. Level(p) \in 0 .. Capacity
    BY <1>0, LevelType
  <2>3. tracked' \subseteq Peers /\ tokens' \in [Peers -> 0 .. Capacity]
        /\ last' \in [Peers -> 0 .. MaxTime]
    BY <1>0, <1>5, <2>2 DEF TypeOK, AllowRejected, Rejected, Charged
  <2>4. /\ owed' = [owed EXCEPT ![p] = [n |-> n, due |-> now + wait]]
        /\ verdict' = [peer |-> p, n |-> n, ok |-> FALSE, wait |-> wait]
    BY <1>5 DEF AllowRejected, Answer
  <2> HIDE DEF wait
  <2>5. now + wait \in Nat
    BY <1>0, <2>1, TokenBucketAssumption DEF TypeOK
  <2>6. owed' \in [Peers -> [n : Costs \cup {0}, due : Nat]]
    BY <1>0, <2>4, <2>5 DEF TypeOK
  <2> QED BY <1>0, <1>5, <2>1, <2>3, <2>4, <2>6 DEF TypeOK, AllowRejected, sweep
<1> QED BY <1>1, <1>2, <1>3, <1>4, <1>5, NextCases

(* Entries are dated with the clock as it is read, which never goes back.    *)
LEMMA StepDated == IInv /\ [Next]_vars => Dated'
<1> SUFFICES ASSUME IInv, [Next]_vars PROVE Dated'
  OBVIOUS
<1>0. TypeOK /\ Dated /\ now \in Nat
  BY TokenBucketAssumption DEF IInv, TypeOK
<1>1. CASE Quiet
  <2>1. UNCHANGED <<now, tracked, last>>
    BY <1>1, QuietSteps
  <2>2. sweepNow' \in {sweepNow, now, 0}
    BY <1>1, Zenon DEF Quiet, AllowFree, AllowTooLarge, SweepBegins, SweepEnds, CleanerExits, Close,
                vars, sweep
  <2> QED BY <1>0, <2>1, <2>2 DEF Dated
<1>2. CASE Tick
  <2>1. \A p \in tracked : last[p] \in Int
    BY <1>0 DEF TypeOK
  <2>2. sweepNow \in Int
    BY <1>0 DEF TypeOK
  <2> QED BY <1>0, <1>2, <2>1, <2>2 DEF Dated, Tick, bucket, sweep
<1>3. CASE EvictShard
  BY <1>0, <1>3 DEF Dated, EvictShard, TypeOK
<1>4. ASSUME NEW p \in Peers, NEW n \in Costs, AllowOk(p, n) \/ AllowRejected(p, n)
      PROVE  Dated'
  <2>1. /\ tracked' = tracked \cup {p} /\ last' = [last EXCEPT ![p] = now]
        /\ UNCHANGED <<now, sweepNow>>
    BY <1>4, Zenon DEF AllowOk, AllowRejected, Rejected, Charged, sweep
  <2>2. last \in [Peers -> Int] /\ tracked \subseteq Peers
    BY <1>0 DEF TypeOK
  <2> QED BY <1>0, <2>1, <2>2 DEF Dated
<1> QED BY <1>1, <1>2, <1>3, <1>4, NextCases

(* What is admitted is taken from the level, and only a tick raises the level. *)
LEMMA StepAccounted ==
    ASSUME IInv, [Next]_vars, NEW q \in Peers
    PROVE  Accounted(q)'
<1>0. TypeOK /\ Dated /\ Accounted(q)
  BY DEF IInv
<1>1. /\ Capacity \in Nat /\ Rate \in Nat /\ now \in Nat /\ mark \in Nat /\ spent[q] \in Nat
      /\ Level(q) \in 0 .. Capacity
  BY <1>0, LevelType, Constants, TokenBucketAssumption DEF TypeOK
<1>2. CASE Quiet
  BY <1>0, <1>2, QuietSteps DEF Accounted
<1>3. CASE Tick
  <2>1. /\ now' = now + 1 /\ UNCHANGED <<mark, spent>>
        /\ Level(q)' = AtMost(Capacity, Level(q) + Rate)
    BY <1>0, <1>3, LevelTick DEF Tick, history
  <2>2. CASE now + 1 <= mark
    <3>1. spent[q]' = 0 \/ now >= mark
      BY <1>0, <1>1, <2>1 DEF Accounted
    <3>2. CASE now + 1 = mark
      <4>1. (now' - mark') * Rate = 0
        BY <1>1, <2>1, <3>2
      <4> QED BY <1>1, <2>1, <2>2, <3>1, <4>1 DEF Accounted, AtMost
    <3> QED BY <1>1, <2>1, <2>2, <3>1, <3>2 DEF Accounted
  <2>3. CASE now >= mark
    <3>1. (now' - mark') * Rate = (now - mark) * Rate + Rate /\ (now - mark) * Rate \in Int
      BY <1>1, <2>1
    <3> QED BY <1>0, <1>1, <2>1, <2>3, <3>1 DEF Accounted, AtMost
  <2> QED BY <1>1, <2>2, <2>3
<1>4. CASE EvictShard
  BY <1>0, <1>4, LevelEvict DEF Accounted, EvictShard, history
<1>5. ASSUME NEW p \in Peers, NEW n \in Costs, AllowOk(p, n) PROVE Accounted(q)'
  <2>1. /\ Level(q)' = IF q = p THEN Level(p) - Cost(n) ELSE Level(q)
        /\ Cost(n) \in Nat
    BY <1>0, <1>5, LevelOk
  <2>2. /\ spent'[q] = IF q = p /\ now >= mark THEN spent[q] + Cost(n) ELSE spent[q]
        /\ UNCHANGED <<now, mark>>
    BY <1>0, <1>5 DEF AllowOk, TypeOK
  <2>3. (now - mark) * Rate \in Int
    BY <1>1
  <2> QED BY <1>0, <1>1, <2>1, <2>2, <2>3 DEF Accounted
<1>6. ASSUME NEW p \in Peers, NEW n \in Costs, AllowRejected(p, n) PROVE Accounted(q)'
  BY <1>0, <1>6, LevelRejected, Zenon DEF Accounted, AllowRejected
<1> QED BY <1>2, <1>3, <1>4, <1>5, <1>6, NextCases

(* A rejection promises what the inflow will cover; only an admission undercuts it. *)
LEMMA StepPromised ==
    ASSUME IInv, [Next]_vars, NEW q \in Peers
    PROVE  Promised(q)'
<1>0. TypeOK /\ Dated /\ Promised(q)
  BY DEF IInv
<1>1. /\ Capacity \in Nat /\ Rate \in Nat /\ now \in Nat
      /\ Level(q) \in 0 .. Capacity
      /\ owed[q].n \in Int /\ owed[q].due \in Nat /\ Cost(owed[q].n) \in Int
  <2>1. owed[q].n \in Int /\ owed[q].due \in Nat
    <3>1. owed[q] \in [n : Costs \cup {0}, due : Nat]
      BY <1>0 DEF TypeOK
    <3>2. owed[q].n \in Costs \cup {0} /\ owed[q].due \in Nat
      BY <3>1
    <3>3. \A n \in Costs \cup {0} : n \in Int
      BY TokenBucketAssumption
    <3> QED BY <3>2, <3>3
  <2> QED BY <1>0, <2>1, LevelType, Constants, TokenBucketAssumption DEF TypeOK
<1>2. CASE Quiet
  BY <1>0, <1>2, QuietSteps DEF Promised
<1>3. CASE Tick
  <2>1. /\ now' = now + 1 /\ UNCHANGED owed
        /\ Level(q)' = AtMost(Capacity, Level(q) + Rate)
    BY <1>0, <1>3, LevelTick DEF Tick, history
  <2> DEFINE left == owed[q].due - now
  <2>2. /\ (left - 1) * Rate = left * Rate - Rate /\ left * Rate \in Int
        /\ (left = 1 => left * Rate = Rate)
    BY <1>1
  <2>3. owed'[q].due - now' = left - 1
    BY <1>1, <2>1
  <2> QED BY <1>0, <1>1, <2>1, <2>2, <2>3 DEF Promised, AtMost
<1>4. CASE EvictShard
  BY <1>0, <1>4, LevelEvict DEF Promised, EvictShard, history
<1>5. ASSUME NEW p \in Peers, NEW n \in Costs, AllowOk(p, n) PROVE Promised(q)'
  <2>1. /\ Level(q)' = IF q = p THEN Level(p) - Cost(n) ELSE Level(q)
        /\ Level(p) - Cost(n) \in 0 .. Capacity
    BY <1>0, <1>5, LevelOk
  <2>2. /\ owed'[q] = IF q = p THEN [n |-> 0, due |-> 0] ELSE owed[q]
        /\ UNCHANGED now
    BY <1>0, <1>5 DEF AllowOk, TypeOK
  <2> QED BY <1>0, <1>1, <2>1, <2>2, Constants DEF Promised
<1>6. ASSUME NEW p \in Peers, NEW n \in Costs, AllowRejected(p, n) PROVE Promised(q)'
  <2> DEFINE wait == refillWait(Cost(n) - Level(p))
  <2>1. /\ Level(q)' = Level(q) /\ wait \in Nat \ {0} /\ Level(p) + wait * Rate >= Cost(n)
        /\ n > 0 /\ Cost(n) <= Capacity
    BY <1>0, <1>6, LevelRejected, Zenon DEF AllowRejected
  <2>2. /\ owed'[q] = IF q = p THEN [n |-> n, due |-> now + wait] ELSE owed[q]
        /\ UNCHANGED now
    BY <1>0, <1>6 DEF AllowRejected, TypeOK
  <2> HIDE DEF wait
  <2>3. (now + wait) - now = wait /\ now < now + wait
    BY <1>1, <2>1
  <2>4. n \in Int
    BY TokenBucketAssumption
  <2>5. CASE q = p
    BY <1>1, <2>1, <2>2, <2>3, <2>4, <2>5 DEF Promised
  <2>6. CASE q # p
    BY <1>0, <2>1, <2>2, <2>6 DEF Promised
  <2> QED BY <2>5, <2>6
<1> QED BY <1>2, <1>3, <1>4, <1>5, <1>6, NextCases

(* The invariant is inductive.                                               *)
LEMMA StepIInv == IInv /\ [Next]_vars => IInv'
<1> SUFFICES ASSUME IInv, [Next]_vars PROVE IInv'
  OBVIOUS
<1>1. TypeOK' /\ Dated'
  BY StepType, StepDated
<1>2. ASSUME NEW p \in Peers PROVE Accounted(p)' /\ Promised(p)'
  BY StepAccounted, StepPromised
<1> QED BY <1>1, <1>2 DEF IInv

(* It implies what the runs check.                                           *)
LEMMA IInvImplies == IInv => TypeOK /\ SustainedRate /\ RetryHintHonoured
<1> SUFFICES ASSUME IInv PROVE SustainedRate /\ RetryHintHonoured
  BY DEF IInv
<1>1. TypeOK /\ Dated /\ \A p \in Peers : Accounted(p) /\ Promised(p)
  BY DEF IInv
<1>2. Capacity \in Nat /\ Rate \in Nat /\ now \in Nat /\ mark \in Nat
  BY <1>1, Constants, TokenBucketAssumption DEF TypeOK
<1>3. ASSUME NEW p \in Peers, now >= mark
      PROVE  spent[p] <= Capacity + (now - mark) * Rate
  <2>1. spent[p] \in Nat /\ Level(p) \in Nat /\ (now - mark) * Rate \in Int
    BY <1>1, <1>2, LevelType DEF TypeOK
  <2>2. spent[p] + Level(p) <= Capacity + (now - mark) * Rate
    BY <1>1, <1>2, <1>3 DEF Accounted
  <2> QED BY <1>2, <2>1, <2>2
<1>4. ASSUME NEW p \in Peers, now >= owed[p].due PROVE Level(p) >= Cost(owed[p].n)
  <2>1. owed[p] \in [n : Costs \cup {0}, due : Nat]
    BY <1>1 DEF TypeOK
  <2> QED BY <1>1, <1>2, <1>4, <2>1 DEF Promised
<1> QED BY <1>3, <1>4 DEF SustainedRate, RetryHintHonoured

----------------------------------------------------------------------------
(* Theorems *)

(* The inductive invariant holds in every reachable state, whatever the rate,  *)
(* the burst, the window, the peers and the interleaving of calls and sweeps.  *)
THEOREM Invariance == Spec => []IInv
<1>1. IInv /\ UNCHANGED vars => IInv'
  BY StepIInv
<1> QED BY InitIInv, StepIInv, <1>1, PTL DEF Spec

(* Every variable stays in its type: no bucket is ever overdrawn or overfull.  *)
THEOREM TokenBucketTypeOK == Spec => []TypeOK
BY Invariance, IInvImplies, PTL

(* A peer is never admitted more than a full bucket and the inflow of the time *)
(* that has passed, from any moment on.                                        *)
THEOREM RateIsSustained == Spec => []SustainedRate
BY Invariance, IInvImplies, PTL

(* The wait AllowNWithRetry returns is always long enough.                     *)
THEOREM RetryHintsAreHonoured == Spec => []RetryHintHonoured
BY Invariance, IInvImplies, PTL

----------------------------------------------------------------------------
(* The refinement *)

(* Without an entry every peer has a full budget.                            *)
LEMMA InitRefines == Init => Budget!Init
BY DEF Init, Budget!Init, Budget!NoVerdict, Level

(* A call is the same call of PeerBudget, a tick the same tick, the sweep a stutter. *)
LEMMA StepRefines == IInv /\ [Next]_vars => [Budget!Next]_(Budget!vars)
<1> SUFFICES ASSUME IInv, [Next]_vars PROVE Budget!Next \/ UNCHANGED Budget!vars
  OBVIOUS
<1> DEFINE lev == [p \in Peers |-> Level(p)]
<1>0. TypeOK /\ Dated
  BY DEF IInv
<1>2. CASE Tick
  <2>1. \A p \in Peers : Level(p)' = AtMost(Capacity, Level(p) + Rate)
    BY <1>0, <1>2, LevelTick
  <2>2. Budget!Tick
    BY <1>2, <2>1 DEF Budget!Tick, Budget!AtMost, AtMost, Tick
  <2> QED BY <2>2 DEF Budget!Next
<1>3. CASE EvictShard
  BY <1>0, <1>3, LevelEvict DEF EvictShard, Budget!vars
<1>4. ASSUME NEW p \in Peers, NEW n \in Costs, AllowFree(p, n) PROVE Budget!Next
  <2>1. Quiet
    BY <1>4 DEF Quiet
  <2>2. ~ (n > 0)
    BY <1>4, TokenBucketAssumption DEF AllowFree
  <2>3. lev' = lev
    BY <2>1, QuietSteps
  <2>4. Budget!Admit(p, n)
    BY <1>4, <2>2, <2>3 DEF Budget!Admit, AllowFree, Answer
  <2> QED BY <2>4 DEF Budget!Next
<1>5. ASSUME NEW p \in Peers, NEW n \in Costs, AllowTooLarge(p, n) PROVE Budget!Next
  <2>1. Quiet
    BY <1>5 DEF Quiet
  <2>2. lev' = lev
    BY <2>1, QuietSteps
  <2>3. Level(p) < Cost(n)
    <3>1. Capacity \in Int /\ Cost(n) \in Int /\ Level(p) \in 0 .. Capacity
      BY <1>0, LevelType, Constants, TokenBucketAssumption
    <3> QED BY <1>5, <3>1 DEF AllowTooLarge
  <2>4. Budget!Reject(p, n, verdict'.wait)
    BY <1>5, <2>2, <2>3 DEF Budget!Reject, AllowTooLarge, Answer
  <2> QED BY <2>4 DEF Budget!Next
<1>6. ASSUME NEW p \in Peers, NEW n \in Costs, AllowOk(p, n) PROVE Budget!Next
  <2>1. \A q \in Peers : Level(q)' = IF q = p THEN Level(p) - Cost(n) ELSE Level(q)
    BY <1>0, <1>6, LevelOk
  <2>2. n > 0 /\ Level(p) >= Cost(n) /\ verdict' = [peer |-> p, n |-> n, ok |-> TRUE, wait |-> 0]
    BY <1>6 DEF AllowOk, Answer
  <2>3. lev' = [lev EXCEPT ![p] = lev[p] - Cost(n)]
    BY <2>1, Zenon
  <2>4. Budget!Admit(p, n)
    BY <2>2, <2>3 DEF Budget!Admit
  <2> QED BY <2>4 DEF Budget!Next
<1>7. ASSUME NEW p \in Peers, NEW n \in Costs, AllowRejected(p, n) PROVE Budget!Next
  <2> DEFINE wait == refillWait(Cost(n) - Level(p))
  <2>1. /\ \A q \in Peers : Level(q)' = Level(q)
        /\ wait \in Nat \ {0} /\ Level(p) + wait * Rate >= Cost(n)
    BY <1>0, <1>7, LevelRejected
  <2>2. /\ n > 0 /\ Level(p) < Cost(n) /\ Cost(n) <= Capacity
        /\ verdict' = [peer |-> p, n |-> n, ok |-> FALSE, wait |-> wait]
    BY <1>7 DEF AllowRejected, Answer
  <2>3. lev' = lev
    BY <2>1
  <2>4. wait > 0 /\ ~ (Cost(n) > Capacity)
    BY <2>1, <2>2, Constants, TokenBucketAssumption
  <2> HIDE DEF wait
  <2>5. Budget!Reject(p, n, verdict'.wait)
    BY <2>1, <2>2, <2>3, <2>4 DEF Budget!Reject
  <2> QED BY <2>5 DEF Budget!Next
<1>8. CASE SweepBegins \/ SweepEnds \/ CleanerExits \/ Close \/ UNCHANGED vars
  <2>1. Quiet
    BY <1>8 DEF Quiet
  <2>2. lev' = lev
    BY <2>1, QuietSteps
  <2>3. verdict' = verdict
    BY <1>8 DEF SweepBegins, SweepEnds, CleanerExits, Close, vars
  <2> QED BY <2>2, <2>3 DEF Budget!vars
<1> HIDE DEF lev
<1> QED BY <1>2, <1>3, <1>4, <1>5, <1>6, <1>7, <1>8, NextCases DEF Quiet

(* Lazy refill, sharding and eviction are invisible: the limiter implements    *)
(* the budget that refills at every tick and forgets nobody, answer by answer. *)
THEOREM TokenBucketImplementsBudget == Spec => ForgettingChangesNoDecision
<1> QED BY InitRefines, StepRefines, Invariance, PTL DEF Spec, Budget!Spec,
           ForgettingChangesNoDecision
=============================================================================
