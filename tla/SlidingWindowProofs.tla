------------------------ MODULE SlidingWindowProofs -------------------------
(***************************************************************************)
(* The sliding window limiter for any peers, buckets, limits, window and   *)
(* number of shards.  The results rest on what the limiter may forget: of  *)
(* the requests in the window that ends now it has every time stamp on     *)
(* record (Remembered), because AllowN drops only stamps that have left    *)
(* the window and the cutoff of a cleanup, which may have been computed    *)
(* long before a shard is locked, only lies further back (CutoffPast).     *)
(*                                                                         *)
(* The length of a slice of time stamps is the cardinality of its stamps;  *)
(* that those are finitely many is part of the induction.                  *)
(***************************************************************************)
EXTENDS SlidingWindow, FiniteSetTheorems, TLAPS

Remembered ==
    \A b \in Buckets, p \in Peers, t \in Times :
        t > now - Window => history[b][p][t] = log[b][p][t]

NothingAhead == \A b \in Buckets, p \in Peers, t \in Times : t > now => log[b][p][t] = 0

CutoffPast == \A b \in Buckets : ShardsLeft(b) => cutoff[b] <= now - Window

FiniteLog ==
    \A b \in Buckets, p \in Peers : IsFiniteSet(Stamps(log[b][p], Times))

IInv ==
    /\ TypeOK
    /\ Remembered /\ NothingAhead /\ CutoffPast
    /\ FiniteLog
    /\ WindowRespected

----------------------------------------------------------------------------
(* The stamps of a record *)

(* A stamp is a time and a number up to how many requests that time has.       *)
LEMMA StampsMember ==
    ASSUME NEW record, NEW S, NEW s
    PROVE  s \in Stamps(record, S) <=>
             \E t \in S : \E i \in 1 .. record[t] : s = <<t, i>>
BY DEF Stamps

(* Only the times asked about matter.                                          *)
LEMMA SameStamps ==
    ASSUME NEW record, NEW other, NEW S, \A t \in S : other[t] = record[t]
    PROVE  Stamps(other, S) = Stamps(record, S)
BY DEF Stamps

(* Times without requests have no stamps.                                      *)
LEMMA EmptyTimes ==
    ASSUME NEW record, NEW S, NEW T \in SUBSET S, \A t \in S \ T : record[t] = 0
    PROVE  Stamps(record, S) = Stamps(record, T)
<1>1. ASSUME NEW s PROVE s \in Stamps(record, S) => s \in Stamps(record, T)
  <2>1. SUFFICES ASSUME NEW t \in S, NEW i \in 1 .. record[t], s = <<t, i>>
                 PROVE  s \in Stamps(record, T)
    BY StampsMember
  <2>2. t \in T
    BY <2>1
  <2> QED BY <2>1, <2>2, StampsMember
<1>2. ASSUME NEW s PROVE s \in Stamps(record, T) => s \in Stamps(record, S)
  BY StampsMember
<1> QED BY <1>1, <1>2

(* Fewer times have fewer stamps.                                              *)
LEMMA FewerStamps ==
    ASSUME NEW record, NEW S, NEW T \in SUBSET S, IsFiniteSet(Stamps(record, S))
    PROVE  /\ IsFiniteSet(Stamps(record, T))
           /\ Cardinality(Stamps(record, T)) \in Nat
           /\ Cardinality(Stamps(record, S)) \in Nat
           /\ Cardinality(Stamps(record, T)) <= Cardinality(Stamps(record, S))
<1>1. Stamps(record, T) \subseteq Stamps(record, S)
  BY StampsMember
<1> QED BY <1>1, FS_Subset, FS_CardinalityType

(* n requests more at one time are n stamps more ("append(filtered, now)").    *)
LEMMA AddedStamps ==
    ASSUME NEW S, NEW at \in S, NEW n \in Nat, NEW record, NEW other,
           record[at] \in Nat, other[at] = record[at] + n,
           \A t \in S \ {at} : other[t] = record[t],
           IsFiniteSet(Stamps(record, S))
    PROVE  /\ IsFiniteSet(Stamps(other, S))
           /\ Cardinality(Stamps(other, S)) = Cardinality(Stamps(record, S)) + n
<1>1. PICK c \in Nat : c = record[at]
  OBVIOUS
<1>2. PICK hi \in Int, lo \in Int : hi = c + n /\ lo = c + 1
  OBVIOUS
<1>3. PICK Added, New : Added = lo .. hi /\ New = {at} \X Added
  BY Zenon
<1>4. IsFiniteSet(New) /\ Cardinality(New) = n
  <2>1. /\ IsFiniteSet(lo .. hi)
        /\ Cardinality(lo .. hi) = IF lo > hi THEN 0 ELSE hi - lo + 1
    BY ONLY lo \in Int, hi \in Int, FS_Interval, Zenon
  <2>2. IsFiniteSet(Added) /\ Cardinality(Added) = n
    BY <1>2, <1>3, <2>1
  <2>3. IsFiniteSet({at}) /\ Cardinality({at}) = 1
    BY FS_Singleton, Zenon
  <2>4. /\ IsFiniteSet({at} \X Added)
        /\ Cardinality({at} \X Added) = Cardinality({at}) * Cardinality(Added)
    BY <2>2, <2>3, FS_Product
  <2> QED BY <1>3, <2>2, <2>3, <2>4
<1>5. PICK Old : Old = Stamps(record, S)
  OBVIOUS
<1>6. Stamps(other, S) = Old \cup New
  <2>1. ASSUME NEW s, s \in Stamps(other, S) PROVE s \in Old \cup New
    <3>0. PICK t \in S : \E i \in 1 .. other[t] : s = <<t, i>>
      BY <2>1, StampsMember
    <3>1. PICK i \in 1 .. other[t] : s = <<t, i>>
      BY <3>0
    <3>2. CASE t = at
      <4>1. i \in 1 .. c \/ i \in Added
        BY <1>1, <1>2, <1>3, <3>1, <3>2
      <4> QED BY <1>1, <1>3, <1>5, <3>1, <3>2, <4>1, StampsMember
    <3>3. CASE t # at
      BY <1>5, <3>1, <3>3, StampsMember
    <3> QED BY <3>2, <3>3
  <2>2. ASSUME NEW s, s \in Old PROVE s \in Stamps(other, S)
    <3>0. PICK t \in S : \E i \in 1 .. record[t] : s = <<t, i>>
      BY <1>5, <2>2, StampsMember
    <3>1. PICK i \in 1 .. record[t] : s = <<t, i>>
      BY <3>0
    <3>2. i \in 1 .. other[t]
      BY <1>1, <3>1
    <3> QED BY <3>1, <3>2, StampsMember
  <2>3. ASSUME NEW s, s \in New PROVE s \in Stamps(other, S)
    <3>1. PICK i \in Added : s = <<at, i>>
      BY <1>3, <2>3
    <3>2. i \in 1 .. other[at]
      BY <1>1, <1>2, <1>3, <3>1
    <3> QED BY <3>1, <3>2, StampsMember
  <2> QED BY <2>1, <2>2, <2>3
<1>7. Old \cap New = {}
  <2> SUFFICES ASSUME NEW s, s \in Old, s \in New PROVE FALSE
    OBVIOUS
  <2>0. PICK t \in S : \E i \in 1 .. record[t] : s = <<t, i>>
    BY <1>5, StampsMember
  <2>1. PICK i \in 1 .. record[t] : s = <<t, i>>
    BY <2>0
  <2>2. PICK k \in Added : s = <<at, k>>
    BY <1>3
  <2>3. t = at /\ i = k
    BY <2>1, <2>2
  <2> QED BY <1>1, <1>2, <1>3, <2>1, <2>2, <2>3
<1>8. /\ IsFiniteSet(Old \cup New)
      /\ Cardinality(Old \cup New) = Cardinality(Old) + Cardinality(New) - Cardinality(Old \cap New)
  BY <1>4, <1>5, FS_Union, Zenon
<1>9. PICK k \in Nat : k = Cardinality(Old)
  BY <1>5, FS_CardinalityType
<1>10. Cardinality(Old \cap New) = 0
  BY <1>7, FS_EmptySet
<1>11. Cardinality(Old \cup New) = k + n
  BY <1>4, <1>8, <1>9, <1>10
<1> QED BY <1>5, <1>6, <1>8, <1>9, <1>11

----------------------------------------------------------------------------
(* What AllowN counts *)

(* The slice that AllowN has filtered holds the requests admitted in the       *)
(* window that ends now, however much was forgotten before.                    *)
LEMMA FilteredIsWindow ==
    ASSUME TypeOK, Remembered, NothingAhead, NEW b \in Buckets, NEW p \in Peers
    PROVE  /\ Stamps(Filtered(history[b][p], now - Window), Times)
                = Stamps(log[b][p], WindowTo(now))
           /\ Length(Filtered(history[b][p], now - Window)) = InWindow(log[b][p], now)
<1>0. PICK cut \in Int : cut = now - Window
  BY SlidingWindowAssumption DEF TypeOK, Times
<1>1. PICK filtered : filtered = Filtered(history[b][p], cut)
  OBVIOUS
<1>2. PICK recent : recent = WindowTo(now)
  OBVIOUS
<1>3. recent \in SUBSET Times /\ recent = {t \in Times : t > cut /\ t <= now}
  BY <1>0, <1>2, SlidingWindowAssumption DEF WindowTo, Times, TypeOK
<1>4. \A t \in Times : filtered[t] = IF t > cut THEN history[b][p][t] ELSE 0
  BY <1>1 DEF Filtered
<1>5. \A t \in Times \ recent : filtered[t] = 0
  BY <1>0, <1>3, <1>4 DEF Remembered, NothingAhead, TypeOK, Times
<1>6. Stamps(filtered, Times) = Stamps(filtered, recent)
  BY <1>3, <1>5, EmptyTimes
<1>7. \A t \in recent : filtered[t] = log[b][p][t]
  BY <1>0, <1>3, <1>4 DEF Remembered
<1>8. Stamps(filtered, recent) = Stamps(log[b][p], recent)
  BY <1>7, SameStamps
<1> QED BY <1>0, <1>1, <1>2, <1>6, <1>8 DEF Length, InWindow

(* The windows of a log of finitely many requests have finitely many.          *)
LEMMA WindowFinite ==
    ASSUME FiniteLog, NEW b \in Buckets, NEW p \in Peers, NEW t
    PROVE  /\ IsFiniteSet(Stamps(log[b][p], WindowTo(t)))
           /\ InWindow(log[b][p], t) \in Nat
<1>1. PICK S : S = WindowTo(t) /\ S \in SUBSET Times
  BY Zenon DEF WindowTo, Times
<1>2. PICK record : record = log[b][p]
  OBVIOUS
<1>3. IsFiniteSet(Stamps(record, Times))
  BY <1>2 DEF FiniteLog
<1>4. IsFiniteSet(Stamps(record, S)) /\ Cardinality(Stamps(record, S)) \in Nat
  BY <1>1, <1>3, FewerStamps
<1> QED BY <1>1, <1>2, <1>4 DEF InWindow

\* AllowN as it decides with the whole log.
AdmittedN(b, p, n) ==
    /\ InWindow(log[b][p], now) + n <= MaxRequests[b]
    /\ history' = [history EXCEPT ![b][p] =
                     [Filtered(history[b][p], now - Window) EXCEPT ![now] = @ + n]]
    /\ log' = [log EXCEPT ![b][p][now] = @ + n]
    /\ Answer(b, p, n, TRUE)

RefusedN(b, p, n) ==
    /\ ~ (InWindow(log[b][p], now) + n <= MaxRequests[b])
    /\ history' = [history EXCEPT ![b][p] = Filtered(history[b][p], now - Window)]
    /\ log' = log
    /\ Answer(b, p, n, FALSE)

(* AllowN decides by what the whole log says of the window that ends now.      *)
LEMMA AllowNDecides ==
    ASSUME TypeOK, Remembered, NothingAhead,
           NEW b \in Buckets, NEW p \in Peers, NEW n \in Costs, AllowN(b, p, n)
    PROVE  /\ n \in Nat \ {0} /\ UNCHANGED <<now, cutoff, shard>>
           /\ AdmittedN(b, p, n) \/ RefusedN(b, p, n)
<1>1. n \in Nat \ {0} /\ UNCHANGED <<now, cutoff, shard>>
  BY SlidingWindowAssumption DEF AllowN
<1>2. PICK filtered : filtered = Filtered(history[b][p], now - Window)
  OBVIOUS
<1>3. Length(filtered) = InWindow(log[b][p], now)
  BY <1>2, FilteredIsWindow
<1>4. PICK ok \in BOOLEAN : ok <=> Fits(b, filtered, n)
  BY Zenon
<1>5. ok <=> InWindow(log[b][p], now) + n <= MaxRequests[b]
  BY <1>3, <1>4 DEF Fits
<1>6. CASE ok
  <2>1. Fits(b, Filtered(history[b][p], now - Window), n)
    BY <1>2, <1>4, <1>6
  <2> QED BY <1>1, <1>5, <1>6, <2>1, Zenon DEF AllowN, AdmittedN, Answer
<1>7. CASE ~ ok
  <2>1. ~ Fits(b, Filtered(history[b][p], now - Window), n)
    BY <1>2, <1>4, <1>7
  <2>2. /\ history' = [history EXCEPT ![b][p] = Filtered(history[b][p], now - Window)]
        /\ log' = [log EXCEPT ![b][p][now] = @]
    BY <2>1 DEF AllowN
  <2>3. verdict' = [ok |-> FALSE, n |-> n, bucket |-> b, peer |-> p]
    <3>1. Fits(b, Filtered(history[b][p], now - Window), n) = FALSE
      BY <2>1 DEF Fits
    <3>2. verdict' = [ok |-> Fits(b, Filtered(history[b][p], now - Window), n),
                      n |-> n, bucket |-> b, peer |-> p]
      BY DEF AllowN, Answer
    <3> QED BY <3>1, <3>2, Zenon
  <2>4. log' = log
    BY <2>2 DEF TypeOK, Record
  <2> QED BY <1>1, <1>5, <1>7, <2>2, <2>3, <2>4 DEF RefusedN, Answer
<1> QED BY <1>6, <1>7

----------------------------------------------------------------------------
(* The induction *)

(* Nothing is on record before the first call.                                 *)
LEMMA InitIInv == Init => IInv
<1> SUFFICES ASSUME Init PROVE IInv
  OBVIOUS
<1> USE SlidingWindowAssumption
<1>1. TypeOK
  BY DEF Init, TypeOK, Record, Nothing, Times, NoVerdict
<1>2. Remembered /\ NothingAhead /\ CutoffPast
  BY DEF Init, Remembered, NothingAhead, CutoffPast, Nothing, ShardsLeft
<1>3. ASSUME NEW b \in Buckets, NEW p \in Peers, NEW S \in SUBSET Times
      PROVE  Stamps(log[b][p], S) = {}
  <2>1. \A t \in S : log[b][p][t] = 0
    BY <1>3 DEF Init, Nothing
  <2> QED BY <2>1, StampsMember
<1>4. FiniteLog
  BY <1>3, FS_EmptySet DEF FiniteLog
<1>5. WindowRespected
  BY <1>3, FS_EmptySet, Zenon DEF WindowRespected, InWindow, WindowTo
<1> QED BY <1>1, <1>2, <1>4, <1>5 DEF IInv

(* When the clock moves, requests leave the window and none enter it.          *)
LEMMA TickStep == IInv /\ Tick => IInv'
<1> SUFFICES ASSUME IInv, Tick PROVE IInv'
  OBVIOUS
<1> USE SlidingWindowAssumption
<1>0. /\ TypeOK /\ Remembered /\ NothingAhead /\ CutoffPast /\ FiniteLog /\ WindowRespected
      /\ now \in Times /\ now < MaxTime /\ now' = now + 1
      /\ UNCHANGED <<history, cutoff, shard, log, verdict>>
  BY DEF IInv, Tick, TypeOK
<1>1. TypeOK'
  BY <1>0 DEF TypeOK, Times
<1>2. Remembered' /\ NothingAhead'
  BY <1>0 DEF Remembered, NothingAhead, Times
<1>3. CutoffPast'
  BY <1>0 DEF CutoffPast, ShardsLeft, TypeOK, Times
<1>4. FiniteLog'
  BY <1>0 DEF FiniteLog
<1>5. WindowRespected'
  <2> SUFFICES ASSUME NEW b \in Buckets, NEW p \in Peers, NEW t \in 0 .. now'
               PROVE  InWindow(log[b][p], t) = 0 \/ InWindow(log[b][p], t) <= MaxRequests[b]
    BY <1>0 DEF WindowRespected, InWindow, WindowTo
  <2>1. CASE t \in 0 .. now
    BY <1>0, <2>1 DEF WindowRespected
  <2>2. CASE t = now + 1
    <3>1. PICK S, T : S = WindowTo(now) /\ T = WindowTo(now + 1)
      OBVIOUS
    <3>2. PICK record : record = log[b][p]
      OBVIOUS
    <3>3. T \cap S \in SUBSET S /\ T \cap S \in SUBSET T
      OBVIOUS
    <3>4. \A u \in T \ (T \cap S) : record[u] = 0
      BY <1>0, <3>1, <3>2 DEF WindowTo, NothingAhead, Times
    <3>5. Stamps(record, T) = Stamps(record, T \cap S)
      BY <3>3, <3>4, EmptyTimes
    <3>6. IsFiniteSet(Stamps(record, S))
      BY <1>0, <3>1, <3>2, WindowFinite
    <3>7. PICK used \in Nat, then \in Nat :
            used = Cardinality(Stamps(record, S)) /\ then = Cardinality(Stamps(record, T))
      BY <3>3, <3>5, <3>6, FewerStamps
    <3>8. then <= used
      BY <3>3, <3>5, <3>6, <3>7, FewerStamps
    <3>9. used = InWindow(log[b][p], now) /\ then = InWindow(log[b][p], t)
      BY <2>2, <3>1, <3>2, <3>7 DEF InWindow
    <3>10. used = 0 \/ used <= MaxRequests[b]
      BY <1>0, <3>9 DEF WindowRespected, Times
    <3> QED BY <3>8, <3>9, <3>10
  <2> QED BY <1>0, <2>1, <2>2 DEF Times
<1> QED BY <1>1, <1>2, <1>3, <1>4, <1>5 DEF IInv

(* What is said of the log holds on in a step that adds nothing to it.         *)
LEMMA LogKept ==
    ASSUME NothingAhead, FiniteLog, WindowRespected, UNCHANGED <<now, log>>
    PROVE  NothingAhead' /\ FiniteLog' /\ WindowRespected'
<1>1. NothingAhead'
  BY DEF NothingAhead
<1>2. FiniteLog'
  BY DEF FiniteLog
<1>3. WindowRespected'
  BY DEF WindowRespected, InWindow, WindowTo
<1> QED BY <1>1, <1>2, <1>3

(* Neither is anything forgotten in a step that changes no record.             *)
LEMMA RecordsKept ==
    ASSUME Remembered, UNCHANGED <<now, log, history>>
    PROVE  Remembered'
BY DEF Remembered

(* What filtering leaves of a peer's record, which is what a refused AllowN    *)
(* stores, is all that the window that ends now needs.                         *)
LEMMA FilteredKeeps ==
    ASSUME NEW record \in Record, NEW cut \in Int
    PROVE  /\ Filtered(record, cut) \in Record
           /\ \A t \in Times : t > cut => Filtered(record, cut)[t] = record[t]
<1>1. Filtered(record, cut) \in Record
  BY DEF Filtered, Record
<1>2. \A t \in Times : t > cut => Filtered(record, cut)[t] = record[t]
  BY DEF Filtered
<1> QED BY <1>1, <1>2

(* A refused call records nothing and drops only what has left the window.     *)
LEMMA RefusedStep ==
    ASSUME IInv, NEW b \in Buckets, NEW p \in Peers, NEW n \in Costs,
           RefusedN(b, p, n), UNCHANGED <<now, cutoff, shard>>
    PROVE  IInv'
<1> USE SlidingWindowAssumption
<1>0. /\ TypeOK /\ Remembered /\ NothingAhead /\ CutoffPast /\ FiniteLog /\ WindowRespected
      /\ now \in Times /\ log' = log
      /\ verdict' = [ok |-> FALSE, n |-> n, bucket |-> b, peer |-> p]
  BY DEF IInv, RefusedN, TypeOK, Answer
<1>1. PICK cut \in Int : cut = now - Window
  BY <1>0 DEF Times
<1>2. PICK filtered \in Record : filtered = Filtered(history[b][p], cut)
  BY <1>0, FilteredKeeps DEF TypeOK
<1>3. history' = [history EXCEPT ![b][p] = filtered]
  BY <1>1, <1>2 DEF RefusedN
<1>4. \A t \in Times : t > cut => filtered[t] = history[b][p][t]
  BY <1>2 DEF Filtered
<1>5. TypeOK'
  <2>1. history' \in [Buckets -> [Peers -> Record]]
    BY <1>0, <1>2, <1>3 DEF TypeOK
  <2> QED BY <1>0, <2>1 DEF TypeOK
<1>6. Remembered'
  BY <1>0, <1>1, <1>3, <1>4 DEF Remembered, TypeOK
<1>7. CutoffPast'
  BY <1>0 DEF CutoffPast, ShardsLeft
<1>8. NothingAhead' /\ FiniteLog' /\ WindowRespected'
  BY <1>0, LogKept
<1> QED BY <1>5, <1>6, <1>7, <1>8 DEF IInv

(* An admitted call records its n requests, which fit in the window that ends  *)
(* now and lie in no earlier one.                                              *)
LEMMA AdmittedStep ==
    ASSUME IInv, NEW b \in Buckets, NEW p \in Peers, NEW n \in Costs, n \in Nat \ {0},
           AdmittedN(b, p, n), UNCHANGED <<now, cutoff, shard>>
    PROVE  IInv'
<1> USE SlidingWindowAssumption
<1>0. /\ TypeOK /\ Remembered /\ NothingAhead /\ CutoffPast /\ FiniteLog /\ WindowRespected
      /\ now \in Times
      /\ verdict' = [ok |-> TRUE, n |-> n, bucket |-> b, peer |-> p]
  BY DEF IInv, AdmittedN, TypeOK, Answer
<1>1. PICK cut \in Int : cut = now - Window
  BY <1>0 DEF Times
<1>2. PICK filtered \in Record : filtered = Filtered(history[b][p], cut)
  BY <1>0, FilteredKeeps DEF TypeOK
<1>3. \A t \in Times : t > cut => filtered[t] = history[b][p][t]
  BY <1>2 DEF Filtered
<1>4. PICK record \in Record : record = log[b][p]
  BY <1>0 DEF TypeOK
<1>5. PICK stored \in Record : stored = [filtered EXCEPT ![now] = @ + n]
  <2>1. filtered[now] + n \in Nat
    BY <1>0, <1>2 DEF Record
  <2>2. [filtered EXCEPT ![now] = @ + n] \in Record
    BY <1>2, <2>1, Zenon DEF Record
  <2> QED BY <2>2
<1>6. PICK longer \in Record : longer = [record EXCEPT ![now] = @ + n]
  <2>1. record[now] + n \in Nat
    BY <1>0, <1>4 DEF Record
  <2>2. [record EXCEPT ![now] = @ + n] \in Record
    BY <1>4, <2>1, Zenon DEF Record
  <2> QED BY <2>2
<1>7. history' = [history EXCEPT ![b][p] = stored]
  BY <1>1, <1>2, <1>5 DEF AdmittedN
<1>8. log' = [log EXCEPT ![b][p] = longer]
  BY <1>4, <1>6 DEF AdmittedN
<1>9. /\ longer[now] = record[now] + n /\ record[now] \in Nat
      /\ \A t \in Times \ {now} : longer[t] = record[t] /\ stored[t] = filtered[t]
      /\ stored[now] = filtered[now] + n
  BY <1>0, <1>5, <1>6 DEF Record
<1>10. /\ log'[b][p] = longer /\ history'[b][p] = stored
       /\ \A c \in Buckets, q \in Peers : (c # b \/ q # p) =>
            log'[c][q] = log[c][q] /\ history'[c][q] = history[c][q]
  BY <1>0, <1>7, <1>8 DEF TypeOK
<1>11. TypeOK'
  <2>1. /\ history' \in [Buckets -> [Peers -> Record]]
        /\ log' \in [Buckets -> [Peers -> Record]]
    BY <1>0, <1>7, <1>8 DEF TypeOK
  <2> QED BY <1>0, <2>1 DEF TypeOK
<1>12. Remembered'
  <2> SUFFICES ASSUME NEW c \in Buckets, NEW q \in Peers, NEW t \in Times, t > cut
               PROVE  history'[c][q][t] = log'[c][q][t]
    BY <1>1 DEF Remembered
  <2>1. CASE c = b /\ q = p
    <3>1. filtered[t] = record[t]
      BY <1>0, <1>1, <1>3, <1>4 DEF Remembered
    <3> QED BY <1>9, <1>10, <2>1, <3>1
  <2>2. CASE c # b \/ q # p
    <3>1. history[c][q][t] = log[c][q][t]
      BY <1>0, <1>1 DEF Remembered
    <3> QED BY <1>10, <2>2, <3>1
  <2> QED BY <2>1, <2>2
<1>13. NothingAhead'
  <2> SUFFICES ASSUME NEW c \in Buckets, NEW q \in Peers, NEW t \in Times, t > now
               PROVE  log'[c][q][t] = 0
    BY DEF NothingAhead
  <2>1. log[c][q][t] = 0 /\ t # now
    BY <1>0 DEF NothingAhead, Times
  <2> QED BY <1>4, <1>9, <1>10, <2>1
<1>14. CutoffPast'
  BY <1>0 DEF CutoffPast, ShardsLeft
<1>15. FiniteLog'
  <2> SUFFICES ASSUME NEW c \in Buckets, NEW q \in Peers
               PROVE  IsFiniteSet(Stamps(log'[c][q], Times))
    BY DEF FiniteLog
  <2>1. CASE c = b /\ q = p
    <3>1. IsFiniteSet(Stamps(record, Times))
      BY <1>0, <1>4 DEF FiniteLog
    <3>2. IsFiniteSet(Stamps(longer, Times))
      BY <1>0, <1>9, <3>1, AddedStamps
    <3> QED BY <1>10, <2>1, <3>2
  <2>2. CASE c # b \/ q # p
    BY <1>0, <1>10, <2>2 DEF FiniteLog
  <2> QED BY <2>1, <2>2
<1>16. WindowRespected'
  <2> SUFFICES ASSUME NEW c \in Buckets, NEW q \in Peers, NEW t \in 0 .. now
               PROVE  InWindow(log'[c][q], t) = 0 \/ InWindow(log'[c][q], t) <= MaxRequests[c]
    BY <1>0, Zenon DEF WindowRespected, InWindow, WindowTo
  <2>1. InWindow(log[c][q], t) = 0 \/ InWindow(log[c][q], t) <= MaxRequests[c]
    BY <1>0 DEF WindowRespected
  <2>2. CASE c # b \/ q # p
    BY <1>10, <2>1, <2>2
  <2>3. CASE c = b /\ q = p /\ t # now
    <3>0. WindowTo(t) \in SUBSET (Times \ {now})
      BY <1>0, <2>3 DEF WindowTo, Times
    <3>1. PICK S : S = WindowTo(t) /\ S \in SUBSET (Times \ {now})
      BY <3>0
    <3>2. \A u \in S : longer[u] = record[u]
      BY <1>9, <3>1
    <3>3. Stamps(longer, S) = Stamps(record, S)
      BY <3>2, SameStamps
    <3>4. InWindow(log'[c][q], t) = InWindow(log[c][q], t)
      BY <1>4, <1>10, <2>3, <3>1, <3>3 DEF InWindow
    <3> QED BY <2>1, <3>4
  <2>4. CASE c = b /\ q = p /\ t = now
    <3>0. WindowTo(now) \in SUBSET Times /\ now \in WindowTo(now)
      BY <1>0 DEF WindowTo, Times
    <3>1. PICK S : S = WindowTo(now) /\ S \in SUBSET Times /\ now \in S
      BY <3>0
    <3>2. IsFiniteSet(Stamps(record, S)) /\ InWindow(log[b][p], now) \in Nat
      BY <1>0, <1>4, <3>1, WindowFinite
    <3>3. \A u \in S \ {now} : longer[u] = record[u]
      BY <1>9, <3>1
    <3>4. Cardinality(Stamps(longer, S)) = Cardinality(Stamps(record, S)) + n
      BY <1>9, <3>1, <3>2, <3>3, AddedStamps
    <3>5. InWindow(log'[c][q], t) = InWindow(log[b][p], now) + n
      BY <1>4, <1>10, <2>4, <3>1, <3>4 DEF InWindow
    <3> QED BY <2>4, <3>5 DEF AdmittedN
  <2> QED BY <2>2, <2>3, <2>4
<1> QED BY <1>11, <1>12, <1>13, <1>14, <1>15, <1>16 DEF IInv

(* A shard's cleanup keeps every time stamp after a cutoff that is no later    *)
(* than the one AllowN would use now.                                          *)
LEMMA CleanupShardStep ==
    ASSUME IInv, NEW b \in Buckets, CleanupShard(b)
    PROVE  IInv'
<1> USE SlidingWindowAssumption
<1>0. /\ TypeOK /\ Remembered /\ NothingAhead /\ CutoffPast /\ FiniteLog /\ WindowRespected
      /\ now \in Times /\ UNCHANGED <<now, cutoff, log, verdict>>
      /\ ShardsLeft(b) /\ shard' = [shard EXCEPT ![b] = @ + 1]
  BY DEF IInv, CleanupShard, TypeOK
<1>1. PICK cut \in Int : cut = cutoff[b] /\ cut <= now - Window
  BY <1>0 DEF TypeOK, CutoffPast
<1>2. \A p \in Peers :
        /\ history[b][p] \in Record /\ Filtered(history[b][p], cut) \in Record
        /\ \A t \in Times : t > cut => Filtered(history[b][p], cut)[t] = history[b][p][t]
  <2> TAKE p \in Peers
  <2>1. PICK record \in Record : record = history[b][p]
    BY <1>0 DEF TypeOK
  <2>2. /\ Filtered(record, cut) \in Record
        /\ \A t \in Times : t > cut => Filtered(record, cut)[t] = record[t]
    BY FilteredKeeps
  <2> QED BY <2>1, <2>2
<1>3. PICK left \in [Peers -> Record] :
        /\ history' = [history EXCEPT ![b] = left]
        /\ \A p \in Peers : left[p] = history[b][p] \/ left[p] = Filtered(history[b][p], cut)
  <2>1. PICK left : left = [p \in Peers |-> IF ShardOf[p] = shard[b]
                              THEN Filtered(history[b][p], cut) ELSE history[b][p]]
    BY Zenon
  <2>2. history' = [history EXCEPT ![b] = left]
    BY <1>1, <2>1 DEF CleanupShard, Kept
  <2>3. left \in [Peers -> Record]
    BY <1>2, <2>1
  <2> QED BY <2>1, <2>2, <2>3, Zenon
<1>4. TypeOK'
  <2>1. history' \in [Buckets -> [Peers -> Record]]
    BY <1>0, <1>3 DEF TypeOK
  <2>2. shard' \in [Buckets -> 0 .. NumShards]
    BY <1>0 DEF TypeOK, ShardsLeft
  <2> QED BY <1>0, <2>1, <2>2 DEF TypeOK
<1>5. Remembered'
  <2>0. now' = now /\ log' = log
    BY <1>0
  <2> SUFFICES ASSUME NEW c \in Buckets, NEW p \in Peers, NEW t \in Times, t > now - Window
               PROVE  history'[c][p][t] = log[c][p][t]
    BY <2>0 DEF Remembered
  <2>1. history[c][p][t] = log[c][p][t]
    BY <1>0 DEF Remembered
  <2>2. CASE c = b
    <3>1. t > cut
      BY <1>0, <1>1 DEF Times
    <3>2. history'[b] = left
      BY <1>0, <1>3 DEF TypeOK
    <3>3. left[p][t] = history[b][p][t]
      BY <1>2, <1>3, <3>1
    <3> QED BY <2>1, <2>2, <3>2, <3>3
  <2>3. CASE c # b
    BY <1>0, <1>3, <2>1, <2>3 DEF TypeOK
  <2> QED BY <2>2, <2>3
<1>6. CutoffPast'
  BY <1>0 DEF CutoffPast, ShardsLeft, TypeOK
<1>7. NothingAhead' /\ FiniteLog' /\ WindowRespected'
  BY <1>0, LogKept
<1> QED BY <1>4, <1>5, <1>6, <1>7 DEF IInv

(* Every call and every step of a cleanup keeps the invariant.                 *)
LEMMA NextIInv == IInv /\ [Next]_vars => IInv'
<1> SUFFICES ASSUME IInv, [Next]_vars PROVE IInv'
  OBVIOUS
<1> USE SlidingWindowAssumption
<1>0. TypeOK /\ Remembered /\ NothingAhead /\ CutoffPast /\ FiniteLog /\ WindowRespected
  BY DEF IInv
<1>1. CASE Tick
  BY <1>1, TickStep
<1>2. ASSUME NEW b \in Buckets, NEW p \in Peers, NEW n \in Costs, AllowFree(b, p, n)
      PROVE  IInv'
  <2>1. TypeOK'
    BY <1>0, <1>2 DEF TypeOK, AllowFree, Answer
  <2>2. UNCHANGED <<now, history, cutoff, shard, log>>
    BY <1>2 DEF AllowFree
  <2>3. CutoffPast'
    BY <1>0, <2>2 DEF CutoffPast, ShardsLeft
  <2>4. Remembered' /\ NothingAhead' /\ FiniteLog' /\ WindowRespected'
    BY <1>0, <2>2, LogKept, RecordsKept
  <2> QED BY <2>1, <2>3, <2>4 DEF IInv
<1>3. ASSUME NEW b \in Buckets, NEW p \in Peers, NEW n \in Costs, AllowN(b, p, n)
      PROVE  IInv'
  BY <1>0, <1>3, AllowNDecides, AdmittedStep, RefusedStep
<1>4. ASSUME NEW b \in Buckets, CleanupBegins(b)
      PROVE  IInv'
  <2>1. TypeOK'
    BY <1>0, <1>4 DEF TypeOK, CleanupBegins, Times
  <2>2. CutoffPast'
    BY <1>0, <1>4 DEF CleanupBegins, CutoffPast, ShardsLeft, TypeOK, Times
  <2>3. UNCHANGED <<now, history, log>>
    BY <1>4 DEF CleanupBegins
  <2>4. Remembered' /\ NothingAhead' /\ FiniteLog' /\ WindowRespected'
    BY <1>0, <2>3, LogKept, RecordsKept
  <2> QED BY <2>1, <2>2, <2>4 DEF IInv
<1>5. ASSUME NEW b \in Buckets, CleanupShard(b)
      PROVE  IInv'
  BY <1>5, CleanupShardStep
<1>6. CASE UNCHANGED vars
  <2>1. TypeOK'
    BY <1>0, <1>6 DEF vars, TypeOK
  <2>2. UNCHANGED <<now, history, cutoff, shard, log>>
    BY <1>6 DEF vars
  <2>3. CutoffPast'
    BY <1>0, <2>2 DEF CutoffPast, ShardsLeft
  <2>4. Remembered' /\ NothingAhead' /\ FiniteLog' /\ WindowRespected'
    BY <1>0, <2>2, LogKept, RecordsKept
  <2> QED BY <2>1, <2>3, <2>4 DEF IInv
<1> QED BY <1>1, <1>2, <1>3, <1>4, <1>5, <1>6 DEF Next

(* So the window that ends now is always remembered.                           *)
LEMMA Inductive == Spec => []IInv
BY InitIInv, NextIInv, PTL DEF Spec

(* The records of the limiter are slices of time stamps up to now, in every    *)
(* bucket and shard.                                                           *)
THEOREM SlidingWindowTypeOK == Spec => []TypeOK
<1>1. IInv => TypeOK
  BY DEF IInv
<1> QED BY <1>1, Inductive, PTL

(* "allows maxRequests within each sliding window", for any limits, window and *)
(* costs: no window that ends at any moment so far has admitted more.          *)
THEOREM WindowsAreRespected == Spec => []WindowRespected
<1>1. IInv => WindowRespected
  BY DEF IInv
<1> QED BY <1>1, Inductive, PTL

----------------------------------------------------------------------------
(* The refinement *)

(* Each call decides as the limiter that forgets nothing would, and the        *)
(* cleanup is invisible.                                                       *)
LEMMA NextRefines == IInv /\ [Next]_vars => [Whole!Next]_(Whole!vars)
<1> SUFFICES ASSUME IInv, [Next]_vars PROVE Whole!Next \/ UNCHANGED Whole!vars
  OBVIOUS
<1>0. TypeOK /\ Remembered /\ NothingAhead
  BY DEF IInv
<1>1. CASE Tick
  BY <1>1 DEF Tick, Whole!Tick, Whole!Next
<1>2. ASSUME NEW b \in Buckets, NEW p \in Peers, NEW n \in Costs, AllowFree(b, p, n)
      PROVE  Whole!Next
  <2>1. ~ (n > 0) /\ UNCHANGED <<now, log>>
    BY <1>2, SlidingWindowAssumption DEF AllowFree
  <2>2. log' = [log EXCEPT ![b][p][now] = IF n > 0 THEN @ + n ELSE @]
    BY <1>0, <2>1 DEF TypeOK, Record
  <2>3. Whole!Admit(b, p, n)
    BY <1>2, <2>1, <2>2, Zenon DEF AllowFree, Answer, Whole!Admit, Whole!HasRoom
  <2> QED BY <2>3 DEF Whole!Next
<1>3. ASSUME NEW b \in Buckets, NEW p \in Peers, NEW n \in Costs, AllowN(b, p, n)
      PROVE  Whole!Next
  <2>1. /\ n \in Nat \ {0} /\ UNCHANGED now
        /\ AdmittedN(b, p, n) \/ RefusedN(b, p, n)
    BY <1>0, <1>3, AllowNDecides
  <2>2. CASE AdmittedN(b, p, n)
    <3>1. n > 0
      BY <2>1
    <3>2. Whole!HasRoom(b, p, n)
      BY <2>2 DEF AdmittedN, Whole!HasRoom
    <3>3. Whole!Admit(b, p, n)
      BY <2>1, <2>2, <3>1, <3>2 DEF AdmittedN, Answer, Whole!Admit
    <3> QED BY <3>3 DEF Whole!Next
  <2>3. CASE RefusedN(b, p, n)
    <3>1. ~ Whole!HasRoom(b, p, n)
      BY <2>1, <2>3 DEF RefusedN, Whole!HasRoom
    <3>2. /\ verdict' = [ok |-> FALSE, n |-> n, bucket |-> b, peer |-> p]
          /\ UNCHANGED <<now, log>>
      BY <2>1, <2>3 DEF RefusedN, Answer
    <3>3. Whole!Refuse(b, p, n)
      BY <3>1, <3>2 DEF Whole!Refuse
    <3> QED BY <3>3 DEF Whole!Next
  <2> QED BY <2>1, <2>2, <2>3
<1>4. ASSUME NEW b \in Buckets, CleanupBegins(b) \/ CleanupShard(b)
      PROVE  UNCHANGED Whole!vars
  BY <1>4 DEF CleanupBegins, CleanupShard, Whole!vars
<1>5. CASE UNCHANGED vars
  BY <1>5 DEF vars, Whole!vars
<1> QED BY <1>1, <1>2, <1>3, <1>4, <1>5 DEF Next

(* The limiter with its filtering and its cleanup, at any moment and with any  *)
(* cutoff computed earlier, implements the one that forgets nothing: a call is *)
(* refused exactly when the window that ends now has no room for all of it.    *)
THEOREM SlidingWindowForgetsSafely == Spec => ForgettingChangesNoAnswer
<1>1. Init => Whole!Init
  BY DEF Init, Whole!Init, Nothing, Times, Whole!Times, NoVerdict, Whole!NoVerdict
<1> QED BY <1>1, Inductive, NextRefines, PTL DEF Spec, ForgettingChangesNoAnswer, Whole!Spec

----------------------------------------------------------------------------
(* The memory of the limiter *)

\* A peer's record is no longer than the limit of its bucket.
RecordsBounded ==
    \A b \in Buckets, p \in Peers :
        /\ IsFiniteSet(Stamps(history[b][p], Times))
        /\ Length(history[b][p]) = 0 \/ Length(history[b][p]) <= MaxRequests[b]

(* Filtering a slice makes it no longer.                                       *)
LEMMA FilteredShrinks ==
    ASSUME NEW record \in Record, NEW cut \in Int, IsFiniteSet(Stamps(record, Times))
    PROVE  /\ IsFiniteSet(Stamps(Filtered(record, cut), Times))
           /\ Length(Filtered(record, cut)) \in Nat /\ Length(record) \in Nat
           /\ Length(Filtered(record, cut)) <= Length(record)
<1>1. PICK filtered : filtered = Filtered(record, cut)
  OBVIOUS
<1>2. PICK recent \in SUBSET Times : recent = {t \in Times : t > cut}
  BY Zenon
<1>3. /\ \A t \in recent : filtered[t] = record[t]
      /\ \A t \in Times \ recent : filtered[t] = 0
  BY <1>1, <1>2 DEF Filtered
<1>4. Stamps(filtered, Times) = Stamps(filtered, recent)
  BY <1>2, <1>3, EmptyTimes
<1>5. Stamps(filtered, recent) = Stamps(record, recent)
  BY <1>3, SameStamps
<1>6. /\ IsFiniteSet(Stamps(record, recent))
      /\ Cardinality(Stamps(record, recent)) \in Nat
      /\ Cardinality(Stamps(record, Times)) \in Nat
      /\ Cardinality(Stamps(record, recent)) <= Cardinality(Stamps(record, Times))
  BY <1>2, FewerStamps
<1> QED BY <1>1, <1>4, <1>5, <1>6 DEF Length

(* Every call leaves the requests of the window that ends now, which fit the   *)
(* limit, and a cleanup only takes away.                                       *)
LEMMA NextRecords == IInv /\ RecordsBounded /\ [Next]_vars => RecordsBounded'
<1> SUFFICES ASSUME IInv, RecordsBounded, [Next]_vars PROVE RecordsBounded'
  OBVIOUS
<1>0. /\ TypeOK /\ Remembered /\ NothingAhead /\ FiniteLog /\ WindowRespected /\ now \in Times
      /\ MaxRequests \in [Buckets -> Int]
  BY SlidingWindowAssumption DEF IInv, TypeOK
<1>1. ASSUME NEW b \in Buckets, NEW p \in Peers, NEW stored \in Record,
             history' = [history EXCEPT ![b][p] = stored],
             IsFiniteSet(Stamps(stored, Times)),
             Length(stored) = 0 \/ Length(stored) <= MaxRequests[b]
      PROVE  RecordsBounded'
  <2>1. /\ history'[b][p] = stored
        /\ \A c \in Buckets, q \in Peers : (c # b \/ q # p) => history'[c][q] = history[c][q]
    BY <1>0, <1>1 DEF TypeOK
  <2> SUFFICES ASSUME NEW c \in Buckets, NEW q \in Peers
               PROVE  /\ IsFiniteSet(Stamps(history'[c][q], Times))
                      /\ \/ Length(history'[c][q]) = 0
                         \/ Length(history'[c][q]) <= MaxRequests[c]
    BY DEF RecordsBounded, Length
  <2>2. CASE c = b /\ q = p
    BY <1>1, <2>1, <2>2
  <2>3. CASE c # b \/ q # p
    BY <2>1, <2>3 DEF RecordsBounded
  <2> QED BY <2>2, <2>3
<1>2. ASSUME NEW b \in Buckets, NEW p \in Peers, NEW n \in Costs, AllowN(b, p, n)
      PROVE  RecordsBounded'
  <2>1. PICK cut \in Int : cut = now - Window
    BY <1>0, SlidingWindowAssumption DEF Times
  <2>2. PICK filtered \in Record : filtered = Filtered(history[b][p], cut)
    BY <1>0, FilteredKeeps DEF TypeOK
  <2>3. PICK used \in Nat : used = InWindow(log[b][p], now) /\ used = Length(filtered)
    BY <1>0, <2>1, <2>2, FilteredIsWindow, WindowFinite
  <2>4. IsFiniteSet(Stamps(filtered, Times))
    BY <1>0, <2>1, <2>2, FilteredIsWindow, WindowFinite
  <2>5. n \in Nat \ {0} /\ (AdmittedN(b, p, n) \/ RefusedN(b, p, n))
    BY <1>0, <1>2, AllowNDecides
  <2>6. CASE RefusedN(b, p, n)
    <3>1. history' = [history EXCEPT ![b][p] = filtered]
      BY <2>1, <2>2, <2>6 DEF RefusedN
    <3>2. used = 0 \/ used <= MaxRequests[b]
      <4>1. now \in 0 .. now
        BY <1>0, SlidingWindowAssumption DEF Times
      <4>2. InWindow(log[b][p], now) = 0 \/ InWindow(log[b][p], now) <= MaxRequests[b]
        BY <1>0, <4>1 DEF WindowRespected
      <4> QED BY <2>3, <4>2
    <3> QED BY <1>1, <2>3, <2>4, <3>1, <3>2, Zenon
  <2>7. CASE AdmittedN(b, p, n)
    <3>1. filtered[now] \in Nat /\ filtered[now] + n \in Nat
      BY <1>0, <2>5 DEF Record
    <3>2. PICK stored \in Record : stored = [filtered EXCEPT ![now] = @ + n]
      <4>1. [filtered EXCEPT ![now] = @ + n] \in Record
        BY <3>1, Zenon DEF Record
      <4> QED BY <4>1
    <3>3. history' = [history EXCEPT ![b][p] = stored]
      BY <2>1, <2>2, <2>7, <3>2 DEF AdmittedN
    <3>4. /\ stored[now] = filtered[now] + n
          /\ \A t \in Times \ {now} : stored[t] = filtered[t]
      BY <1>0, <3>2 DEF Record
    <3>5. /\ IsFiniteSet(Stamps(stored, Times))
          /\ Cardinality(Stamps(stored, Times)) = Cardinality(Stamps(filtered, Times)) + n
      BY <1>0, <2>4, <2>5, <3>1, <3>4, AddedStamps
    <3>6. Length(stored) = used + n
      BY <2>3, <3>5 DEF Length
    <3>7. used + n <= MaxRequests[b]
      BY <2>3, <2>7 DEF AdmittedN
    <3> QED BY <1>1, <3>3, <3>5, <3>6, <3>7, Zenon
  <2> QED BY <2>5, <2>6, <2>7
<1>3. ASSUME NEW b \in Buckets, CleanupShard(b)
      PROVE  RecordsBounded'
  <2>1. PICK cut \in Int : cut = cutoff[b]
    BY <1>0, SlidingWindowAssumption DEF TypeOK
  <2>2. /\ history'[b] = [p \in Peers |-> IF ShardOf[p] = shard[b]
                            THEN Filtered(history[b][p], cut) ELSE history[b][p]]
        /\ \A c \in Buckets \ {b} : history'[c] = history[c]
    BY <1>0, <1>3, <2>1 DEF CleanupShard, Kept, TypeOK
  <2> SUFFICES ASSUME NEW c \in Buckets, NEW p \in Peers
               PROVE  /\ IsFiniteSet(Stamps(history'[c][p], Times))
                      /\ \/ Length(history'[c][p]) = 0
                         \/ Length(history'[c][p]) <= MaxRequests[c]
    BY DEF RecordsBounded, Length
  <2>3. PICK record \in Record : record = history[c][p]
    BY <1>0 DEF TypeOK
  <2>4. /\ IsFiniteSet(Stamps(record, Times))
        /\ Length(record) = 0 \/ Length(record) <= MaxRequests[c]
    BY <2>3 DEF RecordsBounded
  <2>5. CASE history'[c][p] = record
    BY <2>4, <2>5
  <2>6. CASE history'[c][p] = Filtered(record, cut)
    <3>1. PICK l \in Nat, k \in Nat :
            l = Length(Filtered(record, cut)) /\ k = Length(record) /\ l <= k
      BY <2>4, FilteredShrinks
    <3>2. IsFiniteSet(Stamps(Filtered(record, cut), Times))
      BY <2>4, FilteredShrinks
    <3>3. l = 0 \/ l <= MaxRequests[c]
      BY <1>0, <2>4, <3>1
    <3> QED BY <2>6, <3>1, <3>2, <3>3
  <2>7. history'[c][p] = record \/ history'[c][p] = Filtered(record, cut)
    BY <2>2, <2>3
  <2> QED BY <2>5, <2>6, <2>7
<1>4. ASSUME UNCHANGED history PROVE RecordsBounded'
  BY <1>4 DEF RecordsBounded, Length
<1>5. ASSUME NEW b \in Buckets, NEW p \in Peers, NEW n \in Costs, AllowFree(b, p, n)
      PROVE  UNCHANGED history
  BY <1>5 DEF AllowFree
<1>6. ASSUME NEW b \in Buckets, CleanupBegins(b) PROVE UNCHANGED history
  BY <1>6 DEF CleanupBegins
<1>7. Tick \/ UNCHANGED vars => UNCHANGED history
  BY DEF Tick, vars
<1> QED BY <1>2, <1>3, <1>4, <1>5, <1>6, <1>7 DEF Next

(* The limiter never keeps more time stamps for a peer than maxRequests,       *)
(* however often the peer calls, also when no cleanup ever runs.               *)
THEOREM SlidingWindowMemoryBounded == Spec => []RecordsBounded
<1>1. Init => RecordsBounded
  <2> SUFFICES ASSUME Init, NEW b \in Buckets, NEW p \in Peers
               PROVE  /\ IsFiniteSet(Stamps(history[b][p], Times))
                      /\ Length(history[b][p]) = 0
    BY DEF RecordsBounded
  <2>1. \A t \in Times : history[b][p][t] = 0
    BY DEF Init, Nothing
  <2>2. Stamps(history[b][p], Times) = {}
    BY <2>1, StampsMember
  <2> QED BY <2>2, FS_EmptySet DEF Length
<1> QED BY <1>1, Inductive, NextRecords, PTL DEF Spec
=============================================================================
