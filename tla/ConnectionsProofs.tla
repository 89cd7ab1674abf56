------------------------- MODULE ConnectionsProofs --------------------------
(***************************************************************************)
(* The connection limits for any configuration, any number of connections  *)
(* and any width of int: the caps hold, a connection is refused only at    *)
(* one of them, and a peer is in the routing table only if this host has   *)
(* reached it.                                                             *)
(***************************************************************************)
EXTENDS Connections, FiniteSetTheorems, TLAPS

----------------------------------------------------------------------------
(* The arithmetic of limits.go *)

(* A product that an int can hold is not changed by wrapping around.           *)
LEMMA WrapFits == ASSUME NEW n \in 0 .. MaxInt PROVE Wrap(n) = n
<1>1. MaxInt \in Nat
  BY LimitsAssumption
<1>2. ASSUME NEW x \in Nat, NEW y \in Nat, x < y PROVE x % y = x
  BY <1>2
<1>3. n + MaxInt + 1 \in Nat /\ 2 * (MaxInt + 1) \in Nat /\ n + MaxInt + 1 < 2 * (MaxInt + 1)
  BY <1>1
<1>4. (n + MaxInt + 1) % (2 * (MaxInt + 1)) = n + MaxInt + 1
  BY <1>2, <1>3
<1> QED BY <1>1, <1>4 DEF Wrap

(* saturatingMul is the product, or MaxInt where an int cannot hold it.        *)
LEMMA SaturatedProduct ==
    ASSUME NEW a \in Nat, NEW b \in 1 .. MaxInt
    PROVE  saturatingMul(a, b) = IF a * b <= MaxInt THEN a * b ELSE MaxInt
<1>0. MaxInt \in Nat /\ b \in Nat \ {0}
  BY LimitsAssumption
<1> DEFINE q == MaxInt \div b
           m == MaxInt % b
<1>1. q \in Nat /\ m \in Nat /\ m < b /\ MaxInt = b * q + m
  BY <1>0
<1> HIDE DEF q, m
<1>2. ASSUME a > q PROVE a * b > MaxInt
  <2>1. PICK k \in Nat : a = q + 1 + k
    <3>1. a - q - 1 \in Nat /\ a = q + 1 + (a - q - 1)
      BY <1>1, <1>2
    <3> QED BY <3>1
  <2>2. a * b = q * b + b + k * b /\ k * b \in Nat /\ q * b \in Nat /\ q * b = b * q
    BY <1>0, <1>1, <2>1
  <2> QED BY <1>0, <1>1, <2>2
<1>3. ASSUME ~ (a > q) PROVE a * b \in 0 .. MaxInt
  <2>1. PICK k \in Nat : q = a + k
    <3>1. q - a \in Nat /\ q = a + (q - a)
      BY <1>1, <1>3
    <3> QED BY <3>1
  <2>2. b * q = a * b + k * b /\ k * b \in Nat /\ a * b \in Nat
    BY <1>0, <1>1, <2>1
  <2> QED BY <1>0, <1>1, <2>2
<1>4. CASE a > q
  BY <1>0, <1>2, <1>4 DEF saturatingMul, q
<1>5. CASE ~ (a > q)
  <2>1. a * b \in 0 .. MaxInt
    BY <1>3, <1>5
  <2>2. Wrap(a * b) = a * b
    BY <2>1, WrapFits
  <2> QED BY <1>0, <1>5, <2>1, <2>2 DEF saturatingMul, q
<1> QED BY <1>4, <1>5

(* So the cap of a /48 is that of Subnets /56, where an int can hold it, and   *)
(* without a cap per address neither is below MaxInt.                          *)
LEMMA WideCap ==
    ASSUME NEW perIP \in Nat
    PROVE  wideCapacity(perIP) = IF perIP > 0 /\ Subnets * perIP <= MaxInt
                                   THEN Subnets * perIP ELSE MaxInt
<1>0. MaxInt \in Nat /\ Subnets \in 1 .. MaxInt /\ Subnets \in Nat
  BY LimitsAssumption
<1>1. CASE perIP > 0
  <2>1. capacity(perIP) = perIP /\ perIP * Subnets = Subnets * perIP
    BY <1>0, <1>1 DEF capacity
  <2> QED BY <1>0, <1>1, <2>1, SaturatedProduct DEF wideCapacity
<1>2. CASE perIP = 0
  <2>1. capacity(perIP) = MaxInt
    BY <1>2 DEF capacity
  <2>2. saturatingMul(MaxInt, Subnets) =
          IF MaxInt * Subnets <= MaxInt THEN MaxInt * Subnets ELSE MaxInt
    BY <1>0, SaturatedProduct
  <2>3. PICK k \in Nat : Subnets = 1 + k
    <3>1. Subnets - 1 \in Nat /\ Subnets = 1 + (Subnets - 1)
      BY <1>0
    <3> QED BY <3>1
  <2>4. MaxInt * Subnets = MaxInt + MaxInt * k /\ MaxInt * k \in Nat
    BY <1>0, <2>3
  <2> QED BY <1>0, <1>2, <2>1, <2>2, <2>4 DEF wideCapacity
<1> QED BY <1>1, <1>2

(* A larger share is a smaller part.                                           *)
LEMMA SmallerPart ==
    ASSUME NEW n \in Nat, NEW a \in Nat \ {0}, NEW b \in Nat \ {0}, a <= b
    PROVE  n \div b \in Nat /\ n \div a \in Nat /\ n \div b <= n \div a
<1>1. PICK q \in Nat, r \in Nat : q = n \div a /\ r < a /\ n = a * q + r
  <2>1. n \div a \in Nat /\ n % a \in Nat /\ n % a < a /\ n = a * (n \div a) + (n % a)
    OBVIOUS
  <2> QED BY <2>1
<1>2. PICK s \in Nat, u \in Nat : s = n \div b /\ n = b * s + u
  <2>1. n \div b \in Nat /\ n % b \in Nat /\ n = b * (n \div b) + (n % b)
    OBVIOUS
  <2> QED BY <2>1
<1>3. CASE s > q
  <2>1. PICK k \in Nat : s = q + 1 + k
    <3>1. s - q - 1 \in Nat /\ s = q + 1 + (s - q - 1)
      BY <1>3
    <3> QED BY <3>1
  <2>2. PICK e \in Nat : b = a + e
    <3>1. b - a \in Nat /\ b = a + (b - a)
      OBVIOUS
    <3> QED BY <3>1
  <2>3. b * s = a * s + e * s /\ e * s \in Nat /\ a * s \in Nat
    BY <2>2
  <2>4. a * s = a * q + a + a * k /\ a * k \in Nat /\ a * q \in Nat
    BY <2>1
  <2>5. PICK x \in Nat, y \in Nat, z \in Nat : x = a * q /\ y = a * k /\ z = e * s
    BY <2>3, <2>4
  <2>6. n = x + r /\ n = x + a + y + z + u
    BY <1>1, <1>2, <2>3, <2>4, <2>5
  <2> QED BY <1>1, <1>2, <2>5, <2>6
<1> QED BY <1>1, <1>2, <1>3

(* "trimming the least valuable connections once the count passes 90% of the   *)
(* cap so there is always room for a new peer": the connection manager's water *)
(* marks are positive, in order and within the cap, for any MaxConnections,    *)
(* and below it once the cap has a tenth; under that they may equal the cap,   *)
(* and trimming then makes no room.                                            *)
THEOREM WaterMarksInOrder ==
    \A maxConns \in 1 .. MaxInt :
        /\ 1 <= low(maxConns) /\ low(maxConns) <= high(maxConns) /\ high(maxConns) <= maxConns
        /\ maxConns >= HighShare => high(maxConns) < maxConns
        /\ maxConns < HighShare => high(maxConns) = maxConns
<1>0. /\ MaxInt \in Nat /\ LowShare \in Nat \ {0} /\ HighShare \in Nat \ {0}
      /\ 1 < LowShare /\ LowShare <= HighShare
  BY LimitsAssumption
<1> SUFFICES ASSUME NEW m \in Nat \ {0}
             PROVE  /\ 1 <= low(m) /\ low(m) <= high(m) /\ high(m) <= m
                    /\ m >= HighShare => high(m) < m
                    /\ m < HighShare => high(m) = m
  BY <1>0
<1>1. PICK t \in Nat, f \in Nat : t = m \div HighShare /\ f = m \div LowShare /\ t <= f
  BY <1>0, SmallerPart, Zenon
<1>2. f < m
  <2>1. m = LowShare * f + (m % LowShare) /\ m % LowShare \in Nat
    BY <1>0, <1>1
  <2>2. PICK k \in Nat : LowShare = 2 + k
    <3>1. LowShare - 2 \in Nat /\ LowShare = 2 + (LowShare - 2)
      BY <1>0
    <3> QED BY <3>1
  <2>3. LowShare * f = 2 * f + k * f /\ k * f \in Nat
    BY <2>2
  <2>4. PICK x \in Nat, y \in Nat : x = k * f /\ y = m % LowShare
    BY <2>1, <2>3
  <2>5. m = 2 * f + x + y
    BY <2>1, <2>3, <2>4
  <2> QED BY <2>5
<1>3. (m >= HighShare => t >= 1) /\ (m < HighShare => t = 0)
  <2>1. PICK r \in Nat : m = HighShare * t + r /\ r < HighShare
    <3>1. m % HighShare \in Nat /\ m % HighShare < HighShare
          /\ m = HighShare * t + (m % HighShare)
      BY <1>0, <1>1
    <3> QED BY <3>1
  <2>2. CASE t = 0
    BY <1>0, <2>1, <2>2
  <2>3. CASE t > 0
    <3>1. PICK k \in Nat : t = 1 + k
      <4>1. t - 1 \in Nat /\ t = 1 + (t - 1)
        BY <2>3
      <4> QED BY <4>1
    <3>2. HighShare * t = HighShare + HighShare * k /\ HighShare * k \in Nat
      BY <1>0, <3>1
    <3>3. PICK x \in Nat : x = HighShare * k
      BY <3>2
    <3>4. m = HighShare + x + r
      BY <2>1, <3>2, <3>3
    <3> QED BY <1>0, <2>1, <2>3, <3>4
  <2> QED BY <2>2, <2>3
<1>4. high(m) = m - t /\ low(m) = m - f
  BY <1>1, <1>2 DEF high, low
<1> QED BY <1>0, <1>1, <1>2, <1>3, <1>4

----------------------------------------------------------------------------
(* The inductive invariant *)

\* Every connection that counts for the filter has been recorded as reached.
DirectReached == \A c \in Open : c \in Outbound \ Relayed => PeerOf[c] \in reached

IInv == TypeOK /\ CapsHeld /\ DirectReached /\ TableReached

(* The sets that the limits count are finite.                                  *)
LEMMA Counted ==
    ASSUME NEW S, S \subseteq Conns
    PROVE  IsFiniteSet(S) /\ Cardinality(S) \in Nat /\ Cardinality(S) <= Cardinality(Conns)
<1>1. IsFiniteSet(Conns)
  BY ConnectionsAssumption
<1>2. IsFiniteSet(S) /\ Cardinality(S) <= Cardinality(Conns)
  BY <1>1, FS_Subset
<1> QED BY <1>2, FS_CardinalityType

(* No connection is there yet.                                                 *)
LEMMA InitIInv == Init => IInv
<1> SUFFICES ASSUME Init PROVE IInv
  OBVIOUS
<1>1. TypeOK /\ TableReached
  BY Zenon DEF Init, TypeOK, TableReached
<1>2. InUse = {} /\ Open = {}
  BY DEF Init, InUse, Open, Handshaking
<1>3. MaxConnections \in Nat
  BY ConnectionsAssumption DEF Init, MaxConnections
<1>4. CapsHeld
  BY <1>2, <1>3, FS_EmptySet DEF CapsHeld
<1> QED BY <1>1, <1>2, <1>4 DEF IInv, DirectReached

----------------------------------------------------------------------------
(* The caps *)

(* Connections that end, or change between states that count, exceed no cap.   *)
LEMMA CapsShrink ==
    ASSUME IInv, setting' = setting, InUse' \subseteq InUse
    PROVE  CapsHeld'
<1>0. CapsHeld /\ MaxConnections \in Nat /\ MaxConnectionsPerIP \in Nat /\ Subnets \in Nat
  BY ConnectionsAssumption, LimitsAssumption
  DEF IInv, TypeOK, MaxConnections, MaxConnectionsPerIP
<1>1. UNCHANGED <<MaxConnections, MaxConnectionsPerIP, Narrow>>
  BY DEF MaxConnections, MaxConnectionsPerIP, Narrow
<1>2. InUse \subseteq Conns
  BY DEF InUse, Open, Handshaking
<1>3. ASSUME NEW S, NEW T, S \subseteq T, T \subseteq Conns
      PROVE  /\ Cardinality(S) \in Nat /\ Cardinality(T) \in Nat
             /\ Cardinality(S) <= Cardinality(T)
  BY <1>3, Counted, FS_Subset
<1>4. MaxConnections > 0 => Cardinality(InUse') <= MaxConnections
  <2>1. Cardinality(InUse') \in Nat /\ Cardinality(InUse) \in Nat
        /\ Cardinality(InUse') <= Cardinality(InUse)
    BY <1>2, <1>3
  <2> QED BY <1>0, <2>1 DEF CapsHeld
<1>5. ASSUME MaxConnectionsPerIP > 0, NEW c \in InUse', Narrow[c] \notin Loopback
      PROVE  /\ Cardinality(SameNarrow(c)') <= MaxConnectionsPerIP
             /\ Cardinality(SameWide(c)') <= Subnets * MaxConnectionsPerIP
  <2>1. c \in InUse
    BY <1>5
  <2>2. /\ Cardinality(SameNarrow(c)) <= MaxConnectionsPerIP
        /\ Cardinality(SameWide(c)) <= Subnets * MaxConnectionsPerIP
    BY <1>0, <1>5, <2>1 DEF CapsHeld
  <2>3. /\ SameNarrow(c)' \subseteq SameNarrow(c) /\ SameNarrow(c) \subseteq Conns
        /\ SameWide(c)' \subseteq SameWide(c) /\ SameWide(c) \subseteq Conns
    BY <1>1, <1>2 DEF SameNarrow, SameWide
  <2>4. Subnets * MaxConnectionsPerIP \in Nat
    BY <1>0
  <2>5. /\ Cardinality(SameNarrow(c)') \in Nat /\ Cardinality(SameNarrow(c)) \in Nat
        /\ Cardinality(SameNarrow(c)') <= Cardinality(SameNarrow(c))
    BY <1>3, <2>3
  <2>6. /\ Cardinality(SameWide(c)') \in Nat /\ Cardinality(SameWide(c)) \in Nat
        /\ Cardinality(SameWide(c)') <= Cardinality(SameWide(c))
    BY <1>3, <2>3
  <2> QED BY <1>0, <2>2, <2>4, <2>5, <2>6
<1> QED BY <1>1, <1>4, <1>5 DEF CapsHeld

(* A connection that was admitted makes every count grow by at most one, and   *)
(* only where there was room.                                                  *)
LEMMA CapsAdmit ==
    ASSUME IInv, NEW c \in Conns, Begin(c), Admitted(c)
    PROVE  CapsHeld'
<1>0. CapsHeld /\ MaxConnections \in Nat /\ MaxConnectionsPerIP \in Nat /\ Subnets \in Nat
  BY ConnectionsAssumption, LimitsAssumption
  DEF IInv, TypeOK, MaxConnections, MaxConnectionsPerIP
<1>1. UNCHANGED <<MaxConnections, MaxConnectionsPerIP, Narrow>>
  BY DEF MaxConnections, MaxConnectionsPerIP, Narrow, Begin
<1>2. InUse \subseteq Conns /\ InUse' = InUse \cup {c}
  BY DEF InUse, Open, Handshaking, Begin, IInv, TypeOK
<1>3. ASSUME NEW S, S \subseteq Conns
      PROVE  /\ Cardinality(S) \in Nat /\ Cardinality(S \cup {c}) \in Nat
             /\ Cardinality(S \cup {c}) <= Cardinality(S) + 1
  <2>1. IsFiniteSet(S) /\ Cardinality(S) \in Nat
    BY <1>3, Counted
  <2>2. /\ IsFiniteSet(S \cup {c})
        /\ Cardinality(S \cup {c}) = IF c \in S THEN Cardinality(S) ELSE Cardinality(S) + 1
    BY <2>1, FS_AddElement
  <2> QED BY <2>1, <2>2
<1>4. MaxConnections > 0 => Cardinality(InUse') <= MaxConnections
  <2>1. MaxConnections > 0 => Cardinality(InUse) < MaxConnections
    BY DEF Admitted
  <2>2. /\ Cardinality(InUse) \in Nat /\ Cardinality(InUse \cup {c}) \in Nat
        /\ Cardinality(InUse \cup {c}) <= Cardinality(InUse) + 1
    BY <1>2, <1>3
  <2> QED BY <1>0, <1>2, <2>1, <2>2
<1>5. ASSUME MaxConnectionsPerIP > 0, NEW d \in InUse', Narrow[d] \notin Loopback
      PROVE  Cardinality(SameNarrow(d)') <= MaxConnectionsPerIP
  <2>1. CASE Narrow[d] = Narrow[c]
    <3>1. SameNarrow(d)' = SameNarrow(c) \cup {c} /\ SameNarrow(c) \subseteq Conns
      BY <1>1, <1>2, <2>1 DEF SameNarrow
    <3>2. Cardinality(SameNarrow(c)) < MaxConnectionsPerIP
      BY <1>5, <2>1 DEF Admitted, capacity
    <3>3. /\ Cardinality(SameNarrow(c)) \in Nat /\ Cardinality(SameNarrow(c) \cup {c}) \in Nat
          /\ Cardinality(SameNarrow(c) \cup {c}) <= Cardinality(SameNarrow(c)) + 1
      BY <1>3, <3>1
    <3> QED BY <1>0, <3>1, <3>2, <3>3
  <2>2. CASE Narrow[d] # Narrow[c]
    <3>1. SameNarrow(d)' = SameNarrow(d) /\ d \in InUse
      BY <1>1, <1>2, <2>2 DEF SameNarrow
    <3> QED BY <1>0, <1>5, <3>1 DEF CapsHeld
  <2> QED BY <2>1, <2>2
<1>6. ASSUME MaxConnectionsPerIP > 0, NEW d \in InUse', Narrow[d] \notin Loopback
      PROVE  Cardinality(SameWide(d)') <= Subnets * MaxConnectionsPerIP
  <2>0. Subnets * MaxConnectionsPerIP \in Nat
    BY <1>0
  <2>1. CASE c \in SameWide(d)'
    <3>1. /\ SameWide(d)' = SameWide(c) \cup {c} /\ SameWide(c) \subseteq Conns
          /\ Narrow[c] \notin Loopback
      BY <1>1, <1>2, <2>1 DEF SameWide
    <3>2. Cardinality(SameWide(c)) < wideCapacity(MaxConnectionsPerIP)
      BY <3>1 DEF Admitted
    <3>3. wideCapacity(MaxConnectionsPerIP) <= Subnets * MaxConnectionsPerIP
          /\ wideCapacity(MaxConnectionsPerIP) \in Nat
      <4>1. wideCapacity(MaxConnectionsPerIP) =
              IF Subnets * MaxConnectionsPerIP <= MaxInt
                THEN Subnets * MaxConnectionsPerIP ELSE MaxInt
        BY <1>0, <1>6, WideCap
      <4> QED BY <2>0, <4>1, LimitsAssumption
    <3>4. /\ Cardinality(SameWide(c)) \in Nat /\ Cardinality(SameWide(c) \cup {c}) \in Nat
          /\ Cardinality(SameWide(c) \cup {c}) <= Cardinality(SameWide(c)) + 1
      BY <1>3, <3>1
    <3> QED BY <2>0, <3>1, <3>2, <3>3, <3>4
  <2>2. CASE c \notin SameWide(d)' /\ d # c
    <3>1. SameWide(d)' = SameWide(d) /\ d \in InUse
      BY <1>1, <1>2, <2>2 DEF SameWide
    <3> QED BY <1>0, <1>6, <3>1 DEF CapsHeld
  <2>3. CASE c \notin SameWide(d)' /\ d = c
    <3>1. SameWide(d)' = {}
      BY <1>1, <1>2, <1>6, <2>3 DEF SameWide
    <3> QED BY <2>0, <3>1, FS_EmptySet
  <2> QED BY <2>1, <2>2, <2>3
<1> QED BY <1>1, <1>4, <1>5, <1>6 DEF CapsHeld

----------------------------------------------------------------------------
(* The steps *)

(* An event spawns at most one goroutine for each registered callback.         *)
LEMMA NotifySpawns ==
    ASSUME IInv, NEW S \in SUBSET Conns, NEW event \in Events, Notify(S, event),
           setting' = setting
    PROVE  pending' \subseteq Conns \X Events \X Callbacks'
<1>1. Callbacks' = Callbacks /\ pending \subseteq Conns \X Events \X Callbacks
  BY DEF Callbacks, IInv, TypeOK
<1> QED BY <1>1 DEF Notify

(* Any connections S may end.                                                  *)
LEMMA DisconnectStep ==
    ASSUME IInv, NEW S \in SUBSET Open, Disconnect(S)
    PROVE  IInv'
<1>0. S \subseteq Conns /\ TypeOK
  BY DEF Open, IInv
<1>1. /\ UNCHANGED <<setting, hooked, protected, ran, table, reached>>
      /\ Notify(S, "disconnected")
      /\ conn' = [c \in Conns |-> IF c \in S THEN "closed" ELSE conn[c]]
  BY DEF Disconnect, routing
<1>2. pending' \subseteq Conns \X Events \X Callbacks'
  BY <1>0, <1>1, NotifySpawns DEF Events
<1>3. TypeOK'
  BY <1>0, <1>1, <1>2 DEF TypeOK, Callbacks
<1>4. InUse' \subseteq InUse /\ Open' \subseteq Open
  BY <1>0, <1>1 DEF InUse, Open, Handshaking
<1>5. CapsHeld'
  BY <1>1, <1>4, CapsShrink
<1>6. DirectReached' /\ TableReached'
  BY <1>1, <1>4 DEF IInv, DirectReached, TableReached
<1> QED BY <1>3, <1>5, <1>6 DEF IInv

(* Every step of the host, its peers, the connection manager and the DHT.      *)
LEMMA NextIInv == IInv /\ [Next]_vars => IInv'
<1> SUFFICES ASSUME IInv, [Next]_vars PROVE IInv'
  OBVIOUS
<1>0. TypeOK /\ DirectReached /\ TableReached
  BY DEF IInv
<1>1. ASSUME NEW c \in Conns, Begin(c) PROVE IInv'
  <2>1. TypeOK'
    BY <1>0, <1>1 DEF Begin, TypeOK, callbacks, routing, Callbacks
  <2>2. CapsHeld'
    <3>1. CASE Admitted(c)
      BY <1>1, <3>1, CapsAdmit
    <3>2. CASE ~ Admitted(c)
      <4>1. InUse' \subseteq InUse /\ setting' = setting
        BY <1>0, <1>1, <3>2 DEF Begin, TypeOK, InUse, Open, Handshaking
      <4> QED BY <4>1, CapsShrink
    <3> QED BY <3>1, <3>2
  <2>3. DirectReached' /\ TableReached'
    BY <1>0, <1>1 DEF Begin, TypeOK, routing, DirectReached, TableReached, Open
  <2> QED BY <2>1, <2>2, <2>3 DEF IInv
<1>2. ASSUME NEW c \in Conns, HandshakeFails(c) \/ GracePasses(c) PROVE IInv'
  <2>1. TypeOK'
    BY <1>0, <1>2 DEF HandshakeFails, GracePasses, TypeOK, callbacks, routing, Callbacks
  <2>2. InUse' \subseteq InUse /\ Open' = Open /\ UNCHANGED <<setting, table, reached>>
    BY <1>0, <1>2 DEF HandshakeFails, GracePasses, TypeOK, InUse, Open, Handshaking, routing
  <2>3. CapsHeld'
    BY <2>2, CapsShrink
  <2> QED BY <1>0, <2>1, <2>2, <2>3 DEF IInv, DirectReached, TableReached
<1>3. ASSUME NEW c \in Conns, Established(c) PROVE IInv'
  <2>1. /\ UNCHANGED <<setting, hooked, protected, ran, table>> /\ Notify({c}, "connected")
        /\ conn[c] = "handshake" /\ conn' = [conn EXCEPT ![c] = "young"]
        /\ reached' = reached \cup IF c \in Outbound \ Relayed THEN {PeerOf[c]} ELSE {}
    BY <1>3 DEF Established
  <2>2. pending' \subseteq Conns \X Events \X Callbacks'
    BY <2>1, NotifySpawns DEF Events
  <2>3. PeerOf[c] \in Peers
    BY DEF Peers
  <2>4. TypeOK'
    BY <1>0, <2>1, <2>2, <2>3 DEF TypeOK, Callbacks
  <2>5. InUse' \subseteq InUse
    BY <1>0, <2>1 DEF TypeOK, InUse, Open, Handshaking
  <2>6. CapsHeld'
    BY <2>1, <2>5, CapsShrink
  <2>7. DirectReached' /\ TableReached'
    BY <1>0, <2>1 DEF TypeOK, DirectReached, TableReached, Open
  <2> QED BY <2>4, <2>6, <2>7 DEF IInv
<1>4. ASSUME NEW c \in Conns, c \in Open, Disconnect({c}) PROVE IInv'
  BY <1>4, DisconnectStep
<1>5. CASE Trim
  <2>1. PICK S \in SUBSET Trimmable : Disconnect(S)
    BY <1>5 DEF Trim
  <2> QED BY <2>1, DisconnectStep DEF Trimmable
<1>6. ASSUME NEW x \in pending, safeCallback(x) PROVE IInv'
  <2>1. /\ UNCHANGED <<setting, hooked, conn, protected, table, reached>>
        /\ ran' = ran \cup {x} /\ pending' = pending \ {x}
    BY <1>6 DEF safeCallback, AbandonedByPanic, routing
  <2>2. TypeOK'
    BY <1>0, <2>1 DEF TypeOK, Callbacks
  <2>3. InUse' \subseteq InUse /\ Open' = Open
    BY <2>1 DEF InUse, Open, Handshaking
  <2>4. CapsHeld'
    BY <2>1, <2>3, CapsShrink
  <2> QED BY <1>0, <2>1, <2>2, <2>3, <2>4 DEF IInv, DirectReached, TableReached
<1>7. ASSUME NEW p \in Peers, AddPeer(p) \/ RemovePeer(p) PROVE IInv'
  <2>1. UNCHANGED <<setting, hooked, conn, protected, callbacks, reached>>
    BY <1>7 DEF AddPeer, RemovePeer
  <2>2. table' \subseteq table \/ (Dialable(p) /\ table' = table \cup {p})
    BY <1>7 DEF AddPeer, RemovePeer
  <2>3. TypeOK'
    BY <1>0, <2>1, <2>2 DEF TypeOK, callbacks, Callbacks
  <2>4. InUse' \subseteq InUse /\ Open' = Open
    BY <2>1 DEF InUse, Open, Handshaking
  <2>5. CapsHeld'
    BY <2>1, <2>4, CapsShrink
  <2>6. TableReached'
    BY <1>0, <2>1, <2>2 DEF TableReached, Dialable, DirectReached, Open
  <2> QED BY <1>0, <2>1, <2>3, <2>4, <2>5, <2>6 DEF IInv, DirectReached
<1>8. CASE Register \/ (\E p \in Peers : Protect(p)) \/ UNCHANGED vars
  <2>1. UNCHANGED <<setting, conn, pending, ran, table, reached>>
    BY <1>8 DEF Register, Protect, vars, callbacks, routing
  <2>2. hooked' \in BOOLEAN
    BY <1>0, <1>8, Zenon DEF Register, Protect, vars, TypeOK
  <2>3. protected' \subseteq Peers
    BY <1>0, <1>8 DEF Register, Protect, vars, TypeOK
  <2>4. TypeOK'
    BY <1>0, <2>1, <2>2, <2>3, Zenon DEF TypeOK, Callbacks
  <2>5. InUse' = InUse /\ Open' = Open
    BY <2>1 DEF InUse, Open, Handshaking
  <2>6. CapsHeld'
    BY <2>1, <2>5, CapsShrink
  <2> QED BY <1>0, <2>1, <2>4, <2>5, <2>6 DEF IInv, DirectReached, TableReached
<1> QED
  BY <1>1, <1>2, <1>3, <1>4, <1>5, <1>6, <1>7, <1>8, Zenon DEF Next, HandshakeEnds

(* The invariant holds in every state.                                         *)
LEMMA Inductive == Spec => []IInv
BY InitIInv, NextIInv, PTL DEF Spec

(* Connections, routing table and callbacks stay in their ranges, for any      *)
(* configuration.                                                              *)
THEOREM ConnectionsTypeOK == Spec => []TypeOK
<1>1. IInv => TypeOK
  BY DEF IInv
<1> QED BY <1>1, Inductive, PTL

(* Neither MaxConnections nor MaxConnectionsPerIP, per address and per /48, is *)
(* ever exceeded by the connections that are open or in their handshake.       *)
THEOREM CapsAlwaysHeld == Spec => []CapsHeld
<1>1. IInv => CapsHeld
  BY DEF IInv
<1> QED BY <1>1, Inductive, PTL

(* The filter lets into the routing table only peers that this host has once   *)
(* reached by a direct connection that it opened itself.                       *)
THEOREM TableAlwaysReached == Spec => []TableReached
<1>1. IInv => TableReached
  BY DEF IInv
<1> QED BY <1>1, Inductive, PTL

----------------------------------------------------------------------------
(* Refusals *)

(* Only the resource manager refuses a connection.                             *)
LEMMA RefusedByManager ==
    ASSUME IInv, Next, NEW c \in Conns, conn[c] = "new", conn'[c] = "refused"
    PROVE  ~ Admitted(c)
<1>0. conn \in [Conns -> {"new", "handshake", "young", "old", "closed", "refused", "failed"}]
  BY DEF IInv, TypeOK
<1>1. ASSUME NEW d \in Conns, Begin(d) PROVE ~ Admitted(c)
  BY <1>0, <1>1 DEF Begin
<1>2. ASSUME NEW d \in Conns, HandshakeEnds(d) \/ GracePasses(d) PROVE FALSE
  BY <1>0, <1>2 DEF HandshakeEnds, Established, HandshakeFails, GracePasses
<1>3. ASSUME NEW S, Disconnect(S) PROVE FALSE
  BY <1>0, <1>3 DEF Disconnect
<1>4. ASSUME NEW x, safeCallback(x) PROVE FALSE
  BY <1>4 DEF safeCallback
<1>5. ASSUME NEW p, Register \/ Protect(p) \/ AddPeer(p) \/ RemovePeer(p) PROVE FALSE
  BY <1>5 DEF Register, Protect, AddPeer, RemovePeer
<1> QED BY <1>1, <1>2, <1>3, <1>4, <1>5, Zenon DEF Next, Trim

(* A connection that is not in use leaves fewer than MaxInt that are: the      *)
(* saturated caps are out of reach.                                            *)
LEMMA BelowMaxInt ==
    ASSUME NEW c \in Conns, NEW S, S \subseteq Conns \ {c}
    PROVE  Cardinality(S) \in Nat /\ Cardinality(S) < MaxInt
<1>0. IsFiniteSet(Conns) /\ Cardinality(Conns) <= MaxInt /\ MaxInt \in Nat
  BY ConnectionsAssumption, LimitsAssumption
<1>1. Cardinality(Conns) \in Nat
  BY <1>0, FS_CardinalityType
<1>2. IsFiniteSet(Conns \ {c}) /\ Cardinality(Conns \ {c}) = Cardinality(Conns) - 1
  BY <1>0, FS_RemoveElement
<1>3. IsFiniteSet(S) /\ Cardinality(S) <= Cardinality(Conns \ {c})
  BY <1>2, FS_Subset
<1>4. Cardinality(S) \in Nat
  BY <1>3, FS_CardinalityType
<1> QED BY <1>0, <1>1, <1>2, <1>3, <1>4

(* The counts of a source that has reached its limit are exactly the limit.    *)
LEMMA AtCap ==
    ASSUME IInv, NEW c \in Conns, c \notin InUse, Narrow[c] \notin Loopback
    PROVE  /\ ~ (Cardinality(SameNarrow(c)) < capacity(MaxConnectionsPerIP)) =>
                MaxConnectionsPerIP > 0 /\ Cardinality(SameNarrow(c)) = MaxConnectionsPerIP
           /\ ~ (Cardinality(SameWide(c)) < wideCapacity(MaxConnectionsPerIP)) =>
                /\ MaxConnectionsPerIP > 0
                /\ Cardinality(SameWide(c)) = Subnets * MaxConnectionsPerIP
<1>0. /\ CapsHeld /\ MaxConnectionsPerIP \in Nat
      /\ Subnets \in Nat \ {0} /\ Subnets * MaxConnectionsPerIP \in Nat
      /\ (MaxConnectionsPerIP > 0 => Subnets * MaxConnectionsPerIP > 0)
  <2>1. CapsHeld /\ MaxConnectionsPerIP \in Nat
    BY ConnectionsAssumption DEF IInv, TypeOK, MaxConnectionsPerIP
  <2>2. Subnets \in Nat \ {0}
    BY LimitsAssumption
  <2>3. ASSUME NEW m \in Nat, NEW n \in Nat \ {0}
        PROVE  n * m \in Nat /\ (m > 0 => n * m > 0)
    OBVIOUS
  <2> QED BY <2>1, <2>2, <2>3
<1>1. /\ SameNarrow(c) \subseteq Conns \ {c} /\ SameWide(c) \subseteq Conns \ {c}
  BY DEF SameNarrow, SameWide, InUse, Open, Handshaking
<1>2. /\ Cardinality(SameNarrow(c)) \in Nat /\ Cardinality(SameNarrow(c)) < MaxInt
      /\ Cardinality(SameWide(c)) \in Nat /\ Cardinality(SameWide(c)) < MaxInt
  BY <1>1, BelowMaxInt
<1>3. MaxConnectionsPerIP > 0 => Cardinality(SameNarrow(c)) <= MaxConnectionsPerIP
  <2>1. CASE SameNarrow(c) = {}
    BY <1>0, <2>1, FS_EmptySet
  <2>2. CASE SameNarrow(c) # {}
    <3>1. PICK d \in InUse : Narrow[d] = Narrow[c]
      BY <2>2 DEF SameNarrow
    <3>2. SameNarrow(d) = SameNarrow(c)
      BY <3>1 DEF SameNarrow
    <3> QED BY <1>0, <3>1, <3>2 DEF CapsHeld
  <2> QED BY <2>1, <2>2
<1>4. MaxConnectionsPerIP > 0 => Cardinality(SameWide(c)) <= Subnets * MaxConnectionsPerIP
  <2>1. CASE SameWide(c) = {}
    BY <1>0, <2>1, FS_EmptySet
  <2>2. CASE SameWide(c) # {}
    <3>1. PICK d \in InUse : /\ Wide[Narrow[d]] = Wide[Narrow[c]]
                             /\ Narrow[d] \notin Loopback
      BY <2>2 DEF SameWide
    <3>2. SameWide(d) = SameWide(c)
      BY <3>1 DEF SameWide
    <3> QED BY <1>0, <3>1, <3>2 DEF CapsHeld
  <2> QED BY <2>1, <2>2
<1>5. ASSUME ~ (Cardinality(SameNarrow(c)) < capacity(MaxConnectionsPerIP))
      PROVE  MaxConnectionsPerIP > 0 /\ Cardinality(SameNarrow(c)) = MaxConnectionsPerIP
  BY <1>0, <1>2, <1>3, <1>5 DEF capacity
<1>6. ASSUME ~ (Cardinality(SameWide(c)) < wideCapacity(MaxConnectionsPerIP))
      PROVE  /\ MaxConnectionsPerIP > 0
             /\ Cardinality(SameWide(c)) = Subnets * MaxConnectionsPerIP
  <2>1. wideCapacity(MaxConnectionsPerIP) =
          IF MaxConnectionsPerIP > 0 /\ Subnets * MaxConnectionsPerIP <= MaxInt
            THEN Subnets * MaxConnectionsPerIP ELSE MaxInt
    BY <1>0, WideCap
  <2> QED BY <1>0, <1>2, <1>4, <1>6, <2>1
<1> QED BY <1>5, <1>6

(* A refused connection met one of the limits of its configuration, none of    *)
(* which is lower than documented, and none at all where zero turns it off.    *)
THEOREM RefusedAlwaysAtCap == Spec => RefusedOnlyAtCap
<1> DEFINE P(c) ==
      (conn[c] = "new" /\ conn'[c] = "refused") =>
        \/ MaxConnections > 0 /\ Cardinality(InUse) = MaxConnections
        \/ /\ MaxConnections > 0
           /\ Cardinality(Handshaking) >= MinTransient
           /\ Cardinality(Handshaking) >= MaxConnections \div TransientShare
        \/ /\ MaxConnectionsPerIP > 0 /\ Narrow[c] \notin Loopback
           /\ \/ Cardinality(SameNarrow(c)) = MaxConnectionsPerIP
              \/ Cardinality(SameWide(c)) = Subnets * MaxConnectionsPerIP
<1>1. ASSUME IInv, Next, NEW c \in Conns PROVE P(c)
  <2> SUFFICES ASSUME conn[c] = "new", conn'[c] = "refused"
               PROVE  \/ MaxConnections > 0 /\ Cardinality(InUse) = MaxConnections
                      \/ /\ MaxConnections > 0
                         /\ Cardinality(Handshaking) >= MinTransient
                         /\ Cardinality(Handshaking) >= MaxConnections \div TransientShare
                      \/ /\ MaxConnectionsPerIP > 0 /\ Narrow[c] \notin Loopback
                         /\ \/ Cardinality(SameNarrow(c)) = MaxConnectionsPerIP
                            \/ Cardinality(SameWide(c)) = Subnets * MaxConnectionsPerIP
    OBVIOUS
  <2>1. ~ Admitted(c) /\ c \notin InUse
    BY <1>1, RefusedByManager DEF InUse, Open, Handshaking
  <2>2. /\ CapsHeld /\ MaxConnections \in Nat /\ MinTransient \in Nat
        /\ TransientShare \in Nat \ {0}
    BY <1>1, ConnectionsAssumption, LimitsAssumption DEF IInv, TypeOK, MaxConnections
  <2>3. InUse \subseteq Conns /\ Handshaking \subseteq Conns
    BY DEF InUse, Open, Handshaking
  <2>4. Cardinality(InUse) \in Nat /\ Cardinality(Handshaking) \in Nat
    BY <2>3, Counted
  <2>5. CASE MaxConnections > 0 /\ ~ (Cardinality(InUse) < MaxConnections)
    BY <2>2, <2>4, <2>5 DEF CapsHeld
  <2>6. CASE /\ MaxConnections > 0
             /\ ~ (Cardinality(Handshaking) < transientConns(MaxConnections))
    <3>1. PICK t \in Int : t = MaxConnections \div TransientShare
      BY <2>2
    <3>2. transientConns(MaxConnections) = IF t > MinTransient THEN t ELSE MinTransient
      BY <3>1 DEF transientConns
    <3> QED BY <2>2, <2>4, <2>6, <3>1, <3>2
  <2>7. CASE /\ Narrow[c] \notin Loopback
             /\ \/ ~ (Cardinality(SameNarrow(c)) < capacity(MaxConnectionsPerIP))
                \/ ~ (Cardinality(SameWide(c)) < wideCapacity(MaxConnectionsPerIP))
    BY <1>1, <2>1, <2>7, AtCap
  <2> QED BY <2>1, <2>5, <2>6, <2>7 DEF Admitted
<1>2. IInv /\ [Next]_vars => [\A c \in Conns : P(c)]_vars
  BY <1>1
<1> QED BY <1>2, Inductive, PTL DEF Spec, RefusedOnlyAtCap
=============================================================================
