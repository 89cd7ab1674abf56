------------------------------- MODULE Limits -------------------------------
(***************************************************************************)
(* The arithmetic of host/limits.go: what connectionLimitOptions,          *)
(* newResourceManager and perAddressOptions derive from MaxConnections and *)
(* MaxConnectionsPerIP.  The literals of the code are constants, so that a *)
(* small instance has every case; Go's int is MinInt .. MaxInt.            *)
(***************************************************************************)
EXTENDS Integers

CONSTANTS
    MaxInt,        \* math.MaxInt
    HighShare,     \* 10: the high water mark is a tenth below the cap
    LowShare,      \* 5: the low one is a fifth below it
    TransientShare,\* 4: a quarter of the cap may be in the handshake ...
    MinTransient,  \* 64: ... but never less than this
    Subnets        \* 8: times the cap of a /56 for its /48

ASSUME LimitsAssumption ==
    /\ MaxInt \in Nat /\ MinTransient \in Nat
    /\ LowShare \in Nat /\ HighShare \in Nat /\ 1 < LowShare /\ LowShare <= HighShare
    /\ TransientShare \in Nat \ {0} /\ Subnets \in 1 .. MaxInt

\* The value of a product that Go computes modulo the width of int.
Wrap(n) == ((n + MaxInt + 1) % (2 * (MaxInt + 1))) - (MaxInt + 1)

high(maxConns) ==
    LET h == maxConns - maxConns \div HighShare IN IF h <= 0 THEN maxConns ELSE h


low(maxConns) ==
    LET l == maxConns - maxConns \div LowShare IN IF l <= 0 THEN high(maxConns) ELSE l

transientConns(maxConns) ==
    LET t == maxConns \div TransientShare IN IF t > MinTransient THEN t ELSE MinTransient

capacity(perIP) == IF perIP > 0 THEN perIP ELSE MaxInt

\* A bug: the product is not saturated.
wrappingMul(a, b) == Wrap(a * b)

saturatingMul(a, b) == IF a > MaxInt \div b THEN MaxInt ELSE Wrap(a * b)

\* The concurrency cap of a /48.
wideCapacity(perIP) == saturatingMul(capacity(perIP), Subnets)
=============================================================================
