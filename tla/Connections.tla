---------------------------- MODULE Connections -----------------------------
(***************************************************************************)
(* The connections of a running host: admitted against the limits of       *)
(* module Limits, trimmed by the connection manager, reported to the       *)
(* callbacks of OnPeerConnected and OnPeerDisconnected, and the evidence   *)
(* on which dialableFilter lets a peer into the DHT routing table.         *)
(*                                                                         *)
(* The resource manager, the connection manager and the DHT are external:  *)
(* the first refuses what exceeds a limit; the second closes connections   *)
(* older than the grace period and to peers that nobody protects once      *)
(* their number passes the high water mark, down to the low one; the third *)
(* asks the filter when it pleases.  The DHT and GossipSub protect peers.  *)
(*                                                                         *)
(* A behaviour begins where forgehost.Create has returned: the host        *)
(* accepts connections, and Start has still to register the callbacks and  *)
(* to create the node.                                                     *)
(***************************************************************************)
EXTENDS Limits, FiniteSets

CONSTANTS
    Conns,       \* the connections of a behaviour
    PeerOf,      \* the remote peer of each
    Outbound,    \* those that this host opens
    Relayed,     \* those that go through a relay
    Wide,        \* the /48 of an IPv6 /56, "none" for an IPv4 address
    Loopback,    \* addresses exempt from the per-address cap
    Settings     \* the hosts considered, see setting

ASSUME ConnectionsAssumption ==
    /\ Outbound \subseteq Conns /\ Relayed \subseteq Conns
    /\ \A s \in Settings : s.maxConns \in Nat /\ s.perIP \in Nat
    /\ IsFiniteSet(Conns) /\ Cardinality(Conns) <= MaxInt

VARIABLES
    setting,   \* the two caps, the callbacks registered for either event, the source
               \* of each connection, an IPv4 address or an IPv6 /56, and the peers
               \* that the DHT and GossipSub may want to keep
    hooked,    \* Start is past the registration of the callbacks
    conn,      \* the state of each connection
    protected, \* peers whose connections are not trimmed
    pending,   \* callback goroutines spawned and not run: <<connection, event, callback>>
    ran,       \* history: those that have run
    table,     \* the DHT routing table
    reached    \* history: peers this host has had a direct connection to that it opened

callbacks == <<pending, ran>>
routing == <<table, reached>>
vars == <<setting, hooked, conn, protected, callbacks, routing>>

MaxConnections == setting.maxConns
MaxConnectionsPerIP == setting.perIP
Callbacks == setting.callbacks
Narrow == setting.source

Peers == {PeerOf[c] : c \in Conns}
Events == {"connected", "disconnected"}

TypeOK ==
    /\ setting \in Settings /\ hooked \in BOOLEAN
    /\ conn \in [Conns -> {"new", "handshake", "young", "old", "closed", "refused", "failed"}]
    /\ protected \subseteq Peers
    /\ pending \subseteq Conns \X Events \X Callbacks
    /\ ran \subseteq Conns \X Events \X Callbacks
    /\ table \subseteq Peers /\ reached \subseteq Peers

Init ==
    /\ setting \in Settings /\ hooked = FALSE
    /\ conn = [c \in Conns |-> "new"] /\ protected = {}
    /\ pending = {} /\ ran = {}
    /\ table = {} /\ reached = {}

Open == {c \in Conns : conn[c] \in {"young", "old"}}
Handshaking == {c \in Conns : conn[c] = "handshake"}
InUse == Open \cup Handshaking

----------------------------------------------------------------------------
(* The resource manager *)

SameNarrow(c) == {d \in InUse : Narrow[d] = Narrow[c]}

\* An exempt address does not count towards the /48 it lies in.
SameWide(c) ==
    {d \in InUse : /\ Wide[Narrow[d]] = Wide[Narrow[c]] /\ Wide[Narrow[c]] # "none"
                   /\ Narrow[d] \notin Loopback}

Admitted(c) ==
    /\ MaxConnections > 0 =>
         /\ Cardinality(InUse) < MaxConnections
         /\ Cardinality(Handshaking) < transientConns(MaxConnections)
    /\ Narrow[c] \notin Loopback =>
         /\ Cardinality(SameNarrow(c)) < capacity(MaxConnectionsPerIP)
         /\ Cardinality(SameWide(c)) < wideCapacity(MaxConnectionsPerIP)

Begin(c) ==
    /\ conn[c] = "new"
    /\ conn' = [conn EXCEPT ![c] = IF Admitted(c) THEN "handshake" ELSE "refused"]
    /\ UNCHANGED <<setting, hooked, protected, callbacks, routing>>

\* The handshake fails, or the connection gater refuses the peer.
HandshakeFails(c) ==
    /\ conn[c] = "handshake" /\ conn' = [conn EXCEPT ![c] = "failed"]
    /\ UNCHANGED <<setting, hooked, protected, callbacks, routing>>

----------------------------------------------------------------------------
(* Connection events *)

\* Network().Notify; what happened before is not reported.
Register ==
    /\ ~ hooked /\ hooked' = TRUE
    /\ UNCHANGED <<setting, conn, protected, callbacks, routing>>

\* ConnectedF and DisconnectedF: one goroutine per callback.
Notify(S, event) ==
    pending' = IF hooked THEN pending \cup (S \X {event} \X Callbacks) ELSE pending

Established(c) ==
    /\ conn[c] = "handshake" /\ conn' = [conn EXCEPT ![c] = "young"]
    /\ Notify({c}, "connected")
    /\ reached' = reached \cup IF c \in Outbound \ Relayed THEN {PeerOf[c]} ELSE {}
    /\ UNCHANGED <<setting, hooked, protected, ran, table>>

\* The connections S end.
Disconnect(S) ==
    /\ conn' = [c \in Conns |-> IF c \in S THEN "closed" ELSE conn[c]]
    /\ Notify(S, "disconnected")
    /\ UNCHANGED <<setting, hooked, protected, ran, routing>>

\* A bug: the callbacks of an event share a goroutine, which a panic ends.
AbandonedByPanicRest(x) == {y \in pending : y[1] = x[1] /\ y[2] = x[2]}

\* safeCallback recovers: a panic ends the goroutine it happens in.
AbandonedByPanic(x) == {x}

safeCallback(x) ==
    /\ x \in pending
    /\ ran' = ran \cup {x}
    /\ \/ pending' = pending \ {x}
       \/ pending' = pending \ AbandonedByPanic(x)
    /\ UNCHANGED <<setting, hooked, conn, protected, routing>>

----------------------------------------------------------------------------
(* The connection manager; without MaxConnections it is go-libp2p's own, with  *)
(* marks of 160 and 192 that no behaviour here reaches                         *)

GracePasses(c) ==
    /\ conn[c] = "young" /\ conn' = [conn EXCEPT ![c] = "old"]
    /\ UNCHANGED <<setting, hooked, protected, callbacks, routing>>

\* The DHT and GossipSub, which come after the registration, call Protect and Unprotect.
Protect(p) ==
    /\ hooked /\ p \in setting.kept
    /\ protected' \in {protected \cup {p}, protected \ {p}}
    /\ UNCHANGED <<setting, hooked, conn, callbacks, routing>>

Excess == Cardinality(Open) - low(MaxConnections)

Trimmable == {c \in Open : conn[c] = "old" /\ PeerOf[c] \notin protected}

(* The least valuable peers go, with all their trimmable connections, and no   *)
(* more of them than it takes.  A library that trims at the mark already is    *)
(* allowed to.                                                                 *)
Trim ==
    /\ MaxConnections > 0
    /\ Cardinality(Open) >= high(MaxConnections)
    /\ \E S \in SUBSET Trimmable :
         /\ Cardinality(S) >= Excess \/ S = Trimmable
         /\ \E p \in Peers : Cardinality({c \in S : PeerOf[c] # p}) < Excess
         /\ S # {} /\ Disconnect(S)

TrimAboveMark == Cardinality(Open) > high(MaxConnections) /\ Trim

----------------------------------------------------------------------------
(* The routing table *)

\* A bug: one connection is outbound and another one direct.
DialableSplit(p) ==
    /\ \E c \in Open : PeerOf[c] = p /\ c \in Outbound
    /\ \E c \in Open : PeerOf[c] = p /\ c \notin Relayed

\* dialableFilter and isDirect.
Dialable(p) == \E c \in Open : PeerOf[c] = p /\ c \in Outbound /\ c \notin Relayed

AddPeer(p) ==
    /\ hooked /\ Dialable(p)
    /\ table' = table \cup {p}
    /\ UNCHANGED <<setting, hooked, conn, protected, callbacks, reached>>

RemovePeer(p) ==
    /\ p \in table /\ table' = table \ {p}
    /\ UNCHANGED <<setting, hooked, conn, protected, callbacks, reached>>

----------------------------------------------------------------------------

HandshakeEnds(c) == Established(c) \/ HandshakeFails(c)

Next ==
    \/ \E c \in Conns :
         \/ Begin(c) \/ HandshakeEnds(c) \/ GracePasses(c)
         \/ c \in Open /\ Disconnect({c})
    \/ Register \/ Trim
    \/ \E x \in pending : safeCallback(x)
    \/ \E p \in Peers : Protect(p) \/ AddPeer(p) \/ RemovePeer(p)

(* A handshake ends, by a timeout if need be, grace periods pass, the          *)
(* connection manager looks at the connections again and again, and a          *)
(* goroutine that was spawned runs.                                            *)
Fairness ==
    /\ WF_vars(\E c \in Conns : HandshakeEnds(c))
    /\ WF_vars(\E c \in Conns : GracePasses(c))
    /\ WF_vars(TrimAboveMark)
    /\ WF_vars(\E x \in pending : safeCallback(x))

Spec == Init /\ [][Next]_vars /\ Fairness

----------------------------------------------------------------------------
(* Properties *)

(* MaxConnections "is the hard cap on connections this host holds open";       *)
(* MaxConnectionsPerIP caps those "with any one source address: an IPv4        *)
(* address, or an IPv6 /56, with eight times as many per /48".                 *)
CapsHeld ==
    /\ MaxConnections > 0 => Cardinality(InUse) <= MaxConnections
    /\ MaxConnectionsPerIP > 0 =>
         \A c \in InUse : Narrow[c] \notin Loopback =>
             /\ Cardinality(SameNarrow(c)) <= MaxConnectionsPerIP
             /\ Cardinality(SameWide(c)) <= Subnets * MaxConnectionsPerIP

(* A connection is refused only at a limit of the configuration, and exactly   *)
(* at a hard one: none is short of it or was passed over before.  "Zero means  *)
(* no per-address cap": the caps the code computes for that are too large to   *)
(* be reached, by saturation rather than overflow.                             *)
RefusedOnlyAtCap ==
    [][\A c \in Conns : (conn[c] = "new" /\ conn'[c] = "refused") =>
        \/ MaxConnections > 0 /\ Cardinality(InUse) = MaxConnections
        \/ /\ MaxConnections > 0
           /\ Cardinality(Handshaking) >= MinTransient
           /\ Cardinality(Handshaking) >= MaxConnections \div TransientShare
        \/ /\ MaxConnectionsPerIP > 0 /\ Narrow[c] \notin Loopback
           /\ \/ Cardinality(SameNarrow(c)) = MaxConnectionsPerIP
              \/ Cardinality(SameWide(c)) = Subnets * MaxConnectionsPerIP]_vars


\* All callbacks of an event have run.
Told(c, event) == {c} \X {event} \X Callbacks \subseteq ran

(* Every registered callback runs for every connection that opens, and for     *)
(* every one that closes, after the registration, also when other callbacks    *)
(* panic ("Panics in callbacks are caught").  A connection that was open by    *)
(* then is reported when it closes, though it was not when it opened.          *)
CallbacksRun ==
    \A c \in Conns :
        /\ (hooked /\ conn[c] = "handshake") ~>
             (Told(c, "connected") \/ conn[c] = "failed")
        /\ []((hooked /\ c \in Open /\ <>(conn[c] = "closed")) => <>Told(c, "disconnected"))

(* "A peer that only ever dialled us stays out until we dial it", and a        *)
(* relayed connection proves nothing: a peer in the routing table has at some  *)
(* time been reached by a direct connection of this host's own.                *)
TableReached == table \subseteq reached
=============================================================================
