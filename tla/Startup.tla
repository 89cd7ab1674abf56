------------------------------ MODULE Startup -------------------------------
(***************************************************************************)
(* The first half of Server.Start, call by call: the configuration, the    *)
(* identity (module Identity), forgehost.Create with its limits and its    *)
(* relay, and node.New with the DHT and GossipSub.  Any of these calls may *)
(* fail, and each error path must close what the earlier ones have opened. *)
(* Server abstracts all of it to StartRefused, CreateHost, CreateNode and  *)
(* CreateNodeFails; here a process may also crash, and start again on the  *)
(* same data directory.                                                    *)
(***************************************************************************)
EXTENDS Identity

CONSTANT Configs   \* the configurations considered, see Config

Flags == {"relay", "service", "autorelay", "punching"}

(* The part of config.Config that decides something here: inRange, the port    *)
(* and MaxRequestsPerWindow are acceptable; on, the relay features enabled;    *)
(* peers, some entry of Host.BootstrapPeers is a usable address; limited,      *)
(* MaxConnections > 0; pubsub, EnablePubSub.                                   *)
Config == [inRange : BOOLEAN, on : SUBSET Flags, peers : BOOLEAN,
           limited : BOOLEAN, pubsub : BOOLEAN]

ASSUME StartupAssumption == Configs \subseteq Config

VARIABLES
    config,   \* s.config, the same for all processes of the directory
    stage,    \* the call Start is at, in each process
    held,     \* what the last Start has opened and is not closed
    options,  \* the relay features of the host that was built
    failedAt  \* the call at which that Start failed, "down" if it has not

build == <<stage, held, options, failedAt>>
startupVars == <<vars, config, build>>

Parts == {"rcmgr", "connmgr", "host", "relay", "ctx", "dht", "pubsub"}

Stages == {"down", "identity", "rcmgr", "connmgr", "host", "relay",
           "dht", "bootstrap", "pubsub", "up"}

StartupTypeOK ==
    /\ TypeOK
    /\ config \in Configs
    /\ stage \in [Procs -> Stages]
    /\ \A p \in Procs : stage[p] = "identity" <=> pc[p] \in Inside
    /\ held \in [Procs -> SUBSET Parts]
    /\ options \in [Procs -> SUBSET Flags]
    /\ failedAt \in [Procs -> Stages]

StartupInit ==
    /\ Init
    /\ config \in Configs
    /\ stage = [p \in Procs |-> "down"]
    /\ held = [p \in Procs |-> {}]
    /\ options = [p \in Procs |-> {}]
    /\ failedAt = [p \in Procs |-> "down"]

\* A bug: a relay service without enable_relay is not refused.
ValidateNoService ==
    config.inRange /\ ({"autorelay", "punching"} \cap config.on # {} => "relay" \in config.on)

Validate == config.inRange /\ (config.on # {} => "relay" \in config.on)

StartRefused(p) == stage[p] = "down" /\ ~ Validate /\ UNCHANGED startupVars

\* Where Start stands once the identity is there, or was refused.
AfterIdentity(p) ==
    stage' = [stage EXCEPT ![p] = CASE pc'[p] = "loaded" -> "rcmgr"
                                    [] pc'[p] = "failed" -> "down"
                                    [] OTHER -> "identity"]

\* What an earlier Start has left open is out of this one's reach.
StartCall(p) ==
    /\ stage[p] = "down" /\ Validate
    /\ Begin(p) /\ AfterIdentity(p)
    /\ held' = [held EXCEPT ![p] = {}] /\ failedAt' = [failedAt EXCEPT ![p] = "down"]
    /\ UNCHANGED <<config, options>>

LoadOrCreateIdentity(p) ==
    /\ stage[p] = "identity"
    /\ Step(p) /\ AfterIdentity(p)
    /\ UNCHANGED <<config, held, options, failedAt>>

\* The call at stage from succeeded and opened something.
Opened(p, from, to, what) ==
    /\ stage[p] = from /\ stage' = [stage EXCEPT ![p] = to]
    /\ held' = [held EXCEPT ![p] = @ \cup what]
    /\ UNCHANGED <<vars, config, options, failedAt>>

\* The call at stage from failed: Start closes something and returns the error.
Failed(p, from, closed) ==
    /\ stage[p] = from /\ stage' = [stage EXCEPT ![p] = "down"]
    /\ failedAt' = [failedAt EXCEPT ![p] = from]
    /\ held' = [held EXCEPT ![p] = @ \ closed]
    /\ options' = [options EXCEPT ![p] = {}]
    /\ UNCHANGED <<vars, config>>

----------------------------------------------------------------------------
(* forgehost.Create *)

NewResourceManager(p) ==
    \/ Opened(p, "rcmgr", IF config.limited THEN "connmgr" ELSE "host", {"rcmgr"})
    \/ Failed(p, "rcmgr", {})

\* A bug: the error return of NewConnManager leaves the resource manager open.
NewConnManagerLeaks(p) ==
    \/ Opened(p, "connmgr", "host", {"connmgr"})
    \/ Failed(p, "connmgr", {})

NewConnManager(p) ==
    \/ Opened(p, "connmgr", "host", {"connmgr"})
    \/ Failed(p, "connmgr", {"rcmgr"})

\* parseBootstrapPeers skips what it cannot parse; was anything left?
RelayPeersLeft == config.peers

\* The relay options libp2p.New is given.
RelayOptions ==
    IF "relay" \in config.on
    THEN config.on \ ({"service"} \cup IF RelayPeersLeft THEN {} ELSE {"autorelay"})
    ELSE {}

(* A host owns the managers libp2p.New was given and closes them with itself.  *)
(* When libp2p.New fails Create closes nothing: whether the managers are       *)
(* closed depends on how far the library got.                                  *)
NewHost(p) ==
    \/ /\ stage[p] = "host"
       /\ stage' = [stage EXCEPT ![p] =
                      IF {"relay", "service"} \subseteq config.on THEN "relay" ELSE "dht"]
       /\ held' = [held EXCEPT ![p] = {"host"}]
       /\ options' = [options EXCEPT ![p] = RelayOptions]
       /\ UNCHANGED <<vars, config, failedAt>>
    \/ \E closed \in SUBSET {"rcmgr", "connmgr"} : Failed(p, "host", closed)

(* relayv2.New registers the hop handler.  Create drops the relay it returns,  *)
(* so nobody can close it.                                                     *)
NewRelay(p) ==
    \/ /\ stage[p] = "relay" /\ stage' = [stage EXCEPT ![p] = "dht"]
       /\ held' = [held EXCEPT ![p] = @ \cup {"relay"}]
       /\ options' = [options EXCEPT ![p] = @ \cup {"service"}]
       /\ UNCHANGED <<vars, config, failedAt>>
    \/ Failed(p, "relay", {"host"})

----------------------------------------------------------------------------
(* node.New; whatever error it returns, Start closes the host *)

NewDHT(p) ==
    \/ Opened(p, "dht", "bootstrap", {"ctx", "dht"})
    \/ Failed(p, "dht", {"host"})

\* Bootstrap, then the bootstrap peers, whose failures are only logged.
Bootstrap(p) ==
    \/ Opened(p, "bootstrap", IF config.pubsub THEN "pubsub" ELSE "up", {})
    \/ Failed(p, "bootstrap", {"dht", "ctx", "host"})

\* The context of New is also GossipSub's: cancelling it ends both.
NewGossipSub(p) ==
    \/ Opened(p, "pubsub", "up", {"pubsub"})
    \/ Failed(p, "pubsub", {"dht", "ctx", "host"})

----------------------------------------------------------------------------

\* n.Close(), by Stop or because a service did not start.
NodeClose(p) == Failed(p, "up", {"ctx", "pubsub", "dht", "host"})

Crash(p) ==
    /\ Exit(p)
    /\ stage' = [stage EXCEPT ![p] = "down"]
    /\ held' = [held EXCEPT ![p] = {}] /\ options' = [options EXCEPT ![p] = {}]
    /\ failedAt' = [failedAt EXCEPT ![p] = "down"]
    /\ UNCHANGED config

StartupNext ==
    \E p \in Procs :
        \/ StartCall(p) \/ StartRefused(p) \/ LoadOrCreateIdentity(p)
        \/ NewResourceManager(p) \/ NewConnManager(p) \/ NewHost(p) \/ NewRelay(p)
        \/ NewDHT(p) \/ Bootstrap(p) \/ NewGossipSub(p)
        \/ NodeClose(p) \/ Crash(p)

StartupSpec == StartupInit /\ [][StartupNext]_startupVars

----------------------------------------------------------------------------
(* Properties *)

\* What may stay open for all this repository does: managers handed to a libp2p.New
\* that then failed, and the relay, whose handle host.go drops.
OutOfReach(p) == {"relay"} \cup IF failedAt[p] = "host" THEN {"rcmgr", "connmgr"} ELSE {}

(* A Start that failed at any call, or whose node was closed, leaves open no   *)
(* host, DHT, GossipSub or context, and no manager but those a failing         *)
(* libp2p.New may have kept, whatever the configuration turns on.              *)
FailedStartCloses ==
    \A p \in Procs : stage[p] = "down" => held[p] \subseteq OutOfReach(p)

(* A host that came up has every relay feature its configuration turns on      *)
(* (automatic relays given a usable bootstrap peer): none is dropped silently, *)
(* because Validate refuses the combinations Create ignores.                   *)
ConfiguredFeaturesOn ==
    \A p \in Procs : stage[p] = "up" =>
        options[p] = config.on \ IF config.peers THEN {} ELSE {"autorelay"}
=============================================================================
