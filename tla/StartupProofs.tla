---------------------------- MODULE StartupProofs ----------------------------
(***************************************************************************)
(* Safety of Identity and Startup for any processes, keys and              *)
(* configurations.  Startup takes the steps of Identity and no others on   *)
(* its variables (StartupIsIdentity), so what holds of the key file holds  *)
(* during a whole Start.  IdentityKept needs to know that a process which  *)
(* is about to write the file found none, and that no key had been         *)
(* returned by then (Creating); what a failed Start leaves open needs what *)
(* is held at each call (HeldByStage).                                     *)
(***************************************************************************)
EXTENDS Startup, TLAPS

----------------------------------------------------------------------------
(* The identity *)

\* Where the keys that processes have and the one on disk come from.
Origins ==
    /\ \A p \in Procs : priv[p] # "nil" => priv[p] \in drawn
    /\ \A p \in Procs : identity[p] # "nil" => identity[p] \in ran
    /\ file \in Keys => file \in saved

\* Without overlap one process at a time is inside the call, and when it is to
\* create the file no key has been returned.
Creating ==
    ~ overlap =>
        /\ \A p, q \in Procs : pc[p] \in Inside /\ pc[q] \in Inside => p = q
        /\ \A p \in Procs : pc[p] \in {"generate", "open", "write"} => ran = {}

IdentityInv == TypeOK /\ Origins /\ RanWasSaved /\ Creating /\ IdentityKept

(* A fresh directory and no process: nothing has been drawn, saved or returned. *)
LEMMA IdentityInit == Init => IdentityInv
<1> SUFFICES ASSUME Init PROVE IdentityInv
  OBVIOUS
<1> USE IdentityAssumption DEF Init
<1>1. TypeOK
  BY Zenon DEF TypeOK
<1>2. Origins /\ RanWasSaved /\ Creating /\ IdentityKept
  BY DEF Origins, RanWasSaved, Creating, IdentityKept, Inside
<1> QED BY <1>1, <1>2 DEF IdentityInv

(* Each system call of LoadOrCreateIdentity, and a crash after any of them,    *)
(* keeps the file, the keys in memory and the keys returned in step.           *)
LEMMA IdentityNext == IdentityInv /\ [Next]_vars => IdentityInv'
<1> SUFFICES ASSUME IdentityInv, [Next]_vars PROVE IdentityInv'
  OBVIOUS
<1> USE IdentityAssumption
  DEF IdentityInv, TypeOK, Origins, RanWasSaved, Creating, IdentityKept, Inside, Goto,
      history, memory
<1>1. ASSUME NEW p \in Procs, Begin(p) PROVE IdentityInv'
  <2>1. /\ pc[p] \notin Inside
        /\ pc' = [pc EXCEPT ![p] = IF identity[p] = "nil" THEN "read" ELSE "loaded"]
        /\ UNCHANGED <<identity, priv, file, drawn, saved, ran>>
    BY <1>1 DEF Begin
  <2>2. overlap' \in BOOLEAN /\ (overlap => overlap')
    BY <1>1 DEF Begin
  <2>3. ~ overlap' => \A q \in Procs \ {p} : pc[q] \notin Inside
    BY <1>1, Zenon DEF Begin
  <2>4. TypeOK'
    BY <2>1, <2>2
  <2>5. Origins' /\ RanWasSaved' /\ IdentityKept'
    BY <2>1, <2>2
  <2>6. Creating'
    BY <2>1, <2>2, <2>3
  <2> QED BY <2>4, <2>5, <2>6
<1>2. ASSUME NEW p \in Procs, NEW from \in Inside, Fail(p, from) PROVE IdentityInv'
  BY <1>2 DEF Fail
<1>3. ASSUME NEW p \in Procs, Load(p) PROVE IdentityInv'
  BY <1>3 DEF Load, Returned
<1>4. ASSUME NEW p \in Procs, NotExist(p) PROVE IdentityInv'
  BY <1>4 DEF NotExist
<1>5. ASSUME NEW p \in Procs, Generate(p) PROVE IdentityInv'
  BY <1>5 DEF Generate
<1>6. ASSUME NEW p \in Procs, WriteFileOpens(p) PROVE IdentityInv'
  BY <1>6 DEF WriteFileOpens
<1>7. ASSUME NEW p \in Procs, WriteFileWrites(p) PROVE IdentityInv'
  BY <1>7 DEF WriteFileWrites, Returned
<1>8. ASSUME NEW p \in Procs, Exit(p) PROVE IdentityInv'
  BY <1>8 DEF Exit
<1>9. CASE UNCHANGED vars
  BY <1>9 DEF vars
<1>10. ASSUME NEW p \in Procs, LoadFails(p) \/ GenerateFails(p) \/ WriteFileFails(p)
       PROVE  IdentityInv'
  <2>1. \E from \in Inside : Fail(p, from)
    BY <1>10 DEF LoadFails, GenerateFails, WriteFileFails
  <2> QED BY <2>1, <1>2
<1> QED
  <2> HIDE DEF IdentityInv
  <2> QED BY <1>1, <1>3, <1>4, <1>5, <1>6, <1>7, <1>8, <1>9, <1>10 DEF Next, Step

(* So it holds in every state.                                                 *)
LEMMA IdentityInductive == Spec => []IdentityInv
BY IdentityInit, IdentityNext, PTL DEF Spec

----------------------------------------------------------------------------
(* Startup takes the steps of Identity *)

(* Every step of Start, of a failure or of a crash is a step of                *)
(* LoadOrCreateIdentity or leaves the key file and the keys alone.             *)
LEMMA StepIsIdentity == [StartupNext]_startupVars => [Next]_vars
<1> SUFFICES ASSUME [StartupNext]_startupVars PROVE [Next]_vars
  OBVIOUS
<1>1. ASSUME NEW p \in Procs,
             \/ StartRefused(p)
             \/ NewResourceManager(p) \/ NewConnManager(p) \/ NewHost(p) \/ NewRelay(p)
             \/ NewDHT(p) \/ Bootstrap(p) \/ NewGossipSub(p) \/ NodeClose(p)
      PROVE  UNCHANGED vars
  BY <1>1 DEF StartRefused, NewResourceManager, NewConnManager, NewHost, NewRelay, NewDHT,
              Bootstrap, NewGossipSub, NodeClose, Opened, Failed, startupVars
<1>2. ASSUME NEW p \in Procs, StartCall(p) \/ LoadOrCreateIdentity(p) \/ Crash(p)
      PROVE  Next
  BY <1>2 DEF StartCall, LoadOrCreateIdentity, Crash, Next
<1>3. CASE UNCHANGED startupVars
  BY <1>3 DEF startupVars
<1> QED BY <1>1, <1>2, <1>3 DEF StartupNext

(* Server.Start implements the identity protocol of LoadOrCreateIdentity.      *)
THEOREM StartupIsIdentity == StartupSpec => Spec
<1>1. StartupInit => Init
  BY DEF StartupInit
<1> QED BY <1>1, StepIsIdentity, PTL DEF StartupSpec, Spec

(* As long as no two calls overlap all the keys ever returned, before and      *)
(* after any crash and failed write, are the one on disk.                      *)
THEOREM IdentityIsKept == StartupSpec => []IdentityKept
<1>1. IdentityInv => IdentityKept
  BY DEF IdentityInv
<1> QED BY <1>1, IdentityInductive, StartupIsIdentity, PTL

(* No process runs with a key that was never on disk, however they overlap.    *)
THEOREM KeysAreSaved == StartupSpec => []RanWasSaved
<1>1. IdentityInv => RanWasSaved
  BY DEF IdentityInv
<1> QED BY <1>1, IdentityInductive, StartupIsIdentity, PTL

----------------------------------------------------------------------------
(* What Start holds and what it has turned on *)

\* What is open at each call of Start.
HeldByStage ==
    \A p \in Procs :
        /\ stage[p] = "down" => held[p] \subseteq OutOfReach(p)
        /\ stage[p] \in {"identity", "rcmgr"} => held[p] = {}
        /\ stage[p] = "connmgr" => held[p] = {"rcmgr"}
        /\ stage[p] = "host" => held[p] \subseteq {"rcmgr", "connmgr"}
        /\ stage[p] = "relay" => held[p] = {"host"}
        /\ stage[p] = "dht" => held[p] \subseteq {"host", "relay"}
        /\ stage[p] \in {"bootstrap", "pubsub"} => held[p] \subseteq {"host", "relay", "ctx", "dht"}
        /\ stage[p] = "up" => held[p] \subseteq {"host", "relay", "ctx", "dht", "pubsub"}

Wanted == config.on \ IF config.peers THEN {} ELSE {"autorelay"}

\* Which relay features the host has at each call after its creation.
OptionsByStage ==
    \A p \in Procs :
        /\ stage[p] # "down" => Validate
        /\ stage[p] = "relay" =>
             {"relay", "service"} \subseteq config.on /\ options[p] = RelayOptions
        /\ stage[p] \in {"dht", "bootstrap", "pubsub", "up"} => options[p] = Wanted

StartupInv == StartupTypeOK /\ HeldByStage /\ OptionsByStage

(* No process has called Start yet.                                            *)
LEMMA StartupInvInit == StartupInit => StartupInv
<1> SUFFICES ASSUME StartupInit PROVE StartupInv
  OBVIOUS
<1>1. TypeOK
  BY IdentityInit DEF StartupInit, IdentityInv
<1>2. StartupTypeOK
  BY <1>1 DEF StartupInit, StartupTypeOK, Init, Stages, Inside
<1> QED BY <1>2 DEF StartupInit, StartupInv, HeldByStage, OptionsByStage

(* A call that succeeded adds what it opened to what its stage holds.          *)
LEMMA OpenedStep ==
    ASSUME StartupInv, TypeOK', NEW p \in Procs, NEW from \in Stages \ {"identity"},
           NEW to \in Stages \ {"identity"},
           NEW what \in SUBSET Parts,
           Opened(p, from, to, what)
    PROVE  /\ StartupTypeOK'
           /\ stage[p] = from /\ stage'[p] = to /\ held'[p] = held[p] \cup what
           /\ \A q \in Procs \ {p} : stage'[q] = stage[q] /\ held'[q] = held[q]
           /\ config' = config /\ options' = options /\ failedAt' = failedAt
BY Zenon DEF StartupInv, StartupTypeOK, Opened, vars, memory

(* A call that failed leaves the process down, without features and without    *)
(* what it closed.                                                             *)
LEMMA FailedStep ==
    ASSUME StartupInv, TypeOK', NEW p \in Procs, NEW from \in Stages \ {"identity"},
           NEW closed, Failed(p, from, closed),
           held[p] \subseteq closed \cup {"relay"} \cup
                             IF from = "host" THEN {"rcmgr", "connmgr"} ELSE {}
    PROVE  StartupInv'
<1>1. StartupTypeOK'
  BY DEF StartupInv, StartupTypeOK, Failed, vars, memory, Stages
<1>2. HeldByStage'
  BY DEF StartupInv, StartupTypeOK, HeldByStage, OutOfReach, Failed
<1>3. OptionsByStage'
  BY DEF StartupInv, StartupTypeOK, OptionsByStage, Failed, Validate, RelayOptions,
         RelayPeersLeft, Wanted
<1> QED BY <1>1, <1>2, <1>3 DEF StartupInv

(* The stages of LoadOrCreateIdentity follow its program counter.              *)
LEMMA IdentityStep ==
    ASSUME StartupInv, TypeOK', NEW p \in Procs, Validate, held'[p] = {},
           held' \in [Procs -> SUBSET Parts], failedAt' \in [Procs -> Stages],
           \A q \in Procs \ {p} : held'[q] = held[q] /\ failedAt'[q] = failedAt[q],
           \A q \in Procs \ {p} : pc'[q] = pc[q],
           pc'[p] \in Inside \cup {"loaded", "failed"},
           AfterIdentity(p), UNCHANGED <<config, options>>
    PROVE  StartupInv'
<1> USE DEF StartupInv
<1>1. /\ stage'[p] \in {"rcmgr", "down", "identity"}
      /\ stage'[p] = "identity" <=> pc'[p] \in Inside
      /\ \A q \in Procs \ {p} : stage'[q] = stage[q]
      /\ stage' \in [Procs -> Stages]
  BY DEF StartupTypeOK, AfterIdentity, Inside, Stages
<1>2. StartupTypeOK'
  BY <1>1 DEF StartupTypeOK
<1>3. HeldByStage'
  BY <1>1 DEF HeldByStage, OutOfReach
<1>4. OptionsByStage'
  <2>1. Validate' = Validate /\ RelayOptions' = RelayOptions /\ Wanted' = Wanted
    BY DEF Validate, RelayOptions, RelayPeersLeft, Wanted
  <2> QED BY <1>1, <2>1 DEF OptionsByStage
<1> QED BY <1>2, <1>3, <1>4

(* Every call of Start, its failure and a crash keep what is open, what is on  *)
(* and the stage in step.                                                      *)
LEMMA StartupInvNext ==
    ASSUME StartupInv, IdentityInv', [StartupNext]_startupVars PROVE StartupInv'
<1>1. TypeOK'
  BY DEF IdentityInv
<1>2. UNCHANGED <<config, options>> => UNCHANGED <<Validate, RelayOptions, Wanted>>
  BY DEF Validate, RelayOptions, RelayPeersLeft, Wanted
<1>3. ASSUME NEW p \in Procs, StartCall(p) PROVE StartupInv'
  <2>1. pc \in [Procs -> {"out", "loaded", "failed"} \cup Inside]
    BY DEF StartupInv, StartupTypeOK, TypeOK
  <2>2. /\ Validate /\ held'[p] = {}
        /\ held' \in [Procs -> SUBSET Parts] /\ failedAt' \in [Procs -> Stages]
        /\ \A q \in Procs \ {p} : held'[q] = held[q] /\ failedAt'[q] = failedAt[q]
    BY <1>3 DEF StartCall, StartupInv, StartupTypeOK, Stages
  <2> QED BY <1>1, <1>3, <2>1, <2>2, IdentityStep DEF StartCall, Begin, Inside
<1>4. ASSUME NEW p \in Procs, LoadOrCreateIdentity(p) PROVE StartupInv'
  <2>1. pc \in [Procs -> {"out", "loaded", "failed"} \cup Inside]
    BY DEF StartupInv, StartupTypeOK, TypeOK
  <2>2. /\ \A q \in Procs \ {p} : pc'[q] = pc[q]
        /\ pc'[p] \in Inside \cup {"loaded", "failed"}
    BY <1>4, <2>1 DEF LoadOrCreateIdentity, Step, Load, LoadFails, NotExist, Generate,
       GenerateFails, WriteFileOpens, WriteFileWrites, WriteFileFails, Fail, Goto, Inside
  <2>3. /\ Validate /\ held'[p] = {}
        /\ held' \in [Procs -> SUBSET Parts] /\ failedAt' \in [Procs -> Stages]
        /\ \A q \in Procs \ {p} : held'[q] = held[q] /\ failedAt'[q] = failedAt[q]
    BY <1>4 DEF LoadOrCreateIdentity, StartupInv, StartupTypeOK, HeldByStage, OptionsByStage
  <2> QED BY <1>1, <1>4, <2>2, <2>3, IdentityStep DEF LoadOrCreateIdentity
<1>5. ASSUME NEW p \in Procs, StartRefused(p) PROVE StartupInv'
  <2>1. UNCHANGED <<config, stage, held, options, failedAt, pc>>
    BY <1>5 DEF StartRefused, startupVars, build, vars, memory
  <2>2. StartupTypeOK'
    BY <1>1, <2>1 DEF StartupInv, StartupTypeOK
  <2>3. HeldByStage'
    BY <2>1 DEF StartupInv, HeldByStage, OutOfReach
  <2>4. OptionsByStage'
    BY <1>2, <2>1 DEF StartupInv, OptionsByStage
  <2> QED BY <2>2, <2>3, <2>4 DEF StartupInv
<1>6. ASSUME NEW p \in Procs, NewResourceManager(p) PROVE StartupInv'
  <2>1. CASE Opened(p, "rcmgr", IF config.limited THEN "connmgr" ELSE "host", {"rcmgr"})
    <3>1. PICK to \in Stages \ {"identity"} : to = IF config.limited THEN "connmgr" ELSE "host"
      BY DEF Stages
    <3>2. PICK what \in SUBSET Parts : what = {"rcmgr"}
      BY Zenon DEF Parts
    <3>3. Opened(p, "rcmgr", to, what)
      BY <2>1, <3>1, <3>2
    <3>4. /\ StartupTypeOK'
          /\ stage[p] = "rcmgr" /\ stage'[p] = to
          /\ held'[p] = held[p] \cup what
          /\ \A q \in Procs \ {p} : stage'[q] = stage[q] /\ held'[q] = held[q]
          /\ config' = config /\ options' = options /\ failedAt' = failedAt
      BY <1>1, <3>3, OpenedStep DEF Stages
    <3> QED BY <1>2, <3>1, <3>2, <3>4 DEF StartupInv, HeldByStage, OptionsByStage, OutOfReach
  <2>2. CASE Failed(p, "rcmgr", {})
    <3>1. held[p] \subseteq {}
      BY <2>2 DEF Failed, StartupInv, HeldByStage
    <3> QED BY <1>1, <2>2, <3>1, FailedStep DEF Stages
  <2> QED BY <1>6, <2>1, <2>2 DEF NewResourceManager
<1>7. ASSUME NEW p \in Procs, NewConnManager(p) PROVE StartupInv'
  <2>1. CASE Opened(p, "connmgr", "host", {"connmgr"})
    <3>1. /\ StartupTypeOK'
          /\ stage[p] = "connmgr" /\ stage'[p] = "host"
          /\ held'[p] = held[p] \cup {"connmgr"}
          /\ \A q \in Procs \ {p} : stage'[q] = stage[q] /\ held'[q] = held[q]
          /\ config' = config /\ options' = options /\ failedAt' = failedAt
      BY <1>1, <2>1, OpenedStep, Zenon DEF Stages, Parts
    <3> QED BY <1>2, <3>1 DEF StartupInv, HeldByStage, OptionsByStage, OutOfReach
  <2>2. CASE Failed(p, "connmgr", {"rcmgr"})
    <3>1. held[p] \subseteq {"rcmgr"}
      BY <2>2 DEF Failed, StartupInv, HeldByStage
    <3> QED BY <1>1, <2>2, <3>1, FailedStep DEF Stages
  <2> QED BY <1>7, <2>1, <2>2 DEF NewConnManager
<1>8. ASSUME NEW p \in Procs, NewHost(p) PROVE StartupInv'
  <2>1. ASSUME NEW closed \in SUBSET {"rcmgr", "connmgr"}, Failed(p, "host", closed)
        PROVE  StartupInv'
    <3>1. held[p] \subseteq {"rcmgr", "connmgr"}
      BY <2>1 DEF Failed, StartupInv, HeldByStage
    <3> QED BY <1>1, <2>1, <3>1, FailedStep DEF Stages
  <2>2. CASE ~ \E closed \in SUBSET {"rcmgr", "connmgr"} : Failed(p, "host", closed)
    <3>1. /\ stage[p] = "host"
          /\ stage' = [stage EXCEPT ![p] =
                         IF {"relay", "service"} \subseteq config.on THEN "relay" ELSE "dht"]
          /\ held' = [held EXCEPT ![p] = {"host"}]
          /\ options' = [options EXCEPT ![p] = RelayOptions]
          /\ UNCHANGED <<vars, config, failedAt>>
      BY <1>8, <2>2 DEF NewHost
    <3>2. config.on \subseteq Flags
      BY StartupAssumption DEF StartupInv, StartupTypeOK, Config
    <3>3. RelayOptions \subseteq Flags
      BY <3>2 DEF RelayOptions
    <3>4. StartupTypeOK'
      BY <1>1, <3>1, <3>3 DEF StartupInv, StartupTypeOK, Stages, Parts, vars, memory
    <3>5. HeldByStage'
      BY <3>1 DEF StartupInv, StartupTypeOK, HeldByStage, OutOfReach
    <3>6. ~ ({"relay", "service"} \subseteq config.on) => RelayOptions = Wanted
      BY <3>1, <3>2 DEF RelayOptions, RelayPeersLeft, Wanted, Validate, StartupInv, OptionsByStage
    <3>7. UNCHANGED <<Validate, RelayOptions, Wanted>>
      BY <3>1 DEF Validate, RelayOptions, RelayPeersLeft, Wanted
    <3>8. OptionsByStage'
      BY <3>1, <3>6, <3>7 DEF StartupInv, StartupTypeOK, OptionsByStage
    <3> QED BY <3>4, <3>5, <3>8 DEF StartupInv
  <2> QED BY <2>1, <2>2
<1>9. ASSUME NEW p \in Procs, NewRelay(p) PROVE StartupInv'
  <2>1. CASE Failed(p, "relay", {"host"})
    <3>1. held[p] \subseteq {"host"}
      BY <2>1 DEF Failed, StartupInv, HeldByStage
    <3> QED BY <1>1, <2>1, <3>1, FailedStep DEF Stages
  <2>2. CASE ~ Failed(p, "relay", {"host"})
    <3>1. /\ stage[p] = "relay" /\ stage' = [stage EXCEPT ![p] = "dht"]
          /\ options' = [options EXCEPT ![p] = @ \cup {"service"}]
          /\ held' = [held EXCEPT ![p] = @ \cup {"relay"}]
          /\ UNCHANGED <<vars, config, failedAt>>
      BY <1>9, <2>2 DEF NewRelay
    <3>2. StartupTypeOK'
      BY <1>1, <3>1 DEF StartupInv, StartupTypeOK, Stages, vars, memory, Flags, Parts
    <3>3. HeldByStage'
      BY <3>1 DEF StartupInv, StartupTypeOK, HeldByStage, OutOfReach
    <3>4. RelayOptions \cup {"service"} = Wanted
      BY <3>1 DEF RelayOptions, RelayPeersLeft, Wanted, StartupInv, OptionsByStage
    <3>5. UNCHANGED <<Validate, RelayOptions, Wanted>>
      BY <3>1 DEF Validate, RelayOptions, RelayPeersLeft, Wanted
    <3>6. OptionsByStage'
      BY <3>1, <3>4, <3>5 DEF StartupInv, StartupTypeOK, OptionsByStage
    <3> QED BY <3>2, <3>3, <3>6 DEF StartupInv
  <2> QED BY <2>1, <2>2
<1>10. ASSUME NEW p \in Procs, NewDHT(p) PROVE StartupInv'
  <2>1. CASE Opened(p, "dht", "bootstrap", {"ctx", "dht"})
    <3>1. PICK to \in Stages \ {"identity"} : to = "bootstrap"
      BY DEF Stages
    <3>2. PICK what \in SUBSET Parts : what = {"ctx", "dht"}
      BY Zenon DEF Parts
    <3>3. Opened(p, "dht", to, what)
      BY <2>1, <3>1, <3>2
    <3>4. /\ StartupTypeOK'
          /\ stage[p] = "dht" /\ stage'[p] = to
          /\ held'[p] = held[p] \cup what
          /\ \A q \in Procs \ {p} : stage'[q] = stage[q] /\ held'[q] = held[q]
          /\ config' = config /\ options' = options /\ failedAt' = failedAt
      BY <1>1, <3>3, OpenedStep DEF Stages
    <3> QED BY <1>2, <3>1, <3>2, <3>4 DEF StartupInv, HeldByStage, OptionsByStage, OutOfReach
  <2>2. CASE Failed(p, "dht", {"host"})
    <3>1. held[p] \subseteq {"host", "relay"}
      BY <2>2 DEF Failed, StartupInv, HeldByStage
    <3> QED BY <1>1, <2>2, <3>1, FailedStep DEF Stages
  <2> QED BY <1>10, <2>1, <2>2 DEF NewDHT
<1>11. ASSUME NEW p \in Procs, Bootstrap(p) PROVE StartupInv'
  <2>1. CASE Opened(p, "bootstrap", IF config.pubsub THEN "pubsub" ELSE "up", {})
    <3>1. PICK to \in Stages \ {"identity"} : to = IF config.pubsub THEN "pubsub" ELSE "up"
      BY DEF Stages
    <3>2. PICK what \in SUBSET Parts : what = {}
      BY Zenon DEF Parts
    <3>3. Opened(p, "bootstrap", to, what)
      BY <2>1, <3>1, <3>2
    <3>4. /\ StartupTypeOK'
          /\ stage[p] = "bootstrap" /\ stage'[p] = to
          /\ held'[p] = held[p] \cup what
          /\ \A q \in Procs \ {p} : stage'[q] = stage[q] /\ held'[q] = held[q]
          /\ config' = config /\ options' = options /\ failedAt' = failedAt
      BY <1>1, <3>3, OpenedStep, Zenon DEF Stages
    <3> QED BY <1>2, <3>1, <3>2, <3>4 DEF StartupInv, HeldByStage, OptionsByStage, OutOfReach
  <2>2. CASE Failed(p, "bootstrap", {"dht", "ctx", "host"})
    <3>1. held[p] \subseteq {"dht", "ctx", "host", "relay"}
      BY <2>2 DEF Failed, StartupInv, HeldByStage
    <3> QED BY <1>1, <2>2, <3>1, FailedStep DEF Stages
  <2> QED BY <1>11, <2>1, <2>2 DEF Bootstrap
<1>12. ASSUME NEW p \in Procs, NewGossipSub(p) PROVE StartupInv'
  <2>1. CASE Opened(p, "pubsub", "up", {"pubsub"})
    <3>1. /\ StartupTypeOK'
          /\ stage[p] = "pubsub" /\ stage'[p] = "up"
          /\ held'[p] = held[p] \cup {"pubsub"}
          /\ \A q \in Procs \ {p} : stage'[q] = stage[q] /\ held'[q] = held[q]
          /\ config' = config /\ options' = options /\ failedAt' = failedAt
      BY <1>1, <2>1, OpenedStep, Zenon DEF Stages, Parts
    <3> QED BY <1>2, <3>1 DEF StartupInv, HeldByStage, OptionsByStage, OutOfReach
  <2>2. CASE Failed(p, "pubsub", {"dht", "ctx", "host"})
    <3>1. held[p] \subseteq {"dht", "ctx", "host", "relay"}
      BY <2>2 DEF Failed, StartupInv, HeldByStage
    <3> QED BY <1>1, <2>2, <3>1, FailedStep DEF Stages
  <2> QED BY <1>12, <2>1, <2>2 DEF NewGossipSub
<1>13. ASSUME NEW p \in Procs, NodeClose(p) PROVE StartupInv'
  <2>1. held[p] \subseteq {"ctx", "pubsub", "dht", "host", "relay"}
    BY <1>13 DEF NodeClose, Failed, StartupInv, HeldByStage
  <2> QED BY <1>1, <1>13, <2>1, FailedStep DEF NodeClose, Stages
<1>14. ASSUME NEW p \in Procs, Crash(p) PROVE StartupInv'
  <2>1. StartupTypeOK'
    BY <1>1, <1>14 DEF Crash, Exit, StartupInv, StartupTypeOK, Inside, Stages, TypeOK
  <2>2. UNCHANGED <<Validate, RelayOptions, Wanted>>
    BY <1>14 DEF Crash, Validate, RelayOptions, RelayPeersLeft, Wanted
  <2> QED BY <1>14, <2>1, <2>2 DEF Crash, StartupInv, StartupTypeOK, HeldByStage, OutOfReach, OptionsByStage
<1>15. CASE UNCHANGED startupVars
  <2>1. UNCHANGED <<config, stage, held, options, failedAt, pc>>
    BY <1>15 DEF startupVars, build, vars, memory
  <2>2. StartupTypeOK'
    BY <1>1, <2>1 DEF StartupInv, StartupTypeOK
  <2>3. HeldByStage'
    BY <2>1 DEF StartupInv, HeldByStage, OutOfReach
  <2>4. OptionsByStage'
    BY <1>2, <2>1 DEF StartupInv, OptionsByStage
  <2> QED BY <2>2, <2>3, <2>4 DEF StartupInv
<1> QED
  BY <1>3, <1>4, <1>5, <1>6, <1>7, <1>8, <1>9, <1>10, <1>11, <1>12, <1>13, <1>14, <1>15
  DEF StartupNext

(* So it holds in every state.                                                 *)
LEMMA StartupInductive == StartupSpec => []StartupInv
<1>1. StartupSpec => []IdentityInv
  BY IdentityInductive, StartupIsIdentity, PTL
<1> QED BY <1>1, StartupInvInit, StartupInvNext, PTL DEF StartupSpec

(* Every process is at a stage of forge.New or of NewHost, with what it holds  *)
(* and what it has read in their ranges, through any crashes and restarts.     *)
THEOREM StartupTypes == StartupSpec => []StartupTypeOK
<1>1. StartupInv => StartupTypeOK
  BY DEF StartupInv
<1> QED BY <1>1, StartupInductive, PTL

(* A Start that failed at any call, or whose node was closed, leaves open at   *)
(* most the relay and the managers that a failing libp2p.New was given.        *)
THEOREM FailedStartsClose == StartupSpec => []FailedStartCloses
<1>1. StartupInv => FailedStartCloses
  BY DEF StartupInv, HeldByStage, FailedStartCloses
<1> QED BY <1>1, StartupInductive, PTL

(* A host that came up has exactly the relay features its configuration turns  *)
(* on, without automatic relays when no bootstrap peer is usable.              *)
THEOREM FeaturesAreOn == StartupSpec => []ConfiguredFeaturesOn
<1>1. StartupInv => ConfiguredFeaturesOn
  BY DEF StartupInv, OptionsByStage, ConfiguredFeaturesOn, Wanted
<1> QED BY <1>1, StartupInductive, PTL
=============================================================================
