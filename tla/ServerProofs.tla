---------------------------- MODULE ServerProofs ----------------------------
(***************************************************************************)
(* Safety of Server for any number of streams, protocols, services and     *)
(* starts.  The invariants the runs check are not inductive: they depend   *)
(* on how far the loops of StartAll, its rollback and StopAll have got     *)
(* (ServicesByPhase), on the host being closed on every way out            *)
(* (HostByPhase), on the removal of its handlers (HandlersByPhase), on a   *)
(* counted stream never going back to a state before its Add               *)
(* (CountedByPhase), and on no stream being left that could enter the      *)
(* WaitGroup during a drain that found no stray (StraysByPhase).           *)
(***************************************************************************)
EXTENDS Server, TLAPS

AllUp == \A i \in Services : svc[i] = "up"
NoneUp == \A i \in Services : svc[i] # "up"

\* How far the loops over the services are.
LoopsByPhase ==
    /\ pc = "startsvc" => next >= 1
    /\ pc \in {"rollback", "stopsvc"} => next <= NumServices
    /\ pc = "stopsvc" => \A i \in Services : i > next => svc[i] # "up"
    /\ pc \in {"closenode", "stopped"} => NoneUp

\* Which services are up, from the place of the control goroutine.
ServicesByPhase ==
    Sequential =>
        /\ pc = "startsvc" => \A i \in Services : svc[i] = "up" <=> i < next
        /\ pc = "rollback" => \A i \in Services : svc[i] = "up" <=> i <= next
        /\ pc = "running" => AllUp
        /\ pc \in {"unregister", "drain"} => AllUp \/ NoneUp
        /\ pc = "stopsvc" => (\A i \in Services : i <= next => svc[i] = "up") \/ NoneUp
        /\ pc \in Down \cup {"create", "node", "register", "abort"} => NoneUp
        /\ pc = "panicked" => ServicesStacked

\* A host that was not overtaken is open only from its creation to the close of
\* the node on it, and is then the one that s.host and s.node stand for.
HostByPhase ==
    /\ pc \in Down \cup {"create"} => open \subseteq overtaken
    /\ pc = "node" => open \subseteq overtaken \cup {host} /\ host \in open
    /\ pc \notin {"node", "panicked"} => open \subseteq overtaken \cup {node}
    /\ pc \in {"register", "startsvc", "rollback", "abort", "running"} => node \in open
    /\ (Sequential /\ node \in open) => node = host
    /\ pc = "create" => starts \in Hosts
    /\ pc = "node" => host \in Hosts

\* From the removal of the last handler to the next host the table is empty.
HandlersByPhase == pc \in Closing => handlers[host] = {}

\* The streams Stop found in the WaitGroup only move towards Done.
CountedByPhase ==
    /\ pc = "drain" => \A s \in counted : stream[s] \in {"active", "done"}
    /\ (pc = "drain" /\ drain \in {"woken", "released"}) =>
         \A s \in counted : stream[s] = "done"
    /\ CountedStreamsDrained

\* Without a stray nothing can enter the WaitGroup once Stop waits for it.
StraysByPhase ==
    /\ drain \in Waiting => pc \in {"drain", "panicked"}
    /\ (Sequential /\ ~ strays) =>
         /\ earlier = {}
         /\ pc = "drain" => \A s \in Streams : stream[s] # "dispatched"
         /\ (pc = "drain" /\ drain = "woken") => activeStreams = {}
    /\ OnlyStraysPanic

IInv ==
    /\ TypeOK /\ LoopsByPhase /\ ServicesByPhase /\ HostByPhase /\ HandlersByPhase
    /\ CountedByPhase /\ StraysByPhase

----------------------------------------------------------------------------

\* The steps of streams and of the goroutines that wait for them.
SideStep ==
    \/ WaitCalled \/ WaitReturns \/ EarlierWaitCalled \/ EarlierWaitReturns
    \/ \E s \in Streams : StreamStep(s)

(* Streams and waiting goroutines touch neither hosts nor services, and move   *)
(* the control goroutine only by ending the process.                           *)
LEMMA SideSteps ==
    ASSUME SideStep
    PROVE  /\ UNCHANGED <<call, network, lifecycle, counted, strays>>
           /\ pc # "panicked" /\ pc' \in {pc, "panicked"}
<1> USE DEF Panic, draining
<1>1. CASE WaitCalled \/ WaitReturns
  BY <1>1 DEF WaitCalled, WaitReturns
<1>2. CASE EarlierWaitCalled \/ EarlierWaitReturns
  BY <1>2 DEF EarlierWaitCalled, EarlierWaitReturns
<1>3. CASE \E s \in Streams : StreamStep(s)
  BY <1>3 DEF StreamStep, OpenStream, HandlerEnters, HandlerLeaves
<1> QED BY <1>1, <1>2, <1>3 DEF SideStep

\* The steps of the control goroutine, and the end of the caller's context.
ControlStep == StartCall \/ StopCall \/ CancelContext \/ StartStep \/ StopStep

(* Before the first call nothing exists, so the inductive invariant holds.     *)
LEMMA InitIInv == Init => IInv
<1> SUFFICES ASSUME Init PROVE IInv
  OBVIOUS
<1> USE DEF Init
<1>1. TypeOK
  <2>1. 0 \in 0 .. NumServices + 1 /\ 0 \in 0 .. MaxStarts
    BY ServerAssumption
  <2>2. pc \in Idle
    BY DEF Idle, Down
  <2> QED BY <2>1, <2>2, Zenon DEF TypeOK
<1>2. LoopsByPhase /\ ServicesByPhase
  BY DEF LoopsByPhase, ServicesByPhase, NoneUp, Down
<1>3. HostByPhase
  BY DEF HostByPhase
<1>4. HandlersByPhase /\ CountedByPhase
  BY DEF HandlersByPhase, Closing, CountedByPhase, CountedStreamsDrained
<1>5. StraysByPhase
  BY DEF StraysByPhase, OnlyStraysPanic, Waiting
<1> QED BY <1>1, <1>2, <1>3, <1>4, <1>5 DEF IInv

(* The parts of the invariant that speak of the services give their stacking.  *)
LEMMA Stacked == IInv => ServicesStacked
<1> SUFFICES ASSUME IInv PROVE ServicesStacked
  OBVIOUS
<1>1. CASE pc = "panicked"
  BY <1>1 DEF IInv, ServicesByPhase, ServicesStacked
<1>2. CASE pc # "panicked"
  BY <1>2, ServerAssumption DEF IInv, TypeOK, LoopsByPhase, ServicesByPhase, ServicesStacked, AllUp,
     NoneUp, Services, Idle, Down, Closing
<1> QED BY <1>1, <1>2

(* Every step of the control goroutine keeps the variables in their types; the *)
(* loop index stays in range because of how far each loop has got.             *)
LEMMA ControlType == IInv /\ ControlStep => TypeOK'
<1> SUFFICES ASSUME IInv, ControlStep PROVE TypeOK'
  OBVIOUS
<1> USE ServerAssumption
  DEF IInv, TypeOK, LoopsByPhase, Idle, Down, Closing, Services, Hosts, Goto, call, network,
      lifecycle, draining
<1>1. CASE StartService
  BY <1>1 DEF StartService
<1>2. CASE StartServiceFails
  BY <1>2 DEF StartServiceFails
<1>3. CASE RollbackService
  BY <1>3 DEF RollbackService, StopService, RollbackOver
<1>4. CASE StopNextService
  BY <1>4 DEF StopNextService, StopService
<1>5. CASE RegisterDone
  BY <1>5 DEF RegisterDone
<1>6. CASE StartCall
  BY <1>6 DEF StartCall
<1>7. CASE CreateHost
  BY <1>7 DEF CreateHost, HostByPhase
<1>8. CASE \/ StopCall \/ CancelContext \/ StartRefused \/ CreateNode \/ CreateNodeFails \/ StartDone
           \/ RollbackDone \/ StartAborted \/ StopServicesDone \/ StopDone
  BY <1>8, Zenon DEF StopCall, CancelContext, StartRefused, CreateNode, CreateNodeFails, StartDone,
     RollbackDone, RollbackOver, StartAborted, CloseNode, StopServicesDone, StopDone
<1>9. CASE BeginDrain \/ DrainTimeout
  <2>1. strays' \in BOOLEAN
    BY <1>9, Zenon DEF BeginDrain, DrainTimeout
  <2>2. counted' \subseteq Streams /\ earlier' \subseteq Waiting
    BY <1>9 DEF BeginDrain, DrainTimeout, activeStreams
  <2>3. next' \in 0 .. NumServices + 1
    BY <1>9 DEF BeginDrain, DrainTimeout
  <2>4. /\ pc' \in {"drain", "stopsvc"} /\ drain' \in {"spawned", "timeout"}
        /\ UNCHANGED <<serving, ctx, starts, timeout, overtaken, host, node, open, handlers, svc,
                       stream>>
    BY <1>9 DEF BeginDrain, DrainTimeout
  <2> QED BY <2>1, <2>2, <2>3, <2>4, Zenon DEF Waiting
<1>10. CASE SkipDrain \/ DrainDone
  <2>1. next' \in 0 .. NumServices + 1
    BY <1>10 DEF SkipDrain, DrainDone
  <2>2. /\ pc' = "stopsvc" /\ drain' \in {"skipped", "drained"}
        /\ UNCHANGED <<serving, ctx, starts, timeout, overtaken, host, node, open, handlers, svc,
                       earlier, counted, strays, stream>>
    BY <1>10 DEF SkipDrain, DrainDone
  <2> QED BY <2>1, <2>2, Zenon
<1>11. CASE \E p \in Protocols : RegisterHandler(p) \/ RemoveHandler(p)
  <2>1. PICK p \in Protocols : RegisterHandler(p) \/ RemoveHandler(p)
    BY <1>11
  <2>2. handlers' \in [0 .. MaxStarts -> SUBSET Protocols]
    BY <2>1 DEF RegisterHandler, RemoveHandler
  <2> QED BY <2>1, <2>2, Zenon DEF RegisterHandler, RemoveHandler
<1> QED
  BY <1>1, <1>2, <1>3, <1>4, <1>5, <1>6, <1>7, <1>8, <1>9, <1>10, <1>11, Zenon
  DEF ControlStep, StartStep, StopStep

(* So do the steps of the streams and of the goroutines waiting for them.      *)
LEMMA SideType == IInv /\ SideStep => TypeOK'
<1> SUFFICES ASSUME IInv, SideStep PROVE TypeOK'
  OBVIOUS
<1>1. drain' \in Waiting \cup {"none", "released", "drained", "timeout", "skipped"}
      /\ earlier' \subseteq Waiting
  <2> USE DEF IInv, TypeOK, Waiting, Panic, draining
  <2>1. CASE WaitCalled \/ WaitReturns
    BY <2>1, Zenon DEF WaitCalled, WaitReturns, AfterWait
  <2>2. CASE EarlierWaitCalled \/ EarlierWaitReturns
    BY <2>2, Zenon DEF EarlierWaitCalled, EarlierWaitReturns, AfterWait
  <2>3. CASE \E s \in Streams : OpenStream(s) \/ HandlerEnters(s)
    BY <2>3, Zenon DEF OpenStream, HandlerEnters
  <2>4. CASE \E s \in Streams : HandlerLeaves(s)
    <3>1. drain' \in {drain, LetGo(drain)} /\ earlier' \in {earlier, {LetGo(w) : w \in earlier}}
      BY <2>4 DEF HandlerLeaves
    <3>2. LetGo(drain) \in Waiting \cup {"none", "released", "drained", "timeout", "skipped"}
      BY DEF LetGo
    <3>3. \A w \in earlier : LetGo(w) \in Waiting
      BY DEF LetGo
    <3> QED BY <3>1, <3>2, <3>3
  <2> QED BY <2>1, <2>2, <2>3, <2>4 DEF SideStep, StreamStep
<1>2. stream' \in [Streams -> {"none", "dispatched", "active", "done"}]
  BY DEF SideStep, IInv, TypeOK, Panic, WaitCalled, WaitReturns, EarlierWaitCalled,
     EarlierWaitReturns, StreamStep, OpenStream, HandlerEnters, HandlerLeaves
<1>3. UNCHANGED <<serving, ctx, starts, timeout, overtaken, host, node, open, handlers, next, svc,
                  counted, strays>>
      /\ pc' \in {pc, "panicked"}
  BY SideSteps DEF call, network, lifecycle
<1> QED BY <1>1, <1>2, <1>3, Zenon DEF IInv, TypeOK

(* Every step keeps the loops in range and StopAll's work done.                *)
LEMMA StepLoops == IInv /\ [Next]_vars => LoopsByPhase'
<1> SUFFICES ASSUME IInv, [Next]_vars PROVE LoopsByPhase'
  OBVIOUS
<1> USE ServerAssumption
  DEF IInv, TypeOK, LoopsByPhase, NoneUp, Idle, Down, Services, Goto, call, network, lifecycle,
      draining
<1>1. CASE StartService
  BY <1>1 DEF StartService
<1>2. CASE StartServiceFails
  BY <1>2 DEF StartServiceFails
<1>3. CASE RollbackService
  BY <1>3 DEF RollbackService, StopService, RollbackOver
<1>4. CASE StopNextService
  BY <1>4 DEF StopNextService, StopService
<1>5. CASE StopServicesDone
  BY <1>5 DEF StopServicesDone
<1>6. CASE DrainDone \/ DrainTimeout \/ SkipDrain
  BY <1>6 DEF DrainDone, DrainTimeout, SkipDrain
<1>7. CASE \/ StartCall \/ StopCall \/ CancelContext \/ StartRefused \/ CreateHost \/ CreateNode
           \/ CreateNodeFails \/ RegisterDone \/ StartDone \/ RollbackDone \/ StartAborted
           \/ BeginDrain \/ StopDone
  BY <1>7 DEF StartCall, StopCall, CancelContext, StartRefused, CreateHost, CreateNode,
     CreateNodeFails, RegisterDone, StartDone, RollbackDone, StartAborted, BeginDrain, StopDone
<1>8. CASE \E p \in Protocols : RegisterHandler(p) \/ RemoveHandler(p)
  BY <1>8 DEF RegisterHandler, RemoveHandler
<1>9. CASE SideStep
  BY <1>9, SideSteps
<1>10. CASE UNCHANGED vars
  BY <1>10 DEF vars
<1> QED
  BY <1>1, <1>2, <1>3, <1>4, <1>5, <1>6, <1>7, <1>8, <1>9, <1>10, Zenon
  DEF Next, StartStep, StopStep, SideStep

(* Every step keeps the services as the phase says: the loops start and stop   *)
(* exactly the service at their index.                                         *)
LEMMA StepServices == IInv /\ [Next]_vars => ServicesByPhase'
<1> SUFFICES ASSUME IInv, [Next]_vars, Sequential' PROVE ServicesByPhase'
  BY DEF ServicesByPhase
<1> USE ServerAssumption
  DEF IInv, TypeOK, LoopsByPhase, ServicesByPhase, AllUp, NoneUp, Sequential, Idle, Down, Services,
      Goto, call, network, lifecycle, draining
<1>1. CASE StartService
  BY <1>1 DEF StartService
<1>2. CASE StartServiceFails
  BY <1>2 DEF StartServiceFails
<1>3. CASE StartDone
  BY <1>3 DEF StartDone
<1>4. CASE RollbackService
  BY <1>4 DEF RollbackService, StopService, RollbackOver
<1>5. CASE RollbackDone
  BY <1>5 DEF RollbackDone, RollbackOver
<1>6. CASE StopNextService
  BY <1>6 DEF StopNextService, StopService
<1>7. CASE StartCall
  \* A running server has an open host, which the call would overtake.
  <2>1. overtaken = {} /\ open = {}
    BY <1>7 DEF StartCall
  <2>2. pc # "running"
    BY <2>1 DEF HostByPhase
  <2> QED BY <1>7, <2>1, <2>2 DEF StartCall
<1>8. CASE StopCall
  <2>1. ServicesStacked
    BY Stacked
  <2> QED BY <1>8, <2>1 DEF StopCall, ServicesStacked
<1>9. CASE DrainDone \/ DrainTimeout \/ SkipDrain
  BY <1>9 DEF DrainDone, DrainTimeout, SkipDrain
<1>10. CASE RegisterDone
  BY <1>10 DEF RegisterDone
<1>11. CASE \/ CancelContext \/ StartRefused \/ CreateHost \/ CreateNode \/ CreateNodeFails
            \/ StartAborted \/ BeginDrain \/ StopServicesDone \/ StopDone
  BY <1>11 DEF CancelContext, StartRefused, CreateHost, CreateNode, CreateNodeFails, StartAborted,
     BeginDrain, StopServicesDone, StopDone, ServicesStacked
<1>12. CASE \E p \in Protocols : RegisterHandler(p) \/ RemoveHandler(p)
  BY <1>12 DEF RegisterHandler, RemoveHandler
<1>13. CASE SideStep
  <2>1. ServicesStacked' /\ UNCHANGED <<overtaken, next, svc>>
    BY <1>13, Stacked, SideSteps DEF ServicesStacked
  <2> QED BY <1>13, <2>1, SideSteps
<1>14. CASE UNCHANGED vars
  BY <1>14 DEF vars, ServicesStacked
<1> QED
  BY <1>1, <1>2, <1>3, <1>4, <1>5, <1>6, <1>7, <1>8, <1>9, <1>10, <1>11, <1>12, <1>13, <1>14, Zenon
  DEF Next, StartStep, StopStep, SideStep

(* Every step out of Start or Stop closes the host it leaves behind, unless a  *)
(* Start has overtaken it.                                                     *)
LEMMA StepHost == IInv /\ [Next]_vars => HostByPhase'
<1> SUFFICES ASSUME IInv, [Next]_vars PROVE HostByPhase'
  OBVIOUS
<1> USE ServerAssumption
  DEF IInv, TypeOK, HostByPhase, Sequential, Idle, Down, Hosts, Goto, call, network, lifecycle,
      draining
<1>1. CASE StartCall
  BY <1>1 DEF StartCall
<1>2. CASE CreateHost
  BY <1>2 DEF CreateHost
<1>3. CASE CreateNode
  BY <1>3 DEF CreateNode
<1>4. CASE CreateNodeFails
  BY <1>4 DEF CreateNodeFails
<1>5. CASE StartAborted \/ StopDone
  BY <1>5, Zenon DEF StartAborted, StopDone, CloseNode
<1>6. CASE \/ StopCall \/ CancelContext \/ StartRefused \/ RegisterDone \/ StartService
           \/ StartServiceFails \/ StartDone \/ RollbackService \/ RollbackDone
  BY <1>6, Zenon DEF StopCall, CancelContext, StartRefused, RegisterDone, StartService,
     StartServiceFails, StartDone, RollbackService, RollbackDone
<1>7. CASE \/ BeginDrain \/ SkipDrain \/ DrainDone \/ DrainTimeout \/ StopNextService
           \/ StopServicesDone
  BY <1>7, Zenon DEF BeginDrain, SkipDrain, DrainDone, DrainTimeout, StopNextService, StopServicesDone
<1>8. CASE \E p \in Protocols : RegisterHandler(p) \/ RemoveHandler(p)
  BY <1>8, Zenon DEF RegisterHandler, RemoveHandler
<1>9. CASE SideStep
  BY <1>9, SideSteps, Zenon
<1>10. CASE UNCHANGED vars
  BY <1>10 DEF vars
<1> QED
  BY <1>1, <1>2, <1>3, <1>4, <1>5, <1>6, <1>7, <1>8, <1>9, <1>10, Zenon
  DEF Next, StartStep, StopStep, SideStep

(* The handler table stays empty from the last removal to the next host.       *)
LEMMA StepHandlers == IInv /\ [Next]_vars => HandlersByPhase'
<1> SUFFICES ASSUME IInv, [Next]_vars PROVE HandlersByPhase'
  OBVIOUS
<1> USE DEF IInv, HandlersByPhase, Idle, Down, Closing, Goto, call, network
<1>1. CASE BeginDrain \/ SkipDrain
  BY <1>1 DEF BeginDrain, SkipDrain, HandlersRemoved
<1>2. CASE \/ StartCall \/ StopCall \/ CancelContext \/ StartRefused \/ CreateHost \/ CreateNode
           \/ CreateNodeFails \/ RegisterDone \/ StartService \/ StartServiceFails \/ StartDone
           \/ RollbackService \/ RollbackDone \/ StartAborted \/ StopDone
  BY <1>2 DEF StartCall, StopCall, CancelContext, StartRefused, CreateHost, CreateNode,
     CreateNodeFails, RegisterDone, StartService, StartServiceFails, StartDone, RollbackService,
     RollbackDone, StartAborted, StopDone
<1>3. CASE DrainDone \/ DrainTimeout \/ StopNextService \/ StopServicesDone
  BY <1>3, Zenon DEF DrainDone, DrainTimeout, StopNextService, StopServicesDone
<1>4. CASE \E p \in Protocols : RegisterHandler(p) \/ RemoveHandler(p)
  BY <1>4 DEF RegisterHandler, RemoveHandler
<1>5. CASE SideStep
  BY <1>5, SideSteps
<1>6. CASE UNCHANGED vars
  BY <1>6 DEF vars
<1> QED BY <1>1, <1>2, <1>3, <1>4, <1>5, <1>6, Zenon DEF Next, StartStep, StopStep, SideStep

(* Then no open host has a handler left, and no step accepts a stream.         *)
LEMMA NoneAccepted ==
    ASSUME IInv, Sequential, pc \in Closing, NEW s \in Streams
    PROVE  ~ OpenStream(s)
<1>1. open \subseteq {node} /\ (node \in open => node = host) /\ handlers[host] = {}
  BY DEF IInv, HostByPhase, HandlersByPhase, Sequential, Closing
<1> QED BY <1>1 DEF OpenStream

(* A counted stream leaves the WaitGroup before Wait returns, and never comes  *)
(* back to it.                                                                 *)
LEMMA StepCounted == IInv /\ [Next]_vars => CountedByPhase'
<1> SUFFICES ASSUME IInv, [Next]_vars PROVE CountedByPhase'
  OBVIOUS
<1> USE DEF IInv, TypeOK, CountedByPhase, CountedStreamsDrained, Idle, Down, Goto, draining
<1>1. CASE BeginDrain
  BY <1>1 DEF BeginDrain, activeStreams
<1>2. CASE DrainDone
  BY <1>2 DEF DrainDone
<1>3. CASE WaitCalled \/ WaitReturns
  BY <1>3 DEF WaitCalled, WaitReturns, AfterWait, WaitOver, activeStreams, Panic
<1>4. CASE EarlierWaitCalled \/ EarlierWaitReturns
  BY <1>4 DEF EarlierWaitCalled, EarlierWaitReturns, Panic
<1>5. CASE \E s \in Streams : HandlerEnters(s)
  BY <1>5 DEF HandlerEnters, Panic
<1>6. CASE \E s \in Streams : HandlerLeaves(s)
  BY <1>6 DEF HandlerLeaves, LetGo, activeStreams
<1>7. CASE \E s \in Streams : OpenStream(s)
  BY <1>7 DEF OpenStream
<1>8. CASE \/ StartCall \/ StopCall \/ CancelContext \/ StartRefused \/ CreateHost \/ CreateNode
           \/ CreateNodeFails \/ RegisterDone \/ StartService \/ StartServiceFails \/ StartDone
           \/ RollbackService \/ RollbackDone \/ StartAborted
  BY <1>8 DEF StartCall, StopCall, CancelContext, StartRefused, CreateHost, CreateNode,
     CreateNodeFails, RegisterDone, StartService, StartServiceFails, StartDone, RollbackService,
     RollbackDone, StartAborted
<1>9. CASE SkipDrain \/ DrainTimeout \/ StopNextService \/ StopServicesDone \/ StopDone
  BY <1>9 DEF SkipDrain, DrainTimeout, StopNextService, StopServicesDone, StopDone
<1>10. CASE \E p \in Protocols : RegisterHandler(p) \/ RemoveHandler(p)
  BY <1>10 DEF RegisterHandler, RemoveHandler
<1>11. CASE UNCHANGED vars
  BY <1>11 DEF vars
<1> QED
  BY <1>1, <1>2, <1>3, <1>4, <1>5, <1>6, <1>7, <1>8, <1>9, <1>10, <1>11, Zenon
  DEF Next, StartStep, StopStep, StreamStep

(* Without a stray no stream is left that could enter the WaitGroup while Stop *)
(* waits, so no goroutine finds it in use again.                               *)
LEMMA StepStrays == IInv /\ [Next]_vars => StraysByPhase'
<1> SUFFICES ASSUME IInv, [Next]_vars PROVE StraysByPhase'
  OBVIOUS
<1> USE DEF IInv, TypeOK, StraysByPhase, OnlyStraysPanic, Sequential, Waiting, Idle, Down, Goto, call,
    draining
<1>1. CASE BeginDrain
  BY <1>1, Zenon DEF BeginDrain, activeStreams
<1>2. CASE DrainTimeout
  BY <1>2 DEF DrainTimeout
<1>3. CASE WaitCalled \/ WaitReturns
  BY <1>3, Zenon DEF WaitCalled, WaitReturns, AfterWait, WaitOver, activeStreams, Panic, network
<1>4. CASE EarlierWaitCalled \/ EarlierWaitReturns
  BY <1>4 DEF EarlierWaitCalled, EarlierWaitReturns, activeStreams, Panic, network
<1>5. ASSUME NEW s \in Streams, HandlerEnters(s) PROVE StraysByPhase'
  <2>1. CASE Panic
    <3>1. stream' = stream /\ stream[s] = "dispatched" /\ pc # "panicked"
      BY <1>5, <2>1 DEF HandlerEnters, Panic
    <3>2. "woken" \in earlier \cup {drain}
      BY <1>5, <3>1 DEF HandlerEnters
    <3>3. strays \/ ~ Sequential
      BY <3>1, <3>2
    <3> QED BY <2>1, <3>1, <3>3 DEF Panic, network
  <2>2. CASE ~ Panic
    <3>1. UNCHANGED <<pc, overtaken, host, drain, earlier, strays>> /\ pc # "panicked"
      BY <1>5, <2>2 DEF HandlerEnters, network
    <3>2. (Sequential /\ ~ strays) => pc # "drain"
      BY <1>5 DEF HandlerEnters
    <3> QED BY <3>1, <3>2
  <2> QED BY <2>1, <2>2
<1>6. ASSUME NEW s \in Streams, HandlerLeaves(s) PROVE StraysByPhase'
  BY <1>6, Zenon DEF HandlerLeaves, LetGo, activeStreams, network
<1>7. ASSUME NEW s \in Streams, OpenStream(s) PROVE StraysByPhase'
  <2>1. ~ (Sequential /\ pc = "drain")
    BY <1>7, NoneAccepted DEF Closing
  <2> QED BY <1>7, <2>1 DEF OpenStream, network
<1>8. CASE StartCall \/ StopCall \/ CancelContext
  BY <1>8, Zenon DEF StartCall, StopCall, CancelContext, activeStreams, network
<1>9. CASE \/ StartRefused \/ CreateHost \/ CreateNode \/ CreateNodeFails \/ RegisterDone
           \/ StartService \/ StartServiceFails \/ StartDone \/ RollbackService \/ RollbackDone
           \/ StartAborted
  BY <1>9, Zenon DEF StartRefused, CreateHost, CreateNode, CreateNodeFails, RegisterDone, StartService,
     StartServiceFails, StartDone, RollbackService, RollbackDone, StartAborted
<1>10. CASE SkipDrain \/ DrainDone \/ StopNextService \/ StopServicesDone \/ StopDone
  BY <1>10, Zenon DEF SkipDrain, DrainDone, StopNextService, StopServicesDone, StopDone
<1>11. CASE \E p \in Protocols : RegisterHandler(p) \/ RemoveHandler(p)
  <2>1. /\ UNCHANGED <<pc, overtaken, host, drain, earlier, strays, stream>>
        /\ pc \notin {"drain", "panicked"}
    BY <1>11 DEF RegisterHandler, RemoveHandler
  <2> QED BY <2>1
<1>12. CASE UNCHANGED vars
  BY <1>12 DEF vars, activeStreams, network
<1> QED
  BY <1>1, <1>2, <1>3, <1>4, <1>5, <1>6, <1>7, <1>8, <1>9, <1>10, <1>11, <1>12, Zenon
  DEF Next, StartStep, StopStep, StreamStep

(* The inductive step, from its parts.                                         *)
LEMMA StepIInv == IInv /\ [Next]_vars => IInv'
<1> SUFFICES ASSUME IInv, [Next]_vars PROVE IInv'
  OBVIOUS
<1>1. TypeOK'
  <2>1. CASE UNCHANGED vars
    BY <2>1, Zenon DEF vars, call, network, lifecycle, draining, IInv, TypeOK
  <2>2. Next => ControlStep \/ SideStep
    BY DEF Next, ControlStep, SideStep
  <2> QED BY <2>1, <2>2, ControlType, SideType
<1> QED BY <1>1, StepLoops, StepServices, StepHost, StepHandlers, StepCounted, StepStrays DEF IInv

(* The inductive invariant holds in every state of every behaviour.            *)
THEOREM Invariance == Spec => []IInv
  BY InitIInv, StepIInv, PTL DEF Spec

----------------------------------------------------------------------------

(* Type correctness of the server for any constants.                           *)
THEOREM ServerTypeOK == Spec => []TypeOK
<1>1. IInv => TypeOK
  BY DEF IInv
<1> QED BY <1>1, Invariance, PTL

(* However many services there are and whatever fails, a service is up only    *)
(* while all the services registered before it are (StartAll, rollback,        *)
(* StopAll), as long as Start is not called on a running server.               *)
THEOREM ServicesAlwaysStacked == Spec => []ServicesStacked
  BY Stacked, Invariance, PTL

(* A finished Stop leaves no service up and no host open but one that a Start  *)
(* on the running server has overtaken, after any calls of Start and Stop; a   *)
(* failed Start leaves nothing, if there was no such call.                     *)
THEOREM NothingHeld == Spec => []NothingHeldWhenDown
<1>1. IInv => NothingHeldWhenDown
  <2> SUFFICES ASSUME IInv, pc \in Down
               PROVE  open \subseteq overtaken /\ (pc = "stopped" \/ Sequential => NoneUp)
    BY DEF NothingHeldWhenDown, NoneUp
  <2>1. open \subseteq overtaken
    BY DEF IInv, HostByPhase
  <2>2. CASE pc = "stopped"
    BY <2>1, <2>2 DEF IInv, LoopsByPhase
  <2>3. CASE Sequential
    BY <2>1, <2>3 DEF IInv, ServicesByPhase
  <2> QED BY <2>1, <2>2, <2>3
<1> QED BY <1>1, Invariance, PTL

(* If Stop goes on because the streams drained, each stream inside the         *)
(* WaitGroup when it began to wait is done.                                    *)
THEOREM CountedStreamsAreDrained == Spec => []CountedStreamsDrained
<1>1. IInv => CountedStreamsDrained
  BY DEF IInv, CountedByPhase
<1> QED BY <1>1, Invariance, PTL

(* The WaitGroup panics only for a stray, however many streams come and        *)
(* however often the server is started and stopped: removing the handlers      *)
(* before Stop waits is enough for all streams that are not on their way.      *)
THEOREM OnlyStraysEndTheProcess == Spec => []OnlyStraysPanic
<1>1. IInv => OnlyStraysPanic
  BY DEF IInv, StraysByPhase
<1> QED BY <1>1, Invariance, PTL

(* No step of Stop after the removal of the handlers lets a new stream in,     *)
(* unless an overtaken host does.                                              *)
THEOREM ClosingAcceptsNoStream == Spec => NoStreamAcceptedWhileClosing
<1> DEFINE Refused == \A s \in Streams :
             (Sequential /\ pc \in Closing /\ stream[s] = "none") => stream'[s] = "none"
<1>1. IInv /\ [Next]_vars => [Refused]_vars
  <2> SUFFICES ASSUME IInv, Next, Sequential, pc \in Closing, NEW s \in Streams, stream[s] = "none"
               PROVE  stream'[s] = "none"
    OBVIOUS
  <2>1. CASE \E t \in Streams : HandlerEnters(t) \/ HandlerLeaves(t)
    BY <2>1 DEF HandlerEnters, HandlerLeaves, Panic, IInv, TypeOK
  <2>2. CASE UNCHANGED stream
    BY <2>2
  <2>3. CASE StartCall \/ StopCall \/ CancelContext \/ StartStep
    BY <2>2, <2>3 DEF StartCall, StopCall, CancelContext, StartStep, StartRefused, CreateHost,
       CreateNode, CreateNodeFails, RegisterHandler, RegisterDone, StartService, StartServiceFails,
       StartDone, RollbackService, RollbackDone, StartAborted
  <2>4. CASE StopStep
    BY <2>2, <2>4 DEF StopStep, RemoveHandler, BeginDrain, SkipDrain, DrainDone, DrainTimeout,
       StopNextService, StopServicesDone, StopDone
  <2>5. CASE WaitCalled \/ WaitReturns \/ EarlierWaitCalled \/ EarlierWaitReturns
    BY <2>2, <2>5 DEF WaitCalled, WaitReturns, EarlierWaitCalled, EarlierWaitReturns, Panic
  <2> QED BY <2>1, <2>3, <2>4, <2>5, NoneAccepted, Zenon DEF Next, StreamStep
<1> QED BY <1>1, Invariance, PTL DEF Spec, NoStreamAcceptedWhileClosing
=============================================================================
