------------------------------- MODULE Server -------------------------------
(***************************************************************************)
(* forge.Server: Start, Stop and ListenAndServe, with the service          *)
(* Lifecycle they drive and the inbound streams that arrive meanwhile.     *)
(*                                                                         *)
(* One control goroutine calls the public operations one after another, in *)
(* any order, Start on a running server included; every call it makes that *)
(* other goroutines can observe is a step.  Streams are dispatched by      *)
(* libp2p on goroutines of their own.  The inside of a handler is module   *)
(* Pipeline: here a stream is known by where it stands relative to the     *)
(* WaitGroup Stop waits on, whose panics on misuse end the process.        *)
(***************************************************************************)
EXTENDS Integers

CONSTANTS
    Streams,          \* the streams remote peers may open
    Protocols,        \* the keys of s.handlers
    ProtocolOf,       \* the protocol each stream asks for
    NumServices,      \* len(lc.services)
    ShutdownTimeouts, \* values of config.ShutdownTimeout; 0 skips the drain
    MaxStarts         \* bound: how many times Start is called

ASSUME ServerAssumption ==
    /\ ProtocolOf \in [Streams -> Protocols]
    /\ NumServices \in Nat
    /\ ShutdownTimeouts \subseteq Nat
    /\ MaxStarts \in Nat

VARIABLES
    pc,          \* where the control goroutine is
    serving,     \* TRUE: inside ListenAndServe; FALSE: Start and Stop called by hand
    ctx,         \* the context handed to the last Start, and by it to node and services
    starts,      \* number of Start calls so far; each host is known by its Start
    timeout,     \* s.config.ShutdownTimeout
    host,        \* s.host, 0 for nil
    node,        \* s.node, by the host it was made on, 0 for nil
    open,        \* the hosts that are open
    handlers,    \* protocols with a handler in the table of each host
    next,        \* loop index of StartAll, of its rollback and of StopAll (1-based)
    svc,         \* what was last called on each service: Start (up) or Stop
    drain,       \* Stop's wait for activeStreams: its goroutine, then its outcome
    earlier,     \* where goroutines stand whose Stop timed out before they returned
    stream,      \* where each inbound stream is
    counted,     \* history: streams inside the WaitGroup when Stop began to wait
    strays,      \* history: a Stop began to wait with a dispatched stream not counted
                 \* yet, or timed out before its goroutine had returned
    overtaken    \* history: hosts that were open when Start was called again

call == <<serving, ctx, starts, timeout, overtaken>>
network == <<host, node, open, handlers>>
lifecycle == <<next, svc>>
draining == <<drain, earlier, counted, strays>>
vars == <<pc, call, network, lifecycle, draining, stream>>

Services == 1 .. NumServices
Hosts == 1 .. MaxStarts

\* The control goroutine is between two calls of the public API.
Down == {"new", "failed", "stopped"}
Idle == Down \cup {"running"}

\* A goroutine of Stop: not at Wait yet, blocked in it, or let go by the last Done.
Waiting == {"spawned", "parked", "woken"}

\* The handlers are gone and the shutdown is on its way to the end.
Closing == {"drain", "stopsvc", "closenode"}

TypeOK ==
    /\ pc \in Idle \cup Closing \cup {"create", "node", "register", "startsvc",
                                      "rollback", "abort", "unregister", "panicked"}
    /\ serving \in BOOLEAN
    /\ ctx \in {"none", "live", "cancelled"}
    /\ starts \in 0 .. MaxStarts
    /\ timeout \in ShutdownTimeouts
    /\ host \in 0 .. MaxStarts
    /\ node \in 0 .. MaxStarts
    /\ open \subseteq Hosts /\ overtaken \subseteq Hosts
    /\ handlers \in [0 .. MaxStarts -> SUBSET Protocols]
    /\ next \in 0 .. NumServices + 1
    /\ svc \in [Services -> {"idle", "up", "down", "stuck"}]
    /\ drain \in Waiting \cup {"none", "released", "drained", "timeout", "skipped"}
    /\ earlier \subseteq Waiting
    /\ counted \subseteq Streams /\ strays \in BOOLEAN
    /\ stream \in [Streams -> {"none", "dispatched", "active", "done"}]

Init ==
    /\ pc = "new"
    /\ serving = FALSE /\ ctx = "none" /\ starts = 0 /\ timeout \in ShutdownTimeouts
    /\ host = 0 /\ node = 0 /\ open = {} /\ overtaken = {}
    /\ handlers = [h \in 0 .. MaxStarts |-> {}]
    /\ next = 0 /\ svc = [i \in Services |-> "idle"]
    /\ drain = "none" /\ earlier = {} /\ counted = {} /\ strays = FALSE
    /\ stream = [s \in Streams |-> "none"]

Goto(from, to) == pc = from /\ pc' = to

----------------------------------------------------------------------------
(* Start *)

(* The application calls Start, or ListenAndServe, with a fresh context.  Start *)
(* does not look whether the server is running already.                       *)
StartCall ==
    /\ pc \in Idle /\ ~ (serving /\ pc = "running") /\ pc' = "create"
    /\ starts < MaxStarts /\ starts' = starts + 1
    /\ serving' \in BOOLEAN
    /\ ctx' = "live"
    /\ overtaken' = overtaken \cup open
    /\ UNCHANGED <<timeout, network, lifecycle, draining, stream>>

(* The configuration, the identity or the host is refused; s.host and s.node  *)
(* are not assigned (module Startup has what this leaves behind).             *)
StartRefused ==
    /\ Goto("create", "failed")
    /\ UNCHANGED <<call, network, lifecycle, draining, stream>>

\* forgehost.Create succeeds; s.host is overwritten, the table is empty.
CreateHost ==
    /\ Goto("create", "node")
    /\ host' = starts /\ open' = open \cup {starts}
    /\ UNCHANGED <<call, node, handlers, lifecycle, draining, stream>>

\* node.New succeeds and s.node is overwritten.
CreateNode ==
    /\ Goto("node", "register")
    /\ node' = host
    /\ UNCHANGED <<call, host, open, handlers, lifecycle, draining, stream>>

CreateNodeFails ==
    /\ Goto("node", "failed")
    /\ open' = open \ {host}
    /\ UNCHANGED <<call, host, node, handlers, lifecycle, draining, stream>>

\* One turn of the loop over s.handlers, whose order is Go's random map order.
RegisterHandler(p) ==
    /\ Goto("register", "register")
    /\ p \notin handlers[host]
    /\ handlers' = [handlers EXCEPT ![host] = @ \cup {p}]
    /\ UNCHANGED <<call, host, node, open, lifecycle, draining, stream>>

RegisterDone ==
    /\ Goto("register", "startsvc")
    /\ handlers[host] = Protocols
    /\ next' = 1
    /\ UNCHANGED <<call, network, svc, draining, stream>>

StartService ==
    /\ Goto("startsvc", "startsvc")
    /\ next <= NumServices
    /\ svc' = [svc EXCEPT ![next] = "up"]
    /\ next' = next + 1
    /\ UNCHANGED <<call, network, draining, stream>>

StartServiceFails ==
    /\ Goto("startsvc", "rollback")
    /\ next <= NumServices
    /\ next' = next - 1
    /\ UNCHANGED <<call, network, svc, draining, stream>>

StartDone ==
    /\ Goto("startsvc", "running")
    /\ next = NumServices + 1
    /\ UNCHANGED <<call, network, lifecycle, draining, stream>>

(* svc.Stop() of service i; the error it may return is only logged.  Stopping *)
(* a service that is not up leaves it as it is.                               *)
StopService(i) ==
    \E outcome \in {"down", "stuck"} :
        svc' = [svc EXCEPT ![i] = IF @ = "up" THEN outcome ELSE @]

\* A bug: the rollback loop ends at j > 0 and misses the first service.
RollbackOverEarly == next <= 1

RollbackOver == next = 0

RollbackService ==
    /\ Goto("rollback", "rollback")
    /\ ~ RollbackOver
    /\ StopService(next)
    /\ next' = next - 1
    /\ UNCHANGED <<call, network, draining, stream>>

RollbackDone ==
    /\ Goto("rollback", "abort")
    /\ RollbackOver
    /\ UNCHANGED <<call, network, lifecycle, draining, stream>>

\* node.Close() closes the host with it.
CloseNode == open' = open \ {node}

StartAborted ==
    /\ Goto("abort", "failed")
    /\ CloseNode
    /\ UNCHANGED <<call, host, node, handlers, lifecycle, draining, stream>>

----------------------------------------------------------------------------
(* Stop *)

(* The caller's context ends: at any time after it was handed to Start.  What *)
(* node and services do about it is their own: a TickerService ends its loop  *)
(* (module Ticker), though Stop has not been called on it.                    *)
CancelContext ==
    /\ pc # "panicked"
    /\ ctx = "live" /\ ctx' = "cancelled"
    /\ UNCHANGED <<pc, serving, starts, timeout, overtaken, network, lifecycle, draining, stream>>

(* Stop is called: by ListenAndServe once ctx is done, or by the application  *)
(* whenever it is not inside another call.  With handlers to remove and no    *)
(* host ever created, s.host is a nil interface and the call panics.          *)
StopCall ==
    /\ pc \in Idle
    /\ (serving /\ pc = "running") => ctx = "cancelled"
    /\ pc' = IF host = 0 /\ Protocols # {} THEN "panicked" ELSE "unregister"
    /\ UNCHANGED <<call, network, lifecycle, draining, stream>>

RemoveHandler(p) ==
    /\ Goto("unregister", "unregister")
    /\ p \in handlers[host]
    /\ handlers' = [handlers EXCEPT ![host] = @ \ {p}]
    /\ UNCHANGED <<call, host, node, open, lifecycle, draining, stream>>

\* A bug: the loop that removes the handlers stops after the first one.
HandlersRemovedEarly == handlers[host] # Protocols

HandlersRemoved == handlers[host] = {}

activeStreams == {s \in Streams : stream[s] = "active"}

BeginDrain ==
    /\ Goto("unregister", "drain")
    /\ HandlersRemoved
    /\ timeout > 0
    /\ drain' = "spawned"
    /\ counted' = activeStreams
    /\ strays' = (strays \/ \E s \in Streams : stream[s] = "dispatched")
    /\ UNCHANGED <<call, network, lifecycle, earlier, stream>>

SkipDrain ==
    /\ Goto("unregister", "stopsvc")
    /\ HandlersRemoved
    /\ timeout = 0
    /\ drain' = "skipped"
    /\ next' = NumServices
    /\ UNCHANGED <<call, network, svc, earlier, counted, strays, stream>>

\* A bug: the goroutine closes done without waiting for the counter.
WaitOverAtOnce == TRUE

\* The counter of the WaitGroup is zero.
WaitOver == activeStreams = {}

\* An unrecovered panic on any goroutine ends the process.
Panic == pc' = "panicked" /\ UNCHANGED <<call, network, lifecycle, draining, stream>>

\* Wait is called: it returns at once or blocks until a Done brings the counter to zero.
AfterWait == IF WaitOver THEN "released" ELSE "parked"

WaitCalled ==
    /\ pc # "panicked"
    /\ drain = "spawned" /\ drain' = AfterWait
    /\ UNCHANGED <<pc, call, network, lifecycle, earlier, counted, strays, stream>>

(* A goroutine that was let go looks at the counter again before Wait returns:  *)
(* one that is not zero any more means "WaitGroup is reused before previous    *)
(* Wait has returned".                                                         *)
WaitReturns ==
    /\ pc # "panicked"
    /\ drain = "woken"
    /\ \/ /\ WaitOver /\ drain' = "released"
          /\ UNCHANGED <<pc, call, network, lifecycle, earlier, counted, strays, stream>>
       \/ ~ WaitOver /\ Panic

(* The same for the goroutines of Stops that timed out: nobody listens to      *)
(* them, and the streams they meet may be those of a later Start.  Several may  *)
(* stand at the same place, so the one that moves need not be the last there.  *)
EarlierWaitCalled ==
    /\ pc # "panicked"
    /\ "spawned" \in earlier
    /\ \E left \in SUBSET {"spawned"} :
          earlier' = (earlier \ left) \cup ({AfterWait} \ {"released"})
    /\ UNCHANGED <<pc, call, network, lifecycle, drain, counted, strays, stream>>

EarlierWaitReturns ==
    /\ pc # "panicked"
    /\ "woken" \in earlier
    /\ \/ /\ WaitOver /\ earlier' = earlier \ {"woken"}
          /\ UNCHANGED <<pc, call, network, lifecycle, drain, counted, strays, stream>>
       \/ ~ WaitOver /\ Panic

\* The select of Stop picks <-done ...
DrainDone ==
    /\ Goto("drain", "stopsvc")
    /\ drain = "released" /\ drain' = "drained"
    /\ next' = NumServices
    /\ UNCHANGED <<call, network, svc, earlier, counted, strays, stream>>

\* A bug: the timer branch of the select is missing, so Stop waits for done only.
DrainTimeoutNever == FALSE /\ UNCHANGED vars

\* ... or <-time.After, which may win even when done is ready too.
DrainTimeout ==
    /\ Goto("drain", "stopsvc")
    /\ drain' = "timeout"
    /\ earlier' = earlier \cup ({drain} \cap Waiting)
    /\ strays' = (strays \/ drain \in Waiting)
    /\ next' = NumServices
    /\ UNCHANGED <<call, network, svc, counted, stream>>

\* A bug: StopAll walks the services in registration order.
StopNextServiceForward ==
    /\ Goto("stopsvc", "stopsvc")
    /\ next > 0
    /\ StopService(NumServices + 1 - next)
    /\ next' = next - 1
    /\ UNCHANGED <<call, network, draining, stream>>

StopNextService ==
    /\ Goto("stopsvc", "stopsvc")
    /\ next > 0
    /\ StopService(next)
    /\ next' = next - 1
    /\ UNCHANGED <<call, network, draining, stream>>

StopServicesDone ==
    /\ Goto("stopsvc", "closenode")
    /\ next = 0
    /\ UNCHANGED <<call, network, lifecycle, draining, stream>>

\* There is no host 0: with s.node nil nothing is closed.
StopDone ==
    /\ Goto("closenode", "stopped")
    /\ CloseNode
    /\ UNCHANGED <<call, host, node, handlers, lifecycle, draining, stream>>

----------------------------------------------------------------------------
(* Streams *)

(* libp2p negotiates the protocol on one of the open hosts, finds its handler *)
(* and starts a goroutine for it; the handler has not run its first statement *)
(* yet.                                                                       *)
OpenStream(s) ==
    /\ pc # "panicked"
    /\ stream[s] = "none"
    /\ \E h \in open : ProtocolOf[s] \in handlers[h]
    /\ stream' = [stream EXCEPT ![s] = "dispatched"]
    /\ UNCHANGED <<pc, call, network, lifecycle, draining>>

(* HandleStream's first statement, activeStreams.Add(1).  While the Done that  *)
(* lets goroutines go has not cleared them from the WaitGroup yet, it panics:  *)
(* "Add called concurrently with Wait".                                        *)
HandlerEnters(s) ==
    /\ pc # "panicked"
    /\ stream[s] = "dispatched"
    /\ \/ /\ stream' = [stream EXCEPT ![s] = "active"]
          /\ UNCHANGED <<pc, call, network, lifecycle, draining>>
       \/ "woken" \in earlier \cup {drain} /\ WaitOver /\ Panic

LetGo(w) == IF w = "parked" THEN "woken" ELSE w

\* A bug: each frame has its own Add(1) and Done(), so a stream comes back to Add.
HandlerLeavesPerFrame(s) ==
    /\ pc # "panicked"
    /\ stream[s] = "active"
    /\ stream' = [stream EXCEPT ![s] = "dispatched"]
    /\ IF activeStreams = {s}
         THEN drain' = LetGo(drain) /\ earlier' = {LetGo(w) : w \in earlier}
         ELSE UNCHANGED <<drain, earlier>>
    /\ UNCHANGED <<pc, call, network, lifecycle, counted, strays>>

(* HandleStream's last deferred call, activeStreams.Done(): the last one lets  *)
(* every goroutine go that is blocked in Wait.                                 *)
HandlerLeaves(s) ==
    /\ pc # "panicked"
    /\ stream[s] = "active"
    /\ stream' = [stream EXCEPT ![s] = "done"]
    /\ IF activeStreams = {s}
         THEN drain' = LetGo(drain) /\ earlier' = {LetGo(w) : w \in earlier}
         ELSE UNCHANGED <<drain, earlier>>
    /\ UNCHANGED <<pc, call, network, lifecycle, counted, strays>>

----------------------------------------------------------------------------

StartStep ==
    \/ StartRefused \/ CreateHost \/ CreateNode \/ CreateNodeFails
    \/ \E p \in Protocols : RegisterHandler(p)
    \/ RegisterDone \/ StartService \/ StartServiceFails \/ StartDone
    \/ RollbackService \/ RollbackDone \/ StartAborted

StopStep ==
    \/ \E p \in Protocols : RemoveHandler(p)
    \/ BeginDrain \/ SkipDrain \/ DrainDone \/ DrainTimeout
    \/ StopNextService \/ StopServicesDone \/ StopDone

StreamStep(s) == OpenStream(s) \/ HandlerEnters(s) \/ HandlerLeaves(s)

Next ==
    \/ StartCall \/ StopCall \/ CancelContext
    \/ StartStep \/ StopStep
    \/ WaitCalled \/ WaitReturns \/ EarlierWaitCalled \/ EarlierWaitReturns
    \/ \E s \in Streams : StreamStep(s)

(* Fairness: a call that is under way goes on (its timer included: the branch *)
(* <-time.After becomes ready by itself), and ListenAndServe leaves           *)
(* <-ctx.Done() once ctx is done.  Nothing is asked of peers, of handlers or   *)
(* of the application, which may never call Stop and never cancel.            *)
Fairness ==
    /\ WF_vars(StartStep)
    /\ WF_vars(StopStep)
    /\ WF_vars(serving /\ pc = "running" /\ StopCall)

Spec == Init /\ [][Next]_vars /\ Fairness

----------------------------------------------------------------------------
(* Properties *)

\* Start was never called while the server was up.
Sequential == overtaken = {}

(* Services are stacked: one is up only while every service registered before *)
(* it is up, through StartAll, its rollback, StopAll and any later Start       *)
(* (lifecycle.go: "start in registration order and stop in reverse order").   *)
(* A Start on a running server may roll back under services still up.          *)
ServicesStacked ==
    Sequential => \A i, j \in Services : (i < j /\ svc[j] = "up") => svc[i] = "up"

(* After Stop, whatever calls came before it, no service is up and no host is  *)
(* open but one that was open when Start was called again: that Start          *)
(* overwrites s.host and s.node, and then nothing closes it.  If there was no  *)
(* such Start, one that failed at any step leaves nothing behind either.       *)
NothingHeldWhenDown ==
    pc \in Down => /\ open \subseteq overtaken
                   /\ (pc = "stopped" \/ Sequential) => \A i \in Services : svc[i] # "up"

(* When Stop goes on because the streams drained, every stream that was inside *)
(* the WaitGroup when it began to wait has left it: StopAll and the close of   *)
(* the node find none of them at work.                                         *)
CountedStreamsDrained ==
    (pc \in {"stopsvc", "closenode", "stopped"} /\ drain = "drained") =>
        \A s \in counted : stream[s] = "done"

(* Once Stop has removed the handlers no stream is accepted until the next     *)
(* Start (USER_GUIDE: "no new streams accepted"), unless an overtaken host is  *)
(* still there to accept it.                                                   *)
NoStreamAcceptedWhileClosing ==
    [][\A s \in Streams :
        (Sequential /\ pc \in Closing /\ stream[s] = "none") => stream'[s] = "none"]_vars

(* The WaitGroup panics, which ends the process, only for a stray: a stream    *)
(* that was dispatched and not counted yet when a Stop began to wait, or the   *)
(* goroutine a Stop left behind at its timeout.  A Stop that finds none, after *)
(* it has removed the handlers, cannot meet one (a Start on a running server,  *)
(* and Stop with a nil s.host, apart).                                         *)
OnlyStraysPanic == pc = "panicked" => strays \/ ~ Sequential \/ host = 0

(* Once its context ends ListenAndServe returns, however long the streams      *)
(* stay: the shutdown timeout bounds the drain.  The one other end is the      *)
(* panic of the WaitGroup.                                                     *)
ServeReturns ==
    (serving /\ pc = "running" /\ ctx = "cancelled") ~> (pc \in {"stopped", "panicked"})

(* Stop "waits for active streams to drain before closing the node": after     *)
(* "all active streams drained" no handler is inside the WaitGroup.            *)
DrainedMeansIdle ==
    (pc \in Closing /\ drain = "drained") => activeStreams = {}
=============================================================================
