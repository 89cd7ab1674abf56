----------------------------- MODULE HealthCheck -----------------------------
(***************************************************************************)
(* service.HealthCheck: Start makes an http.Server, opens the listener and *)
(* leaves Serve to a goroutine, which reads h.server when it gets to run;  *)
(* Stop shuts down whatever server h.server then is.  A Lifecycle calls    *)
(* Stop after a Start that succeeded, and may after one that failed.  One  *)
(* client at a time asks /readyz, which runs the checks in order; their    *)
(* results change at any time, and a check may never return.  /healthz,    *)
(* which always answers 200, changes nothing.  net/http is external: Serve *)
(* on a server that was shut down closes the listener and returns, and     *)
(* Shutdown closes the listeners being served and waits for the requests.  *)
(***************************************************************************)
EXTENDS Integers

CONSTANTS
    MaxListens,   \* bound: calls of Start
    NumChecks     \* readiness checks registered

ASSUME HealthCheckAssumption == MaxListens \in Nat /\ NumChecks \in Nat

Servers == 1 .. MaxListens
Checks == 1 .. NumChecks

VARIABLES
    call,      \* stopped or never started, started, or in Stop
    started,   \* the last Start returned nil
    server,    \* h.server: the number of the Start that made it, 0 for nil
    shut,      \* the http.Servers that were shut down
    serve,     \* the goroutine of each Start, which holds its listener until it has ended
    on,        \* the http.Server it serves
    request,   \* the /readyz request under way
    via,       \* the http.Server that accepted it
    next,      \* the check it is at
    passing    \* what each check would report

calls == <<call, started, server, shut>>
listeners == <<serve, on>>
readyz == <<request, via, next, passing>>
healthVars == <<calls, listeners, readyz>>

HealthTypeOK ==
    /\ call \in {"down", "up", "stopping"} /\ started \in BOOLEAN
    /\ server \in 0 .. MaxListens /\ shut \subseteq 1 .. server
    /\ serve \in [Servers -> {"none", "spawned", "serving", "ended"}]
    /\ on \in [Servers -> 0 .. MaxListens]
    /\ \A s \in Servers : serve[s] = "serving" => on[s] \in (s .. server) \ shut
    /\ request \in {"none", "checking", "hung", "200", "503"}
    /\ via \in 0 .. server /\ (via = 0 <=> request = "none")
    /\ next \in 1 .. NumChecks + 1
    /\ passing \in [Checks -> BOOLEAN]

HealthInit ==
    /\ call = "down" /\ started = FALSE /\ server = 0 /\ shut = {}
    /\ serve = [s \in Servers |-> "none"] /\ on = [s \in Servers |-> 0]
    /\ request = "none" /\ via = 0 /\ next = 1
    /\ passing = [k \in Checks |-> TRUE]

-----------------------------------------------------------------------------
(* Start and Stop *)

\* The address is in use while any listener is open.
PortTaken == \E s \in Servers : serve[s] \in {"spawned", "serving"}

\* A bug: only the first Start makes a server.
NewServerOnce == server' = IF server = 0 THEN 1 ELSE server

\* h.server is replaced before the address is known to be free.
NewServer == server' = server + 1

StartHealth ==
    /\ call = "down" /\ call' = "up" /\ started' = TRUE
    /\ server < MaxListens /\ NewServer
    /\ ~ PortTaken
    /\ serve' = [serve EXCEPT ![server + 1] = "spawned"]
    /\ UNCHANGED <<shut, on, readyz>>

\* net.Listen fails: the address is in use, here or in another process.
StartHealthFails ==
    /\ call = "down" /\ started' = FALSE
    /\ server < MaxListens /\ NewServer
    /\ UNCHANGED <<call, shut, listeners, readyz>>

\* On a server that was shut down Serve closes the listener and returns.
Serve(s) ==
    /\ serve[s] = "spawned"
    /\ serve' = [serve EXCEPT ![s] = IF server \in shut THEN "ended" ELSE "serving"]
    /\ on' = [on EXCEPT ![s] = IF server \in shut THEN 0 ELSE server]
    /\ UNCHANGED <<calls, readyz>>

\* A bug: Stop marks the server and leaves its listeners open.
ShutdownKeepsListeners ==
    /\ shut' = shut \cup {server}
    /\ UNCHANGED listeners

Shutdown ==
    /\ shut' = shut \cup {server}
    /\ LET closed == {s \in Servers : serve[s] = "serving" /\ on[s] = server} IN
       /\ serve' = [s \in Servers |-> IF s \in closed THEN "ended" ELSE serve[s]]
       /\ on' = [s \in Servers |-> IF s \in closed THEN 0 ELSE on[s]]

\* Stop, which returns at once if h.server is nil, up to the wait in Shutdown ...
StopHealth ==
    /\ server # 0 /\ call # "stopping" /\ call' = "stopping"
    /\ Shutdown
    /\ UNCHANGED <<started, server, readyz>>

\* A bug: Shutdown is given a context that does not end.
ShutdownReturnsIdle(timedOut) == via # server

\* ... whose requests have ended, or the five seconds of its context have.
ShutdownReturns(timedOut) == via # server \/ timedOut

StopReturns ==
    /\ call = "stopping" /\ call' = "down"
    /\ \E timedOut \in BOOLEAN : ShutdownReturns(timedOut)
    /\ UNCHANGED <<started, server, shut, listeners, readyz>>

-----------------------------------------------------------------------------
(* A request of /readyz *)

Accept(s) ==
    /\ serve[s] = "serving"
    /\ request = "none" /\ request' = "checking"
    /\ via' = on[s]
    /\ UNCHANGED <<calls, listeners, next, passing>>

\* A check's result changes; who is not asking does not notice.
Flip(k) ==
    /\ request \in {"checking", "hung"}
    /\ passing' = [passing EXCEPT ![k] = ~ @]
    /\ UNCHANGED <<calls, listeners, request, via, next>>

\* The first check that fails answers 503.
CheckEnds ==
    /\ request = "checking" /\ next <= NumChecks
    /\ \/ passing[next] /\ next' = next + 1 /\ UNCHANGED request
       \/ ~ passing[next] /\ request' = "503" /\ UNCHANGED next
    /\ UNCHANGED <<calls, listeners, via, passing>>

CheckHangs ==
    /\ request = "checking" /\ next <= NumChecks /\ request' = "hung"
    /\ UNCHANGED <<calls, listeners, via, next, passing>>

AllPassed ==
    /\ request = "checking" /\ next > NumChecks /\ request' = "200"
    /\ UNCHANGED <<calls, listeners, via, next, passing>>

Answered ==
    /\ request \in {"200", "503"} /\ request' = "none"
    /\ via' = 0 /\ next' = 1
    /\ UNCHANGED <<calls, listeners, passing>>

HealthNext ==
    \/ StartHealth \/ StartHealthFails \/ StopHealth \/ StopReturns
    \/ \E s \in Servers : Serve(s) \/ Accept(s)
    \/ \E k \in Checks : Flip(k)
    \/ CheckEnds \/ CheckHangs \/ AllPassed \/ Answered

\* The goroutines of Start run, and the timeout of Shutdown passes.
HealthFairness ==
    /\ WF_healthVars(StopReturns)
    /\ \A s \in Servers : WF_healthVars(Serve(s))

HealthSpec == HealthInit /\ [][HealthNext]_healthVars /\ HealthFairness

-----------------------------------------------------------------------------
(* Properties *)

(* Stop returns: a check that never does holds it up no longer than the        *)
(* timeout of Shutdown, so that StopAll gets to the other services.            *)
HealthStopReturns == call = "stopping" ~> call = "down"

(* A health check that was started answers, unless it is stopped before: the   *)
(* goroutine comes to serve the listener Start opened, also after earlier      *)
(* Starts and Stops.                                                           *)
StartedServes == call = "up" ~> (call # "up" \/ \E s \in Servers : serve[s] = "serving")

(* Once a health check that had started is stopped its address becomes free,   *)
(* also if Stop overtook the goroutine that was to serve.  (Not if a Start     *)
(* fails before that goroutine runs: it then serves the old listener on the    *)
(* server the failed Start has left in h.server.)                              *)
AddressFreed == (call = "stopping" /\ started) ~> (~ PortTaken \/ ~ started)
=============================================================================
