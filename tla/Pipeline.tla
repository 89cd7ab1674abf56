------------------------------ MODULE Pipeline ------------------------------
(***************************************************************************)
(* Pipeline.HandleStream for one inbound stream: the middleware chain, the *)
(* request deadline with its reset hook, and the deferred cleanup.         *)
(*                                                                         *)
(* A middleware calls next at most once, so the Go stack of run is the     *)
(* index of the middleware in control and the direction control moves in:  *)
(* down (run is about to call it), up (its next() has returned) or panic   *)
(* (a panic unwinds through it).  The routes of OperationRouter and the    *)
(* members of Chain test sc.Err before each call as run does, so they are  *)
(* written out in the chain.  Streams share nothing but counters: one is   *)
(* enough.                                                                 *)
(***************************************************************************)
EXTENDS Naturals, Sequences

CONSTANTS
    Chains,          \* the middleware chains an application may configure
    IdleTimeout,     \* p.idleTimeout; 0 disables the frame deadlines
    RequestTimeout,  \* p.requestTimeout; 0 disables the request deadline
    MaxFrames        \* bound: frames a FrameIterator yields

Kinds == {"recovery", "metrics", "writer", "decode", "limit", "router", "deserialize",
          "handler"}

\* The values of sc.Err; Recovery sets the ErrPanic of its own package, not forge's.
Errors == {"none", "read", "ErrRateLimited", "route", "unmarshal", "app", "produce",
           "write", "middleware.ErrPanic"}

\* A stream carries one request: sc.PoolBuf has room for one buffer.
ASSUME PipelineAssumption ==
    /\ Chains \subseteq Seq(Kinds)
    /\ \A c \in Chains : \A i, j \in DOMAIN c : c[i] = "decode" /\ c[j] = "decode" => i = j
    /\ IdleTimeout \in Nat
    /\ RequestTimeout \in Nat
    /\ MaxFrames \in Nat

VARIABLES
    at,        \* the statement of HandleStream: the chain or a deferred call
    chain,     \* p.middleware
    idx,       \* the middleware in control, 0 for HandleStream itself
    dir,       \* "down", "up" or "panic"
    err,       \* sc.Err
    response,  \* sc.Response: none, one value, or a FrameIterator
    left,      \* frames the iterator has yet to yield
    buf,       \* sc.PoolBuf
    metrics,   \* calls of the MetricsCollector: started, completed and its error
    ctx,       \* sc.Ctx
    hook,      \* the function registered with context.AfterFunc
    closed,    \* s.Close() was called
    reset      \* s.Reset() was called

control == <<at, chain, idx, dir>>
reply == <<response, left>>
timing == <<ctx, hook, closed, reset>>
vars == <<control, err, reply, buf, metrics, timing>>

TypeOK ==
    /\ at \in {"enter", "run", "release", "stop", "close", "cancel", "leave", "done",
               "crashed"}
    /\ chain \in Chains
    /\ idx \in 0 .. Len(chain) + 1
    /\ dir \in {"down", "up", "panic"}
    /\ err \in Errors
    /\ response \in {"none", "single", "iterator"}
    /\ left \in 0 .. MaxFrames
    /\ buf \in {"none", "held", "released"}
    /\ metrics \in [started : BOOLEAN, completed : BOOLEAN, err : Errors]
    /\ ctx \in {"none", "live", "expired", "cancelled"}
    /\ hook \in {"none", "armed", "firing", "fired", "stopped"}
    /\ closed \in BOOLEAN /\ reset \in BOOLEAN

Init ==
    /\ at = "enter" /\ chain \in Chains /\ idx = 0 /\ dir = "down"
    /\ err = "none" /\ response = "none" /\ left = 0
    /\ buf = "none"
    /\ metrics = [started |-> FALSE, completed |-> FALSE, err |-> "none"]
    /\ ctx = "none" /\ hook = "none" /\ closed = FALSE /\ reset = FALSE

----------------------------------------------------------------------------
(* Moves of control *)

CallNext == idx' = idx + 1 /\ dir' = "down" /\ UNCHANGED <<at, chain>>
Return == idx' = idx - 1 /\ dir' = "up" /\ UNCHANGED <<at, chain>>
Raise == idx' = idx - 1 /\ dir' = "panic" /\ UNCHANGED <<at, chain>>

\* A bug: run does not look at sc.Err before it calls the next middleware.
StopsDescentAtEndOnly == idx > Len(chain)

\* run returns at once: sc.Err is set or the chain is exhausted.
StopsDescent == err # "none" \/ idx > Len(chain)

\* Middleware k of kind is entered, or has seen its next() return.
Entering(kind) == at = "run" /\ dir = "down" /\ ~ StopsDescent /\ chain[idx] = kind
Leaving(kind) == at = "run" /\ dir = "up" /\ idx > 0 /\ chain[idx] = kind

\* A bug: the reset hook is not registered.
HandleStreamNoHook ==
    /\ at = "enter" /\ at' = "run"
    /\ idx' = 1
    /\ ctx' = "live"
    /\ UNCHANGED <<chain, dir, err, reply, buf, metrics, hook, closed, reset>>

\* Add(1), the request context and its AfterFunc, then run(sc, 0).
HandleStream ==
    /\ at = "enter" /\ at' = "run"
    /\ idx' = 1
    /\ ctx' = "live" /\ hook' = "armed"
    /\ UNCHANGED <<chain, dir, err, reply, buf, metrics, closed, reset>>

RunReturns ==
    /\ at = "run" /\ dir = "down" /\ StopsDescent
    /\ Return
    /\ UNCHANGED <<err, reply, buf, metrics, timing>>

----------------------------------------------------------------------------
(* The middlewares, before next() *)

StreamStarted ==
    /\ Entering("metrics")
    /\ metrics' = [metrics EXCEPT !.started = TRUE]
    /\ CallNext
    /\ UNCHANGED <<err, reply, buf, timing>>

\* FrameDecodeMiddleware got a whole frame into a pooled buffer.
FrameRead ==
    /\ Entering("decode") /\ ~ reset
    /\ buf' = "held"
    /\ CallNext
    /\ UNCHANGED <<err, reply, metrics, timing>>

(* It did not: the frame is malformed, the peer hung up, the idle deadline    *)
(* passed or the stream was reset under it.                                   *)
FrameReadFails ==
    /\ Entering("decode")
    /\ err' = "read"
    /\ Return
    /\ UNCHANGED <<reply, buf, metrics, timing>>

\* The error with which each of these middlewares short-circuits the chain.
Refusal == [limit |-> "ErrRateLimited", router |-> "route", deserialize |-> "unmarshal"]

Refuse(kind) ==
    /\ Entering(kind)
    /\ err' = Refusal[kind]
    /\ Return
    /\ UNCHANGED <<reply, buf, metrics, timing>>

\* They accept; Recovery and the response writer do nothing on the way down.
Accept(kind) ==
    /\ Entering(kind)
    /\ CallNext
    /\ UNCHANGED <<err, reply, buf, metrics, timing>>

(* The application's handler: it may set a response and an error, and then     *)
(* calls next or returns.                                                      *)
SetResponse ==
    \/ response' \in {"none", "single"} /\ left' = 0
    \/ response' = "iterator" /\ left' \in 0 .. MaxFrames

HandlerReturns ==
    /\ Entering("handler")
    /\ SetResponse
    /\ err' \in {"none", "app"}
    /\ Return \/ CallNext
    /\ UNCHANGED <<buf, metrics, timing>>

\* Application code panics: the handler, before or after next(), or the cost function
\* of a limiter.
HandlerPanics ==
    /\ Entering("handler") \/ Leaving("handler")
    /\ SetResponse
    /\ Raise
    /\ UNCHANGED <<err, buf, metrics, timing>>

CostPanics ==
    /\ Entering("limit")
    /\ Raise
    /\ UNCHANGED <<err, reply, buf, metrics, timing>>

----------------------------------------------------------------------------
(* The middlewares, after next() *)

\* The code of the framework has nothing left to do in this middleware.
Ascend ==
    /\ at = "run" /\ dir = "up" /\ idx > 0
    /\ chain[idx] \notin {"metrics", "writer", "handler"}
    /\ Return
    /\ UNCHANGED <<err, reply, buf, metrics, timing>>

\* The application's handler may change the response and the error once more.
HandlerResumes ==
    /\ Leaving("handler")
    /\ SetResponse
    /\ err' \in {err, "none", "app"}
    /\ Return
    /\ UNCHANGED <<buf, metrics, timing>>

\* A bug: a stream that ends with an error is not completed.
StreamCompletedOnSuccess ==
    /\ Leaving("metrics")
    /\ metrics' = [metrics EXCEPT !.completed = (err = "none"), !.err = err]
    /\ Return
    /\ UNCHANGED <<err, reply, buf, timing>>

StreamCompleted ==
    /\ Leaving("metrics")
    /\ metrics' = [metrics EXCEPT !.completed = TRUE, !.err = err]
    /\ Return
    /\ UNCHANGED <<err, reply, buf, timing>>

\* ResponseWriterMiddleware has no response, or its iterator said io.EOF.
WriterDone ==
    /\ Leaving("writer")
    /\ response = "none" \/ (response = "iterator" /\ left = 0)
    /\ Return
    /\ UNCHANGED <<err, reply, buf, metrics, timing>>

NextFrame == left' = left - 1

\* The one frame of a single response, or the next one of an iterator.
WriteFrame ==
    /\ Leaving("writer") /\ ~ reset
    /\ \/ response = "single" /\ Return /\ UNCHANGED left
       \/ response = "iterator" /\ left > 0 /\ NextFrame /\ UNCHANGED control
    /\ UNCHANGED <<err, response, buf, metrics, timing>>

\* A bug: a failed iterator or frame write is only logged, as on the single path.
WriteErrDropped(e) == err' = err

\* The iterator path sets sc.Err; the single-frame path only logs.
WriteErr(e) == err' = IF response = "iterator" THEN e ELSE err

\* The frame could not be produced, or could not be written.
WriteFrameFails ==
    /\ Leaving("writer")
    /\ response = "single" \/ (response = "iterator" /\ left > 0)
    /\ \E e \in {"produce", "write"} : WriteErr(e)
    /\ Return
    /\ UNCHANGED <<reply, buf, metrics, timing>>

IteratorPanics ==
    /\ Leaving("writer") /\ response = "iterator"
    /\ Raise
    /\ UNCHANGED <<err, reply, buf, metrics, timing>>

\* recover() in Recovery's deferred function.
Recover ==
    /\ at = "run" /\ dir = "panic" /\ idx > 0 /\ chain[idx] = "recovery"
    /\ err' = "middleware.ErrPanic"
    /\ Return
    /\ UNCHANGED <<reply, buf, metrics, timing>>

\* No other middleware defers anything: the panic passes through it.
Unwind ==
    /\ at = "run" /\ dir = "panic" /\ idx > 0 /\ chain[idx] # "recovery"
    /\ Raise
    /\ UNCHANGED <<err, reply, buf, metrics, timing>>

----------------------------------------------------------------------------
(* The deferred calls of HandleStream, which run on a panic too *)

Deferred(here, after) == at = here /\ at' = after /\ UNCHANGED <<chain, idx, dir>>

RunDone ==
    /\ dir # "down" /\ idx = 0
    /\ Deferred("run", "release")
    /\ UNCHANGED <<err, reply, buf, metrics, timing>>

\* A bug: the buffer is released only when the chain ended without an error.
ReleaseOnSuccess ==
    /\ Deferred("release", "stop")
    /\ buf' = IF buf = "held" /\ err = "none" THEN "released" ELSE buf
    /\ UNCHANGED <<err, reply, metrics, timing>>

Release ==
    /\ Deferred("release", "stop")
    /\ buf' = IF buf = "held" THEN "released" ELSE buf
    /\ UNCHANGED <<err, reply, metrics, timing>>

\* A bug: the hook is left registered, so cancel() below starts it.
StopHookForgotten ==
    /\ Deferred("stop", "close")
    /\ UNCHANGED <<err, reply, buf, metrics, timing>>

\* stop() unregisters a hook that has not started; it does not wait for one that has.
StopHook ==
    /\ Deferred("stop", "close")
    /\ hook' = IF hook = "armed" THEN "stopped" ELSE hook
    /\ UNCHANGED <<err, reply, buf, metrics, ctx, closed, reset>>

CloseStream ==
    /\ Deferred("close", "cancel")
    /\ closed' = TRUE
    /\ UNCHANGED <<err, reply, buf, metrics, ctx, hook, reset>>

\* Ending the context starts a hook that is still registered on it.
EndContext(how) ==
    /\ ctx' = IF ctx = "live" THEN how ELSE ctx
    /\ hook' = IF hook = "armed" THEN "firing" ELSE hook

Cancel ==
    /\ Deferred("cancel", "leave")
    /\ EndContext("cancelled")
    /\ UNCHANGED <<err, reply, buf, metrics, closed, reset>>

\* activeStreams.Done(); a panic nobody recovered goes on and ends the process.
Leave ==
    /\ Deferred("leave", IF dir = "panic" THEN "crashed" ELSE "done")
    /\ UNCHANGED <<err, reply, buf, metrics, timing>>

----------------------------------------------------------------------------
(* The timer and the goroutine of the hook *)

Deadline ==
    /\ RequestTimeout > 0
    /\ ctx = "live"
    /\ EndContext("expired")
    /\ UNCHANGED <<control, err, reply, buf, metrics, closed, reset>>

HookRuns ==
    /\ hook = "firing" /\ hook' = "fired"
    /\ reset' = TRUE
    /\ UNCHANGED <<control, err, reply, buf, metrics, ctx, closed>>

----------------------------------------------------------------------------

\* Steps that wait for nobody.
OwnStep ==
    \/ HandleStream \/ RunReturns \/ StreamStarted \/ CostPanics
    \/ \E kind \in DOMAIN Refusal : Refuse(kind)
    \/ \E kind \in DOMAIN Refusal \cup {"recovery", "writer"} : Accept(kind)
    \/ Ascend \/ StreamCompleted \/ WriterDone \/ Recover \/ Unwind
    \/ RunDone \/ Release \/ StopHook \/ CloseStream \/ Cancel \/ Leave

\* Steps that end a wait for the peer, and the steps of the application's handler.
FrameIO == FrameRead \/ FrameReadFails \/ WriteFrame \/ WriteFrameFails
Handler == HandlerReturns \/ HandlerResumes \/ HandlerPanics

Next == OwnStep \/ FrameIO \/ Handler \/ IteratorPanics \/ Deadline \/ HookRuns

(* Fairness: the goroutines run and timers fire.  A read or write blocked on   *)
(* the peer is bound to return only when a deadline is armed for it or the     *)
(* stream was reset; a handler is bound to return only once sc.Ctx is done     *)
(* (it waits on sc.Ctx or on the stream).  The peer owes nothing.              *)
Fairness ==
    /\ WF_vars(OwnStep)
    /\ WF_vars(Deadline)
    /\ WF_vars(HookRuns)
    /\ WF_vars((IdleTimeout > 0 \/ reset) /\ FrameIO)
    /\ WF_vars(ctx = "expired" /\ Handler)

Spec == Init /\ [][Next]_vars /\ Fairness

----------------------------------------------------------------------------
(* Properties *)

Ended == at \in {"done", "crashed"}

(* The stream is reset only because its request deadline passed: finishing a   *)
(* request, whose cancel() also ends the context, never resets the stream.     *)
OnlyDeadlineResets == reset => ctx = "expired"

(* A stream that has left the WaitGroup holds nothing, on every path, panics   *)
(* included: its buffer is back, the stream is closed, the context is done and *)
(* no hook is left to start.                                                   *)
LeftMeansClean ==
    Ended => /\ buf # "held" /\ closed
             /\ ctx # "live" /\ hook # "armed"

(* An error is never lost on its way out: once sc.Err is set no later          *)
(* middleware runs that could clear or replace it, even if the one that set it *)
(* goes on to call next().  Only the application's own code after next(), a    *)
(* failing write of a response and Recovery change it, the last two to another *)
(* error.                                                                      *)
ErrSticks ==
    [][(err # "none" /\ err' # err) =>
         \/ Leaving("handler")
         \/ Leaving("writer") /\ err' \in {"produce", "write"}
         \/ dir = "panic" /\ err' = "middleware.ErrPanic"]_vars

(* A multi-frame response that ends early is reported: the metrics recorded    *)
(* for a stream that wrote only part of its iterator carry an error.           *)
PartialResponseRecorded ==
    (metrics.completed /\ response = "iterator" /\ left > 0) => metrics.err # "none"

(* DefaultRequestTimeout "bounds the whole life of an inbound stream": with a  *)
(* request timeout every stream ends, whatever the peer does.                  *)
StreamEnds == (at = "run") ~> Ended

(* "StreamCompleted is called when a stream finishes processing": a stream     *)
(* that was started and is not completed has met a panic, which passes the     *)
(* metrics by if Recovery is outside them; no refusal, error or reset does.    *)
OnlyPanicsUncounted ==
    (Ended /\ metrics.started /\ ~ metrics.completed) =>
        (at = "crashed" \/ err = "middleware.ErrPanic")
=============================================================================
