--------------------------- MODULE PipelineProofs ---------------------------
(***************************************************************************)
(* HandleStream for any chains and any timeouts: the stream is cleaned up  *)
(* on every path and reset only by its deadline, and an error sticks.  For *)
(* chains in the order the guide recommends the metrics tell the truth,    *)
(* and with a Recovery far enough out no panic ends the process.           *)
(***************************************************************************)
EXTENDS Pipeline, TLAPS

\* The steps in which a middleware has control.
InChain ==
    \/ RunReturns \/ StreamStarted \/ CostPanics
    \/ \E kind \in DOMAIN Refusal : Refuse(kind)
    \/ \E kind \in DOMAIN Refusal \cup {"recovery", "writer"} : Accept(kind)
    \/ Ascend \/ StreamCompleted \/ WriterDone \/ Recover \/ Unwind
    \/ FrameIO \/ Handler \/ IteratorPanics

(* The steps of a stream: those of its chain, of HandleStream around it and of *)
(* the timer.                                                                  *)
LEMMA NextCases ==
    ASSUME [Next]_vars
    PROVE  \/ HandleStream \/ InChain \/ RunDone \/ Release \/ StopHook \/ CloseStream
           \/ Cancel \/ Leave \/ Deadline \/ HookRuns \/ UNCHANGED vars
BY DEF Next, OwnStep, InChain

----------------------------------------------------------------------------
(* Cleanup *)

\* What HandleStream has set up and undone at each of its statements.
Cleanup ==
    /\ at = "enter" => hook = "none" /\ ctx = "none" /\ buf = "none"
    /\ at \notin {"enter", "run", "release"} => buf # "held"
    /\ at \notin {"enter", "run", "release", "stop"} => hook # "armed"
    /\ at \notin {"enter", "run", "release", "stop", "close"} => closed
    /\ at \in {"leave", "done", "crashed"} => ctx # "live"

\* The hook starts only on a deadline, because it is gone when cancel() is called.
HookOnDeadline ==
    /\ hook = "armed" => ctx = "live"
    /\ hook \in {"firing", "fired"} => ctx = "expired"
    /\ reset => hook = "fired"

CleanInv == Cleanup /\ HookOnDeadline

(* No middleware touches the context, the hook or the stream's end, and        *)
(* whatever happens in the chain the deferred calls are still to come.         *)
LEMMA ChainTiming ==
    ASSUME InChain
    PROVE  at = "run" /\ at' = "run" /\ UNCHANGED <<chain, ctx, hook, closed, reset>>
<1> USE DEF Entering, Leaving, CallNext, Return, Raise, timing, control
<1>1. CASE \E kind \in DOMAIN Refusal : Refuse(kind)
  BY <1>1 DEF Refuse
<1>2. CASE \E kind \in DOMAIN Refusal \cup {"recovery", "writer"} : Accept(kind)
  BY <1>2 DEF Accept
<1>3. CASE RunReturns \/ StreamStarted \/ CostPanics \/ Ascend \/ StreamCompleted \/ WriterDone
           \/ Recover \/ Unwind
  BY <1>3
  DEF RunReturns, StreamStarted, CostPanics, Ascend, StreamCompleted, WriterDone, Recover, Unwind
<1>4. CASE FrameIO \/ Handler \/ IteratorPanics
  BY <1>4 DEF FrameIO, Handler, FrameRead, FrameReadFails, WriteFrame, WriteFrameFails,
     HandlerReturns, HandlerResumes, HandlerPanics, IteratorPanics
<1> QED BY <1>1, <1>2, <1>3, <1>4 DEF InChain

(* A stream has nothing to clean up before it is handled.                      *)
LEMMA InitClean == Init => CleanInv
BY DEF Init, CleanInv, Cleanup, HookOnDeadline

(* Every step keeps what is still to be cleaned up in step with the statement  *)
(* of HandleStream.                                                            *)
LEMMA NextClean == CleanInv /\ [Next]_vars => CleanInv'
<1> SUFFICES ASSUME CleanInv, [Next]_vars PROVE CleanInv'
  OBVIOUS
<1> USE DEF CleanInv, Cleanup, HookOnDeadline, Deferred, EndContext, timing, control
<1>1. CASE HandleStream
  BY <1>1 DEF HandleStream
<1>2. CASE InChain
  BY <1>2, ChainTiming
<1>3. CASE RunDone
  BY <1>3 DEF RunDone
<1>4. CASE Release
  BY <1>4 DEF Release
<1>5. CASE StopHook
  BY <1>5 DEF StopHook
<1>6. CASE CloseStream
  BY <1>6 DEF CloseStream
<1>7. CASE Cancel
  BY <1>7 DEF Cancel
<1>8. CASE Leave
  BY <1>8 DEF Leave
<1>9. CASE Deadline
  BY <1>9 DEF Deadline
<1>10. CASE HookRuns
  BY <1>10 DEF HookRuns
<1>11. CASE UNCHANGED vars
  BY <1>11 DEF vars
<1> QED BY NextCases, <1>1, <1>2, <1>3, <1>4, <1>5, <1>6, <1>7, <1>8, <1>9, <1>10, <1>11

(* So it holds in every state.                                                 *)
LEMMA CleanInductive == Spec => []CleanInv
BY InitClean, NextClean, PTL DEF Spec

(* A stream that has left the WaitGroup holds nothing: on every path through   *)
(* any chain, panics included, HandleStream's deferred calls have run.         *)
THEOREM StreamsLeftClean == Spec => []LeftMeansClean
<1>1. CleanInv => LeftMeansClean
  BY DEF CleanInv, Cleanup, LeftMeansClean, Ended
<1> QED BY <1>1, CleanInductive, PTL

(* Nothing but the request deadline resets a stream: stop() comes before       *)
(* cancel().                                                                   *)
THEOREM OnlyDeadlinesReset == Spec => []OnlyDeadlineResets
<1>1. CleanInv => OnlyDeadlineResets
  BY DEF CleanInv, HookOnDeadline, OnlyDeadlineResets
<1> QED BY <1>1, CleanInductive, PTL

(* An error is never lost: no middleware is entered once sc.Err is set, and    *)
(* then only application code after next(), the writer and Recovery change it. *)
THEOREM ErrorsStick == Spec => ErrSticks
<1> DEFINE Replaced == \/ Leaving("handler")
                       \/ Leaving("writer") /\ err' \in {"produce", "write"}
                       \/ dir = "panic" /\ err' = "middleware.ErrPanic"
<1>1. ASSUME [Next]_vars, err # "none" PROVE err' = err \/ Replaced
  <2>1. CASE InChain
    <3> USE <1>1 DEF Entering, StopsDescent
    <3>1. CASE \E kind \in DOMAIN Refusal : Refuse(kind)
      BY <3>1 DEF Refuse
    <3>2. CASE \E kind \in DOMAIN Refusal \cup {"recovery", "writer"} : Accept(kind)
      BY <3>2 DEF Accept
    <3>3. CASE FrameIO \/ Handler
      BY <3>3 DEF FrameIO, Handler, FrameRead, FrameReadFails, WriteFrame, WriteFrameFails,
         WriteErr, HandlerReturns, HandlerResumes, HandlerPanics
    <3>4. CASE RunReturns \/ StreamStarted \/ CostPanics \/ Ascend \/ StreamCompleted
               \/ WriterDone \/ Recover \/ Unwind \/ IteratorPanics
      BY <3>4 DEF RunReturns, StreamStarted, CostPanics, Ascend, StreamCompleted, WriterDone,
         Recover, Unwind, IteratorPanics
    <3> QED BY <2>1, <3>1, <3>2, <3>3, <3>4 DEF InChain
  <2>2. CASE HandleStream \/ RunDone \/ Release \/ StopHook \/ CloseStream \/ Cancel \/ Leave
             \/ Deadline \/ HookRuns \/ UNCHANGED vars
    BY <1>1, <2>2 DEF HandleStream, RunDone, Release, StopHook, CloseStream, Cancel, Leave,
       Deadline, HookRuns, vars
  <2> QED BY <1>1, <2>1, <2>2, NextCases
<1>2. [Next]_vars => [(err # "none" /\ err' # err) => Replaced]_vars
  BY <1>1
<1> QED BY <1>2, PTL DEF Spec, ErrSticks

----------------------------------------------------------------------------
(* Where control is *)

\* The chain is entered at its first middleware and left at HandleStream itself.
Place ==
    /\ at = "enter" => idx = 0 /\ dir = "down"
    /\ (at = "run" /\ dir = "down") => idx > 0
    /\ dir # "down" => idx <= Len(chain)
    /\ at \notin {"enter", "run"} => idx = 0 /\ dir # "down"
    /\ at = "done" => dir # "panic"

PlaceInv == TypeOK /\ Place

(* A stream is not in its chain yet.                                           *)
LEMMA InitPlace == Init => PlaceInv
<1> SUFFICES ASSUME Init PROVE PlaceInv
  OBVIOUS
<1>1. chain \in Seq(Kinds) /\ Len(chain) \in Nat
  BY PipelineAssumption DEF Init
<1>2. metrics \in [started : BOOLEAN, completed : BOOLEAN, err : Errors]
  BY DEF Init, Errors
<1>3. closed \in BOOLEAN /\ reset \in BOOLEAN
  BY Zenon DEF Init
<1> QED BY <1>1, <1>2, <1>3, PipelineAssumption DEF Init, PlaceInv, TypeOK, Place, Errors

(* Each middleware moves control by one, and each deferred call by one.        *)
LEMMA NextPlace == PlaceInv /\ [Next]_vars => PlaceInv'
<1> SUFFICES ASSUME PlaceInv, [Next]_vars PROVE PlaceInv'
  OBVIOUS
<1>0. chain \in Seq(Kinds) /\ Len(chain) \in Nat /\ MaxFrames \in Nat
  BY PipelineAssumption DEF PlaceInv, TypeOK
<1> USE <1>0 DEF PlaceInv, TypeOK, Place, Entering, Leaving, StopsDescent, CallNext, Return, Raise,
    Deferred, EndContext, reply, timing, control, Errors
<1>1. CASE RunReturns
  BY <1>1 DEF RunReturns
<1>2. CASE StreamStarted
  <2>1. metrics' \in [started : BOOLEAN, completed : BOOLEAN, err : Errors]
    BY <1>2, Zenon DEF StreamStarted
  <2> QED BY <1>2, <2>1 DEF StreamStarted
<1>3. CASE FrameRead
  BY <1>3 DEF FrameRead
<1>4. CASE FrameReadFails
  BY <1>4 DEF FrameReadFails
<1>5. CASE HandlerReturns \/ HandlerResumes
  BY <1>5 DEF HandlerReturns, HandlerResumes, SetResponse
<1>6. CASE HandlerPanics
  BY <1>6 DEF HandlerPanics, SetResponse
<1>7. CASE CostPanics
  BY <1>7 DEF CostPanics
<1>8. CASE Ascend
  BY <1>8 DEF Ascend
<1>9. CASE StreamCompleted
  <2>1. metrics' \in [started : BOOLEAN, completed : BOOLEAN, err : Errors]
    BY <1>9, Zenon DEF StreamCompleted
  <2> QED BY <1>9, <2>1 DEF StreamCompleted
<1>10. CASE WriterDone
  BY <1>10 DEF WriterDone
<1>11. CASE WriteFrame
  BY <1>11 DEF WriteFrame, NextFrame
<1>12. CASE WriteFrameFails
  BY <1>12 DEF WriteFrameFails, WriteErr
<1>13. CASE IteratorPanics
  BY <1>13 DEF IteratorPanics
<1>14. CASE Recover
  BY <1>14 DEF Recover
<1>15. CASE Unwind
  BY <1>15 DEF Unwind
<1>16. CASE \E kind \in DOMAIN Refusal : Refuse(kind)
  BY <1>16 DEF Refuse, Refusal
<1>17. CASE \E kind \in DOMAIN Refusal \cup {"recovery", "writer"} : Accept(kind)
  BY <1>17 DEF Accept
<1>18. CASE HandleStream
  BY <1>18 DEF HandleStream
<1>19. CASE RunDone
  BY <1>19 DEF RunDone
<1>20. CASE Release
  BY <1>20 DEF Release
<1>21. CASE StopHook
  BY <1>21 DEF StopHook
<1>22. CASE CloseStream
  BY <1>22 DEF CloseStream
<1>23. CASE Cancel
  BY <1>23 DEF Cancel
<1>24. CASE Leave
  BY <1>24 DEF Leave
<1>25. CASE Deadline
  BY <1>25 DEF Deadline
<1>26. CASE HookRuns
  BY <1>26 DEF HookRuns
<1>27. CASE UNCHANGED vars
  BY <1>27 DEF vars
<1> QED
  BY NextCases, <1>1, <1>2, <1>3, <1>4, <1>5, <1>6, <1>7, <1>8, <1>9, <1>10, <1>11, <1>12, <1>13,
     <1>14, <1>15, <1>16, <1>17, <1>18, <1>19, <1>20, <1>21, <1>22, <1>23, <1>24, <1>25, <1>26,
     <1>27, Zenon
  DEF InChain, FrameIO, Handler

(* Control is at one middleware or at HandleStream, whatever the chain, and    *)
(* what the stream carries stays in its range.                                 *)
THEOREM PipelineTypeOK == Spec => []TypeOK
<1>1. PlaceInv => TypeOK
  BY DEF PlaceInv
<1> QED BY <1>1, InitPlace, NextPlace, PTL DEF Spec

----------------------------------------------------------------------------
(* Panics *)

\* Some Recovery is outside all the middlewares whose calls of the application's
\* code may panic: the handler, the cost function and the frame iterator.
Recovers(c) ==
    \E m \in DOMAIN c :
        /\ c[m] = "recovery"
        /\ \A k \in DOMAIN c : c[k] \in {"handler", "limit", "writer"} => m < k

RecoveringChains == \A c \in Chains : Recovers(c)

\* A panic has a Recovery before it on its way out.
Contained ==
    dir = "panic" => \E m \in DOMAIN chain : chain[m] = "recovery" /\ m <= idx

NeverCrashes == at # "crashed"

(* A panic starts inside a Recovery and does not get past it.                  *)
LEMMA NextContained ==
    RecoveringChains /\ PlaceInv /\ Contained /\ [Next]_vars => Contained'
<1> SUFFICES ASSUME RecoveringChains, PlaceInv, Contained, [Next]_vars PROVE Contained'
  OBVIOUS
<1>0. /\ chain \in Seq(Kinds) /\ Len(chain) \in Nat /\ DOMAIN chain = 1 .. Len(chain)
      /\ idx \in Nat /\ idx <= Len(chain) + 1 /\ Recovers(chain)
  BY PipelineAssumption DEF RecoveringChains, PlaceInv, TypeOK
<1>1. ASSUME idx \in DOMAIN chain, chain[idx] \in {"handler", "limit", "writer"}, Raise
      PROVE  Contained'
  <2>1. PICK m \in DOMAIN chain : chain[m] = "recovery" /\ m < idx
    BY <1>0, <1>1 DEF Recovers
  <2>2. m <= idx'
    BY <1>0, <1>1, <2>1 DEF Raise
  <2> QED BY <1>1, <2>1, <2>2 DEF Contained, Raise
<1>2. CASE HandlerPanics \/ CostPanics
  <2>1. idx \in DOMAIN chain
    BY <1>0, <1>2 DEF HandlerPanics, CostPanics, Entering, Leaving, StopsDescent, PlaceInv, Place
  <2> QED BY <1>1, <1>2, <2>1 DEF HandlerPanics, CostPanics, Entering, Leaving
<1>3. CASE IteratorPanics
  <2>1. idx \in DOMAIN chain
    BY <1>0, <1>3 DEF IteratorPanics, Leaving, PlaceInv, Place
  <2> QED BY <1>1, <1>3, <2>1 DEF IteratorPanics, Leaving
<1>4. CASE Unwind
  <2>1. PICK m \in DOMAIN chain : chain[m] = "recovery" /\ m <= idx
    BY <1>4 DEF Unwind, Contained
  <2>2. m <= idx'
    BY <1>0, <1>4, <2>1 DEF Unwind, Raise
  <2> QED BY <1>4, <2>1, <2>2 DEF Unwind, Raise, Contained
<1>5. CASE dir' # "panic"
  BY <1>5 DEF Contained
<1>6. CASE UNCHANGED <<chain, idx, dir>>
  BY <1>6 DEF Contained
<1>7. CASE HandleStream
  BY <1>7 DEF HandleStream, PlaceInv, Place, Contained
<1>8. CASE InChain
  <2>1. CASE \E kind \in DOMAIN Refusal : Refuse(kind)
    BY <1>5, <2>1 DEF Refuse, Return
  <2>2. CASE \E kind \in DOMAIN Refusal \cup {"recovery", "writer"} : Accept(kind)
    BY <1>5, <2>2 DEF Accept, CallNext
  <2>3. CASE RunReturns \/ StreamStarted \/ Ascend \/ StreamCompleted \/ WriterDone \/ Recover
    BY <1>5, <2>3 DEF RunReturns, StreamStarted, Ascend, StreamCompleted, WriterDone, Recover,
       CallNext, Return
  <2>4. CASE FrameRead \/ FrameReadFails \/ WriteFrameFails \/ HandlerReturns \/ HandlerResumes
    BY <1>5, <2>4 DEF FrameRead, FrameReadFails, WriteFrameFails, HandlerReturns, HandlerResumes,
       CallNext, Return
  <2>5. CASE WriteFrame
    BY <1>5, <1>6, <2>5 DEF WriteFrame, Return, control
  <2> QED BY <1>2, <1>3, <1>4, <1>8, <2>1, <2>2, <2>3, <2>4, <2>5 DEF InChain, FrameIO, Handler
<1>9. CASE RunDone \/ Release \/ StopHook \/ CloseStream \/ Cancel \/ Leave \/ Deadline
           \/ HookRuns \/ UNCHANGED vars
  BY <1>6, <1>9 DEF RunDone, Release, StopHook, CloseStream, Cancel, Leave, Deferred, Deadline,
     HookRuns, vars, control
<1> QED BY NextCases, <1>7, <1>8, <1>9

(* Recovery "catches panics from downstream handlers and logs them without     *)
(* crashing the server": with one outside every handler, limiter and response  *)
(* writer, a panic in a handler, a cost function or a frame iterator never     *)
(* ends the process.                                                           *)
THEOREM RecoveryContainsPanics == RecoveringChains => (Spec => []NeverCrashes)
<1> SUFFICES ASSUME RecoveringChains PROVE Spec => []NeverCrashes
  OBVIOUS
<1>1. Init => PlaceInv /\ Contained /\ NeverCrashes
  <2>1. Init => Contained /\ NeverCrashes
    BY DEF Init, Contained, NeverCrashes
  <2> QED BY <2>1, InitPlace
<1>2. PlaceInv /\ Contained /\ [Next]_vars => PlaceInv' /\ Contained'
  BY NextPlace, NextContained
<1>3. PlaceInv /\ Contained /\ NeverCrashes /\ [Next]_vars => NeverCrashes'
  <2> SUFFICES ASSUME PlaceInv, Contained, NeverCrashes, [Next]_vars PROVE NeverCrashes'
    OBVIOUS
  <2>1. CASE Leave
    <3>1. idx = 0 /\ DOMAIN chain = 1 .. Len(chain)
      BY <2>1, PipelineAssumption DEF Leave, Deferred, PlaceInv, Place, TypeOK
    <3>2. dir # "panic"
      BY <3>1 DEF Contained
    <3> QED BY <2>1, <3>2 DEF Leave, Deferred, NeverCrashes
  <2>2. CASE InChain
    BY <2>2, ChainTiming DEF NeverCrashes
  <2>3. CASE HandleStream \/ RunDone \/ Release \/ StopHook \/ CloseStream \/ Cancel
             \/ Deadline \/ HookRuns \/ UNCHANGED vars
    BY <2>3 DEF HandleStream, RunDone, Release, StopHook, CloseStream, Cancel, Deferred, Deadline,
       HookRuns, vars, control, NeverCrashes
  <2> QED BY NextCases, <2>1, <2>2, <2>3
<1> QED BY <1>1, <1>2, <1>3, PTL DEF Spec

----------------------------------------------------------------------------
(* The metrics *)

\* The metrics are outside every writer, and some writer is outside every handler:
\* the order of the guide, which Use does not enforce.
Ordered(c) ==
    \A m \in DOMAIN c : c[m] = "metrics" =>
        /\ \A w \in DOMAIN c : c[w] = "writer" => m < w
        /\ \E w \in DOMAIN c : c[w] = "writer" /\ \A h \in DOMAIN c : c[h] = "handler" => w < h

OrderedChains == \A c \in Chains : Ordered(c)

\* A writer through which every response passes.
WritesAll(w) ==
    /\ w \in DOMAIN chain /\ chain[w] = "writer"
    /\ \A h \in DOMAIN chain : chain[h] = "handler" => w < h

\* No frame of the response is missing, or sc.Err says so.
Answered == err # "none" \/ response # "iterator" \/ left = 0

Reported ==
    /\ dir = "down" => ~ metrics.completed
    /\ metrics.completed => \E m \in DOMAIN chain : chain[m] = "metrics" /\ idx < m
    /\ dir = "up" => \A w \in DOMAIN chain : (WritesAll(w) /\ idx < w) => Answered
    /\ PartialResponseRecorded

\* The metrics that were started are still to be left, or a panic has passed them.
Uncompleted ==
    /\ metrics.started => \E m \in DOMAIN chain : chain[m] = "metrics"
    /\ (metrics.started /\ ~ metrics.completed) =>
         \/ dir = "panic"
         \/ \E m \in DOMAIN chain :
              chain[m] = "metrics" /\ (m < idx \/ (m = idx /\ dir = "up"))
         \/ /\ err = "middleware.ErrPanic" /\ dir = "up"
            /\ \E m \in DOMAIN chain : chain[m] = "metrics" /\ idx < m

MetricsInv == PlaceInv /\ Reported /\ Uncompleted

(* A response passes the writer on its way to the metrics: written to its end, *)
(* or with the error set that the metrics then record.                         *)
LEMMA NextReported == OrderedChains /\ MetricsInv /\ [Next]_vars => Reported'
<1> SUFFICES ASSUME OrderedChains, MetricsInv, [Next]_vars PROVE Reported'
  OBVIOUS
<1>0. /\ chain \in Seq(Kinds) /\ Len(chain) \in Nat /\ DOMAIN chain = 1 .. Len(chain)
      /\ idx \in Nat /\ left \in Nat /\ dir \in {"down", "up", "panic"}
      /\ metrics \in [started : BOOLEAN, completed : BOOLEAN, err : Errors]
      /\ Ordered(chain) /\ Place /\ Reported
  BY PipelineAssumption DEF MetricsInv, PlaceInv, TypeOK, OrderedChains
<1> USE <1>0 DEF Place, Ordered, WritesAll, Answered, Reported, PartialResponseRecorded, Entering,
    Leaving, StopsDescent, CallNext, Return, Raise, Deferred, reply, control
<1>1. CASE RunReturns
  BY <1>1 DEF RunReturns
<1>2. CASE StreamStarted
  BY <1>2 DEF StreamStarted
<1>3. CASE FrameRead
  BY <1>3 DEF FrameRead
<1>4. CASE FrameReadFails
  BY <1>4 DEF FrameReadFails
<1>5. CASE HandlerReturns \/ HandlerResumes
  BY <1>5 DEF HandlerReturns, HandlerResumes, SetResponse
<1>6. CASE HandlerPanics
  BY <1>6 DEF HandlerPanics, SetResponse
<1>7. CASE CostPanics
  BY <1>7 DEF CostPanics
<1>8. CASE Ascend
  BY <1>8 DEF Ascend
<1>9. CASE StreamCompleted
  BY <1>9 DEF StreamCompleted
<1>10. CASE WriterDone
  BY <1>10 DEF WriterDone
<1>11. CASE WriteFrame
  BY <1>11 DEF WriteFrame, NextFrame
<1>12. CASE WriteFrameFails
  BY <1>12 DEF WriteFrameFails, WriteErr
<1>13. CASE IteratorPanics
  BY <1>13 DEF IteratorPanics
<1>14. CASE Recover
  BY <1>14 DEF Recover
<1>15. CASE Unwind
  BY <1>15 DEF Unwind
<1>16. CASE \E kind \in DOMAIN Refusal : Refuse(kind)
  BY <1>16 DEF Refuse, Refusal
<1>17. CASE \E kind \in DOMAIN Refusal \cup {"recovery", "writer"} : Accept(kind)
  BY <1>17 DEF Accept, Refusal
<1>18. CASE HandleStream
  BY <1>18 DEF HandleStream
<1>19. CASE RunDone
  BY <1>19 DEF RunDone
<1>20. CASE Release \/ StopHook \/ CloseStream \/ Cancel \/ Leave \/ Deadline \/ HookRuns
  BY <1>20 DEF Release, StopHook, CloseStream, Cancel, Leave, Deadline, HookRuns
<1>21. CASE UNCHANGED vars
  BY <1>21 DEF vars
<1> QED
  BY NextCases, <1>1, <1>2, <1>3, <1>4, <1>5, <1>6, <1>7, <1>8, <1>9, <1>10, <1>11, <1>12, <1>13,
     <1>14, <1>15, <1>16, <1>17, <1>18, <1>19, <1>20, <1>21, Zenon
  DEF InChain, FrameIO, Handler

(* Control comes back through the metrics unless a panic passes them, and the  *)
(* error that Recovery sets outside them is not replaced, for want of a writer *)
(* there.                                                                      *)
LEMMA NextUncompleted == OrderedChains /\ MetricsInv /\ [Next]_vars => Uncompleted'
<1> SUFFICES ASSUME OrderedChains, MetricsInv, [Next]_vars PROVE Uncompleted'
  OBVIOUS
<1>0. /\ chain \in Seq(Kinds) /\ Len(chain) \in Nat /\ DOMAIN chain = 1 .. Len(chain)
      /\ idx \in Nat /\ dir \in {"down", "up", "panic"}
      /\ metrics \in [started : BOOLEAN, completed : BOOLEAN, err : Errors]
      /\ Ordered(chain) /\ Place /\ Uncompleted
  BY PipelineAssumption DEF MetricsInv, PlaceInv, TypeOK, OrderedChains
<1> USE <1>0 DEF Place, Ordered, Uncompleted, Entering, Leaving, StopsDescent, CallNext, Return,
    Raise, Deferred, reply, control
<1>1. CASE RunReturns
  BY <1>1 DEF RunReturns
<1>2. CASE StreamStarted
  BY <1>2 DEF StreamStarted
<1>3. CASE FrameRead
  BY <1>3 DEF FrameRead
<1>4. CASE FrameReadFails
  BY <1>4 DEF FrameReadFails
<1>5. CASE HandlerReturns \/ HandlerResumes
  BY <1>5 DEF HandlerReturns, HandlerResumes, SetResponse
<1>6. CASE HandlerPanics
  BY <1>6 DEF HandlerPanics, SetResponse
<1>7. CASE CostPanics
  BY <1>7 DEF CostPanics
<1>8. CASE Ascend
  BY <1>8 DEF Ascend
<1>9. CASE StreamCompleted
  BY <1>9 DEF StreamCompleted
<1>10. CASE WriterDone
  BY <1>10 DEF WriterDone
<1>11. CASE WriteFrame
  BY <1>11 DEF WriteFrame, NextFrame
<1>12. CASE WriteFrameFails
  BY <1>12 DEF WriteFrameFails, WriteErr
<1>13. CASE IteratorPanics
  BY <1>13 DEF IteratorPanics
<1>14. CASE Recover
  BY <1>14 DEF Recover
<1>15. CASE Unwind
  BY <1>15 DEF Unwind
<1>16. CASE \E kind \in DOMAIN Refusal : Refuse(kind)
  BY <1>16 DEF Refuse, Refusal
<1>17. CASE \E kind \in DOMAIN Refusal \cup {"recovery", "writer"} : Accept(kind)
  BY <1>17 DEF Accept, Refusal
<1>18. CASE HandleStream
  BY <1>18 DEF HandleStream
<1>19. CASE RunDone
  BY <1>19 DEF RunDone
<1>20. CASE Release \/ StopHook \/ CloseStream \/ Cancel \/ Leave \/ Deadline \/ HookRuns
  BY <1>20 DEF Release, StopHook, CloseStream, Cancel, Leave, Deadline, HookRuns
<1>21. CASE UNCHANGED vars
  BY <1>21 DEF vars
<1> QED
  BY NextCases, <1>1, <1>2, <1>3, <1>4, <1>5, <1>6, <1>7, <1>8, <1>9, <1>10, <1>11, <1>12, <1>13,
     <1>14, <1>15, <1>16, <1>17, <1>18, <1>19, <1>20, <1>21, Zenon
  DEF InChain, FrameIO, Handler

(* For ordered chains the invariant holds in every state.                      *)
LEMMA MetricsInductive == OrderedChains => (Spec => []MetricsInv)
<1> SUFFICES ASSUME OrderedChains PROVE Spec => []MetricsInv
  OBVIOUS
<1>1. Init => MetricsInv
  BY InitPlace DEF Init, MetricsInv, Reported, PartialResponseRecorded, Uncompleted
<1>2. MetricsInv /\ [Next]_vars => MetricsInv'
  BY NextPlace, NextReported, NextUncompleted DEF MetricsInv
<1> QED BY <1>1, <1>2, PTL DEF Spec

(* With the metrics outside the writer and the writer outside the handlers, a  *)
(* multi-frame response that ends early is recorded with an error.             *)
THEOREM PartialResponsesRecorded == OrderedChains => (Spec => []PartialResponseRecorded)
<1>1. MetricsInv => PartialResponseRecorded
  BY DEF MetricsInv, Reported
<1> QED BY <1>1, MetricsInductive, PTL

(* In the same chains a stream that was started and is not completed has met a *)
(* panic: no refusal, error, deadline or short response loses the call of      *)
(* StreamCompleted.                                                            *)
THEOREM OnlyPanicsGoUncounted == OrderedChains => (Spec => []OnlyPanicsUncounted)
<1>1. MetricsInv => OnlyPanicsUncounted
  <2> SUFFICES ASSUME MetricsInv, Ended, metrics.started, ~ metrics.completed
               PROVE  at = "crashed" \/ err = "middleware.ErrPanic"
    BY DEF OnlyPanicsUncounted
  <2>1. idx = 0 /\ (at = "done" => dir # "panic") /\ Uncompleted
        /\ at \in {"done", "crashed"}
    BY DEF MetricsInv, PlaceInv, Place, Ended
  <2>2. \A m \in DOMAIN chain : m \in Nat /\ m > 0
    BY PipelineAssumption DEF MetricsInv, PlaceInv, TypeOK
  <2> QED BY <2>1, <2>2 DEF Uncompleted
<1> QED BY <1>1, MetricsInductive, PTL
=============================================================================
