---------------------- MODULE DisplayResizeCoordinator ----------------------
(***************************************************************************)
(* RdpDisplayResizeCoordinator (session/rdp_display_resize_coordinator):   *)
(* after a dynamic resize was sent to the remote desktop, GDI frames that  *)
(* still have the old size are turned away until a frame of the target     *)
(* size arrives.  A worker thread waits on a condition variable and, when  *)
(* the deadline of the current target passes, gives up: the state becomes  *)
(* Fallback and a callback asks for a repaint with whatever frame there is.*)
(*                                                                         *)
(* Every method body runs under one mutex, so a method is one action.  The *)
(* worker releases the mutex to wait and to call back: those are the places*)
(* where the other threads get in between.                                 *)
(*                                                                         *)
(* A size stands for the pair (width, height): every condition of the code *)
(* is the same condition on both.  0 is the absent size.  Time is counted  *)
(* in ticks left until a deadline, so that it needs no bound.              *)
(***************************************************************************)
EXTENDS Naturals

CONSTANTS
  Sizes,                    \* desktop and frame sizes, in pixels
  FrameAlignmentTolerance,  \* kFrameAlignmentTolerance
  SentTimeout,              \* sentTimeout_, in ticks
  MaxGeneration             \* bound on the number of resizes and resets

ASSUME CoordinatorAssumption ==
  /\ Sizes \subseteq Nat \ {0}
  /\ FrameAlignmentTolerance \in Nat
  /\ SentTimeout \in Nat
  /\ MaxGeneration \in Nat

VARIABLES
  waitState,         \* state_
  targetGeneration,  \* targetGeneration_
  target,            \* targetWidth_ x targetHeight_
  timeLeft,          \* ticks left until deadline_
  stopping,          \* stopping_
  timer,             \* the worker thread and what it captured
  repainted          \* the last generation whose timeout asked for a repaint

vars == <<waitState, targetGeneration, target, timeLeft, stopping, timer, repainted>>

WaitStates == {"Idle", "WaitingForTarget", "Fallback"}
ResultStatuses == {"Sent", "Deferred", "Unchanged", "Unsupported", "Failed"}
Countdown(t) == IF t > 0 THEN t - 1 ELSE 0

TypeOK ==
  /\ waitState \in WaitStates
  /\ targetGeneration \in 0 .. MaxGeneration + 1
  /\ stopping \/ targetGeneration <= MaxGeneration
  /\ target \in Sizes \cup {0}
  /\ timeLeft \in 0 .. SentTimeout
  /\ stopping \in BOOLEAN
  /\ timer \in [pc : {"parked", "armed", "callback", "repaint", "exited"},
                generation : 0 .. MaxGeneration + 1,
                timeLeft : 0 .. SentTimeout]
  /\ repainted \in 0 .. MaxGeneration + 1

Init ==
  /\ waitState = "Idle" /\ targetGeneration = 0 /\ target = 0 /\ timeLeft = 0
  /\ stopping = FALSE
  /\ timer = [pc |-> "parked", generation |-> 0, timeLeft |-> 0]
  /\ repainted = 0
-----------------------------------------------------------------------------
(* The methods.                                                            *)

\* Reset, BeginSent and UseFallback replace the state, the target and the generation.
Supersede(nextState, nextTarget) ==
  /\ ~stopping
  /\ targetGeneration < MaxGeneration
  /\ targetGeneration' = targetGeneration + 1
  /\ waitState' = nextState
  /\ target' = nextTarget

Reset == Supersede("Idle", 0) /\ UNCHANGED <<timeLeft, stopping, timer, repainted>>

BeginSent(size) ==
  /\ Supersede("WaitingForTarget", size)
  /\ timeLeft' = SentTimeout
  /\ UNCHANGED <<stopping, timer, repainted>>

UseFallback ==
  Supersede("Fallback", 0) /\ UNCHANGED <<timeLeft, stopping, timer, repainted>>

\* size is sentWidth x sentHeight or, failing that, the normalized size.
ApplyResult(status, size) ==
  \/ status = "Unchanged" /\ ~stopping /\ UNCHANGED vars
  \/ status = "Sent" /\ size # 0 /\ BeginSent(size)
  \/ status = "Sent" /\ size = 0 /\ UseFallback
  \/ status \in {"Deferred", "Unsupported", "Failed"} /\ UseFallback

FrameMatchesTarget(size) ==
  /\ size # 0
  /\ size < target + FrameAlignmentTolerance
  /\ target < size + FrameAlignmentTolerance

\* The value ShouldQueueFrame returns, and what it does.
MayQueue(size) == waitState = "WaitingForTarget" => FrameMatchesTarget(size)

Settles_InFallbackToo(size) == waitState # "Idle" /\ FrameMatchesTarget(size)

Settles(size) == waitState = "WaitingForTarget" /\ FrameMatchesTarget(size)

ShouldQueueFrame(size) ==
  /\ ~stopping
  /\ waitState' = IF Settles(size) THEN "Idle" ELSE waitState
  /\ UNCHANGED <<targetGeneration, target, timeLeft, stopping, timer, repainted>>

IsFallbackGeneration_WhileWaiting(generation) ==
  waitState = "WaitingForTarget" /\ targetGeneration = generation

IsFallbackGeneration(generation) ==
  waitState = "Fallback" /\ targetGeneration = generation

Stop_Again ==
  /\ targetGeneration <= MaxGeneration + 1
  /\ stopping' = TRUE
  /\ targetGeneration' = targetGeneration + 1
  /\ waitState' = "Idle"
  /\ UNCHANGED <<target, timeLeft, timer, repainted>>

\* ~RdpDisplayResizeCoordinator, up to its join of the worker.
Stop ==
  /\ ~stopping
  /\ stopping' = TRUE
  /\ targetGeneration' = targetGeneration + 1
  /\ waitState' = "Idle"
  /\ UNCHANGED <<target, timeLeft, timer, repainted>>
-----------------------------------------------------------------------------
(* WorkerMain, and the timeout callback of ConfigureRdpSessionCallbacks.   *)

WorkerArm ==
  /\ timer.pc = "parked" /\ ~stopping
  /\ waitState = "WaitingForTarget"
  /\ timer' = [pc |-> "armed", generation |-> targetGeneration, timeLeft |-> timeLeft]
  /\ UNCHANGED <<waitState, targetGeneration, target, timeLeft, stopping, repainted>>

Interrupted_AnyGeneration == stopping \/ waitState # "WaitingForTarget"

\* The predicate of wait_until.
Interrupted ==
  stopping \/ waitState # "WaitingForTarget" \/ targetGeneration # timer.generation

WorkerInterrupted ==
  /\ timer.pc = "armed" /\ Interrupted
  /\ timer' = [timer EXCEPT !.pc = "parked"]
  /\ UNCHANGED <<waitState, targetGeneration, target, timeLeft, stopping, repainted>>

WorkerTimeout ==
  /\ timer.pc = "armed" /\ ~Interrupted /\ timer.timeLeft = 0
  /\ waitState' = "Fallback"
  /\ timer' = [timer EXCEPT !.pc = "callback"]
  /\ UNCHANGED <<targetGeneration, target, timeLeft, stopping, repainted>>

\* The mutex is free: the callback looks again before it acts.
TimeoutCallback ==
  /\ timer.pc = "callback"
  /\ timer' = [timer EXCEPT !.pc =
                 IF IsFallbackGeneration(timer.generation) THEN "repaint" ELSE "parked"]
  /\ UNCHANGED <<waitState, targetGeneration, target, timeLeft, stopping, repainted>>

\* RequestSurfaceRepaint, then back to the head of the loop.
WorkerRepaint_ThreadReturns ==
  /\ timer.pc = "repaint"
  /\ repainted' = timer.generation
  /\ timer' = [timer EXCEPT !.pc = "exited"]
  /\ UNCHANGED <<waitState, targetGeneration, target, timeLeft, stopping>>

WorkerRepaint ==
  /\ timer.pc = "repaint"
  /\ repainted' = timer.generation
  /\ timer' = [timer EXCEPT !.pc = "parked"]
  /\ UNCHANGED <<waitState, targetGeneration, target, timeLeft, stopping>>

WorkerExit_NotWokenByStop ==
  /\ timer.pc = "parked" /\ stopping /\ waitState = "WaitingForTarget"
  /\ timer' = [timer EXCEPT !.pc = "exited"]
  /\ UNCHANGED <<waitState, targetGeneration, target, timeLeft, stopping, repainted>>

WorkerExit ==
  /\ timer.pc = "parked" /\ stopping
  /\ timer' = [timer EXCEPT !.pc = "exited"]
  /\ UNCHANGED <<waitState, targetGeneration, target, timeLeft, stopping, repainted>>

WorkerMain ==
  \/ WorkerArm \/ WorkerInterrupted \/ WorkerTimeout
  \/ TimeoutCallback \/ WorkerRepaint \/ WorkerExit

\* Both deadlines come nearer together.
Tick ==
  /\ timeLeft > 0 \/ timer.timeLeft > 0
  /\ timeLeft' = Countdown(timeLeft)
  /\ timer' = [timer EXCEPT !.timeLeft = Countdown(@)]
  /\ UNCHANGED <<waitState, targetGeneration, target, stopping, repainted>>

Next ==
  \/ Reset
  \/ \E status \in ResultStatuses, size \in Sizes \cup {0} : ApplyResult(status, size)
  \/ \E size \in Sizes : ShouldQueueFrame(size)
  \/ Stop
  \/ WorkerMain
  \/ Tick

\* Time passes and the worker thread is scheduled; the callers owe nothing.
Spec == Init /\ [][Next]_vars /\ WF_vars(WorkerMain) /\ WF_vars(Tick)
-----------------------------------------------------------------------------
(* A target that timed out stays in Fallback until something supersedes it:*)
(* neither a frame nor the worker moves it on, so the callback of a timeout*)
(* that nothing superseded always finds its own generation in Fallback and *)
(* asks for the repaint that ends the frozen picture.                      *)
TimedOutStaysFallback ==
  (timer.pc \in {"callback", "repaint"} /\ timer.generation = targetGeneration)
    => waitState = "Fallback"

(* The timed completion of an older target never ends the wait for a newer *)
(* one: while a target is current, only its own deadline takes the state   *)
(* from WaitingForTarget to Fallback.                                      *)
EveryTargetHasItsFullTimeout ==
  [][(/\ waitState = "WaitingForTarget" /\ waitState' = "Fallback"
      /\ targetGeneration' = targetGeneration) => timeLeft = 0]_vars

(* Frames are not held back for ever: every wait ends, by a matching frame,*)
(* by the timeout or because another request or reset replaced it.         *)
WaitEnds ==
  \A g \in 0 .. MaxGeneration :
    (waitState = "WaitingForTarget" /\ targetGeneration = g)
      ~> (waitState # "WaitingForTarget" \/ targetGeneration # g)

(* After a timeout the picture is repainted, unless the target has been    *)
(* superseded in the meantime: the session never stays black.              *)
TimeoutRepaints ==
  \A g \in 0 .. MaxGeneration :
    (timer.pc = "callback" /\ timer.generation = g)
      ~> (repainted = g \/ targetGeneration # g)

(* The destructor's join returns: a stopped coordinator's worker exits,    *)
(* wherever the stop met it.                                               *)
StopEnds == stopping ~> timer.pc = "exited"
=============================================================================
