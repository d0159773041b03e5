------------------- MODULE DisplayResizeCoordinatorProofs -------------------
(***************************************************************************)
(* Proofs about DisplayResizeCoordinator, for every set of sizes, every    *)
(* tolerance, timeout and number of resizes.                               *)
(***************************************************************************)
EXTENDS DisplayResizeCoordinator, TLAPS

\* Counting down a timer keeps it in its range.
LEMMA CountdownRange ==
  ASSUME NEW N \in Nat, NEW t \in 0 .. N
  PROVE  Countdown(t) \in 0 .. N
BY DEF Countdown

\* The constructed coordinator has the types of the state.
LEMMA TypeInit == Init => TypeOK
<1> SUFFICES ASSUME Init PROVE TypeOK
  OBVIOUS
<1>1. 0 \in 0 .. SentTimeout /\ 0 \in 0 .. MaxGeneration + 1 /\ 0 <= MaxGeneration
  BY CoordinatorAssumption DEF CoordinatorAssumption
<1>2. QED
  BY <1>1, Zenon DEF Init, TypeOK, WaitStates

\* What every step keeps: the types of the state.
LEMMA TypeStep == TypeOK /\ [Next]_vars => TypeOK'
<1> SUFFICES ASSUME TypeOK, [Next]_vars PROVE TypeOK'
  OBVIOUS
<1> USE CoordinatorAssumption DEF CoordinatorAssumption
<1>1. CASE Reset
  BY <1>1 DEF TypeOK, Reset, Supersede, WaitStates
<1>2. ASSUME NEW status \in ResultStatuses, NEW size \in Sizes \cup {0},
             ApplyResult(status, size)
      PROVE  TypeOK'
  BY <1>2 DEF TypeOK, ApplyResult, BeginSent, UseFallback, Supersede, WaitStates, vars
<1>3. ASSUME NEW size \in Sizes, ShouldQueueFrame(size)
      PROVE  TypeOK'
  BY <1>3 DEF TypeOK, ShouldQueueFrame, WaitStates
<1>4. CASE Stop
  BY <1>4 DEF TypeOK, Stop, WaitStates
<1>5. CASE WorkerArm
  BY <1>5 DEF TypeOK, WorkerArm
<1>6. CASE WorkerInterrupted
  BY <1>6 DEF TypeOK, WorkerInterrupted
<1>7. CASE WorkerTimeout
  BY <1>7 DEF TypeOK, WorkerTimeout, WaitStates
<1>8. CASE TimeoutCallback
  BY <1>8 DEF TypeOK, TimeoutCallback
<1>9. CASE WorkerRepaint
  BY <1>9 DEF TypeOK, WorkerRepaint
<1>10. CASE WorkerExit
  BY <1>10 DEF TypeOK, WorkerExit
<1>11. CASE Tick
  <2>1. timeLeft' \in 0 .. SentTimeout /\ Countdown(timer.timeLeft) \in 0 .. SentTimeout
    BY <1>11, CountdownRange DEF TypeOK, Tick
  <2>2. QED
    BY <1>11, <2>1 DEF TypeOK, Tick
<1>12. CASE UNCHANGED vars
  BY <1>12 DEF TypeOK, vars
<1>13. QED
  BY <1>1, <1>2, <1>3, <1>4, <1>5, <1>6, <1>7, <1>8, <1>9, <1>10, <1>11, <1>12
     DEF Next, WorkerMain

(* The state keeps its types: in particular neither generation passes the  *)
(* bound, and neither countdown leaves the range of the timeout.           *)
THEOREM TypeCorrect == Spec => []TypeOK
BY TypeInit, TypeStep, PTL DEF Spec

(* The inductive invariant.  The worker's generation is never ahead of the *)
(* target's; an armed worker of the current target captured its deadline;  *)
(* a worker that timed out the current target finds it in Fallback.        *)
WorkerNotAhead == timer.generation <= targetGeneration
ArmedWithItsDeadline ==
  (timer.pc = "armed" /\ timer.generation = targetGeneration
     /\ waitState = "WaitingForTarget") => timer.timeLeft = timeLeft
IInv == TypeOK /\ WorkerNotAhead /\ ArmedWithItsDeadline /\ TimedOutStaysFallback

\* IInv is inductive.
LEMMA InvStep == IInv /\ [Next]_vars => IInv'
<1> SUFFICES ASSUME IInv, [Next]_vars PROVE IInv'
  OBVIOUS
<1>0. TypeOK'
  BY TypeStep DEF IInv
<1> USE CoordinatorAssumption
    DEF CoordinatorAssumption, IInv, TypeOK, WorkerNotAhead,
        ArmedWithItsDeadline, TimedOutStaysFallback
<1>1. CASE Reset
  BY <1>0, <1>1 DEF Reset, Supersede
<1>2. ASSUME NEW status \in ResultStatuses, NEW size \in Sizes \cup {0},
             ApplyResult(status, size)
      PROVE  IInv'
  <2>1. CASE UNCHANGED vars
    BY <1>0, <2>1 DEF vars
  <2>2. CASE BeginSent(size) \/ UseFallback
    BY <1>0, <2>2 DEF BeginSent, UseFallback, Supersede
  <2>3. QED
    BY <1>2, <2>1, <2>2 DEF ApplyResult
<1>3. ASSUME NEW size \in Sizes, ShouldQueueFrame(size)
      PROVE  IInv'
  BY <1>0, <1>3 DEF ShouldQueueFrame, Settles
<1>4. CASE Stop
  BY <1>0, <1>4 DEF Stop
<1>5. CASE WorkerArm
  BY <1>0, <1>5 DEF WorkerArm
<1>6. CASE WorkerInterrupted
  BY <1>0, <1>6 DEF WorkerInterrupted
<1>7. CASE WorkerTimeout
  BY <1>0, <1>7 DEF WorkerTimeout
<1>8. CASE TimeoutCallback
  BY <1>0, <1>8 DEF TimeoutCallback, IsFallbackGeneration
<1>9. CASE WorkerRepaint
  BY <1>0, <1>9 DEF WorkerRepaint
<1>10. CASE WorkerExit
  BY <1>0, <1>10 DEF WorkerExit
<1>11. CASE Tick
  BY <1>0, <1>11 DEF Tick
<1>12. CASE UNCHANGED vars
  BY <1>0, <1>12 DEF vars
<1>13. QED
  BY <1>1, <1>2, <1>3, <1>4, <1>5, <1>6, <1>7, <1>8, <1>9, <1>10, <1>11, <1>12
     DEF Next, WorkerMain

\* IInv holds in every reachable state.
LEMMA Invariance == Spec => []IInv
<1>1. Init => IInv
  BY TypeInit DEF Init, IInv, WorkerNotAhead, ArmedWithItsDeadline, TimedOutStaysFallback
<1>2. QED
  BY <1>1, InvStep, PTL DEF Spec

(* A target whose wait timed out is still in Fallback when its callback    *)
(* looks, unless a later request or reset replaced it.                     *)
THEOREM TimeoutIsNotUndone == Spec => []TimedOutStaysFallback
<1>1. IInv => TimedOutStaysFallback
  BY DEF IInv
<1>2. QED
  BY <1>1, Invariance, PTL

(* Only a target's own deadline ends its wait by a timeout.                *)
THEOREM FullTimeout == Spec => EveryTargetHasItsFullTimeout
<1> DEFINE Early == waitState = "WaitingForTarget" /\ waitState' = "Fallback"
                    /\ targetGeneration' = targetGeneration
<1>1. IInv /\ [Next]_vars => [Early => timeLeft = 0]_vars
  <2> SUFFICES ASSUME IInv, Next, Early PROVE timeLeft = 0
    BY DEF vars
  <2> USE DEF IInv, TypeOK
  <2>1. CASE WorkerTimeout
    BY <2>1 DEF WorkerTimeout, Interrupted, ArmedWithItsDeadline
  <2>2. ASSUME NEW status \in ResultStatuses, NEW size \in Sizes \cup {0},
               ApplyResult(status, size)
        PROVE  FALSE
    BY <2>2 DEF ApplyResult, BeginSent, UseFallback, Supersede, vars
  <2>3. ASSUME NEW size \in Sizes, ShouldQueueFrame(size)
        PROVE  FALSE
    BY <2>3 DEF ShouldQueueFrame
  <2>4. ~(Reset \/ Stop \/ Tick \/ WorkerArm \/ WorkerInterrupted \/ TimeoutCallback
          \/ WorkerRepaint \/ WorkerExit)
    BY DEF Reset, Supersede, Stop, Tick, WorkerArm, WorkerInterrupted, TimeoutCallback,
           WorkerRepaint, WorkerExit
  <2>5. QED
    BY <2>1, <2>2, <2>3, <2>4 DEF Next, WorkerMain
<1>2. QED
  BY <1>1, Invariance, PTL DEF Spec, EveryTargetHasItsFullTimeout
=============================================================================
