----------------------- MODULE GdiFramePipelineProofs -----------------------
(***************************************************************************)
(* The lifetime of EndPaint's frames and the refinement of the mailbox,    *)
(* for every set of sizes, interval and bound.                             *)
(***************************************************************************)
EXTENDS GdiFramePipeline, TLAPS

\* From the stop to the next start nothing waits ...
StoppedIsEmpty ==
  session \in {"away", "connecting", "joinToResize", "resize", "restart",
               "joinToEnd", "free", "clear"} => ~running /\ pending = NoFrame

\* ... and from the join on there is no worker.
JoinedIsGone ==
  session \in {"away", "connecting", "resize", "restart", "free", "clear"}
    => worker.pc = "none"

WaitingIsNumbered == pending.number = 0 => pending = NoFrame

RepaintIsUi == repaint # NoFrame => repaint.from = "ui"

IInv ==
  /\ TypeOK /\ StoppedIsEmpty /\ JoinedIsGone /\ WaitingIsNumbered /\ RepaintIsUi
  /\ EndPaintFramesAreAlive
-----------------------------------------------------------------------------
LEMMA NoFrameIsFrame == NoFrame \in Frame
BY PipelineAssumption DEF PipelineAssumption, NoFrame, Frame

LEMMA PrimaryFrameIsFrame ==
  ASSUME TypeOK, NEW from \in {"session", "ui"}
  PROVE  PrimaryFrame(from) \in Frame
BY PipelineAssumption DEF PipelineAssumption, TypeOK, PrimaryFrame, Frame

LEMMA InvInit == Init => IInv
<1> SUFFICES ASSUME Init PROVE IInv
  OBVIOUS
<1>1. /\ 0 \in 0 .. MaxFrames /\ 0 \in 0 .. MaxBuffers /\ 0 \in 0 .. Interval
      /\ NoFrame \in Frame
  BY PipelineAssumption, NoFrameIsFrame DEF PipelineAssumption
<1>2. TypeOK
  BY <1>1, Zenon DEF Init, TypeOK, SessionSteps
<1>3. /\ StoppedIsEmpty /\ JoinedIsGone /\ WaitingIsNumbered /\ RepaintIsUi
      /\ EndPaintFramesAreAlive
  BY DEF Init, StoppedIsEmpty, JoinedIsGone, WaitingIsNumbered, RepaintIsUi,
         EndPaintFramesAreAlive, Painting, NoFrame
<1>4. QED
  BY <1>2, <1>3 DEF IInv
-----------------------------------------------------------------------------
(* What the renderer's methods do to the state.                            *)

LEMMA EnqueueEffect ==
  ASSUME TypeOK, NEW frame \in Frame, Enqueue(frame)
  PROVE  /\ UNCHANGED <<running, worker, rendered, lastSize, paceLeft>>
         /\ pending' \in Frame /\ enqueued' \in 0 .. MaxFrames
         /\ \/ UNCHANGED <<pending, enqueued>>
            \/ /\ running
               /\ pending'.number = enqueued + 1 /\ enqueued' = enqueued + 1
               /\ pending'.from = frame.from /\ pending'.buffer = frame.buffer
<1>1. CASE ~running
  BY <1>1 DEF Enqueue, TypeOK
<1>2. CASE running
  <2>1. enqueued + 1 \in 0 .. MaxFrames
    BY <1>2, PipelineAssumption DEF PipelineAssumption, Enqueue, TypeOK
  <2>2. (frame.forced \/ pending.forced) \in BOOLEAN
    OBVIOUS
  <2>3. pending' = [frame EXCEPT !.number = enqueued + 1,
                                 !.forced = frame.forced \/ pending.forced]
    BY <1>2 DEF Enqueue
  <2>4. pending' \in Frame
    BY <2>1, <2>2, <2>3 DEF Frame
  <2>5. /\ pending'.number = enqueued + 1 /\ pending'.from = frame.from
        /\ pending'.buffer = frame.buffer
    BY <2>3 DEF Frame
  <2>6. QED
    BY <1>2, <2>1, <2>4, <2>5 DEF Enqueue
<1>3. QED
  BY <1>1, <1>2

\* Both enqueuers: EndPaint and the repaint.
LEMMA QueueEffect ==
  ASSUME TypeOK, EndPaintQueue \/ QueueCurrentFrame
  PROVE  /\ UNCHANGED <<running, worker, rendered, lastSize, paceLeft, gdiVars>>
         /\ repaint' \in Frame
         /\ pending' \in Frame /\ enqueued' \in 0 .. MaxFrames
         /\ \/ UNCHANGED <<pending, enqueued>>
            \/ /\ running
               /\ pending'.number = enqueued + 1 /\ enqueued' = enqueued + 1
               /\ pending'.from = "session" => pending'.buffer = primary \/ QueueCurrentFrame
<1>1. CASE EndPaintQueue
  <2>1. CASE Enqueue(PrimaryFrame("session"))
    <3>1. PrimaryFrame("session") \in Frame
      BY PrimaryFrameIsFrame
    <3>2. PrimaryFrame("session").buffer = primary
      BY DEF PrimaryFrame
    <3>3. QED
      BY <1>1, <2>1, <3>1, <3>2, EnqueueEffect DEF EndPaintQueue, TypeOK
  <2>2. CASE UNCHANGED rendererVars
    BY <1>1, <2>2 DEF EndPaintQueue, TypeOK, rendererVars
  <2>3. QED
    BY <1>1, <2>1, <2>2 DEF EndPaintQueue
<1>2. CASE QueueCurrentFrame
  <2>1. repaint \in Frame /\ NoFrame \in Frame
    BY NoFrameIsFrame DEF TypeOK
  <2>2. CASE Enqueue(repaint)
    BY <1>2, <2>1, <2>2, EnqueueEffect DEF QueueCurrentFrame
  <2>3. CASE UNCHANGED rendererVars
    BY <1>2, <2>1, <2>3 DEF QueueCurrentFrame, TypeOK, rendererVars
  <2>4. QED
    BY <1>2, <2>2, <2>3 DEF QueueCurrentFrame
<1>3. QED
  BY <1>1, <1>2
-----------------------------------------------------------------------------
\* A fresh buffer's number is in range.
LEMMA AllocateEffect ==
  ASSUME TypeOK, NEW newSize \in Sizes, Allocate(newSize)
  PROVE  /\ allocated' \in 0 .. MaxBuffers /\ primary' \in 0 .. MaxBuffers
         /\ size' \in Sizes \cup {0}
BY PipelineAssumption DEF PipelineAssumption, TypeOK, Allocate

\* Every step keeps the types of the state.
LEMMA TypeStep == TypeOK /\ [Next]_vars => TypeOK'
<1> SUFFICES ASSUME TypeOK, [Next]_vars PROVE TypeOK'
  OBVIOUS
<1> USE PipelineAssumption DEF PipelineAssumption
<1>0. NoFrame \in Frame
  BY NoFrameIsFrame
<1>1. CASE WorkerTake \/ WorkerPainted \/ WorkerExit
  <2>1. CASE WorkerTake
    BY <1>0, <2>1 DEF TypeOK, WorkerTake, gdiVars
  <2>2. CASE WorkerPainted
    <3>1. worker' = [worker EXCEPT !.pc = "waiting"] /\ lastSize' = worker.frame.size
      BY <2>2 DEF WorkerPainted
    <3>2. worker' \in [pc : {"none", "waiting", "painting"}, frame : Frame]
      BY <3>1 DEF TypeOK
    <3>3. lastSize' \in Sizes \cup {0}
      BY <3>1 DEF TypeOK, Frame
    <3>4. rendered' \in BOOLEAN
      BY <2>2, Zenon DEF TypeOK, WorkerPainted
    <3>5. paceLeft' \in 0 .. Interval /\ UNCHANGED <<running, pending, enqueued, gdiVars,
                                                     session, repaint>>
      BY <2>2 DEF WorkerPainted
    <3>6. QED
      BY <3>2, <3>3, <3>4, <3>5 DEF TypeOK, gdiVars
  <2>3. CASE WorkerExit
    BY <2>3 DEF TypeOK, WorkerExit, gdiVars
  <2>4. QED
    BY <1>1, <2>1, <2>2, <2>3
<1>2. CASE Tick
  <2>1. paceLeft' \in 0 .. Interval
    BY <1>2 DEF TypeOK, Tick
  <2>2. UNCHANGED <<running, pending, worker, rendered, lastSize, enqueued, gdiVars, session,
                    repaint>>
    BY <1>2 DEF Tick
  <2>3. QED
    BY <2>1, <2>2 DEF TypeOK, gdiVars
<1>3. CASE PostConnectStart \/ RestartPipeline
  <2>1. worker' \in [pc : {"none", "waiting", "painting"}, frame : Frame]
    BY <1>3 DEF TypeOK, PostConnectStart, RestartPipeline, Start
  <2>2. session' \in SessionSteps /\ ready' \in BOOLEAN
    BY <1>3 DEF TypeOK, PostConnectStart, RestartPipeline, Goto, SessionSteps, gdiVars
  <2>3. Start /\ UNCHANGED <<primary, allocated, size, repaint>>
    BY <1>3 DEF PostConnectStart, RestartPipeline, gdiVars
  <2>4. 0 \in 0 .. Interval
    OBVIOUS
  <2>5. /\ running' \in BOOLEAN /\ pending' \in Frame /\ rendered' \in BOOLEAN
        /\ lastSize' \in Sizes \cup {0} /\ paceLeft' \in 0 .. Interval
        /\ enqueued' = enqueued
    BY <1>0, <2>3, <2>4, Zenon DEF TypeOK, Start
  <2>6. QED
    BY <2>1, <2>2, <2>3, <2>5 DEF TypeOK
<1>4. CASE EndPaintQueue \/ QueueCurrentFrame
  <2>1. session' \in SessionSteps
    BY <1>4 DEF TypeOK, EndPaintQueue, QueueCurrentFrame, Goto, SessionSteps
  <2>2. QED
    BY <1>4, <2>1, QueueEffect DEF TypeOK, gdiVars
<1>5. CASE StopPipeline
  BY <1>0, <1>5 DEF TypeOK, StopPipeline, Stop, Goto, SessionSteps, gdiVars
<1>6. CASE JoinWorker
  BY <1>6 DEF TypeOK, JoinWorker, Goto, SessionSteps, rendererVars, gdiVars
<1>7. CASE GdiResize
  <2>1. /\ allocated' \in 0 .. MaxBuffers /\ primary' \in 0 .. MaxBuffers
        /\ size' \in Sizes \cup {0} /\ ready' \in BOOLEAN
    <3>1. CASE UNCHANGED gdiVars
      BY <3>1 DEF TypeOK, gdiVars
    <3>2. ASSUME NEW newSize \in Sizes, Allocate(newSize),
                 ready' \in {FALSE, ready /\ newSize = size}
          PROVE  <2>1
      <4>1. ready' \in BOOLEAN
        BY <3>2, Zenon
      <4>2. QED
        BY <3>2, <4>1, AllocateEffect
    <3>3. QED
      BY <1>7, <3>1, <3>2 DEF GdiResize
  <2>2. QED
    BY <1>7, <2>1 DEF TypeOK, GdiResize, Goto, SessionSteps, rendererVars
<1>8. CASE GdiFree
  BY <1>8 DEF TypeOK, GdiFree, Goto, SessionSteps, rendererVars
<1>9. CASE EndSession
  BY <1>9 DEF TypeOK, EndSession, Goto, SessionSteps, rendererVars
<1>10. CASE PostConnect
  BY <1>10, AllocateEffect DEF TypeOK, PostConnect, Goto, SessionSteps, rendererVars
<1>11. CASE EndPaint
  BY <1>11 DEF TypeOK, EndPaint, Goto, SessionSteps, rendererVars
<1>12. CASE DesktopResize \/ PostDisconnect
  BY <1>12 DEF TypeOK, DesktopResize, PostDisconnect, Goto, SessionSteps, rendererVars,
               gdiVars
<1>13. CASE DropPending
  BY <1>0, <1>13 DEF TypeOK, DropPending, gdiVars
<1>14. CASE ReadCurrentFrame
  BY <1>14, PrimaryFrameIsFrame DEF TypeOK, ReadCurrentFrame, rendererVars, gdiVars
<1>15. CASE RequestDisconnect
  BY <1>15 DEF TypeOK, RequestDisconnect, rendererVars
<1>16. CASE UNCHANGED vars
  BY <1>16 DEF TypeOK, vars, rendererVars, gdiVars
<1>17. QED
  BY <1>1, <1>2, <1>3, <1>4, <1>5, <1>6, <1>7, <1>8, <1>9, <1>10, <1>11, <1>12, <1>13,
     <1>14, <1>15, <1>16 DEF Next, WorkerLoop, SessionReturning
-----------------------------------------------------------------------------
\* The only way a frame of EndPaint comes to wait is EndPaint's own, with its buffer.
LEMMA RepaintIsNotEndPaints ==
  ASSUME TypeOK, RepaintIsUi, QueueCurrentFrame
  PROVE  pending'.from = "session" => UNCHANGED pending
<1>1. repaint.from = "ui" /\ repaint \in Frame
  BY DEF QueueCurrentFrame, RepaintIsUi, TypeOK
<1>2. CASE Enqueue(repaint)
  <2>1. CASE ~running
    BY <1>2, <2>1 DEF Enqueue
  <2>2. CASE running
    BY <1>1, <1>2, <2>2 DEF Enqueue, Frame
  <2>3. QED
    BY <2>1, <2>2
<1>3. CASE UNCHANGED rendererVars
  BY <1>3 DEF rendererVars
<1>4. QED
  BY <1>2, <1>3 DEF QueueCurrentFrame

\* IInv is inductive.
LEMMA InvStep == IInv /\ [Next]_vars => IInv'
<1> SUFFICES ASSUME IInv, [Next]_vars PROVE IInv'
  OBVIOUS
<1>0. TypeOK /\ TypeOK'
  BY TypeStep DEF IInv
<1> USE DEF StoppedIsEmpty, JoinedIsGone, WaitingIsNumbered, RepaintIsUi,
            EndPaintFramesAreAlive, Alive, Painting
<1>n. NoFrame.number = 0 /\ NoFrame.from = "none"
  BY DEF NoFrame
<1>1. CASE WorkerTake
  BY <1>0, <1>1, <1>n DEF IInv, WorkerTake, gdiVars
<1>2. CASE WorkerPainted \/ WorkerExit
  <2>1. worker'.pc # "painting" /\ (worker.pc = "none" => worker'.pc = "none")
    BY <1>0, <1>2 DEF TypeOK, WorkerPainted, WorkerExit
  <2>2. UNCHANGED <<running, pending, gdiVars, session, repaint>>
    BY <1>2 DEF WorkerPainted, WorkerExit
  <2>3. QED
    BY <1>0, <2>1, <2>2 DEF IInv, gdiVars
<1>3. CASE Tick
  BY <1>0, <1>3 DEF IInv, Tick, gdiVars
<1>4. CASE PostConnectStart \/ RestartPipeline
  <2>1. /\ session' = "active" /\ pending' = NoFrame /\ worker'.pc = "waiting"
        /\ UNCHANGED <<primary, repaint>>
    BY <1>0, <1>4 DEF TypeOK, PostConnectStart, RestartPipeline, Start, Goto, gdiVars
  <2>2. QED
    BY <1>0, <1>n, <2>1 DEF IInv
<1>5. CASE EndPaintQueue \/ QueueCurrentFrame
  <2>1. /\ UNCHANGED <<running, worker, primary>>
        /\ session' \in {session, "active"}
        /\ RepaintIsUi'
    BY <1>0, <1>5, QueueEffect DEF IInv, EndPaintQueue, QueueCurrentFrame, Goto, gdiVars
  <2>2. StoppedIsEmpty' /\ WaitingIsNumbered'
    <3>1. CASE UNCHANGED pending
      BY <2>1, <3>1 DEF IInv
    <3>2. CASE running /\ pending'.number = enqueued + 1
      <4>1. pending'.number # 0
        BY <1>0, <3>2, PipelineAssumption DEF PipelineAssumption, TypeOK
      <4>2. QED
        BY <2>1, <3>2, <4>1 DEF IInv
    <3>3. QED
      BY <1>0, <1>5, <3>1, <3>2, QueueEffect
  <2>3. JoinedIsGone'
    BY <2>1 DEF IInv
  <2>4. EndPaintFramesAreAlive'
    <3>1. pending'.from = "session" => UNCHANGED pending \/ pending'.buffer = primary
      BY <1>0, <1>5, QueueEffect, RepaintIsNotEndPaints DEF IInv
    <3>2. QED
      BY <2>1, <3>1 DEF IInv
  <2>5. QED
    BY <1>0, <2>1, <2>2, <2>3, <2>4 DEF IInv
<1>6. CASE StopPipeline
  <2>1. /\ session' \in {"joinToResize", "joinToEnd"} /\ ~running' /\ pending' = NoFrame
        /\ UNCHANGED <<worker, primary, repaint>>
    BY <1>6 DEF StopPipeline, Stop, Goto, gdiVars
  <2>2. QED
    BY <1>0, <1>n, <2>1 DEF IInv
<1>7. CASE JoinWorker
  <2>1. /\ session \in {"joinToResize", "joinToEnd"} /\ session' \in {"resize", "free"}
        /\ worker.pc = "none"
        /\ UNCHANGED <<running, pending, worker, primary, repaint>>
    BY <1>7 DEF JoinWorker, Joined, Goto, rendererVars, gdiVars
  <2>2. QED
    BY <1>0, <2>1 DEF IInv
\* The steps that move or free the buffer: nothing waits and nobody paints.
<1>8. CASE GdiResize \/ GdiFree \/ PostConnect
  <2>1. /\ session \in {"away", "resize", "free"}
        /\ session' \in {"connecting", "restart", "clear"}
        /\ UNCHANGED <<running, pending, worker, repaint>>
    BY <1>8 DEF GdiResize, GdiFree, PostConnect, Goto, rendererVars
  <2>2. QED
    BY <1>0, <1>n, <2>1 DEF IInv
<1>9. CASE EndSession
  BY <1>0, <1>9 DEF IInv, EndSession, Goto, rendererVars
<1>10. CASE EndPaint \/ DesktopResize \/ PostDisconnect \/ RequestDisconnect
  <2>1. /\ session' \in {session, "queue", "stopToResize", "stopToEnd"}
        /\ UNCHANGED <<running, pending, worker, primary, repaint>>
    BY <1>10 DEF EndPaint, DesktopResize, PostDisconnect, RequestDisconnect, Goto, rendererVars,
               gdiVars
  <2>2. QED
    BY <1>0, <2>1 DEF IInv
<1>11. CASE DropPending
  BY <1>0, <1>11, <1>n DEF IInv, DropPending, gdiVars
<1>12. CASE ReadCurrentFrame
  <2>1. repaint'.from = "ui"
    BY <1>12 DEF ReadCurrentFrame, PrimaryFrame
  <2>2. QED
    BY <1>0, <1>12, <2>1 DEF IInv, ReadCurrentFrame, rendererVars, gdiVars
<1>13. CASE UNCHANGED vars
  BY <1>0, <1>13 DEF IInv, vars, rendererVars, gdiVars
<1>14. QED
  BY <1>1, <1>2, <1>3, <1>4, <1>5, <1>6, <1>7, <1>8, <1>9, <1>10, <1>11, <1>12, <1>13
     DEF Next, WorkerLoop, SessionReturning

LEMMA Invariance == Spec => []IInv
BY InvInit, InvStep, PTL DEF Spec
-----------------------------------------------------------------------------
(* The state keeps its types.                                              *)
THEOREM TypeCorrect == Spec => []TypeOK
<1>1. IInv => TypeOK
  BY DEF IInv
<1>2. QED
  BY <1>1, Invariance, PTL

(* The lifetime contract of the renderer, for EndPaint's frames: FreeRDP   *)
(* moves or frees its buffer only after the join, when no frame waits and  *)
(* nobody paints.                                                          *)
THEOREM FramesOutlivePaint == Spec => []EndPaintFramesAreAlive
<1>1. IInv => EndPaintFramesAreAlive
  BY DEF IInv
<1>2. QED
  BY <1>1, Invariance, PTL

(* The renderer implements the one-slot mailbox: a frame that is enqueued  *)
(* is a put, Stop, Start and DropPending withdraw, the worker takes.       *)
THEOREM Refinement == Spec => ImplementsMailbox
<1>1. Init => Mailbox!MailboxInit
  BY DEF Init, NoFrame, Mailbox!MailboxInit
<1>2. IInv /\ [Next]_vars => [Mailbox!MailboxNext]_Mailbox!mailboxVars
  <2> SUFFICES ASSUME IInv, [Next]_vars
               PROVE  Mailbox!MailboxNext \/ UNCHANGED Mailbox!mailboxVars
    BY DEF Mailbox!mailboxVars
  <2> USE DEF Mailbox!mailboxVars
  <2>0. TypeOK /\ NoFrame.number = 0
    BY DEF IInv, NoFrame
  <2>1. CASE EndPaintQueue \/ QueueCurrentFrame
    <3>1. worker'.frame.number = worker.frame.number
      BY <2>0, <2>1, QueueEffect
    <3>2. CASE UNCHANGED <<pending, enqueued>>
      BY <3>1, <3>2
    <3>3. CASE pending'.number = enqueued + 1 /\ enqueued' = enqueued + 1
      BY <3>1, <3>3 DEF Mailbox!MailboxNext, Mailbox!Put
    <3>4. QED
      BY <2>0, <2>1, <3>2, <3>3, QueueEffect
  <2>2. CASE PostConnectStart \/ RestartPipeline \/ StopPipeline \/ DropPending
    <3>1. /\ pending'.number = 0 /\ enqueued' = enqueued
          /\ worker'.frame.number = worker.frame.number
      BY <2>0, <2>2 DEF TypeOK, PostConnectStart, RestartPipeline, StopPipeline, DropPending,
                        Start, Stop
    <3>2. QED
      BY <3>1 DEF Mailbox!MailboxNext, Mailbox!Withdraw
  <2>3. CASE WorkerTake
    <3>1. pending.number # 0
      BY <2>3 DEF IInv, WaitingIsNumbered, WorkerTake
    <3>2. QED
      BY <2>0, <2>3, <3>1 DEF WorkerTake, Mailbox!MailboxNext, Mailbox!Take
  <2>4. CASE WorkerPainted \/ WorkerExit
    BY <2>0, <2>4 DEF TypeOK, WorkerPainted, WorkerExit
  <2>5. CASE \/ Tick \/ JoinWorker \/ GdiResize \/ GdiFree \/ EndSession
             \/ PostConnect \/ EndPaint \/ DesktopResize \/ PostDisconnect \/ RequestDisconnect
             \/ ReadCurrentFrame
    BY <2>5 DEF Tick, JoinWorker, GdiResize, GdiFree, EndSession, PostConnect, EndPaint,
                DesktopResize, PostDisconnect, RequestDisconnect, ReadCurrentFrame, rendererVars
  <2>6. CASE UNCHANGED vars
    BY <2>6 DEF vars, rendererVars
  <2>7. QED
    BY <2>1, <2>2, <2>3, <2>4, <2>5, <2>6 DEF Next, WorkerLoop, SessionReturning
<1>3. QED
  BY <1>1, <1>2, Invariance, PTL DEF Spec, ImplementsMailbox, Mailbox!MailboxSpec
=============================================================================
