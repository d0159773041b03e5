-------------------------- MODULE GdiFramePipeline --------------------------
(***************************************************************************)
(* The way of a GDI frame to the screen: FreeRDP paints into the primary   *)
(* buffer on the session thread and resizes or frees it there              *)
(* (freerdp/freerdp_gdi_bridge); LatestFrameRenderer                       *)
(* (surface/latest_frame_renderer) keeps the newest frame, without copying *)
(* it, and paints it on a worker thread; the ui thread may ask for another *)
(* paint of the current buffer (RdpSessionChannels).                       *)
(*                                                                         *)
(* This is the session without H.264, whose output is always GDI's: only   *)
(* the session thread starts and stops the renderer.  The renderer's       *)
(* methods run under its mutex and are one action each; Stop releases the  *)
(* mutex to join the worker, and the worker releases it to wait and paint. *)
(*                                                                         *)
(* A buffer is named by the order of its allocation, 0 is none.  A frame   *)
(* names its buffer, and the memory is there as long as the buffer is the  *)
(* primary one.                                                            *)
(***************************************************************************)
EXTENDS Naturals

CONSTANTS
  Sizes,      \* desktop sizes
  Interval,   \* kTargetFrameIntervalMs, in ticks
  MaxFrames,  \* bound on the frames enqueued
  MaxBuffers  \* bound on the buffers allocated

ASSUME PipelineAssumption ==
  Sizes \subseteq Nat \ {0} /\ Interval \in Nat /\ MaxFrames \in Nat /\ MaxBuffers \in Nat

VARIABLES
  running,    \* running_
  pending,    \* pending_, if hasPending_
  worker,     \* the worker thread and the frame it took last
  rendered,   \* renderedCount_ > 0
  lastSize,   \* lastRenderedWidth_ x lastRenderedHeight_
  paceLeft,   \* ticks left until a frame may follow the last one
  enqueued,   \* the frames enqueued since the beginning
  primary,    \* gdi->primary_buffer
  allocated,  \* the buffers allocated since the beginning
  size,       \* gdi->width x gdi->height
  ready,      \* g_rdpPrimaryFrameReady
  session,    \* where the session thread is
  repaint     \* the frame the ui thread has made and not yet enqueued

rendererVars == <<running, pending, worker, rendered, lastSize, paceLeft, enqueued>>
gdiVars == <<primary, allocated, size, ready>>
vars == <<rendererVars, gdiVars, session, repaint>>

Frame ==
  [number : 0 .. MaxFrames, buffer : 0 .. MaxBuffers, size : Sizes \cup {0}, forced : BOOLEAN,
   from : {"none", "session", "ui"}]
NoFrame == [number |-> 0, buffer |-> 0, size |-> 0, forced |-> FALSE, from |-> "none"]

\* A frame of the current buffer; a repaint, of the ui thread, is forced.
PrimaryFrame(from) ==
  [number |-> 0, buffer |-> primary, size |-> size, forced |-> from = "ui", from |-> from]

SessionSteps == {"away", "connecting", "active", "queue",
                 "stopToResize", "joinToResize", "resize", "restart",
                 "stopToEnd", "joinToEnd", "free", "clear"}

TypeOK ==
  /\ running \in BOOLEAN /\ pending \in Frame
  /\ worker \in [pc : {"none", "waiting", "painting"}, frame : Frame]
  /\ rendered \in BOOLEAN /\ lastSize \in Sizes \cup {0} /\ paceLeft \in 0 .. Interval
  /\ enqueued \in 0 .. MaxFrames
  /\ primary \in 0 .. MaxBuffers /\ allocated \in 0 .. MaxBuffers
  /\ size \in Sizes \cup {0} /\ ready \in BOOLEAN
  /\ session \in SessionSteps
  /\ repaint \in Frame

Init ==
  /\ running = FALSE /\ pending = NoFrame
  /\ worker = [pc |-> "none", frame |-> NoFrame]
  /\ rendered = FALSE /\ lastSize = 0 /\ paceLeft = 0 /\ enqueued = 0
  /\ primary = 0 /\ allocated = 0 /\ size = 0 /\ ready = FALSE
  /\ session = "away"
  /\ repaint = NoFrame
-----------------------------------------------------------------------------
(* LatestFrameRenderer.                                                    *)

\* The caller, the session thread, has joined any worker before.
Start ==
  /\ running' = TRUE
  /\ pending' = NoFrame
  /\ worker' = [worker EXCEPT !.pc = "waiting"]
  /\ rendered' = FALSE /\ lastSize' = 0 /\ paceLeft' = 0
  /\ UNCHANGED enqueued

\* Up to the join.
Stop ==
  /\ running' = FALSE
  /\ pending' = NoFrame
  /\ UNCHANGED <<worker, rendered, lastSize, paceLeft, enqueued>>

Joined_NotAwaited == TRUE

Joined == worker.pc = "none"

\* A frame that replaces a forced one is forced.
Enqueue(frame) ==
  /\ UNCHANGED <<running, worker, rendered, lastSize, paceLeft>>
  /\ \/ ~running /\ UNCHANGED <<pending, enqueued>>
     \/ /\ running /\ enqueued < MaxFrames
        /\ enqueued' = enqueued + 1
        /\ pending' = [frame EXCEPT !.number = enqueued + 1,
                                    !.forced = frame.forced \/ pending.forced]

\* After a dynamic resize was sent.
DropPending ==
  /\ pending # NoFrame
  /\ pending' = NoFrame
  /\ UNCHANGED <<running, worker, rendered, lastSize, paceLeft, enqueued, gdiVars, session,
                 repaint>>

Paced_UntilNotified == ~pending.forced /\ pending.size = lastSize /\ rendered

\* A forced frame, another size and the first frame do not wait.
Paced == ~pending.forced /\ pending.size = lastSize /\ rendered /\ paceLeft > 0

WorkerTake_LeavesPending ==
  /\ worker.pc = "waiting" /\ pending # NoFrame /\ ~Paced
  /\ worker' = [pc |-> "painting", frame |-> pending]
  /\ UNCHANGED <<running, pending, rendered, lastSize, paceLeft, enqueued, gdiVars, session,
                 repaint>>

WorkerTake ==
  /\ worker.pc = "waiting" /\ pending # NoFrame /\ ~Paced
  /\ worker' = [pc |-> "painting", frame |-> pending]
  /\ pending' = NoFrame
  /\ UNCHANGED <<running, rendered, lastSize, paceLeft, enqueued, gdiVars, session, repaint>>

WorkerPainted_PacedFromDeadline ==
  /\ worker.pc = "painting"
  /\ worker' = [worker EXCEPT !.pc = "waiting"]
  /\ lastSize' = worker.frame.size
  /\ paceLeft' = paceLeft + Interval
  /\ rendered' \in {rendered, TRUE}
  /\ UNCHANGED <<running, pending, enqueued, gdiVars, session, repaint>>

\* The paint may fail: then nothing was rendered, but the size and the time count.
WorkerPainted ==
  /\ worker.pc = "painting"
  /\ worker' = [worker EXCEPT !.pc = "waiting"]
  /\ lastSize' = worker.frame.size
  /\ paceLeft' = Interval
  /\ rendered' \in {rendered, TRUE}
  /\ UNCHANGED <<running, pending, enqueued, gdiVars, session, repaint>>

WorkerExit_NotWokenByStop ==
  /\ worker.pc = "waiting" /\ ~running /\ rendered /\ paceLeft > 0
  /\ worker' = [worker EXCEPT !.pc = "none"]
  /\ UNCHANGED <<running, pending, rendered, lastSize, paceLeft, enqueued, gdiVars, session,
                 repaint>>

WorkerExit ==
  /\ worker.pc = "waiting" /\ ~running /\ pending = NoFrame
  /\ worker' = [worker EXCEPT !.pc = "none"]
  /\ UNCHANGED <<running, pending, rendered, lastSize, paceLeft, enqueued, gdiVars, session,
                 repaint>>

WorkerLoop == WorkerTake \/ WorkerPainted \/ WorkerExit

Tick ==
  /\ paceLeft > 0
  /\ paceLeft' = paceLeft - 1
  /\ UNCHANGED <<running, pending, worker, rendered, lastSize, enqueued, gdiVars, session,
                 repaint>>
-----------------------------------------------------------------------------
(* The session thread: the callbacks of FreeRDP's GDI.                     *)

Goto(from, to) == session = from /\ session' = to

\* gdi_init and gdi_resize: a new primary buffer, and the old one is gone.
Allocate(newSize) ==
  /\ allocated < MaxBuffers
  /\ allocated' = allocated + 1
  /\ primary' = allocated + 1
  /\ size' = newSize

PostConnect ==
  /\ Goto("away", "connecting")
  /\ \E newSize \in Sizes : Allocate(newSize)
  /\ UNCHANGED <<rendererVars, ready, repaint>>

PostConnectStart ==
  /\ Goto("connecting", "active")
  /\ Start
  /\ ready' = FALSE
  /\ UNCHANGED <<primary, allocated, size, repaint>>

EndPaint ==
  /\ Goto("active", "queue")
  /\ ready' = TRUE
  /\ UNCHANGED <<rendererVars, primary, allocated, size, repaint>>

\* ShouldQueueFrame may turn the frame away.
EndPaintQueue ==
  /\ Goto("queue", "active")
  /\ Enqueue(PrimaryFrame("session")) \/ UNCHANGED rendererVars
  /\ UNCHANGED <<gdiVars, repaint>>

DesktopResize ==
  /\ Goto("active", "stopToResize")
  /\ UNCHANGED <<rendererVars, gdiVars, repaint>>

PostDisconnect ==
  /\ Goto("active", "stopToEnd")
  /\ UNCHANGED <<rendererVars, gdiVars, repaint>>

StopPipeline ==
  /\ Goto("stopToResize", "joinToResize") \/ Goto("stopToEnd", "joinToEnd")
  /\ Stop
  /\ UNCHANGED <<gdiVars, repaint>>

JoinWorker ==
  /\ Joined
  /\ Goto("joinToResize", "resize") \/ Goto("joinToEnd", "free")
  /\ UNCHANGED <<rendererVars, gdiVars, repaint>>

\* gdi_resize may keep the buffer, at least if it fails.  A disconnect may have cleared the
\* desktop size that tells whether the frame of before is of another size.
GdiResize ==
  /\ Goto("resize", "restart")
  /\ \/ \E newSize \in Sizes : Allocate(newSize) /\ ready' \in {FALSE, ready /\ newSize = size}
     \/ UNCHANGED gdiVars
  /\ UNCHANGED <<rendererVars, repaint>>

RestartPipeline ==
  /\ Goto("restart", "active")
  /\ Start
  /\ UNCHANGED <<gdiVars, repaint>>

GdiFree ==
  /\ Goto("free", "clear")
  /\ primary' = 0 /\ size' = 0
  /\ UNCHANGED <<rendererVars, allocated, ready, repaint>>

\* Teardown: ClearRdpDesktopSize, a Stop that finds the renderer stopped, and ClearActive,
\* which a repaint that holds activeMutex_ delays.
EndSession ==
  /\ Goto("clear", "away")
  /\ repaint = NoFrame
  /\ ready' = FALSE
  /\ UNCHANGED <<rendererVars, primary, allocated, size, repaint>>

\* RequestDisconnect on the ui thread clears the desktop size; the session notices later.
RequestDisconnect ==
  /\ ready /\ ready' = FALSE
  /\ UNCHANGED <<rendererVars, primary, allocated, size, session, repaint>>

SessionReturning ==
  \/ PostConnectStart \/ EndPaintQueue \/ StopPipeline \/ JoinWorker \/ GdiResize
  \/ RestartPipeline \/ GdiFree \/ EndSession
-----------------------------------------------------------------------------
(* RequestCurrentFrameRender on the ui thread.                             *)

ReadCurrentFrame ==
  /\ repaint = NoFrame
  /\ session # "away" /\ primary # 0 /\ ready
  /\ repaint' = PrimaryFrame("ui")
  /\ UNCHANGED <<rendererVars, gdiVars, session>>

QueueCurrentFrame ==
  /\ repaint # NoFrame
  /\ repaint' = NoFrame
  /\ Enqueue(repaint) \/ UNCHANGED rendererVars
  /\ UNCHANGED <<gdiVars, session>>
-----------------------------------------------------------------------------
Next ==
  \/ WorkerLoop \/ Tick
  \/ SessionReturning
  \/ PostConnect \/ EndPaint \/ DesktopResize \/ PostDisconnect
  \/ RequestDisconnect \/ DropPending \/ ReadCurrentFrame \/ QueueCurrentFrame

\* Threads that are in a call are scheduled, a paint ends, and time passes.
Spec ==
  /\ Init /\ [][Next]_vars
  /\ WF_vars(WorkerLoop) /\ WF_vars(Tick)
  /\ WF_vars(SessionReturning) /\ WF_vars(QueueCurrentFrame)
-----------------------------------------------------------------------------
(* The lifetime contract of latest_frame_renderer.h, for the frames of     *)
(* EndPaint: the memory of a frame that waits or is being painted is there *)
(* until the paint is over, whatever FreeRDP does with its buffer.         *)
Alive(frame) == frame.buffer = primary
Painting == worker.pc = "painting"

EndPaintFramesAreAlive ==
  /\ pending.from = "session" => Alive(pending)
  /\ (Painting /\ worker.frame.from = "session") => Alive(worker.frame)

(* The renderer is a mailbox of one slot: the newest frame replaces one    *)
(* that waits, Stop and DropPending withdraw it, and the worker paints each*)
(* at most once and in order, over all stops and starts.                   *)
Mailbox == INSTANCE LatestMailbox WITH
  sequence <- enqueued, slot <- pending.number, taken <- worker.frame.number

ImplementsMailbox == Mailbox!MailboxSpec

(* A frame does not wait for ever: by the mailbox it can only be painted,  *)
(* replaced by a newer one or withdrawn, and pacing delays it one interval.*)
PendingIsNotStuck ==
  \A n \in 1 .. MaxFrames : pending.number = n ~> pending.number # n

(* FreeRDP's callbacks return: a resize or a disconnect that stops the     *)
(* renderer does not hang in the join of its worker, which may be waiting, *)
(* pacing or painting.                                                     *)
SessionReturns == session \notin {"away", "active"} ~> session \in {"away", "active"}

(* A disagreement with the documentation: see the findings in the README.  *)

(* The lifetime contract for every frame, those of a repaint too.          *)
PaintedFrameIsAlive == Painting => Alive(worker.frame)
=============================================================================
