------------------------ MODULE Avc444GpuCompositor ------------------------
(***************************************************************************)
(* The AVC444 GPU compositor (surface/avc444_gpu_compositor) between the   *)
(* threads that use it:                                                    *)
(*   - FreeRDP's graphics channel delivers the commands and frame ends of  *)
(*     the stream, and GDI's paint and resize callbacks (channel);         *)
(*   - the compositor's worker processes what was queued (workers; two     *)
(*     while a stopped one has not left);                                  *)
(*   - the ui thread tells that the window came, changed or went (ui);     *)
(*   - the session thread configures and resets the compositor while the   *)
(*     channel is not connected (session; channels/rdpgfx_pipeline).       *)
(*                                                                         *)
(* Until the GPU holds a complete picture a command is processed on the    *)
(* channel's thread and may be left to GDI; then the compositor claims the *)
(* output, and every command goes through the queue.  What a command holds *)
(* is chosen when it is processed, since nothing looks at it before.       *)
(*                                                                         *)
(* A section under processingMutex_ is one action; the takeover, which     *)
(* calls out under it, is several, and keeps the others away (Unlocked).   *)
(***************************************************************************)
EXTENDS RenderOutputOwner, Sequences, Subsequences, Avc444Gpu

CONSTANTS
  CoalesceDepth,   \* kEndFrameCoalesceDepth
  MaxCommands,     \* bound on the commands of a session
  MaxSessions      \* bound on the sessions

ASSUME CompositorAssumption ==
  /\ CoalesceDepth \in Nat /\ MaxCommands \in Nat /\ MaxSessions \in Nat
  /\ 1 \in Frames

VARIABLES
  comp,      \* g_avc444GpuCompositorConfigured, enabled_ and outputActive_
  gpu,       \* impl_
  queue,     \* workerQueue_
  running,   \* workerRunning_
  handle,    \* worker_, 0 if not joinable
  workers,   \* the threads and the task each has taken
  channel,   \* the graphics channel's thread: the command or frame end at hand
  stream,    \* which decoder has the H.264 stream: gdi, gpu, or gdi after a gap
  shown,     \* the frame swapped to the window last, since impl_ was destroyed
  ui,        \* the ui thread in a surface callback
  session    \* the session thread

threadVars == <<queue, running, handle, workers>>
vars == <<outputVars, comp, gpu, threadVars, channel, stream, shown, ui, session>>

WorkerIds == 1 .. 2
NoTask == [type |-> "none", frame |-> 0, matched |-> FALSE]
Task(type, frame, matched) == [type |-> type, frame |-> frame, matched |-> matched]
Tasks == [type : {"none", "prewarm", "command", "endFrame"}, frame : Frames \cup {0},
          matched : BOOLEAN]
MaxQueue == 2 * MaxCommands + 2 * MaxTargets + 4

TypeOK ==
  /\ OutputTypeOK
  /\ comp \in [configured : BOOLEAN, enabled : BOOLEAN, active : BOOLEAN]
  /\ gpu \in Gpu(0 .. MaxTargets)
  /\ queue \in Seq(Tasks) /\ Len(queue) <= MaxQueue
  /\ running \in BOOLEAN /\ handle \in WorkerIds \cup {0}
  /\ workers \in [WorkerIds -> [pc : {"none", "waiting", "holds"}, task : Tasks]]
  /\ channel \in [pc : {"idle", "command", "sync", "stop", "release", "end"},
                  frame : Frames, used : BOOLEAN, active : BOOLEAN,
                  matched : BOOLEAN, commands : 0 .. MaxCommands]
  /\ stream \in {"gdi", "gpu", "gap"}
  /\ shown \in Frames \cup {0}
  /\ ui \in [pc : {"idle", "look", "push", "owner"}, gone : BOOLEAN]
  /\ session \in [pc : {"away", "owner", "stop", "join", "attach", "up", "detached"},
                  goal : {"attach", "detached", "away"}, enable : BOOLEAN,
                  join : WorkerIds \cup {0}, count : 0 .. MaxSessions]

Init ==
  /\ OutputInit
  /\ comp = [configured |-> FALSE, enabled |-> FALSE, active |-> FALSE]
  /\ gpu = NoGpu
  /\ queue = <<>> /\ running = FALSE /\ handle = 0
  /\ workers = [w \in WorkerIds |-> [pc |-> "none", task |-> NoTask]]
  /\ channel = [pc |-> "idle", frame |-> 1, used |-> FALSE, active |-> FALSE,
                matched |-> FALSE, commands |-> 0]
  /\ stream = "gdi" /\ shown = 0
  /\ ui = [pc |-> "idle", gone |-> FALSE]
  /\ session = [pc |-> "away", goal |-> "away", enable |-> FALSE, join |-> 0, count |-> 0]

\* Nobody holds processingMutex_ between two actions but a takeover.
Unlocked == channel.pc \notin {"stop", "release"}
-----------------------------------------------------------------------------
(* The queue and its worker.                                               *)

\* A thread's number is free when it has been joined.
EnsureWorkerLocked ==
  IF running THEN UNCHANGED <<running, handle, workers>>
  ELSE /\ running' = TRUE
       /\ \E w \in WorkerIds :
            /\ workers[w].pc = "none" /\ w # session.join
            /\ handle' = w
            /\ workers' = [workers EXCEPT ![w].pc = "waiting"]

\* Prewarm, EnqueueSurfaceCommand: a queue over kMaxWorkerTasks is only counted.
Enqueue(task) == EnsureWorkerLocked /\ queue' = Append(queue, task)

\* Mutant: a deep queue takes no end of a frame at all.
EnqueueEndFrameUnlessDeep(task) ==
  EnsureWorkerLocked /\ queue' = IF Len(queue) > CoalesceDepth THEN queue ELSE Append(queue, task)

\* EnqueueEndFrame: in a deep queue this end of a frame replaces all the others.
EnqueueEndFrame(task) ==
  LET kept == IF Len(queue) > CoalesceDepth
              THEN ElementsAt(queue, {i \in DOMAIN queue : queue[i].type # "endFrame"})
              ELSE queue
  IN  EnsureWorkerLocked /\ queue' = Append(kept, task)

\* The part of StopWorker under workerMutex_; the thread moved out is joined.
StopWorker ==
  /\ running' = FALSE /\ queue' = <<>> /\ handle' = 0
  /\ UNCHANGED workers

WorkerTakes(w) ==
  /\ workers[w].pc = "waiting"
  /\ queue # <<>>
  /\ workers' = [workers EXCEPT ![w] = [pc |-> "holds", task |-> Head(queue)]]
  /\ queue' = Tail(queue)
  /\ UNCHANGED <<outputVars, comp, gpu, running, handle, channel, stream, shown, ui, session>>

WorkerLeaves(w) ==
  /\ workers[w].pc = "waiting"
  /\ ~running /\ queue = <<>>
  /\ workers' = [workers EXCEPT ![w].pc = "none"]
  /\ UNCHANGED <<outputVars, comp, gpu, queue, running, handle, channel, stream, shown, ui,
                 session>>

\* What became of a task.  What was queued was queued while active.
ProcessTask(task, active) ==
  CASE task.type = "prewarm" ->
         \E size \in Sizes : gpu' \in Prewarm(gpu, size) /\ UNCHANGED shown
    [] task.type = "command" ->
         /\ \E c \in CommandKinds : \E o \in ProcessCommand(gpu, c, task.frame, active) :
              gpu' = o.gpu
         /\ UNCHANGED shown
    [] task.type = "endFrame" ->
         \E p \in PresentEndFrame(gpu, task.frame, task.matched, target.window) :
           /\ gpu' = p.gpu
           /\ shown' = IF p.shown = 0 THEN shown ELSE p.shown

\* Mutant: enabled_ is not looked at again under processingMutex_.
ProcessWorkerTaskUnchecked(w) ==
  /\ workers[w].pc = "holds" /\ Unlocked
  /\ LET task == workers[w].task
         active == comp.active \/ task.type # "prewarm"
     IN  ProcessTask(task, active) /\ comp' = [comp EXCEPT !.active = active]
  /\ workers' = [workers EXCEPT ![w] = [pc |-> "waiting", task |-> NoTask]]
  /\ UNCHANGED <<outputVars, queue, running, handle, channel, stream, ui, session>>

ProcessWorkerTask(w) ==
  /\ workers[w].pc = "holds" /\ Unlocked
  /\ LET task == workers[w].task
         active == comp.active \/ task.type # "prewarm"
     IN  IF comp.enabled
         THEN ProcessTask(task, active) /\ comp' = [comp EXCEPT !.active = active]
         ELSE UNCHANGED <<gpu, comp, shown>>
  /\ workers' = [workers EXCEPT ![w] = [pc |-> "waiting", task |-> NoTask]]
  /\ UNCHANGED <<outputVars, queue, running, handle, channel, stream, ui, session>>
-----------------------------------------------------------------------------
(* The graphics channel.                                                   *)

ChannelIdle == session.pc = "up" /\ channel.pc = "idle"

\* The callback answers: the command is left to FreeRDP's own decoder, or not.
LeftToGdi(valid) ==
  /\ stream' = IF stream = "gpu" /\ valid THEN "gap" ELSE stream
  /\ channel' = [channel EXCEPT !.pc = "idle", !.active = FALSE]
Suppressed(pc) ==
  /\ stream' = IF stream = "gap" THEN "gap" ELSE "gpu"
  /\ channel' = [channel EXCEPT !.pc = pc, !.active = FALSE]

\* OnSurfaceCommand up to the look at outputActive_.  The bridge calls it only if
\* the compositor was configured when it was attached.
OnSurfaceCommand ==
  /\ ChannelIdle /\ comp.enabled /\ channel.commands < MaxCommands
  /\ channel' = [channel EXCEPT !.pc = "command", !.commands = @ + 1, !.used = TRUE,
                   !.active = comp.active]
  /\ UNCHANGED <<outputVars, comp, gpu, threadVars, stream, shown, ui, session>>

\* An LC that is none: FreeRDP has to say so.
RejectInvalidLc ==
  /\ channel.pc = "command"
  /\ LeftToGdi(FALSE)
  /\ UNCHANGED <<outputVars, comp, gpu, threadVars, shown, ui, session>>

EnqueueSurfaceCommand ==
  /\ channel.pc = "command" /\ channel.active
  /\ Enqueue(Task("command", channel.frame, FALSE))
  /\ Suppressed("idle")
  /\ UNCHANGED <<outputVars, comp, gpu, shown, ui, session>>

\* Not active, or no memory for a copy of the streams.
CannotEnqueue ==
  /\ channel.pc = "command"
  /\ channel' = [channel EXCEPT !.pc = "sync", !.active = FALSE]
  /\ UNCHANGED <<outputVars, comp, gpu, threadVars, stream, shown, ui, session>>

\* The command is processed at once; outputActive_ is read again.  A complete
\* picture makes the GPU the owner of the output.
ProcessSurfaceCommand ==
  /\ channel.pc = "sync"
  /\ \E c \in CommandKinds : \E o \in ProcessCommand(gpu, c, channel.frame, comp.active) :
       /\ gpu' = o.gpu
       /\ IF o.answer = "gdi"
          THEN LeftToGdi(c.rects # "bad") /\ UNCHANGED owner
          ELSE IF comp.active THEN Suppressed("idle") /\ UNCHANGED owner
          ELSE /\ TransitionRenderOutputOwner("avc444")
               /\ Suppressed(IF owner = "avc444" THEN "release" ELSE "stop")
  /\ UNCHANGED <<gdi, target, comp, threadVars, shown, ui, session>>

TakeoverStopsPipeline ==
  /\ channel.pc = "stop"
  /\ StopRenderPipeline
  /\ channel' = [channel EXCEPT !.pc = "release"]
  /\ UNCHANGED <<owner, target, comp, gpu, threadVars, stream, shown, ui, session>>

TakeoverReleasesTarget ==
  /\ channel.pc = "release"
  /\ ReleaseSurfaceRenderTarget
  /\ comp' = [comp EXCEPT !.active = TRUE]
  /\ channel' = [channel EXCEPT !.pc = "idle"]
  /\ UNCHANGED <<owner, target, gpu, threadVars, stream, shown, ui, session>>

\* OnEndFrame up to the look at outputActive_.
OnEndFrame ==
  /\ ChannelIdle /\ comp.enabled /\ channel.used
  /\ \E matched \in BOOLEAN :
       channel' = [channel EXCEPT !.pc = "end", !.active = comp.active, !.matched = matched]
  /\ UNCHANGED <<outputVars, comp, gpu, threadVars, stream, shown, ui, session>>

NextFrame == IF channel.frame + 1 \in Frames THEN channel.frame + 1 ELSE channel.frame
EndOfFrame ==
  channel' = [channel EXCEPT !.pc = "idle", !.used = FALSE, !.frame = NextFrame,
                !.active = FALSE, !.matched = FALSE]

QueueEndFrame ==
  /\ channel.pc = "end" /\ channel.active
  /\ EnqueueEndFrame(Task("endFrame", channel.frame, channel.matched))
  /\ EndOfFrame
  /\ UNCHANGED <<outputVars, comp, gpu, stream, shown, ui, session>>

ProcessEndFrame ==
  /\ channel.pc = "end" /\ ~channel.active
  /\ \E p \in PresentEndFrame(gpu, channel.frame, channel.matched, target.window) :
       /\ gpu' = p.gpu
       /\ shown' = IF p.shown = 0 THEN shown ELSE p.shown
  /\ EndOfFrame
  /\ UNCHANGED <<outputVars, comp, threadVars, stream, ui, session>>

\* HarmonyDesktopResize, at the end of it.
DesktopResize ==
  /\ ChannelIdle
  /\ StartRenderPipeline
  /\ UNCHANGED <<owner, target, comp, gpu, threadVars, channel, stream, shown, ui, session>>
-----------------------------------------------------------------------------
(* The ui thread.                                                          *)

OnXComponentSurfaceAvailable ==
  /\ ui.pc = "idle"
  /\ SurfaceAvailable
  /\ ui' = [pc |-> "look", gone |-> FALSE]
  /\ UNCHANGED <<owner, comp, gpu, threadVars, channel, stream, shown, session>>

OnXComponentSurfaceDestroyed ==
  /\ ui.pc = "idle"
  /\ SurfaceGone
  /\ ui' = [pc |-> "look", gone |-> TRUE]
  /\ UNCHANGED <<owner, comp, gpu, threadVars, channel, stream, shown, session>>

AfterPrewarm == [pc |-> IF ui.gone THEN "owner" ELSE "idle", gone |-> FALSE]

\* UpdateRdpgfxSurfaceTargetIfReady: Prewarm looks at enabled_ and then queues.
PrewarmIfReady ==
  /\ ui.pc = "look"
  /\ ui' = IF comp.configured /\ comp.enabled THEN [ui EXCEPT !.pc = "push"] ELSE AfterPrewarm
  /\ UNCHANGED <<outputVars, comp, gpu, threadVars, channel, stream, shown, session>>

QueuePrewarm ==
  /\ ui.pc = "push"
  /\ Enqueue(Task("prewarm", 0, FALSE))
  /\ ui' = AfterPrewarm
  /\ UNCHANGED <<outputVars, comp, gpu, channel, stream, shown, session>>

\* A surface that went gives the output back to GDI; nobody tells this compositor.
SurfaceDestroyedResetsOwner ==
  /\ ui.pc = "owner"
  /\ TransitionRenderOutputOwner("gdi")
  /\ ui' = [ui EXCEPT !.pc = "idle"]
  /\ UNCHANGED <<gdi, target, comp, gpu, threadVars, channel, stream, shown, session>>
-----------------------------------------------------------------------------
(* The session thread.                                                     *)

\* ConfigureGraphicsPipelineChannel.
ConfigureGraphicsPipelineChannel ==
  /\ session.pc = "away" /\ session.count < MaxSessions
  /\ \E enable \in BOOLEAN :
       /\ session' = [session EXCEPT !.pc = "stop", !.goal = "attach", !.enable = enable,
                        !.count = @ + 1]
       /\ comp' = [comp EXCEPT !.configured = enable]
  /\ UNCHANGED <<outputVars, gpu, threadVars, channel, stream, shown, ui>>

\* RestoreRdpgfxDiagnosticsHooks, when the channel goes, and ResetAvcSurfaceOutput,
\* when the session ends.
RestoreHooks ==
  /\ ChannelIdle
  /\ session' = [session EXCEPT !.pc = "owner", !.goal = "detached", !.enable = FALSE]
  /\ UNCHANGED <<outputVars, comp, gpu, threadVars, channel, stream, shown, ui>>

ResetAvcSurfaceOutput ==
  /\ session.pc = "detached"
  /\ session' = [session EXCEPT !.pc = "owner", !.goal = "away"]
  /\ comp' = [comp EXCEPT !.configured = FALSE]
  /\ UNCHANGED <<outputVars, gpu, threadVars, channel, stream, shown, ui>>

\* ResetAvcGpuOutputOwner: the look and the exchange are two steps, and the
\* exchange is left out for an owner that is GDI already.
LookAtOwner ==
  /\ session.pc = "owner" /\ owner = "gdi"
  /\ session' = [session EXCEPT !.pc = "stop"]
  /\ UNCHANGED <<outputVars, comp, gpu, threadVars, channel, stream, shown, ui>>

ResetAvcGpuOutputOwner ==
  /\ session.pc = "owner" /\ owner # "gdi"
  /\ TransitionRenderOutputOwner("gdi")
  /\ session' = [session EXCEPT !.pc = "stop"]
  /\ UNCHANGED <<gdi, target, comp, gpu, threadVars, channel, stream, shown, ui>>

\* Configure: StopWorker,
ConfigureStopsWorker ==
  /\ session.pc = "stop"
  /\ StopWorker
  /\ session' = [session EXCEPT !.pc = "join", !.join = handle]
  /\ UNCHANGED <<outputVars, comp, gpu, channel, stream, shown, ui>>

\* and, when the old thread has left, a clean state under processingMutex_.
Configure ==
  /\ session.pc = "join"
  /\ session.join # 0 => workers[session.join].pc = "none"
  /\ gpu' = Destroy /\ shown' = 0
  /\ TransitionRenderOutputOwner("gdi")
  /\ comp' = [comp EXCEPT !.enabled = session.enable, !.active = FALSE]
  /\ session' = [session EXCEPT !.pc = session.goal, !.join = 0]
  /\ UNCHANGED <<gdi, target, threadVars, channel, stream, ui>>

\* The channel is attached: InstallRdpgfxDiagnosticsHooks prewarms, FreeRDP's own
\* decoder is a new one and HarmonyPostConnect has started the pipeline.
InstallHooks ==
  /\ session.pc = "attach"
  /\ IF comp.configured /\ comp.enabled THEN Enqueue(Task("prewarm", 0, FALSE))
     ELSE UNCHANGED threadVars
  /\ StartRenderPipeline
  /\ stream' = "gdi"
  /\ channel' = [channel EXCEPT !.commands = 0, !.frame = 1, !.used = FALSE]
  /\ session' = [session EXCEPT !.pc = "up"]
  /\ UNCHANGED <<owner, target, comp, gpu, shown, ui>>
-----------------------------------------------------------------------------
ChannelNext ==
  \/ OnSurfaceCommand \/ RejectInvalidLc \/ EnqueueSurfaceCommand \/ CannotEnqueue
  \/ ProcessSurfaceCommand \/ TakeoverStopsPipeline \/ TakeoverReleasesTarget
  \/ OnEndFrame \/ QueueEndFrame \/ ProcessEndFrame \/ DesktopResize
WorkerNext == \E w \in WorkerIds : WorkerTakes(w) \/ WorkerLeaves(w) \/ ProcessWorkerTask(w)
UiNext ==
  \/ OnXComponentSurfaceAvailable \/ OnXComponentSurfaceDestroyed \/ PrewarmIfReady
  \/ QueuePrewarm \/ SurfaceDestroyedResetsOwner
SessionNext ==
  \/ ConfigureGraphicsPipelineChannel \/ RestoreHooks \/ ResetAvcSurfaceOutput
  \/ LookAtOwner \/ ResetAvcGpuOutputOwner \/ ConfigureStopsWorker \/ Configure
  \/ InstallHooks

Next == ChannelNext \/ WorkerNext \/ UiNext \/ SessionNext

Spec == Init /\ [][Next]_vars
-----------------------------------------------------------------------------
(* Properties.                                                             *)

\* Once the GPU has taken a command of the H.264 stream, FreeRDP's decoder, which
\* has missed it, is never given a valid one again in this session: not when a
\* decode or a present fails, when memory for a copy runs out, nor when the window
\* goes and the output is back with GDI.
GdiNeverResumesMidStream == stream # "gap"

\* When all that was queued has been processed and no command has come since the
\* end of its frame, nothing waits for an end of a frame any more: dropping the
\* queued frame ends in a deep queue never strands the last picture.
WorkersAtRest == queue = <<>> /\ \A w \in WorkerIds : workers[w].pc # "holds"
NoUpdateLeftPending ==
  session.pc = "up" /\ WorkersAtRest /\ channel.pc = "idle" /\ ~channel.used
    => gpu.pending = 0

\* After a reset the compositor is quiet until it is configured again, although a
\* prewarm of the ui thread may have been queued, and a worker begun, after the
\* worker was stopped: no GPU state comes back, nothing is presented, and the output
\* stays with GDI.
QuietAfterReset ==
  session.pc \in {"detached", "away"} =>
    gpu = NoGpu /\ shown = 0 /\ ~comp.active /\ owner = "gdi"
=============================================================================
