------------------------ MODULE Avc420GpuCompositor ------------------------
(***************************************************************************)
(* The AVC420 GPU compositor (surface/avc420_gpu_compositor) between the   *)
(* threads that use it:                                                    *)
(*   - FreeRDP's graphics channel delivers commands and frame ends, the    *)
(*     policy of FreeRDP, GDI's frames and the resizes of the desktop      *)
(*     (channel);                                                          *)
(*   - the compositor's worker processes what was queued, and gives the    *)
(*     output back to GDI when a command cannot be processed (workers);    *)
(*   - the ui thread tells that the window came, changed or went (ui);     *)
(*   - the session thread configures and resets the compositor (session).  *)
(*                                                                         *)
(* A command that changes a part of the desktop may be composed only onto  *)
(* a background that is known: a command or a GDI frame that covered it    *)
(* all (comp.seed is the size of it).  A section under processingMutex_ is *)
(* one action; the takeover, which calls out under it, is several, and     *)
(* keeps the others away (Unlocked).                                       *)
(***************************************************************************)
EXTENDS RenderOutputOwner, Sequences, Subsequences, Avc420Gpu, TLC

CONSTANTS
  CoalesceDepth,   \* kEndFrameCoalesceDepth
  MaxTasks,        \* kMaxWorkerTasks
  MaxEvents,       \* bound on what the server sends in a session, but for ends of frames
  MaxSessions      \* bound on the sessions

ASSUME CompositorAssumption ==
  /\ CoalesceDepth \in Nat \ {0} /\ MaxTasks \in Nat \ {0}
  /\ MaxEvents \in Nat /\ MaxSessions \in Nat /\ 1 \in Frames

VARIABLES
  comp,      \* enabled_, outputActive_, outputState_ and backgroundSeed*_
  gpu,       \* impl_
  queue,     \* workerQueue_
  running,   \* workerRunning_
  handle,    \* worker_, 0 if not joinable
  workers,   \* the threads and the task each has taken
  channel,   \* the graphics channel's thread: the command or frame end at hand
  shown,     \* the composite swapped to the window last, since impl_ was destroyed
  ui,        \* the ui thread in a surface callback
  session,   \* the session thread
  hist       \* what has gone wrong since the output was claimed (see Properties)

threadVars == <<queue, running, handle, workers>>
vars == <<outputVars, comp, gpu, threadVars, channel, shown, ui, session, hist>>

WorkerIds == 1 .. 2
Commands == [full : BOOLEAN, size : Sizes]
NoCommand == [full |-> FALSE, size |-> 0]
PrewarmTask == [type |-> "prewarm", frame |-> 0, matched |-> FALSE, command |-> NoCommand]
CommandTask(c, frame) == [PrewarmTask EXCEPT !.type = "command", !.frame = frame, !.command = c]
EndFrameTask(frame, matched) ==
  [PrewarmTask EXCEPT !.type = "endFrame", !.frame = frame, !.matched = matched]
NoTask == [PrewarmTask EXCEPT !.type = "none"]
Tasks == [type : {"none", "prewarm", "command", "endFrame"}, frame : Frames \cup {0},
          matched : BOOLEAN, command : Commands \cup {NoCommand}]

NoHist == [revived |-> FALSE, mistaken |-> FALSE, stolen |-> FALSE]

\* A compositor that is off has nothing, and an output that is active has a state.
TypeOK ==
  /\ OutputTypeOK
  /\ comp \in [enabled : BOOLEAN, active : BOOLEAN, seed : Sizes \cup {0},
               state : {"detached", "active", "targetPaused", "failed"}]
  /\ comp.active => comp.enabled /\ comp.state \in {"active", "targetPaused"}
  /\ gpu \in Gpu(0 .. MaxTargets)
  /\ queue \in Seq(Tasks) /\ Len(queue) <= MaxTasks
  /\ running \in BOOLEAN /\ handle \in WorkerIds \cup {0}
  /\ workers \in [WorkerIds -> [pc : {"none", "waiting", "holds", "clear", "start"},
                                task : Tasks]]
  /\ channel \in [pc : {"idle", "command", "paused", "detach", "sync", "stop", "release",
                        "start", "end", "syncEnd", "resize"},
                  command : Commands \cup {NoCommand}, frame : Frames, used : BOOLEAN,
                  active : BOOLEAN, matched : BOOLEAN, events : 0 .. MaxEvents]
  /\ shown \in {"no", "holes", "whole"}
  /\ ui \in [pc : {"idle", "prewarm", "target", "start", "owner"}, gone : BOOLEAN]
  /\ session \in [pc : {"away", "stop", "join", "attach", "up", "down"},
                  goal : {"attach", "down"}, join : WorkerIds \cup {0},
                  count : 0 .. MaxSessions]
  /\ hist \in [revived : BOOLEAN, mistaken : BOOLEAN, stolen : BOOLEAN]

Init ==
  /\ OutputInit
  /\ comp = [enabled |-> FALSE, active |-> FALSE, seed |-> 0, state |-> "detached"]
  /\ gpu = NoGpu /\ shown = "no" /\ hist = NoHist
  /\ queue = <<>> /\ running = FALSE /\ handle = 0
  /\ workers = [w \in WorkerIds |-> [pc |-> "none", task |-> NoTask]]
  /\ channel = [pc |-> "idle", command |-> NoCommand, frame |-> 1, used |-> FALSE,
                active |-> FALSE, matched |-> FALSE, events |-> 0]
  /\ ui = [pc |-> "idle", gone |-> FALSE]
  /\ session = [pc |-> "away", goal |-> "down", join |-> 0, count |-> 0]

\* Nobody holds processingMutex_ between two actions but a takeover.
Unlocked == channel.pc \notin {"stop", "release"}

\* Sizes are only compared.
SizeSymmetry == Permutations(Sizes)
-----------------------------------------------------------------------------
(* The queue and its worker.                                               *)

\* A thread's number is free when it has been joined.
EnsureWorkerLocked ==
  IF running THEN UNCHANGED <<running, handle, workers>>
  ELSE /\ running' = TRUE
       /\ \E w \in WorkerIds :
            /\ workers[w].pc = "none" /\ w # session.join
            /\ handle' = w
            /\ workers' = [workers EXCEPT ![w].pc = "waiting"]

\* Commands stay; of the ends of frames only the last matched one does, or else the
\* last one.
CompactWorkerBacklog(q) ==
  LET Ends == {i \in DOMAIN q : q[i].type = "endFrame"}
      Matched == {i \in Ends : q[i].matched}
      Last(S) == {i \in S : \A j \in S : j <= i}
      kept == Last(IF Matched = {} THEN Ends ELSE Matched)
  IN  ElementsAt(q, kept \cup {i \in DOMAIN q : q[i].type = "command"})

\* The queue that a new command or end of a frame finds.
Backlog == IF Len(queue) >= CoalesceDepth THEN CompactWorkerBacklog(queue) ELSE queue

Enqueue(task) ==
  /\ Len(Backlog) < MaxTasks
  /\ EnsureWorkerLocked
  /\ queue' = Append(Backlog, task)

\* No place in the queue, which has been compacted, or no memory for a copy.
CannotEnqueue ==
  IF Len(Backlog) >= MaxTasks THEN EnsureWorkerLocked /\ queue' = Backlog
  ELSE UNCHANGED threadVars

\* Prewarm: a full queue is left as it is.
EnqueuePrewarm ==
  /\ EnsureWorkerLocked
  /\ queue' = IF Len(queue) < MaxTasks THEN Append(queue, PrewarmTask) ELSE queue

\* The part of StopWorker under workerMutex_; the thread moved out is joined.
StopWorker ==
  /\ running' = FALSE /\ queue' = <<>> /\ handle' = 0
  /\ UNCHANGED workers

WorkerTakes(w) ==
  /\ workers[w].pc = "waiting"
  /\ queue # <<>>
  /\ workers' = [workers EXCEPT ![w] = [pc |-> "holds", task |-> Head(queue)]]
  /\ queue' = Tail(queue)
  /\ UNCHANGED <<outputVars, comp, gpu, running, handle, channel, shown, ui, session, hist>>

WorkerLeaves(w) ==
  /\ workers[w].pc = "waiting"
  /\ ~running /\ queue = <<>>
  /\ workers' = [workers EXCEPT ![w].pc = "none"]
  /\ UNCHANGED <<outputVars, comp, gpu, queue, running, handle, channel, shown, ui, session,
                 hist>>
-----------------------------------------------------------------------------
(* What several threads do under processingMutex_.                         *)

ShownNow(picture) == shown' = IF picture = "no" THEN shown ELSE picture

\* DetachOutputActive with the queue cleared, of an output that is active.
DetachOutputActive ==
  /\ comp' = [comp EXCEPT !.active = FALSE, !.state = "detached", !.seed = 0]
  /\ gpu' = Destroy /\ shown' = "no"
  /\ TransitionRenderOutputOwner("gdi")
  /\ queue' = <<>>

\* PauseOutputForTargetUnavailable.
PauseOutput ==
  IF comp.active
  THEN /\ comp' = [comp EXCEPT !.state = "targetPaused"]
       /\ \E t \in OnSurfaceTargetChanged(gpu, target.window, TRUE) :
            gpu' = t.gpu /\ ShownNow(t.shown)
  ELSE UNCHANGED <<comp, gpu, shown>>

\* A mutant: an output that goes on is still called paused.
RetargetOutputPaused ==
  IF comp.active /\ target.window = 0 THEN PauseOutput
  ELSE /\ \E t \in OnSurfaceTargetChanged(gpu, target.window, comp.active) :
            gpu' = t.gpu /\ ShownNow(t.shown)
       /\ UNCHANGED comp

\* OnSurfaceTargetChanged that does not detach.
RetargetOutput ==
  IF comp.active /\ target.window = 0 THEN PauseOutput
  ELSE /\ \E t \in OnSurfaceTargetChanged(gpu, target.window, comp.active) :
            gpu' = t.gpu /\ ShownNow(t.shown)
       /\ comp' = [comp EXCEPT !.state = IF comp.active THEN "active" ELSE @]

\* ProcessWorkerTask.  What was queued was queued for an active output, and makes the
\* output active.
ProcessPrewarm(w) ==
  /\ \E size \in Sizes : gpu' \in Prewarm(gpu, size)
  /\ comp' = [comp EXCEPT !.state = IF comp.active THEN @ ELSE "detached"]
  /\ workers' = [workers EXCEPT ![w] = [pc |-> "waiting", task |-> NoTask]]
  /\ UNCHANGED <<owner, shown, hist>>

\* outputActive_ || task.outputActive
Reactivated ==
  [comp EXCEPT !.active = TRUE,
               !.state = IF @ = "targetPaused" THEN @ ELSE "active"]

\* An output that is made active without a claim.  A background that is still recorded
\* was that of a claim that failed, or has gone with the release.
HistWhenActive ==
  [hist EXCEPT !.revived = @ \/ ~comp.active,
               !.mistaken = @ \/ (~comp.active /\ comp.seed # 0)]

ProcessQueuedCommand(w) ==
  LET task == workers[w].task
      c == task.command
  IN  \E o \in ProcessCommand(gpu, c, task.frame, TRUE) :
        IF o.answer = "released"
        THEN /\ gpu' = Destroy /\ shown' = "no"
             /\ TransitionRenderOutputOwner("gdi")
             /\ comp' = [comp EXCEPT !.active = FALSE, !.state = "failed"]
             /\ workers' = [workers EXCEPT ![w] = [pc |-> "clear", task |-> NoTask]]
             /\ UNCHANGED hist
        ELSE /\ gpu' = o.gpu
             /\ comp' = [Reactivated EXCEPT !.seed = IF c.full THEN c.size ELSE @]
             /\ hist' = [hist EXCEPT !.revived = @ \/ ~comp.active,
                                     !.mistaken = @ \/ IF c.full THEN o.gpu.pending = 0
                                                  ELSE ~comp.active \/ c.size # comp.seed]
             /\ workers' = [workers EXCEPT ![w] = [pc |-> "waiting", task |-> NoTask]]
             /\ UNCHANGED <<owner, shown>>

\* The pause is for an output that was active before the task.
ProcessQueuedEndFrame(w) ==
  LET task == workers[w].task
      paused == target.window = 0 /\ comp.active
      Presented == PresentEndFrame(gpu, task.frame, task.matched, target.window, TRUE)
      Paused == OnSurfaceTargetChanged(gpu, 0, TRUE)
      Nothing == {Shown(gpu, "no")}
      outcomes == IF paused THEN Paused ELSE IF target.window = 0 THEN Nothing ELSE Presented
  IN  /\ \E p \in outcomes : gpu' = p.gpu /\ ShownNow(p.shown)
      /\ comp' = [Reactivated EXCEPT !.state = IF paused THEN "targetPaused" ELSE @]
      /\ hist' = HistWhenActive
      /\ workers' = [workers EXCEPT ![w] = [pc |-> "waiting", task |-> NoTask]]
      /\ UNCHANGED owner

ProcessWorkerTask(w) ==
  /\ workers[w].pc = "holds" /\ Unlocked
  /\ CASE ~comp.enabled ->
            /\ workers' = [workers EXCEPT ![w] = [pc |-> "waiting", task |-> NoTask]]
            /\ UNCHANGED <<owner, comp, gpu, shown, hist>>
       [] comp.enabled /\ workers[w].task.type = "prewarm" -> ProcessPrewarm(w)
       [] comp.enabled /\ workers[w].task.type = "command" -> ProcessQueuedCommand(w)
       [] comp.enabled /\ workers[w].task.type = "endFrame" -> ProcessQueuedEndFrame(w)
  /\ UNCHANGED <<gdi, target, queue, running, handle, channel, ui, session>>

\* After the output was released and processingMutex_ unlocked.
ClearStaleWork(w) ==
  /\ workers[w].pc = "clear"
  /\ queue' = <<>>
  /\ workers' = [workers EXCEPT ![w].pc = "start"]
  /\ UNCHANGED <<outputVars, comp, gpu, running, handle, channel, shown, ui, session, hist>>

\* A mutant: the pipeline is left to whoever paints next.
RestartPipelineNever(w) ==
  /\ workers[w].pc = "start"
  /\ workers' = [workers EXCEPT ![w].pc = "waiting"]
  /\ UNCHANGED <<outputVars, comp, gpu, queue, running, handle, channel, shown, ui, session,
                 hist>>

RestartPipeline(w) ==
  /\ workers[w].pc = "start"
  /\ StartRenderPipeline
  /\ workers' = [workers EXCEPT ![w].pc = "waiting"]
  /\ UNCHANGED <<owner, target, comp, gpu, queue, running, handle, channel, shown, ui, session,
                 hist>>
-----------------------------------------------------------------------------
(* The graphics channel.                                                   *)

ChannelIdle == session.pc = "up" /\ channel.pc = "idle"
MoreEvents == channel.events < MaxEvents
Event == [channel EXCEPT !.events = @ + 1]
Returned ==
  [channel EXCEPT !.pc = "idle", !.command = NoCommand, !.active = FALSE, !.matched = FALSE]

\* OnSurfaceCommand up to the look at outputActive_: a part of a desktop of another
\* size than the background makes the background worthless.
OnSurfaceCommand ==
  /\ ChannelIdle /\ MoreEvents
  /\ \E c \in Commands :
       /\ comp' = [comp EXCEPT !.seed = IF c.full \/ @ = c.size THEN @ ELSE 0]
       /\ channel' = [channel EXCEPT !.pc = "command", !.command = c, !.used = TRUE,
                        !.active = comp.active, !.events = @ + 1]
  /\ UNCHANGED <<outputVars, gpu, threadVars, shown, ui, session, hist>>

\* Without a target an active output pauses, and goes on to queue the command; else
\* the command is left to GDI.
CommandWithoutTarget ==
  /\ channel.pc = "command" /\ target.window = 0
  /\ PauseOutput
  /\ channel' = IF comp.active THEN [channel EXCEPT !.pc = "paused", !.active = TRUE]
                ELSE Returned
  /\ UNCHANGED <<outputVars, threadVars, ui, session, hist>>

Deciding == (channel.pc = "command" /\ target.window # 0) \/ channel.pc = "paused"
BackgroundReady == channel.command.full \/ comp.seed = channel.command.size

WaitForBackground ==
  /\ Deciding /\ channel.active /\ ~BackgroundReady
  /\ channel' = [channel EXCEPT !.pc = "detach"]
  /\ UNCHANGED <<outputVars, comp, gpu, threadVars, shown, ui, session, hist>>

\* outputActive_ is read again.
DetachForBackground ==
  /\ channel.pc = "detach"
  /\ IF comp.active
     THEN /\ DetachOutputActive
          /\ channel' = [channel EXCEPT !.pc = "start"]
     ELSE /\ channel' = Returned
          /\ UNCHANGED <<owner, comp, gpu, shown, queue>>
  /\ UNCHANGED <<gdi, target, running, handle, workers, ui, session, hist>>

StartAfterDetach ==
  /\ channel.pc = "start"
  /\ StartRenderPipeline
  /\ channel' = Returned
  /\ UNCHANGED <<owner, target, comp, gpu, threadVars, shown, ui, session, hist>>

EnqueueSurfaceCommand ==
  /\ Deciding /\ channel.active /\ BackgroundReady
  /\ Enqueue(CommandTask(channel.command, channel.frame))
  /\ channel' = Returned
  /\ UNCHANGED <<outputVars, comp, gpu, shown, ui, session, hist>>

CannotEnqueueCommand ==
  /\ Deciding
  /\ channel.active => BackgroundReady
  /\ IF channel.active THEN CannotEnqueue ELSE UNCHANGED threadVars
  /\ channel' = [channel EXCEPT !.pc = "sync", !.active = FALSE]
  /\ UNCHANGED <<outputVars, comp, gpu, shown, ui, session, hist>>

\* A mutant: a background that is recorded is trusted.
SeedBackgroundUnlessRecorded(c) ==
  IF c.full \/ comp.seed = c.size THEN {Result(gpu, TRUE)}
  ELSE {Result(gpu, FALSE)} \cup ProcessGdiFrame(gpu, c.size, TRUE)

\* SeedBackgroundBeforeTakeover: a command that covers everything is a background;
\* else GDI's last whole frame is, if there is one of the right size.
SeedBackground(c) ==
  IF c.full THEN {Result(gpu, TRUE)}
  ELSE {Result(gpu, FALSE)} \cup ProcessGdiFrame(gpu, c.size, TRUE)

\* The command is processed at once; outputActive_ is read again.  What it does to the
\* background is not recorded.
ProcessWhileActive ==
  /\ channel.pc = "sync" /\ comp.active
  /\ \E o \in ProcessCommand(gpu, channel.command, channel.frame, TRUE) :
       /\ gpu' = o.gpu
       /\ hist' = [hist EXCEPT !.mistaken = @ \/ o.answer = "released" \/ channel.command.full
                                              \/ channel.command.size # comp.seed]
  /\ comp' = [comp EXCEPT !.state = "active"]
  /\ channel' = Returned
  /\ UNCHANGED <<outputVars, threadVars, shown, ui, session>>

WaitForSeed ==
  /\ channel.pc = "sync" /\ ~comp.active
  /\ \E s \in SeedBackground(channel.command) : ~s.ok /\ gpu' = s.gpu
  /\ channel' = Returned
  /\ UNCHANGED <<outputVars, comp, threadVars, shown, ui, session, hist>>

\* A command that is composed makes the GPU the owner of the output.
ProcessAndClaim ==
  /\ channel.pc = "sync" /\ ~comp.active
  /\ comp' = [comp EXCEPT !.seed = channel.command.size]
  /\ \E s \in {r \in SeedBackground(channel.command) : r.ok} :
       \E o \in ProcessCommand(s.gpu, channel.command, channel.frame, FALSE) :
         /\ gpu' = o.gpu
         /\ IF o.answer = "handled"
            THEN /\ TransitionRenderOutputOwner("avc420")
                 /\ hist' = NoHist
                 /\ channel' = [channel EXCEPT
                                  !.pc = IF owner = "avc420" THEN "release" ELSE "stop"]
            ELSE channel' = Returned /\ UNCHANGED <<owner, hist>>
  /\ UNCHANGED <<gdi, target, threadVars, shown, ui, session>>

TakeoverStopsPipeline ==
  /\ channel.pc = "stop"
  /\ StopRenderPipeline
  /\ channel' = [channel EXCEPT !.pc = "release"]
  /\ UNCHANGED <<owner, target, comp, gpu, threadVars, shown, ui, session, hist>>

TakeoverReleasesTarget ==
  /\ channel.pc = "release"
  /\ ReleaseSurfaceRenderTarget
  /\ comp' = [comp EXCEPT !.active = TRUE, !.state = "active"]
  /\ channel' = Returned
  /\ UNCHANGED <<owner, target, gpu, threadVars, shown, ui, session, hist>>

\* OnEndFrame up to the look at outputActive_.
OnEndFrame ==
  /\ ChannelIdle /\ channel.used
  /\ \E matched \in BOOLEAN :
       channel' = [channel EXCEPT !.pc = "end", !.active = comp.active, !.matched = matched]
  /\ UNCHANGED <<outputVars, comp, gpu, threadVars, shown, ui, session, hist>>

NextFrame == IF channel.frame + 1 \in Frames THEN channel.frame + 1 ELSE channel.frame
EndOfFrame == channel' = [Returned EXCEPT !.used = FALSE, !.frame = NextFrame]

EndFrameWithoutTarget ==
  /\ channel.pc = "end" /\ target.window = 0
  /\ PauseOutput
  /\ EndOfFrame
  /\ UNCHANGED <<outputVars, threadVars, ui, session, hist>>

EnqueueEndFrame ==
  /\ channel.pc = "end" /\ target.window # 0 /\ channel.active
  /\ Enqueue(EndFrameTask(channel.frame, channel.matched))
  /\ EndOfFrame
  /\ UNCHANGED <<outputVars, comp, gpu, shown, ui, session, hist>>

CannotEnqueueEndFrame ==
  /\ channel.pc = "end" /\ target.window # 0
  /\ channel.active => Len(Backlog) >= MaxTasks
  /\ IF channel.active THEN CannotEnqueue ELSE UNCHANGED threadVars
  /\ channel' = [channel EXCEPT !.pc = "syncEnd", !.active = FALSE]
  /\ UNCHANGED <<outputVars, comp, gpu, shown, ui, session, hist>>

ProcessEndFrame ==
  /\ channel.pc = "syncEnd"
  /\ \E p \in PresentEndFrame(gpu, channel.frame, channel.matched, target.window, comp.active) :
       gpu' = p.gpu /\ ShownNow(p.shown)
  /\ EndOfFrame
  /\ UNCHANGED <<outputVars, comp, threadVars, ui, session, hist>>

\* HarmonyEndPaint while AVC420 owns the output, and OnGdiFrame: GDI has painted a
\* part of the desktop (a cache, text), or all of it.
OnGdiFrame ==
  /\ ChannelIdle /\ MoreEvents /\ owner = "avc420" /\ comp.active
  /\ channel' = Event
  /\ \E size \in Sizes, full \in BOOLEAN :
       IF comp.seed # size /\ ~full
       THEN comp' = [comp EXCEPT !.seed = 0] /\ UNCHANGED <<gpu, shown, hist>>
       ELSE \E b \in ProcessGdiFrame(gpu, size, full) :
              IF b.ok
              THEN /\ \E p \in PresentGdiBackgroundNow(b.gpu, target.window, TRUE) :
                        gpu' = p.gpu /\ ShownNow(p.shown)
                   /\ comp' = [comp EXCEPT !.seed = size]
                   /\ UNCHANGED hist
              ELSE /\ gpu' = b.gpu
                   /\ hist' = [hist EXCEPT !.mistaken = @ \/ comp.seed # size]
                   /\ UNCHANGED <<comp, shown>>
  /\ UNCHANGED <<outputVars, threadVars, ui, session>>

\* FreeRDP takes the output away (a reset of its graphics).
SetOutputInactive ==
  /\ ChannelIdle /\ MoreEvents /\ comp.enabled
  /\ comp' = [comp EXCEPT !.active = FALSE, !.state = "detached", !.seed = 0]
  /\ gpu' = Destroy /\ shown' = "no"
  /\ TransitionRenderOutputOwner("gdi")
  /\ queue' = <<>>
  /\ channel' = [Event EXCEPT !.pc = IF owner = "avc420" THEN "start" ELSE @]
  /\ UNCHANGED <<gdi, target, running, handle, workers, ui, session, hist>>

\* FreeRDP says that the output is active.  That may be late: the worker or the ui thread
\* may have released it since the command that was handled.  Nobody claims it.
SetOutputActive ==
  /\ ChannelIdle /\ MoreEvents /\ comp.enabled
  /\ comp' = [comp EXCEPT !.active = TRUE, !.state = "active"]
  /\ hist' = HistWhenActive
  /\ channel' = Event
  /\ UNCHANGED <<outputVars, gpu, threadVars, shown, ui, session>>

\* HarmonyDesktopResize: gdi_resize may fail.
DesktopResize ==
  /\ ChannelIdle /\ MoreEvents
  /\ StopRenderPipeline
  /\ channel' = [Event EXCEPT !.pc = "resize"]
  /\ UNCHANGED <<owner, target, comp, gpu, threadVars, shown, ui, session, hist>>

DesktopResized ==
  /\ channel.pc = "resize"
  /\ IF owner = "avc420"
     THEN /\ RetargetOutput \/ UNCHANGED <<comp, gpu, shown>>
          /\ UNCHANGED gdi
     ELSE StartRenderPipeline /\ UNCHANGED <<comp, gpu, shown>>
  /\ channel' = Returned
  /\ UNCHANGED <<owner, target, threadVars, ui, session, hist>>
-----------------------------------------------------------------------------
(* The ui thread.                                                          *)

OnXComponentSurfaceAvailable ==
  /\ ui.pc = "idle"
  /\ SurfaceAvailable
  /\ ui' = [pc |-> "prewarm", gone |-> FALSE]
  /\ UNCHANGED <<owner, comp, gpu, threadVars, channel, shown, session, hist>>

OnXComponentSurfaceDestroyed ==
  /\ ui.pc = "idle"
  /\ SurfaceGone
  /\ ui' = [pc |-> "prewarm", gone |-> TRUE]
  /\ UNCHANGED <<owner, comp, gpu, threadVars, channel, shown, session, hist>>

\* UpdateRdpgfxSurfaceTargetIfReady.
PrewarmIfReady ==
  /\ ui.pc = "prewarm"
  /\ IF comp.enabled THEN EnqueuePrewarm ELSE UNCHANGED threadVars
  /\ ui' = [ui EXCEPT !.pc = "target"]
  /\ UNCHANGED <<outputVars, comp, gpu, channel, shown, session, hist>>

\* OnSurfaceTargetChanged: an active output whose surface was destroyed is detached.
TargetChanged ==
  /\ ui.pc = "target" /\ Unlocked
  /\ IF comp.enabled /\ comp.active /\ ui.gone
     THEN /\ DetachOutputActive
          /\ ui' = [ui EXCEPT !.pc = "start"]
     ELSE /\ IF comp.enabled THEN RetargetOutput ELSE UNCHANGED <<comp, gpu, shown>>
          /\ ui' = IF ui.gone THEN [ui EXCEPT !.pc = "owner"] ELSE [ui EXCEPT !.pc = "idle"]
          /\ UNCHANGED <<owner, queue>>
  /\ UNCHANGED <<gdi, target, running, handle, workers, channel, session, hist>>

StartAfterSurfaceDestroyed ==
  /\ ui.pc = "start"
  /\ StartRenderPipeline
  /\ ui' = [ui EXCEPT !.pc = "owner"]
  /\ UNCHANGED <<owner, target, comp, gpu, threadVars, channel, shown, session, hist>>

\* The output goes back to GDI in any case; an output that was claimed since the
\* target change is not told.
SurfaceDestroyedResetsOwner ==
  /\ ui.pc = "owner"
  /\ TransitionRenderOutputOwner("gdi")
  /\ hist' = [hist EXCEPT !.stolen = @ \/ owner = "avc420"]
  /\ ui' = [pc |-> "idle", gone |-> FALSE]
  /\ UNCHANGED <<gdi, target, comp, gpu, threadVars, channel, shown, session>>

\* The GDI pipeline paints a frame that was queued while GDI owned the output.
GdiPipelinePaints ==
  /\ owner = "gdi"
  /\ GdiPaints
  /\ UNCHANGED <<comp, gpu, threadVars, channel, shown, ui, session, hist>>
-----------------------------------------------------------------------------
(* The session thread.                                                     *)

ConfigureAvc420SurfaceOutput ==
  /\ session.pc = "away" /\ session.count < MaxSessions
  /\ session' = [session EXCEPT !.pc = "stop", !.goal = "attach", !.count = @ + 1]
  /\ UNCHANGED <<outputVars, comp, gpu, threadVars, channel, shown, ui, hist>>

\* RestoreRdpgfxDiagnosticsHooks, when the channel goes.
RestoreHooks ==
  /\ ChannelIdle
  /\ TransitionRenderOutputOwner("gdi")
  /\ session' = [session EXCEPT !.pc = "stop", !.goal = "down"]
  /\ UNCHANGED <<gdi, target, comp, gpu, threadVars, channel, shown, ui, hist>>

\* Configure: StopWorker,
ConfigureStopsWorker ==
  /\ session.pc = "stop"
  /\ StopWorker
  /\ session' = [session EXCEPT !.pc = "join", !.join = handle]
  /\ UNCHANGED <<outputVars, comp, gpu, channel, shown, ui, hist>>

\* and, when the old thread has left, a clean state under processingMutex_.
Configure ==
  /\ session.pc = "join"
  /\ session.join # 0 => workers[session.join].pc = "none"
  /\ gpu' = Destroy /\ shown' = "no" /\ hist' = NoHist
  /\ owner' = IF owner = "avc420" THEN "gdi" ELSE owner
  /\ comp' = [enabled |-> session.goal = "attach", active |-> FALSE, seed |-> 0,
              state |-> "detached"]
  /\ session' = [session EXCEPT !.pc = session.goal, !.join = 0]
  /\ UNCHANGED <<gdi, target, threadVars, channel, ui>>

\* The channel is attached and HarmonyPostConnect has started the pipeline.
InstallHooks ==
  /\ session.pc = "attach"
  /\ EnqueuePrewarm
  /\ StartRenderPipeline
  /\ channel' = [channel EXCEPT !.events = 0, !.frame = 1, !.used = FALSE]
  /\ session' = [session EXCEPT !.pc = "up"]
  /\ UNCHANGED <<owner, target, comp, gpu, shown, ui, hist>>

\* HarmonyPostDisconnect.
PostDisconnect ==
  /\ session.pc = "down"
  /\ StopRenderPipeline
  /\ session' = [session EXCEPT !.pc = "away"]
  /\ UNCHANGED <<owner, target, comp, gpu, threadVars, channel, shown, ui, hist>>
-----------------------------------------------------------------------------
ChannelNext ==
  \/ OnSurfaceCommand \/ CommandWithoutTarget \/ WaitForBackground \/ DetachForBackground
  \/ StartAfterDetach \/ EnqueueSurfaceCommand \/ CannotEnqueueCommand
  \/ ProcessWhileActive \/ WaitForSeed \/ ProcessAndClaim
  \/ TakeoverStopsPipeline \/ TakeoverReleasesTarget
  \/ OnEndFrame \/ EndFrameWithoutTarget \/ EnqueueEndFrame \/ CannotEnqueueEndFrame
  \/ ProcessEndFrame \/ OnGdiFrame \/ SetOutputInactive \/ SetOutputActive
  \/ DesktopResize \/ DesktopResized
WorkerNext ==
  \E w \in WorkerIds : \/ WorkerTakes(w) \/ WorkerLeaves(w) \/ ProcessWorkerTask(w)
                       \/ ClearStaleWork(w) \/ RestartPipeline(w)
UiNext ==
  \/ OnXComponentSurfaceAvailable \/ OnXComponentSurfaceDestroyed \/ PrewarmIfReady
  \/ TargetChanged \/ StartAfterSurfaceDestroyed \/ SurfaceDestroyedResetsOwner
SessionNext ==
  \/ ConfigureAvc420SurfaceOutput \/ RestoreHooks \/ ConfigureStopsWorker \/ Configure
  \/ InstallHooks \/ PostDisconnect

Next == ChannelNext \/ WorkerNext \/ UiNext \/ SessionNext \/ GdiPipelinePaints

Spec == Init /\ [][Next]_vars
-----------------------------------------------------------------------------
(* Properties.                                                             *)

\* The composite on the window has been painted everywhere: an update of a part is
\* composed onto a background that was a whole command or a whole GDI frame of this
\* size, through resizes, lost windows, releases and takeovers.  The exception: the
\* compositor is mistaken about its background.  A whole command or frame was given up
\* and not painted; a command that found the queue full was painted and not recorded;
\* the background changed its size while a partial command waited to be processed, or
\* the output was released; or an output that had been released became active again
\* with its background still recorded.
PresentsWholePicture == shown = "holes" => hist.mistaken

\* An output that has paused for want of a window goes on when the window is back.
PausedOnlyWithoutWindow ==
  comp.state = "targetPaused" /\ ui.pc = "idle" => target.window = 0

\* When the channel and the ui thread are at rest and the worker has done what follows
\* a release, either the compositor is active, owns the output and GDI's painter has let
\* go of the window, or GDI owns the output, its pipeline runs and the compositor is not
\* active: never nobody paints, and never both.  The exceptions are three races.  Both may
\* paint when an output that was released became active again without a claim, by stale
\* work of the queue or by a late word of FreeRDP (revived); GDI's pipeline runs even
\* then.  Nothing is said when the end of a surface has taken the owner away from an
\* output that was claimed since (stolen).
AtRest ==
  /\ session.pc = "up" /\ channel.pc = "idle" /\ ui.pc = "idle"
  /\ \A w \in WorkerIds : workers[w].pc \notin {"clear", "start"}
OutputHasOnePainter ==
  AtRest /\ ~hist.stolen =>
    \/ comp.active /\ owner = "avc420" /\ ~gdi.bound
    \/ owner = "gdi" /\ gdi.running /\ (comp.active => hist.revived)
=============================================================================
