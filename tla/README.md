# Verification of the HarmonyOS RDP client's bridge

The repository is a remote desktop client for HarmonyOS: in `src/harmony/app`, a native (C++)
bridge between FreeRDP, the system and the user interface in ArkTS. FreeRDP itself is not in
the repository; what the models need of it is taken from how the bridge uses it and marked
external in PROJECT.json. This directory holds TLA+ models of
the bridge's concurrent core, TLC runs that check them on small instances, and TLAPS proofs
of theorems about them for every value of their constants.

Paths are given relative to `src/harmony/app/common/src/main/cpp` unless they begin with
`docs/` or `ets/`.

## 1. The system

Threads: the **ui** thread (ArkTS, XComponent callbacks, N-API calls), the **session** worker
(FreeRDP: connect, pump, GDI paints), the **renderer** thread, the **GPU** workers of the AVC
paths, the **coalescer** and **coordinator** workers, and the system's **monitor** callbacks.
Shared objects are globals with one mutex each, mostly released around callbacks.

| Component | State | Operations | What is hard | What makes it correct |
|---|---|---|---|---|
| Resize coordinator `session/rdp_display_resize_coordinator` | state, target size, generation, deadline | Reset, ApplyResult, ShouldQueueFrame, IsFallbackGeneration, worker with timeout callback | a timeout races a frame, a new target, the destructor | no timeout ends another target's wait; every wait ends; the picture is repainted |
| Request coalescer `session/rdp_display_request_coalescer` | pending request, generation | Schedule, Flush, Cancel, worker | bursts, cancellation while the callback runs | last one wins, taken once, in order, after the quiet delay; none forgotten |
| Display settings `session/session_display_settings` | policy (follow or fixed), pending resize, status, generation | Reset, SetConnected, SetMultimon, Select, Begin, Result, Presented, InvalidatePresentation, Snapshot | results and frames that come late | only current events complete a resize; input is released; a fixed size belongs to one session |
| Display dispatch `napi/native_bridge_context` | dispatch lock, multimon flag | surface callbacks, toolbar, layout callback, session states | four threads and the three components above | requests follow the policy; the last one arrives; no deadlock |
| Session core, channels, runner `session/` | running, connected, active session, desired layout, dynamic channels | Connect, Disconnect, worker with graphics fallback retry, SetActive, ClearActive, attach and detach of channels | join on the ui thread, state read before it is used | no hang, no lost layout |
| Latest-frame renderer and GDI bridge `surface/latest_frame_renderer`, `freerdp/freerdp_gdi_bridge` | one frame (not copied), dirty area, worker | Start, Stop, Enqueue, DropPending, worker; EndPaint, DesktopResize, PostConnect, PostDisconnect | the frame's memory is FreeRDP's | no paint from memory that was freed or replaced; the last picture is painted |
| Output owner and RDPGFX pipeline `surface/render_output_owner`, `channels/rdpgfx_pipeline` | atomic owner, GDI pipeline, the window | exchanges of the owner, hooks, prewarm, reset | session, channel, worker and ui thread all change the owner | exactly one producer for the one native window |
| AVC444 compositor `surface/avc444_*` | queue and worker, two decoders, pending present, output active | commands, ends of frames, prewarm, configure, reset | the stream cannot be handed back once GDI has missed a part of it; stop and restart of the worker | GDI never resumes half-way; the last update is presented; reset is quiet |
| AVC420 compositor `surface/avc420_*` | the same, one decoder, a composite with a background, four output states | the same, GDI frames as background, policy, pause, detach, retarget | partial commands need a known background; release on the worker against claim on the channel | no holes on the window; no nobody, no two producers; pauses end |
| Input `session/rdp_session_input`, `input/` | event queue, gesture state, held buttons | Enqueue, Drain, Clear, touch, pen, mouse, key, IME | a gesture interrupted anywhere | what was pressed is released once; order is kept |
| Permission bridge `napi/permission_request_bridge`, `napi/napi_event_sink`, `ets/rdp/RdpPermission*` | pending request, answer, the page's open prompt | Request, CompleteFromUi, sink Set, Emit, Reset, ensurePermission | several waiting threads, late and shared answers, aborted calls, a join on the thread that answers | an answer goes to its own request; nobody waits for ever |
| UI session coordinator, remote control `ets/rdp` | session state, timers, in-flight operations | handleState, connect, retries | native events without a session number | the page shows the current session |
| Clipboard and location bridges, N-API exports, connection store, pages | thin adapters, presentation | | | |
| Local RDP server `src/harmony/app/entry/src/main/cpp/xrdp` | handle of the xrdp library | start, stop, configuration | the library is of another repository | |

Interactions: the ui thread reports the surface and the toolbar's choices to the dispatch;
the dispatch schedules in the coalescer, whose worker calls back into the dispatch, which
asks the session (Display Control) and tells coordinator and settings the result; the session
worker's frames go through the coordinator (`ShouldQueueFrame`) to the renderer, whose paint
is reported to the settings (`Presented`); the session worker's states reset all of them.

The `hazards` of PROJECT.json list, with source lines, what can go wrong and is hard to
test, and the property that would show it; those without a property name the planned module.

## 2. The modules

| Module | Code | Composes or implements |
|---|---|---|
| `DisplayResizeCoordinator` | `session/rdp_display_resize_coordinator.{h,cpp}` | |
| `LatestMailbox` | (specification) a slot in which the newest item replaces an older one | |
| `DisplayRequestCoalescer` | `session/rdp_display_request_coalescer.{h,cpp}` | implements `LatestMailbox` |
| `SessionDisplaySettings` | `session/session_display_settings.{h,cpp}` | |
| `DisplayDispatch` | `napi/native_bridge_context.cpp`, and what it calls of the session core, channels and runner | the interplay of the three above with the session worker |
| `GdiFramePipeline` | `surface/latest_frame_renderer.cpp`, `freerdp/freerdp_gdi_bridge.cpp`, `RequestCurrentFrameRender` of the session's channels | implements `LatestMailbox`; composes FreeRDP's callbacks, the renderer and the repaint |
| `FrameDamage` | the damage in `surface/latest_frame_renderer.cpp`, `common/frame_utils.cpp` and `surface/native_window_rgba_painter.cpp` | the renderer with the painter's history |
| `RenderOutputOwner` | `surface/render_output_owner`, the pipeline and window functions of `napi/native_bridge_context.cpp` and `surface/surface_bridge.cpp` | the part that both compositors share |
| `Avc444Gpu` | `surface/avc444_gpu_compositor_state.cpp`, `avc444_gpu_renderer.cpp`, `avc444_hardware_decoder.cpp`: functions from a GPU state to the set of its successors | |
| `Avc444GpuCompositor` | `surface/avc444_gpu_compositor.cpp`, `channels/rdpgfx_pipeline.cpp`, `HarmonyDesktopResize` | composes the two above with the channel, the worker, the ui and the session thread |
| `Avc420Gpu` | `surface/avc420_gpu_compositor_state.cpp`, `avc420_native_buffer_renderer.cpp`, `avc420_hardware_decoder.cpp` | |
| `Avc420GpuCompositor` | `surface/avc420_gpu_compositor.cpp`, `channels/rdpgfx_pipeline.cpp`, `HarmonyDesktopResize`, `HarmonyPostDisconnect` | the same composition for AVC420, and GDI's frames |
| `Subsequences` | (helper) what is left of a queue when tasks in its middle are erased | used by both compositors |
| `PermissionRequests` | `napi/permission_request_bridge.cpp`, `napi/napi_event_sink.cpp`, the exports they serve, `ets/rdp/RdpPermissionRequestCoordinator.ets`, `ets/rdp/RdpPermissions.ets` | the bridge with its callers, the JavaScript thread and the session's join |
| `…Proofs` | | theorems of the module of the same name; those of `DisplayRequestCoalescer` are in `DisplayDispatchProofs`, which takes both modules (hence the coalescer's names `CoalescerSpec`, `CoalescerTypeOK`) |

How they correspond to the code:

* A method that runs under its object's mutex is **one action**; where the code releases the
  mutex (a wait, a callback, a call of another component) the action ends and the thread has
  a program counter: `timer` and `worker` for the workers, `resize` and `painting` for the
  two-step callers of the settings, `todo` in `DisplayDispatch`, where a handler is the list of
  steps its thread still has to do and each step is what one lock or atomic makes atomic.
* A **size** stands for the pair (width, height): every condition of the code is the same on
  both, and 0 is the absent size. A request of the coalescer is named by its generation.
* **Time** is counted in ticks left until a deadline, which needs no bound; `Tick` and the
  step that a deadline enables are separate, so a thread may wake up late.
* In `DisplayDispatch`, components that have modules of their own are reduced to what the
  others see. Each reduction is an abstraction of the module: the coalescer is the flag
  `scheduled` (its callback ignores the request's contents and resolves the surface's size
  again), the coordinator is its state (`WaitEnds` is a frame or the deadline), the settings
  are the policy and the pointer hold (`HoldEnds` is a presentation or the deadline).
* `GdiFramePipeline` is the session **without H.264**, whose output owner is always GDI: only the
  session thread starts and stops the renderer, so Start never meets a running worker. The
  session thread's place in FreeRDP's callbacks is `session`; Stop ends at its join, which is
  `JoinWorker`. A frame names the buffer it points into by its allocation number; memory is
  there exactly as long as its buffer is `primary`.
* In `FrameDamage` the screen is a row of columns, damage an interval of them, and `lacks` is
  what each window buffer does not show yet. The limit of 65 % above which the painter copies
  everything is a choice: it may always copy everything.
* **The GPU compositors.** A section under `processingMutex_` is one action; a takeover, which
  calls out to stop GDI's pipeline and to release its window while it holds that mutex, is
  several actions and keeps the others away (`Unlocked`). A call that runs beside the mutex ends
  the action and leaves its place in `channel.pc`, `workers[w].pc`, `ui.pc` or `session.pc`. EGL,
  GL and the codec may fail at any call: an operation of `Avc444Gpu` and `Avc420Gpu` is the set
  of its outcomes. What a decoded command holds is chosen when it is processed, as nothing looks
  at it before. Two worker threads are there because a stopped one may not have left when the
  next starts; StopWorker's join is a guard of the action after it, and a thread that is being
  joined is not taken for a new one.
* Of the AVC420 composite it is known whether it is absent, blank, painted in part or painted
  everywhere; of a command, whether it covers the desktop, and of which size. Failure counters
  stop at their thresholds. `configured` and `enabled_` are one flag for AVC420 and two for AVC444.
  AVC444's `SetOutputActive` has no caller. AVC420's may be called by FreeRDP with either value
  whenever the channel is between two calls (`channels/rdpgfx_pipeline.cpp:169`): it looks at
  `enabled_` alone, so that TRUE may come after the ui thread or the worker has released the
  output again. What is assumed is that FreeRDP does not call back from within
  `setOutputPolicy`, which is called with the mutex held that the callback takes.
  A start of GDI's pipeline that
  comes after a claim changes nothing visible: `QueueSurfaceRgbaFrame` refuses frames of a
  foreign owner, so the start is one step. A window that is replaced while a worker still holds
  its raw pointer is the system's affair and not modelled.
* **Permission requests.** One of the four routes, which share nothing but the registration.
  The JavaScript thread's queues are sets, since requests with different numbers do not depend on
  each other's order; a page that registers aborts what the old callback still holds. Waits have
  no clock: they may time out at any moment. Pages are numbered by their appearance and each has
  its own `RdpPermissionManager`. A permission is not revoked while the process lives (the system
  ends it), and 2^32 requests are not reached (`RequestAssumption`). The threads of a session
  that is over begin no more requests.
* Log texts, reason strings and counters for diagnostics are left out.

## 3. The runs

| Run | Question | Instance |
|---|---|---|
| `coordinator` | can a timeout, a frame, a new target or the destructor meet in a bad order? | sizes 640, 650 (within the tolerance of 16 of 640 and 660) and 660 (not of 640), 3 generations, a timeout of 2 ticks |
| `coalescer` | is it a one-slot mailbox with a quiet delay that forgets nothing? | 4 generations, a delay of 2 ticks |
| `settings` | do late results and paints complete nothing, and is input released? | the same sizes, of which 650 may be fixed; one painter, one dispatcher, 3 generations |
| `dispatch` | do four threads keep the policy, deliver the last size and not hang? | two sizes, of which one may be fixed; 4 events of the user and the displays, in any order; unboundedly many session attempts |
| `gdi_frames` | is a frame painted only while its memory is there, is the newest one painted, and does every callback return? | two desktop sizes, 3 frames, 3 buffers, a pacing interval of 2 ticks, unboundedly many sessions and resizes |
| `frame_damage` | does a partial copy leave nothing out? | two columns, two window buffers, two desktop sizes, 5 frames per start, a history of 1 |
| `failure_clears_wait`, `saved_layout_is_used` | two statements of the documentation that the code does not keep (section 5) | as `dispatch` |
| `avc444` | is the stream handed over only once, the last update presented, and a reset compositor quiet? | two windows, one size, two frame numbers, coalescing from depth 1, 2 commands in a session, 2 sessions |
| `avc420` | is a whole picture presented, by exactly one producer, and does a pause end? | two windows, two sizes, two frame numbers, both thresholds 2, coalescing from depth 1, a queue of 2, 2 events of the server (ends of frames not counted), one session |
| `permissions` | does an answer reach its own request only, and does every wait end? | two threads, three requests, two pages, unboundedly many sessions |
| `painted_frame_is_alive` | the renderer's lifetime contract, for repaints too (section 5) | as `gdi_frames` |

Why the bounds are enough: a generation is only compared for equality, so the interesting
cases are "mine", "the one after mine" and "a later one after an earlier was missed": three.
Ticks tell apart "now", "before the deadline" and "another deadline in between": two. Sizes
tell apart equal, within tolerance, beyond it, and tolerance is not transitive: three. The
bounds are `MaxGeneration`, `MaxEvents`, `MaxFrames`, `MaxBuffers`, `HistoryLimit`, and those of
the compositors and the permissions named below, and nothing else. Three frames are one painted, one waiting and one that replaces it; three
buffers are one replaced under a frame, and its successor replaced again. Five frames and a
history of one are enough for a buffer to be known, its entry to be forgotten, a frame to be
dropped and another merged before the buffer comes back. Four events are the shortest
histories in which a surface exists, a session is connected, and two more handlers
interleave; every worker step, retry and state change in between is unbounded.

For the compositors, `MaxTargets` (windows the system makes), `MaxCommands` or `MaxEvents` (what
the server sends in a session), `MaxSessions`, `MaxTasks` and the thresholds are bounds. Two frame numbers
tell "this frame" from "another"; two windows are one that goes and its successor; two sizes are
one that the background has and one it has not (they are symmetric). The thresholds are 3 and 6 in
the code (`surface/avc420_gpu_compositor_internal_types.h:39`) and 2 here, which tells "the first
failure" from "the one that falls back". Coalescing from depth 1 makes every queue deep. Two
commands are one that claims the output and one that follows; two sessions are a reset and
what it left to the next. `avc420` was also checked once, without an error, with one window, one
size, thresholds of 1 and three events (3.1 million states): there a late TRUE of FreeRDP finds a
background that is still recorded, which two events do not reach, and a partial command after it
is presented with holes. For the permissions, three
requests are one that timed out, one that is pending when its answer comes late, and one that
begins while a thread still waits for the second; two pages are one that registers over the other.

Deadlock is checked in `settings`, `frame_damage` and `permissions`. It is off where the system really may stop: a destroyed
coordinator or coalescer, a session that is over and not followed by another, a dispatch with all events
used and every thread idle, and a compositor whose bounded sessions are over.

Fairness is that of the threads. Component modules: the worker thread runs (`WF`) and time
passes (`WF_vars(Tick)`); callers owe nothing. For the settings, the snapshot that expires an
overdue resize is taken by every pointer event (`BlocksPointer`), which is the only moment at
which holding input back matters. `DisplayDispatch`: the session worker never takes the dispatch
lock and is weakly fair; the other threads compete for it, and strong fairness says that a
thread that waits for a mutex gets it some time. The environment (user, displays, server,
frames, deadlines) owes nothing, so no liveness property depends on it. `GdiFramePipeline`:
the render worker runs and a paint ends, time passes, FreeRDP's callbacks go on once they are
entered, and the ui thread enqueues the repaint it has made (all `WF`); no paint, resize or
disconnect need ever come. `PermissionRequests`: the native threads run and their waits time out, and
the end of the worker wakes the join (`WF`); nothing is assumed of the user or of the JavaScript
thread's tasks, so the property holds even if no answer is ever given. The compositors' properties
are safety properties and need no fairness.

What the runs show, besides the type invariants:

* `TimedOutStaysFallback`, `EveryTargetHasItsFullTimeout`, `WaitEnds`, `TimeoutRepaints`,
  `StopEnds`: the coordinator's waits end by a frame, by their own deadline or by a successor;
  a timeout that nothing superseded asks for its repaint; the destructor's join returns.
* `ImplementsMailbox`, `TakenAfterQuiet`, `ScheduledIsTaken`, `StopEnds`: the coalescer.
* `FixedOnlyInSingleMonitorSession`, `StatusMatchesProgress`, `AppliedByCurrentEvent`,
  `InputIsReleased`: the settings.
* `OneResizeAtATime`, `NoHoldWithoutSession`, `RequestsFollowPolicy`, `ScheduledReachesSession`,
  `UiReturns`: the composition. In particular the join in Connect does not deadlock with the
  states that the old worker is still reporting, because those callbacks take no lock that
  the ui thread holds.
* `EndPaintFramesAreAlive`, `ImplementsMailbox`, `PendingIsNotStuck`, `SessionReturns`: the frame
  pipeline. FreeRDP's buffer moves or goes only when no frame of EndPaint waits or is being
  painted, over any number of resizes and sessions; a frame that waits is painted, replaced or
  withdrawn; the join of a resize or a disconnect returns.
* `PaintedIsCurrent`: whatever happened to the frames in between, a buffer that is painted shows
  all that was enqueued up to its frame. Two limits are stated with it: the damage of refused
  frames is unknown to the painter, and nothing is promised from a Start, which numbers the
  frames anew, until the painter's history is cleared. Without the second exception TLC shows
  a stale picture in eight steps (a buffer painted just before the Start, not used for the next
  two frames, passes for known).

* `GdiNeverResumesMidStream`: from the first command that the GPU took, FreeRDP's own decoder gets
  no valid command of this session, whatever fails, and although the ui thread gives the owner back
  to GDI when the window is destroyed. `NoUpdateLeftPending`: the frame ends that a deep queue drops
  never strand the last picture. `QuietAfterReset`: a prewarm that was queued after the worker was
  stopped, or the two-step reset of the owner, brings no GPU state and no owner back.
* `PresentsWholePicture`: an AVC420 composite is on the window only if every part of it has been
  painted. Its named exceptions are real, and `hist.mistaken` notes them: a whole command or GDI
  frame that was recorded as
  background and then given up; a command that found the queue full, was painted and not recorded;
  a partial command that waited in the queue while the background changed its size or the output
  was released (`surface/avc420_gpu_compositor.cpp:1332` checks, `:981` uses); and an output that
  becomes active again without a claim while its background is still recorded. The last is the
  meeting of two places: the worker's release keeps the record (`:1016` to `:1041`), and TRUE makes
  the output active whatever has happened to it (`:307` to `:331`). `PausedOnlyWithoutWindow`: a pause
  ends with the window's return. `OutputHasOnePainter`: at rest, the compositor is active, owns the
  output and GDI's painter has let go of the window, or GDI owns the output, its pipeline runs and
  the compositor is not active. Its exceptions are the three races of section 5; in the two that
  bring an output back (`hist.revived`) both may paint, but that GDI's pipeline runs is claimed even
  then. A claim ends neither exception: the history remembers them.
* `AnswersAreTheUsers`: a request returns granted exactly if the user last said yes to this
  request, and a thread that joined one only if the request pending when it wakes is granted.
  `EveryRequestEnds`: no thread waits for ever, no request stays pending to block the next, and
  Connect's join on the JavaScript thread returns, although the thread it waits for may be waiting for
  an answer that only the JavaScript thread could give (the wait's timeout saves it).

Every property of a passing run has a mutant in PROJECT.json: a plausible bug in one
definition under which TLC finds the property violated.

## 4. The proofs

All theorems hold for every set of sizes, tolerance, timeout, delay and every value of the
bounds, under the assumptions named in the component modules (the constants are natural
numbers and sizes are positive).

* `DisplayResizeCoordinatorProofs`: type correctness; `IInv` adds to it `TimedOutStaysFallback`
  and two facts about the worker: a captured generation is never newer than the current one, and
  while the captured generation is current its countdown is the target's. The second is what
  lets the timeout of an armed worker be charged to the current target
  (`EveryTargetHasItsFullTimeout`).
* The last section of `DisplayDispatchProofs`, about the coalescer: type correctness; the refinement of `LatestMailbox`, step by
  step (submissions are Put, Flush, Cancel and the destructor are Withdraw, the dequeue is Take,
  the rest stutters); the mailbox's `WaitingIsNewest` of the coalescer; `TakenAfterQuiet`. `CoalescerIInv`
  says that a pending request is the newest generation, that taken ones are older, and that an
  armed worker whose generation is current has waited no longer than the silence lasts.
* `SessionDisplaySettingsProofs`: type correctness, `FixedOnlyInSingleMonitorSession`,
  `StatusMatchesProgress`, `AppliedByCurrentEvent`. `IInv` adds that a caller's token is marked
  overtaken exactly when its generation is no longer current (`CallersUpToDate`), that the open
  states of a resize have no result yet, and that a presentation has a size.
* `GdiFramePipelineProofs`: type correctness, `EndPaintFramesAreAlive` and the refinement of
  `LatestMailbox` (a frame that is enqueued is a Put; Stop, Start and DropPending are Withdraw;
  the worker's take is Take). `IInv` says at which places of the session thread nothing waits
  (from the stop to the next start) and no worker is left (from the join on), so that the steps
  that move the buffer find neither; that a waiting frame has a number; and that a repaint is
  never taken for a frame of EndPaint.

* `PermissionRequestsProofs`: type correctness, `PendingHasOneOwner` (a pending request has exactly
  one thread in it, under its own number) and `AnswersAreTheUsers`. `IInv` adds that numbers given out
  are older than the next one and never reused, that only such numbers travel through the queues of
  the JavaScript thread, that calls belong to a page that has registered, and that an answer kept in
  the bridge is the last word the user interface said on the pending number. The argument is the
  number: whatever is lost, late or shared, `CompleteFromUi` compares it under the mutex.

* `DisplayDispatchProofs`: type correctness, `OneResizeAtATime`, `NoHoldWithoutSession` and
  `RequestsFollowPolicy`. `IInv` says that what a thread has yet to do is one of a few scripts
  (`Scripted`) and that a script that needs the dispatch lock has it (`LockHeld`), from which one
  resize at a time follows; that connected and active belong to parts of the session worker's
  script (`SessionPhases`); that between the settings' reset and the next attempt input is held
  only by a request that is unsent or refused (`HeldByRequest`): an unsent one finds no connection
  and is refused, and a refused one releases the hold; and what the policy is while the lock is
  held (`PolicyHeld`): nothing is fixed in a handler that follows the surface, and a resize carries
  the fixed size, because `MayResize` is asked again under the lock and the policy is not changed
  without it except by the session's reset, which only clears it. The proof has one lemma per
  conjunct and one step per action.

* `FrameDamageProofs`: type correctness and `PaintedIsCurrent`, for every screen, number of buffers
  and length of the history above zero (with none the painter would keep buffer numbers that a
  restart could not tell from new ones; the code's limit is 240). The argument is about numbers:
  `IInv` says that the frames of the history, the one being painted and the one that waits are in
  order, and that a buffer lacks only the damage of the frames it has not seen as long as these
  cover all the numbers since its own (`LacksUnseen`). A frame that is dropped, lost in a failed
  paint or forgotten by the history leaves its number uncovered for good, since the frames after it
  start later, so that nothing more is claimed; a frame that is replaced hands its start on. That
  the painter's walk through its history finds exactly such a cover is `NoGapCovers`, whose
  induction is the least entry that reaches a number.

* `Avc444GpuCompositorProofs`: type correctness, `GdiNeverResumesMidStream`, `NoUpdateLeftPending`
  and `QuietAfterReset`. The conjuncts of `IInv` each name one thing that a thread may find when
  it goes on after it had let go of the mutex:
  * commands and ends of frames are queued, and held by a worker, only for an active output
    (`WorkIsActive`), and while the worker is stopped, only prewarms are, but for what the
    thread that is being joined still holds (`OnlyPrewarmsWhileStopped`); a thread that has not
    left is the worker or the one that is being joined (`WorkersAreKnown`). So a reset compositor
    that is prewarmed late gets no more than a renderer (`ResetIsIdle`).
  * The GPU has the stream only while the output is active or the claim is on its way
    (`GpuStreamIsActive`), and what the channel saw of the output before it asked the GPU is still
    so (`SnapshotIsActive`); hence no refused command reaches FreeRDP's decoder.
  * A picture that is not presented yet is followed by an end of its frame, queued or held by a
    worker, unless the channel is still in the frame (`WorkIsEnded`). Ends are dropped
    from a deep queue only when a later one is appended.
  * The queue's bound is an invariant and not a guard: its length and what the ui and channel threads
    may still send (`UiLeft`, `ChannelLeft`) stay below it together (`QueueIsBounded`).

* `Avc420GpuCompositorProofs`: type correctness, `PausedOnlyWithoutWindow`, `OutputHasOnePainter` and
  `PresentsWholePicture`. `IInv` has three parts over the types and `TasksAreGood`:
  * *Control.* The channel works only in a session that is up; a window that has gone stays away
    until the callback that reports it has returned (`UiPhases`); only a compositor that is on is
    active, and only an active output pauses; a paused one has no window, or the ui thread is
    about to tell it of one (`PausedUntilTold`), which is why a pause ends.
  * *Ownership.* Between the claim and the takeover's end nobody else becomes active
    (`ClaimIsExclusive`); owner and activity agree (`OwnerIsActive`, `ActiveIsOwner`), but for the three
    races of section 5; an active owner has the window for itself (`OwnerHasTheWindow`); and if
    GDI owns the output its pipeline runs, or a thread that can be named is yet to start it
    (`StartIsDue`). The last is what "at rest" means in `OutputHasOnePainter`.
  * *Painting.* The size that is recorded for the background is the size of a composite painted
    everywhere, unless the compositor was mistaken about it (`BackgroundIsWhole`); there are
    no holes otherwise (`NoHoles`); an inactive output shows nothing and has nothing to show
    (`InactiveIsDark`), so that a claim starts from its own commands.

  An operation of the GPU state has dozens of outcomes. Each of the two modules summarises it once, in
  lemmas about every outcome of the renderer, the decoder and the presentation; the steps of the
  compositor cite these and never look inside. The counts of an outcome's failures, which
  no theorem needs, appear in type correctness only.

No safety property that a passing run checks is left without a theorem. Only model-checked are
the liveness properties (`WaitEnds`, `TimeoutRepaints`, `StopEnds`, `ScheduledIsTaken`,
`InputIsReleased`, `ScheduledReachesSession`, `UiReturns`, `PendingIsNotStuck`, `SessionReturns`,
`EveryRequestEnds`), since fairness and ENABLED are out of the prover's reach. Nothing is proved by
induction over data: what is left of a compacted queue is known only to be elements of
it, and no more than there were, which is all that the invariants need.

## 5. Disagreements with the documentation

1. `failure_clears_wait`: the state callback (`napi/native_bridge_context.cpp:258`) resets the
   coordinator for "Disconnected" and not for "Failed", although
   `docs/harmonyos-tablet-adaptation-architecture-and-acceptance.md:1085` says both do. The
   wait then ends at its own deadline only.
2. `saved_layout_is_used`: the session worker copies the desired monitor layout before it makes
   the native session (`session/rdp_session_core.cpp:607`); a layout saved between the copy and
   `SetActive` is neither used nor sent (`docs/freerdp-ohos-pen-and-multimon-design.md:117`).
3. `painted_frame_is_alive`: `RequestCurrentFrameRender` reads `gdi->primary_buffer` on the
   caller's thread and enqueues it (`session/rdp_session_channels.cpp:94` to `:104`);
   `HarmonyDesktopResize`, which holds no common lock, may stop the renderer, resize the buffer
   and start the renderer in between. The frame then enters the restarted renderer and is
   painted from a buffer that is gone, against the contract of
   `surface/latest_frame_renderer.h:23` and
   `docs/ohos-native-cpp-module-guidelines.md:278`. The stop-then-free order itself is right, as
   the theorem about EndPaint's frames shows.

Met while modelling the compositors, and stated as exceptions of their properties instead of in
runs of their own (lines are of `surface/avc420_gpu_compositor.cpp` unless named):

* The worker reads the output's state as `outputActive_ || task.outputActive` (`:965`) and writes it
  back (`:1034`): work that was queued while the output was active makes an output active again
  that the channel or the ui thread has released since, without the owner. The log at `:1029`
  promises that stale work is ignored until the stream becomes decodable again. Every release
  clears the queue, but not the task the worker has taken from it already, nor a command the channel
  appends after a look at `outputActive_` from before the release (`hist.revived`).
* `SetOutputActive(TRUE)` (`:307` to `:331`) checks `enabled_`, and neither the owner nor whether the
  output is active still. FreeRDP calls it after `OnSurfaceCommand` has returned, without a common
  lock: if the ui thread's detach or the worker's release comes in between, the output is
  active again while GDI owns it (`hist.revived`). After the worker's release its background is also
  still recorded, and the next partial command is composed onto an empty composite
  (`hist.mistaken`).
* `OnXComponentSurfaceDestroyed` tells the compositor first and then gives the owner to GDI
  without looking (`napi/native_bridge_context.cpp:333`): a claim made in between keeps its active
  output and loses the owner (`hist.stolen`). A later release then finds GDI as the previous owner
  and does not start its pipeline (`:344`).
* ClearWorkerQueueLocked runs after the mutex is released (`:1059`) and may drop commands of a new
  claim.
* An output whose commands decode to nothing for ever is never released: that branch of the policy
  counts no threshold (`surface/avc420_gpu_compositor_state.cpp:581`).
* `docs/ohos-native-cpp-module-guidelines.md:288` has the surface's end pause the output; the code
  detaches it.

## 6. The plan

Done so far: the display resize path, the frame pipeline and the damage; the render output owner
with both compositors; the permission requests. What comes next, in this order.

1. **Proofs** of what the theorems so far only suggest: under the excuses of `OutputHasOnePainter`
   and `PresentsWholePicture`, that they are the only ones a session can get into and how it
   gets out of them; the safety halves of the liveness properties (who is yet to act while
   something waits), as invariants.
2. **Input** (`session/rdp_session_input`, `input/xcomponent_touch_gesture`,
   `input/xcomponent_native_gesture`, `input/remote_ime_client`): coalescing and order of the
   queue, Clear against Drain, held buttons and keys released exactly once.
3. **UI session coordinator** (`ets/rdp/RdpSessionStateCoordinator.ets`): session states without a
   session number, timers and retries.
4. **Session channels and runner** (attach and detach of channels, the remote-login watchdog)
   and the layout monitor's order of callbacks, with `DisplayDispatch`.

## 7. Not modelled

* Pixels: EGL, shaders, hardware decoding, scaling and copying, the native window's own
  calls. The models keep which buffer is painted and from which memory.
* FreeRDP's protocol. Its callbacks arrive on the session thread in the order the bridge
  relies on; results of requests are chosen freely.
* The local RDP server, which starts and stops a library of another repository, and the store of
  connections, which is a file format.
* Clipboard and location adapters, argument parsing and result objects of N-API, pages and
  widgets: thin or presentational, with no state that the properties above depend on.
* Statistics, log throttling and diagnostics.
* Everything named in section 6, until its module exists.
