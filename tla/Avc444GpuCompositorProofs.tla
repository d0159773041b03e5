--------------------- MODULE Avc444GpuCompositorProofs ---------------------
(***************************************************************************)
(* Theorems about the AVC444 GPU compositor, for every set of sizes and    *)
(* frames and every bound: type correctness, that FreeRDP's decoder never  *)
(* gets the stream back, that no update is left pending, and that a reset  *)
(* compositor is quiet.                                                    *)
(*                                                                         *)
(* The argument is about what the threads may still hold.  Commands and    *)
(* frame ends are queued only while the output is active, and an old       *)
(* worker is joined before the state is cleared; so what is left of an     *)
(* earlier session are prewarms, and the work of this one belongs to one   *)
(* worker.                                                                 *)
(***************************************************************************)
EXTENDS Avc444GpuCompositor, FiniteSetTheorems, TLAPS

USE TargetAssumption, GpuAssumption, CompositorAssumption
    DEF TargetAssumption, GpuAssumption, CompositorAssumption

-----------------------------------------------------------------------------
(* The GPU state.  W are the windows, 0 is among them.                      *)

Renderers(W) ==
  {r \in [size : Sizes \cup {0}, window : W, luma : BOOLEAN, chroma : BOOLEAN] :
     r.size = 0 => r = NoRenderer}
Decoders == {d \in [started : BOOLEAN, size : Sizes \cup {0}] : d.started <=> d.size # 0}
StepOutcomes(W, active) ==
  {o \in [gpu : Gpu(W), answer : {"go", "handled", "gdi"}] : active => o.answer # "gdi"}

LEMMA GpuParts ==
  ASSUME NEW W, NEW g \in Gpu(W)
  PROVE  /\ g.renderer \in Renderers(W) /\ g.decoder \in Decoders
         /\ g.params \in BOOLEAN /\ g.reset \in BOOLEAN
         /\ g.pending \in Frames \cup {0} /\ g.pendingSize \in Sizes \cup {0}
         /\ g.pending = 0 <=> g.pendingSize = 0
  BY DEF Gpu, Renderers, Decoders

LEMMA SetRenderer ==
  ASSUME NEW W, NEW g \in Gpu(W), NEW r \in Renderers(W)
  PROVE  LET h == [g EXCEPT !.renderer = r]
         IN  h \in Gpu(W) /\ h.pending = g.pending /\ h.renderer = r /\ h.decoder = g.decoder
  BY DEF Gpu, Renderers

LEMMA SetDecoder ==
  ASSUME NEW W, NEW g \in Gpu(W), NEW d \in Decoders
  PROVE  LET h == [g EXCEPT !.decoder = d]
         IN  h \in Gpu(W) /\ h.pending = g.pending /\ h.renderer = g.renderer /\ h.decoder = d
  BY DEF Gpu, Decoders

LEMMA Cleared ==
  ASSUME NEW W, NEW g \in Gpu(W)
  PROVE  ClearPending(g) \in Gpu(W) /\ ClearPending(g).pending = 0
  BY DEF Gpu, ClearPending

LEMMA Destroyed ==
  ASSUME NEW W, 0 \in W
  PROVE  Destroy \in Gpu(W) /\ NoRenderer \in Renderers(W) /\ NoDecoder \in Decoders
  BY DEF Gpu, Destroy, NoGpu, NoRenderer, NoDecoder, Renderers, Decoders

LEMMA RendererEnsureType ==
  ASSUME NEW W, 0 \in W, NEW r \in Renderers(W), NEW window \in W, NEW size \in Sizes,
         NEW e \in RendererEnsure(r, window, size)
  PROVE  e \in Renderers(W)
<1>1. NoRenderer \in Renderers(W)
  BY Destroyed
<1>2. [r EXCEPT !.window = window] \in Renderers(W) \/ r.size = 0
  BY DEF Renderers
<1>3. [size |-> size, window |-> window, luma |-> FALSE, chroma |-> FALSE] \in Renderers(W)
  BY DEF Renderers
<1>4. CASE RendererFits(r, window, size)
  BY <1>4 DEF RendererEnsure
<1>5. CASE ~RendererFits(r, window, size) /\ r.size = size
  BY <1>1, <1>2, <1>5 DEF RendererEnsure, AttachWindow
<1>6. CASE ~RendererFits(r, window, size) /\ r.size # size
  <2>1. PICK programs \in CreatePrograms, textures \in CreateTextures :
          e = IF programs /\ textures
              THEN [size |-> size, window |-> window, luma |-> FALSE, chroma |-> FALSE]
              ELSE NoRenderer
    BY <1>6 DEF RendererEnsure, Initialize
  <2>2. QED
    BY <1>1, <1>3, <2>1
<1>7. QED
  BY <1>4, <1>5, <1>6

LEMMA AppliedType ==
  ASSUME NEW W, NEW r \in Renderers(W), NEW part, 
         NEW a \in IF part = "luma" THEN ApplyLuma(r) ELSE ApplyChroma(r)
  PROVE  a.ok \in BOOLEAN /\ a.renderer \in Renderers(W)
<1> DEFINE composed == IF part = "luma" THEN [r EXCEPT !.luma = TRUE, !.chroma = TRUE]
                       ELSE [r EXCEPT !.chroma = TRUE]
<1>1. r.size # 0 => composed \in Renderers(W)
  BY DEF Renderers
<1> HIDE DEF composed
<1>2. a \in Applied(r, composed)
  BY DEF ApplyLuma, ApplyChroma, composed
<1>3. PICK current \in MakeCurrent(r), uploaded \in UploadSource :
        a = IF current /\ uploaded THEN [ok |-> TRUE, renderer |-> composed]
            ELSE [ok |-> FALSE, renderer |-> r]
  BY <1>2 DEF Applied
<1>4. current => r.size # 0
  BY DEF MakeCurrent
<1>5. QED
  BY <1>1, <1>3, <1>4

LEMMA ActiveFailure ==
  ASSUME NEW W, NEW g \in Gpu(W), NEW reset \in BOOLEAN
  PROVE  /\ IgnoreActiveUpdate(g, reset) \in StepOutcomes(W, TRUE)
         /\ DropActiveSynchronousTimeout(g) \in StepOutcomes(W, TRUE)
<1> DEFINE h == ClearPending(g)
           lost(b) == [h EXCEPT !.reset = b]
<1>1. h \in Gpu(W)
  BY Cleared
<1>2. DropActiveSynchronousTimeout(g) = Outcome(h, "handled")
  BY DEF DropActiveSynchronousTimeout
<1>3. IgnoreActiveUpdate(g, reset) = Outcome(lost(h.reset \/ reset), "handled")
  BY DEF IgnoreActiveUpdate
<1> HIDE DEF h
<1>4. lost(h.reset \/ reset) \in Gpu(W)
  <2> DEFINE b == h.reset \/ reset
  <2>1. b \in BOOLEAN
    OBVIOUS
  <2> HIDE DEF b
  <2>2. lost(b) \in Gpu(W)
    BY <1>1, <2>1 DEF Gpu
  <2>3. QED
    BY <2>2 DEF b
<1> HIDE DEF lost
<1>5. QED
  BY <1>1, <1>2, <1>3, <1>4 DEF Outcome, StepOutcomes

LEMMA Failure ==
  ASSUME NEW W, 0 \in W, NEW g \in Gpu(W), NEW active \in BOOLEAN
  PROVE  /\ FailBefore(g, active) \in StepOutcomes(W, active)
         /\ FailAfter(g, active) \in StepOutcomes(W, active)
         /\ ~active => LeaveToGdi(g) \in StepOutcomes(W, active)
  BY ActiveFailure, SetRenderer, Destroyed
     DEF FailBefore, FailAfter, LeaveToGdi, LeaveToGdiWithoutRenderer, Outcome, StepOutcomes

LEMMA PrepareType ==
  ASSUME NEW W, 0 \in W, NEW g \in Gpu(W), NEW size \in Sizes, NEW active \in BOOLEAN
  PROVE  Prepare(g, size, active) \subseteq StepOutcomes(W, active)
<1> DEFINE h == IF g.reset THEN [g EXCEPT !.decoder = Close, !.reset = FALSE] ELSE g
<1>1. h \in Gpu(W)
  BY DEF Close, Gpu, NoDecoder
<1> HIDE DEF h
<1>2. ASSUME NEW r \in RendererEnsure(h.renderer, 0, size)
      PROVE  /\ Outcome([h EXCEPT !.renderer = r], "go") \in StepOutcomes(W, active)
             /\ FailBefore([h EXCEPT !.renderer = r], active) \in StepOutcomes(W, active)
  <2>1. r \in Renderers(W)
    BY <1>1, <1>2, GpuParts, RendererEnsureType
  <2>2. [h EXCEPT !.renderer = r] \in Gpu(W)
    BY <1>1, <2>1, SetRenderer
  <2>3. QED
    BY <2>2, Failure DEF Outcome, StepOutcomes
<1>3. QED
  BY <1>2 DEF Prepare, h

LEMMA DecodeStreamType ==
  ASSUME NEW W, 0 \in W, NEW g \in Gpu(W), NEW hasParams \in BOOLEAN, NEW size \in Sizes,
         NEW active \in BOOLEAN
  PROVE  DecodeStream(g, hasParams, size, active) \subseteq StepOutcomes(W, active)
<1> DEFINE h == PrepareH264Packet(g, hasParams)
           Result(d, decoded) ==
             LET k == [h EXCEPT !.decoder = d]
             IN  CASE decoded = "Decoded" -> Outcome(k, "go")
                   [] decoded # "Decoded" /\ ~active -> LeaveToGdi(k)
                   [] decoded = "NoOutput" /\ active -> DropActiveSynchronousTimeout(k)
                   [] decoded = "Failed" /\ active -> IgnoreActiveUpdate(k, TRUE)
<1>1. h \in Gpu(W)
  BY DEF PrepareH264Packet, Gpu
<1>2. \A d \in DecoderEnsure(h.decoder, size) : d \in Decoders
  <2>1. h.decoder \in Decoders
    BY <1>1, GpuParts
  <2>2. Close \in Decoders /\ [started |-> TRUE, size |-> size] \in Decoders
    BY DEF Close, NoDecoder, Decoders
  <2>3. QED
    BY <2>1, <2>2 DEF DecoderEnsure
<1>3. \A d \in Decoders, decoded \in {"Decoded", "NoOutput", "Failed"} :
         Result(d, decoded) \in StepOutcomes(W, active)
  <2> TAKE d \in Decoders, decoded \in {"Decoded", "NoOutput", "Failed"}
  <2>1. [h EXCEPT !.decoder = d] \in Gpu(W)
    BY <1>1, SetDecoder
  <2>2. Outcome([h EXCEPT !.decoder = d], "go") \in StepOutcomes(W, active)
    BY <2>1 DEF Outcome, StepOutcomes
  <2>3. QED
    BY <2>1, <2>2, ActiveFailure, Failure
<1>4. \A d \in Decoders : Decode(d) \subseteq {"Decoded", "NoOutput", "Failed"}
  BY DEF Decode, MapOutput
<1>5. \A d \in Decoders : FailBefore([h EXCEPT !.decoder = d], active) \in StepOutcomes(W, active)
  BY <1>1, SetDecoder, Failure
<1>6. /\ active => IgnoreActiveUpdate(h, TRUE) \in StepOutcomes(W, active)
      /\ ~active => LeaveToGdi(h) \in StepOutcomes(W, active)
  BY <1>1, ActiveFailure, Failure
<1> HIDE DEF h
<1>7. DecodeStream(g, hasParams, size, active) =
        IF ~h.decoder.started /\ ~h.params
        THEN {IF active THEN IgnoreActiveUpdate(h, TRUE) ELSE LeaveToGdi(h)}
        ELSE UNION {IF d.started THEN {Result(d, decoded) : decoded \in Decode(d)}
                    ELSE {FailBefore([h EXCEPT !.decoder = d], active)} :
                      d \in DecoderEnsure(h.decoder, size)}
  BY DEF DecodeStream, h
<1> HIDE DEF Result
<1>8. CASE ~h.decoder.started /\ ~h.params
  BY <1>6, <1>7, <1>8
<1>9. CASE ~(~h.decoder.started /\ ~h.params)
  <2>1. \A d \in DecoderEnsure(h.decoder, size) :
          /\ {Result(d, decoded) : decoded \in Decode(d)} \subseteq StepOutcomes(W, active)
          /\ FailBefore([h EXCEPT !.decoder = d], active) \in StepOutcomes(W, active)
    BY <1>2, <1>3, <1>4, <1>5
  <2> DEFINE Outcomes(d) == IF d.started THEN {Result(d, decoded) : decoded \in Decode(d)}
                            ELSE {FailBefore([h EXCEPT !.decoder = d], active)}
  <2>2. DecodeStream(g, hasParams, size, active) =
          UNION {Outcomes(d) : d \in DecoderEnsure(h.decoder, size)}
    BY <1>7, <1>9, Zenon
  <2>3. \A d \in DecoderEnsure(h.decoder, size) : Outcomes(d) \subseteq StepOutcomes(W, active)
    BY <2>1
  <2> HIDE DEF Outcomes
  <2>4. QED
    BY <2>2, <2>3
<1>10. QED
  BY <1>8, <1>9

LEMMA ApplyStreamType ==
  ASSUME NEW W, 0 \in W, NEW g \in Gpu(W), NEW part, NEW active \in BOOLEAN
  PROVE  ApplyStream(g, part, active) \subseteq StepOutcomes(W, active)
<1>1. ASSUME NEW a \in IF part = "luma" THEN ApplyLuma(g.renderer) ELSE ApplyChroma(g.renderer)
      PROVE  [g EXCEPT !.renderer = a.renderer] \in Gpu(W)
  <2>1. g.renderer \in Renderers(W)
    BY GpuParts
  <2>2. a.renderer \in Renderers(W)
    BY <1>1, <2>1, AppliedType
  <2>3. QED
    BY <2>2, SetRenderer
<1>2. ASSUME NEW h \in Gpu(W)
      PROVE  Outcome(h, "go") \in StepOutcomes(W, active)
  BY DEF Outcome, StepOutcomes
<1>3. QED
  BY <1>1, <1>2, Failure DEF ApplyStream

LEMMA QueuePresentType ==
  ASSUME NEW W, NEW g \in Gpu(W), NEW frame \in Frames, NEW size \in Sizes, NEW active \in BOOLEAN
  PROVE  \A o \in QueuePresent(g, frame, size, active) :
           o \in StepOutcomes(W, active) /\ o.answer # "go"
<1>1. [g EXCEPT !.pending = frame, !.pendingSize = size] \in Gpu(W)
  BY DEF Gpu
<1>2. QED
  BY <1>1, Cleared DEF QueuePresent, Outcome, StepOutcomes, LeaveToGdi

LEMMA ProcessCommandType ==
  ASSUME NEW W, 0 \in W, NEW g \in Gpu(W), NEW c \in CommandKinds, NEW frame \in Frames,
         NEW active \in BOOLEAN
  PROVE  \A o \in ProcessCommand(g, c, frame, active) :
           /\ o.gpu \in Gpu(W) /\ o.answer \in {"handled", "gdi"}
           /\ active /\ c.rects # "bad" => o.answer = "handled"
<1> DEFINE Luma(h) == IF NeedsLuma(c.lc) THEN DecodeStream(h, c.params, c.size, active)
                      ELSE {Outcome(h, "go")}
           Chroma(h) == IF NeedsChroma(c.lc) THEN DecodeStream(h, c.params, c.size, active)
                        ELSE {Outcome(h, "go")}
           Damage(h) ==
             IF c.rects = "some" THEN {Outcome(h, "go")}
             ELSE {Outcome(h, IF active THEN "handled" ELSE "gdi")}
           ApplyL(h) == IF NeedsLuma(c.lc) THEN ApplyStream(h, "luma", active)
                        ELSE {Outcome(h, "go")}
           ApplyC(h) == IF NeedsChroma(c.lc) THEN ApplyStream(h, "chroma", active)
                        ELSE {Outcome(h, "go")}
           Queue(h) == QueuePresent(h, frame, c.size, active)
           s1 == Prepare(g, c.size, active)
           s2 == Then(s1, Luma)
           s3 == Then(s2, Chroma)
           s4 == Then(s3, Damage)
           s5 == Then(s4, ApplyL)
           s6 == Then(s5, ApplyC)
           s7 == Then(s6, Queue)
           Fine == StepOutcomes(W, active)
<1>1. c.size \in Sizes /\ c.params \in BOOLEAN
  BY DEF CommandKinds
<1>2. \A h \in Gpu(W) :
        {Outcome(h, "go"), Outcome(h, IF active THEN "handled" ELSE "gdi")} \subseteq Fine
  BY DEF Outcome, StepOutcomes
<1>3. \A o \in Fine : o.gpu \in Gpu(W)
  BY DEF StepOutcomes
<1>4. \A h \in Gpu(W) : /\ Luma(h) \subseteq Fine /\ Chroma(h) \subseteq Fine
                        /\ Damage(h) \subseteq Fine
                        /\ ApplyL(h) \subseteq Fine /\ ApplyC(h) \subseteq Fine
                        /\ \A o \in Queue(h) : o \in Fine /\ o.answer # "go"
  BY <1>1, <1>2, DecodeStreamType, ApplyStreamType, QueuePresentType
<1>5. s1 \subseteq Fine
  BY <1>1, PrepareType
<1> HIDE DEF Luma, Chroma, Damage, ApplyL, ApplyC, Queue, Fine, s1
<1>6. s2 \subseteq Fine
  BY <1>3, <1>4, <1>5 DEF Then
<1> HIDE DEF s2
<1>7. s3 \subseteq Fine
  BY <1>3, <1>4, <1>6 DEF Then
<1> HIDE DEF s3
<1>8. s4 \subseteq Fine
  BY <1>3, <1>4, <1>7 DEF Then
<1> HIDE DEF s4
<1>9. s5 \subseteq Fine
  BY <1>3, <1>4, <1>8 DEF Then
<1> HIDE DEF s5
<1>10. s6 \subseteq Fine
  BY <1>3, <1>4, <1>9 DEF Then
<1> HIDE DEF s6
<1>11. \A o \in s7 : o \in Fine /\ o.answer # "go"
  BY <1>3, <1>4, <1>10 DEF Then
<1> HIDE DEF s7
<1>12. ProcessCommand(g, c, frame, active) = IF c.rects = "bad" THEN {LeaveToGdi(g)} ELSE s7
  BY DEF ProcessCommand, s7, s6, s5, s4, s3, s2, s1, Luma, Chroma, Damage, ApplyL, ApplyC, Queue
<1>13. QED
  BY <1>11, <1>12 DEF Fine, StepOutcomes, LeaveToGdi, Outcome

LEMMA PrewarmType ==
  ASSUME NEW W, 0 \in W, NEW g \in Gpu(W), NEW size \in Sizes, NEW h \in Prewarm(g, size)
  PROVE  h \in Gpu(W) /\ h.pending = g.pending
<1>1. PICK r \in RendererEnsure(g.renderer, 0, size) : h = [g EXCEPT !.renderer = r]
  BY DEF Prewarm
<1>2. r \in Renderers(W)
  BY <1>1, GpuParts, RendererEnsureType
<1>3. QED
  BY <1>1, <1>2, SetRenderer

LEMMA PresentEndFrameType ==
  ASSUME NEW W, 0 \in W, NEW g \in Gpu(W), NEW frame \in Frames \cup {0}, NEW matched \in BOOLEAN,
         NEW window \in W
  PROVE  \A p \in PresentEndFrame(g, frame, matched, window) :
           p.gpu \in Gpu(W) /\ p.gpu.pending = 0 /\ p.shown \in Frames \cup {0}
<1> TAKE p \in PresentEndFrame(g, frame, matched, window)
<1>1. CASE g.pending # 0 /\ matched /\ g.pending = frame /\ window # 0
  <2>1. g.pendingSize \in Sizes /\ g.renderer \in Renderers(W)
    BY <1>1, GpuParts
  <2>2. \A r \in RendererEnsure(g.renderer, window, g.pendingSize) :
          /\ [ClearPending(g) EXCEPT !.renderer = r] \in Gpu(W)
          /\ [ClearPending(g) EXCEPT !.renderer = r].pending = 0
    BY <2>1, RendererEnsureType, Cleared, SetRenderer
  <2>3. p \in PresentOn(g, window, frame)
    BY <1>1 DEF PresentEndFrame
  <2>4. PICK r \in RendererEnsure(g.renderer, window, g.pendingSize) :
          \E ok \in Present(r) : p = [gpu |-> [ClearPending(g) EXCEPT !.renderer = r],
                                     shown |-> IF ok THEN frame ELSE 0]
    BY <2>3 DEF PresentOn
  <2>5. PICK ok \in Present(r) : p = [gpu |-> [ClearPending(g) EXCEPT !.renderer = r],
                                     shown |-> IF ok THEN frame ELSE 0]
    BY <2>4
  <2>6. p.gpu = [ClearPending(g) EXCEPT !.renderer = r] /\ p.shown = IF ok THEN frame ELSE 0
    BY <2>5
  <2>7. QED
    BY <2>2, <2>6
<1>2. CASE ~(g.pending # 0 /\ matched /\ g.pending = frame /\ window # 0)
  BY <1>2, Cleared DEF PresentEndFrame
<1>3. QED
  BY <1>1, <1>2
-----------------------------------------------------------------------------
(* The invariant.                                                          *)

IsWork(task) == task.type \in {"command", "endFrame"}
Holds(w) == workers[w].pc = "holds"

\* Tasks are well formed: a command has the number of its frame.
GoodTask(task) == task.type # "none" /\ (task.type = "command" => task.frame \in Frames)
TasksAreGood ==
  /\ \A i \in DOMAIN queue : GoodTask(queue[i])
  /\ \A w \in WorkerIds : Holds(w) => GoodTask(workers[w].task)

\* A thread that has not left is the worker or is being joined.
WorkersAreKnown ==
  /\ running <=> handle # 0
  /\ session.join # 0 => session.pc = "join" /\ session.join # handle
  /\ \A w \in WorkerIds : workers[w].pc # "none" => w = handle \/ w = session.join

\* The channel and the session thread.
ChannelIsUp ==
  /\ channel.pc # "idle" => session.pc = "up" /\ comp.enabled /\ channel.used
  /\ channel.active => channel.pc \in {"command", "end"}
ResetPhases ==
  /\ session.pc \in {"owner", "detached", "away"} => session.goal # "attach"
  /\ session.goal # "attach" => ~session.enable
  /\ session.pc \in {"detached", "away"} => ~comp.enabled

\* Between the worker's stop and the next session only prewarms are queued; the
\* thread that is being joined may hold more.
Stopped == session.pc \in {"join", "attach", "detached", "away"}
OnlyPrewarmsWhileStopped ==
  Stopped =>
    /\ \A i \in DOMAIN queue : ~IsWork(queue[i])
    /\ \A w \in WorkerIds : Holds(w) /\ w # session.join => ~IsWork(workers[w].task)

\* Commands and frame ends are queued for an active output, which is enabled and
\* stays active until it is reset.
WorkIsActive ==
  session.pc = "up" /\ ~comp.active =>
    /\ \A i \in DOMAIN queue : ~IsWork(queue[i])
    /\ \A w \in WorkerIds : Holds(w) => ~IsWork(workers[w].task)
ActiveIsEnabled == comp.active => comp.enabled
SnapshotIsActive ==
  /\ channel.active => comp.active
  /\ channel.pc = "end" => channel.active = comp.active

\* Until the next session begins a reset compositor has nothing.
ResetIsIdle ==
  session.pc \in {"attach", "detached", "away"} => ~comp.active /\ gpu.pending = 0

\* The GPU has the stream only if the output is active, or is about to be.
GpuStreamIsActive ==
  session.pc = "up" /\ stream = "gpu" => comp.active \/ channel.pc \in {"stop", "release"}

\* When no command has come since the end of its frame, what was queued or waits is
\* followed by the end of a frame.
EndIsQueued == \E j \in DOMAIN queue : queue[j].type = "endFrame"
EndIsHeld == \E w \in WorkerIds : Holds(w) /\ workers[w].task.type = "endFrame"
WorkIsEnded ==
  session.pc = "up" /\ ~channel.used =>
    /\ \A i \in DOMAIN queue :
         queue[i].type = "command" => \E j \in DOMAIN queue : i < j /\ queue[j].type = "endFrame"
    /\ \A w \in WorkerIds : Holds(w) /\ workers[w].task.type = "command" => EndIsQueued
    /\ gpu.pending # 0 => EndIsQueued \/ EndIsHeld

\* How much the ui thread and the channel may still queue.
UiLeft ==
  2 * (MaxTargets - target.last) + (IF target.window # 0 THEN 1 ELSE 0)
    + (IF ui.pc \in {"look", "push"} THEN 1 ELSE 0)
ChannelLeft ==
  2 * (MaxCommands - channel.commands) + (IF channel.pc = "command" THEN 1 ELSE 0)
    + (IF channel.used THEN 1 ELSE 0)
QueueIsBounded ==
  /\ UiLeft <= 2 * MaxTargets
  /\ Len(queue) + UiLeft + (IF session.pc = "up" THEN ChannelLeft ELSE 0)
       <= 2 * MaxTargets + (IF Stopped THEN 0 ELSE 2 * MaxCommands + 1)

\* The inductive invariant.
IInv ==
  /\ TypeOK /\ TasksAreGood /\ WorkersAreKnown /\ ChannelIsUp /\ ResetPhases
  /\ OnlyPrewarmsWhileStopped /\ WorkIsActive /\ ActiveIsEnabled /\ SnapshotIsActive
  /\ ResetIsIdle /\ GpuStreamIsActive /\ WorkIsEnded /\ QueueIsBounded
  /\ GdiNeverResumesMidStream /\ QuietAfterReset
-----------------------------------------------------------------------------
(* What the steps of the queue do.                                         *)

Threads == [WorkerIds -> [pc : {"none", "waiting", "holds"}, task : Tasks]]

\* Beginning a worker changes nothing of what is held.
SameHeld == \A w \in WorkerIds : Holds(w)' = Holds(w) /\ workers'[w].task = workers[w].task
LEMMA EnsureWorkerFacts ==
  ASSUME TypeOK, EnsureWorkerLocked
  PROVE  /\ running' \in BOOLEAN /\ handle' \in WorkerIds \cup {0} /\ workers' \in Threads
         /\ SameHeld
         /\ /\ WorkersAreKnown
            /\ session'.join = session.join /\ (session.join # 0 => UNCHANGED session)
            => WorkersAreKnown'
<1>1. CASE running
  BY <1>1 DEF TypeOK, EnsureWorkerLocked, Threads, SameHeld, Holds, WorkersAreKnown
<1>2. CASE ~running
  <2>1. PICK w \in WorkerIds :
          /\ workers[w].pc = "none" /\ w # session.join /\ handle' = w
          /\ workers' = [workers EXCEPT ![w].pc = "waiting"]
    BY <1>2 DEF EnsureWorkerLocked
  <2>2. running' = TRUE
    BY <1>2 DEF EnsureWorkerLocked
  <2>3. workers' \in Threads /\ SameHeld
    BY <2>1 DEF TypeOK, Threads, SameHeld, Holds
  <2>4. /\ WorkersAreKnown
        /\ session'.join = session.join /\ (session.join # 0 => UNCHANGED session)
        => WorkersAreKnown'
    BY <1>2, <2>1, <2>2 DEF TypeOK, WorkersAreKnown, WorkerIds
  <2>5. QED
    BY <2>1, <2>2, <2>3, <2>4
<1>3. QED
  BY <1>1, <1>2 DEF TypeOK

\* A task goes to the end of what is kept of the queue.
Adds(task) ==
  /\ queue' \in Seq(Tasks) /\ Len(queue') \in 1 .. Len(queue) + 1
  /\ queue'[Len(queue')] = task
  /\ \A i \in 1 .. Len(queue') - 1 : \E j \in DOMAIN queue : queue'[i] = queue[j]

LEMMA AppendAdds ==
  ASSUME queue \in Seq(Tasks), NEW kept \in Seq(Tasks), Len(kept) <= Len(queue),
         \A n \in DOMAIN kept : \E j \in DOMAIN queue : kept[n] = queue[j],
         NEW task \in Tasks, queue' = Append(kept, task)
  PROVE  Adds(task)
<1>1. /\ queue' \in Seq(Tasks) /\ Len(queue') = Len(kept) + 1 /\ queue'[Len(queue')] = task
      /\ \A i \in 1 .. Len(kept) : queue'[i] = kept[i]
      /\ DOMAIN kept = 1 .. Len(kept) /\ Len(kept) \in Nat /\ Len(queue) \in Nat
  OBVIOUS
<1>2. QED
  BY <1>1 DEF Adds

LEMMA EnqueueAdds ==
  ASSUME TypeOK, NEW task \in Tasks, Enqueue(task)
  PROVE  Adds(task)
<1>1. queue \in Seq(Tasks) /\ Len(queue) <= Len(queue)
  BY DEF TypeOK
<1>2. queue' = Append(queue, task)
  BY DEF Enqueue
<1>3. QED
  BY <1>1, <1>2, AppendAdds

\* What is left of a sequence was in it, and is no longer than it.
LEMMA KeptElements ==
  ASSUME NEW T, NEW q \in Seq(T), NEW S \in SUBSET (DOMAIN q)
  PROVE  /\ ElementsAt(q, S) \in Seq(T) /\ Len(ElementsAt(q, S)) <= Len(q)
         /\ \A n \in DOMAIN ElementsAt(q, S) : \E i \in DOMAIN q : ElementsAt(q, S)[n] = q[i]
<1> DEFINE Rank(i) == Cardinality({j \in S : j <= i})
           Place(n) == CHOOSE i \in S : \A j \in S : Rank(j) = n => Rank(i) = n
<1>1. S \in SUBSET (1 .. Len(q)) /\ Len(q) \in Nat
  OBVIOUS
<1>2. Cardinality(S) \in Nat /\ Cardinality(S) <= Len(q) /\ (S = {} => Cardinality(S) = 0)
  <2>1. \A N \in Nat : IsFiniteSet(1 .. N) /\ Cardinality(1 .. N) = N
    BY FS_Interval
  <2>2. IsFiniteSet(1 .. Len(q)) /\ Cardinality(1 .. Len(q)) = Len(q)
    BY <1>1, <2>1
  <2>3. QED
    BY <1>1, <2>2, FS_Subset, FS_CardinalityType, FS_EmptySet
<1>3. ElementsAt(q, S) = [n \in 1 .. Cardinality(S) |-> q[Place(n)]]
  BY DEF ElementsAt
<1> HIDE DEF Rank
<1>4. ASSUME NEW n \in 1 .. Cardinality(S)
      PROVE  Place(n) \in DOMAIN q /\ q[Place(n)] \in T
  <2>1. S # {}
    BY <1>2
  <2>2. \E i \in S : \A j \in S : Rank(j) = n => Rank(i) = n
    BY <2>1
  <2>3. Place(n) \in S
    BY <2>2
  <2>4. QED
    BY <1>1, <2>3
<1> HIDE DEF Place
<1>5. QED
  BY <1>2, <1>3, <1>4

LEMMA EnqueueEndFrameAdds ==
  ASSUME TypeOK, NEW task \in Tasks, EnqueueEndFrame(task)
  PROVE  Adds(task)
<1> DEFINE S == {i \in DOMAIN queue : queue[i].type # "endFrame"}
           kept == IF Len(queue) > CoalesceDepth THEN ElementsAt(queue, S) ELSE queue
<1>1. queue \in Seq(Tasks)
  BY DEF TypeOK
<1>2. queue' = Append(kept, task)
  BY DEF EnqueueEndFrame
<1>3. S \in SUBSET (DOMAIN queue)
  OBVIOUS
<1> HIDE DEF S
<1>4. /\ kept \in Seq(Tasks) /\ Len(kept) <= Len(queue)
      /\ \A n \in DOMAIN kept : \E j \in DOMAIN queue : kept[n] = queue[j]
  BY <1>1, <1>3, KeptElements
<1> HIDE DEF kept
<1>5. QED
  BY <1>1, <1>2, <1>4, AppendAdds

\* The worker takes the first task.
LEMMA WorkerTakesFacts ==
  ASSUME TypeOK, NEW w \in WorkerIds, WorkerTakes(w)
  PROVE  /\ queue' \in Seq(Tasks) /\ Len(queue') = Len(queue) - 1 /\ 1 \in DOMAIN queue
         /\ \A i \in DOMAIN queue' : i + 1 \in DOMAIN queue /\ queue'[i] = queue[i + 1]
         /\ \A i \in DOMAIN queue : i # 1 => i - 1 \in DOMAIN queue'
         /\ workers' \in Threads
         /\ Holds(w)' /\ workers'[w].task = queue[1] /\ ~Holds(w)
         /\ \A v \in WorkerIds \ {w} : workers'[v] = workers[v]
<1>1. queue \in Seq(Tasks) /\ queue # <<>> /\ queue' = Tail(queue) /\ workers \in Threads
  BY DEF TypeOK, WorkerTakes, Threads
<1>2. Head(queue) = queue[1] /\ queue[1] \in Tasks /\ Len(queue) \in Nat \ {0}
  BY <1>1
<1>3. workers' = [workers EXCEPT ![w] = [pc |-> "holds", task |-> queue[1]]]
  BY <1>2 DEF WorkerTakes
<1>4. /\ queue' \in Seq(Tasks) /\ Len(queue') = Len(queue) - 1
      /\ DOMAIN queue = 1 .. Len(queue) /\ DOMAIN queue' = 1 .. Len(queue) - 1
      /\ \A i \in 1 .. Len(queue) - 1 : queue'[i] = queue[i + 1]
  BY <1>1, <1>2
<1>5. /\ workers' \in Threads /\ Holds(w)' /\ workers'[w].task = queue[1]
      /\ \A v \in WorkerIds \ {w} : workers'[v] = workers[v]
  BY <1>1, <1>2, <1>3 DEF Threads, Holds
<1>6. ~Holds(w)
  BY DEF WorkerTakes, Holds
<1>7. QED
  BY <1>2, <1>4, <1>5, <1>6
-----------------------------------------------------------------------------
(* Type correctness, but for the length of the queue.                      *)

Windows == 0 .. MaxTargets
Channels == [pc : {"idle", "command", "sync", "stop", "release", "end"},
             frame : Frames, used : BOOLEAN, active : BOOLEAN,
             matched : BOOLEAN, commands : 0 .. MaxCommands]
Sessions == [pc : {"away", "owner", "stop", "join", "attach", "up", "detached"},
             goal : {"attach", "detached", "away"}, enable : BOOLEAN,
             join : WorkerIds \cup {0}, count : 0 .. MaxSessions]
Types ==
  /\ owner \in Owners /\ gdi \in [running : BOOLEAN, bound : BOOLEAN]
  /\ target \in [window : Windows, last : Windows]
  /\ comp \in [configured : BOOLEAN, enabled : BOOLEAN, active : BOOLEAN]
  /\ gpu \in Gpu(Windows) /\ shown \in Frames \cup {0}
  /\ queue \in Seq(Tasks)
  /\ running \in BOOLEAN /\ handle \in WorkerIds \cup {0} /\ workers \in Threads
  /\ channel \in Channels /\ stream \in {"gdi", "gpu", "gap"}
  /\ ui \in [pc : {"idle", "look", "push", "owner"}, gone : BOOLEAN]
  /\ session \in Sessions

LEMMA TypesFromTypeOK == TypeOK <=> Types /\ Len(queue) <= MaxQueue
  BY DEF TypeOK, Types, OutputTypeOK, Windows, Threads, Channels, Sessions

LEMMA NoWindow == 0 \in Windows
  BY DEF Windows

\* The lemmas about the GPU, for the windows there are.
LEMMA ProcessCommandHere ==
  \A g \in Gpu(Windows), c \in CommandKinds, frame \in Frames, active \in BOOLEAN :
    \A o \in ProcessCommand(g, c, frame, active) :
      o.gpu \in Gpu(Windows) /\ (active /\ c.rects # "bad" => o.answer = "handled")
  BY NoWindow, ProcessCommandType

LEMMA PresentEndFrameHere ==
  \A g \in Gpu(Windows), frame \in Frames \cup {0}, matched \in BOOLEAN, window \in Windows :
    \A p \in PresentEndFrame(g, frame, matched, window) :
      p.gpu \in Gpu(Windows) /\ p.gpu.pending = 0 /\ p.shown \in Frames \cup {0}
  BY NoWindow, PresentEndFrameType

\* What a worker does to the GPU state.
LEMMA ProcessTaskFacts ==
  ASSUME Types, NEW task \in Tasks, GoodTask(task), NEW active \in BOOLEAN,
         ProcessTask(task, active)
  PROVE  /\ gpu' \in Gpu(Windows) /\ shown' \in Frames \cup {0}
         /\ ~IsWork(task) => gpu'.pending = gpu.pending
         /\ task.type = "endFrame" => gpu'.pending = 0
<1> USE NoWindow
<1>1. gpu \in Gpu(Windows) /\ shown \in Frames \cup {0} /\ target.window \in Windows
  BY DEF Types
<1>2. /\ task.type \in {"prewarm", "command", "endFrame"} /\ task.matched \in BOOLEAN
      /\ task.frame \in Frames \cup {0}
  BY DEF GoodTask, Tasks
<1>3. CASE task.type = "prewarm"
  <2>1. PICK size \in Sizes : gpu' \in Prewarm(gpu, size)
    BY <1>3 DEF ProcessTask
  <2>2. shown' = shown
    BY <1>3 DEF ProcessTask
  <2>3. gpu' \in Gpu(Windows) /\ gpu'.pending = gpu.pending
    BY <1>1, <2>1, PrewarmType
  <2>4. QED
    BY <1>1, <1>3, <2>2, <2>3
<1>4. CASE task.type = "command"
  <2>1. PICK c \in CommandKinds : \E o \in ProcessCommand(gpu, c, task.frame, active) : gpu' = o.gpu
    BY <1>4 DEF ProcessTask
  <2>2. shown' = shown
    BY <1>4 DEF ProcessTask
  <2>3. task.frame \in Frames
    BY <1>4 DEF GoodTask
  <2>4. PICK o \in ProcessCommand(gpu, c, task.frame, active) : gpu' = o.gpu
    BY <2>1
  <2>5. gpu' \in Gpu(Windows)
    BY <1>1, <2>1, <2>3, <2>4, ProcessCommandHere
  <2>6. QED
    BY <1>1, <1>4, <2>2, <2>5 DEF IsWork
<1>5. CASE task.type = "endFrame"
  <2>1. PICK p \in PresentEndFrame(gpu, task.frame, task.matched, target.window) :
          gpu' = p.gpu /\ shown' = IF p.shown = 0 THEN shown ELSE p.shown
    BY <1>5 DEF ProcessTask
  <2>2. p.gpu \in Gpu(Windows) /\ p.gpu.pending = 0 /\ p.shown \in Frames \cup {0}
    BY <1>1, <1>2, <2>1, PresentEndFrameHere
  <2>3. QED
    BY <1>1, <1>5, <2>1, <2>2 DEF IsWork
<1>6. QED
  BY <1>2, <1>3, <1>4, <1>5

\* The worker's task is done, or dropped by a compositor that is off.
LEMMA ProcessWorkerTaskFacts ==
  ASSUME Types, TasksAreGood, NEW w \in WorkerIds, ProcessWorkerTask(w)
  PROVE  LET task == workers[w].task
         IN  /\ Holds(w) /\ task \in Tasks /\ GoodTask(task)
             /\ gpu' \in Gpu(Windows) /\ shown' \in Frames \cup {0}
             /\ ~comp.enabled => UNCHANGED <<gpu, shown, comp>>
             /\ comp' = [comp EXCEPT !.active =
                           comp.active \/ (comp.enabled /\ task.type # "prewarm")]
             /\ ~IsWork(task) => gpu'.pending = gpu.pending
             /\ comp.enabled /\ task.type = "endFrame" => gpu'.pending = 0
             /\ workers' \in Threads /\ ~Holds(w)'
             /\ \A v \in WorkerIds \ {w} : workers'[v] = workers[v]
             /\ \A v \in WorkerIds : workers'[v].pc # "none" => workers[v].pc # "none"
<1> DEFINE task == workers[w].task
           active == comp.active \/ task.type # "prewarm"
<1>1. Holds(w) /\ task \in Tasks /\ GoodTask(task) /\ active \in BOOLEAN
  BY DEF ProcessWorkerTask, Holds, Types, Threads, TasksAreGood
<1>2. /\ workers' \in Threads /\ ~Holds(w)'
      /\ \A v \in WorkerIds \ {w} : workers'[v] = workers[v]
      /\ \A v \in WorkerIds : workers'[v].pc # "none" => workers[v].pc # "none"
  BY DEF ProcessWorkerTask, Holds, Types, Threads, NoTask, Tasks
<1>3. /\ comp.enabled => ProcessTask(task, active) /\ comp' = [comp EXCEPT !.active = active]
      /\ ~comp.enabled => UNCHANGED <<gpu, comp, shown>>
  BY DEF ProcessWorkerTask
<1> HIDE DEF task
<1>4. CASE comp.enabled
  BY <1>1, <1>2, <1>3, <1>4, ProcessTaskFacts DEF task, Types
<1>5. CASE ~comp.enabled
  BY <1>1, <1>2, <1>3, <1>5 DEF task, Types
<1>6. QED
  BY <1>4, <1>5

\* Every step keeps the types.
LEMMA TypesStep ==
  ASSUME TypeOK, Types, TasksAreGood, [Next]_vars
  PROVE  Types'
<1>1. CASE OnSurfaceCommand
  <2>1. channel \in Channels /\ comp.active \in BOOLEAN
    BY DEF Types
  <2>2. channel.commands + 1 \in 0 .. MaxCommands
    BY <1>1, <2>1 DEF OnSurfaceCommand, Channels
  <2>3. channel' \in Channels
    BY <1>1, <2>1, <2>2 DEF OnSurfaceCommand, Channels
  <2>4. QED
    BY <1>1, <2>3 DEF OnSurfaceCommand, Types, outputVars, threadVars
<1>2. CASE RejectInvalidLc
  <2>1. channel \in Channels
    BY DEF Types
  <2>2. channel' \in Channels
    BY <1>2, <2>1 DEF RejectInvalidLc, LeftToGdi, Channels
  <2>3. stream' \in {"gdi", "gpu", "gap"}
    BY <1>2 DEF RejectInvalidLc, LeftToGdi, Types
  <2>4. UNCHANGED <<outputVars, comp, gpu, threadVars, shown, ui, session>>
    BY <1>2 DEF RejectInvalidLc
  <2>5. QED
    BY <2>2, <2>3, <2>4 DEF Types, outputVars, threadVars
<1>3. CASE EnqueueSurfaceCommand
  <2>1. Task("command", channel.frame, FALSE) \in Tasks
    BY DEF Types, Channels, Task, Tasks
  <2>2. queue' \in Seq(Tasks)
    BY <1>3, <2>1, EnqueueAdds DEF EnqueueSurfaceCommand, Adds
  <2>3. running' \in BOOLEAN /\ handle' \in WorkerIds \cup {0} /\ workers' \in Threads
    BY <1>3, EnsureWorkerFacts DEF EnqueueSurfaceCommand, Enqueue
  <2>4. channel \in Channels
    BY DEF Types
  <2>5. channel' \in Channels /\ stream' \in {"gdi", "gpu", "gap"}
    BY <1>3, <2>4 DEF EnqueueSurfaceCommand, Suppressed, Channels
  <2>6. UNCHANGED <<outputVars, comp, gpu, shown, ui, session>>
    BY <1>3 DEF EnqueueSurfaceCommand
  <2>7. QED
    BY <2>2, <2>3, <2>5, <2>6 DEF Types, outputVars
<1>4. CASE CannotEnqueue
  <2>1. channel' \in Channels
    BY <1>4 DEF CannotEnqueue, Types, Channels
  <2>2. QED
    BY <1>4, <2>1 DEF CannotEnqueue, Types, outputVars, threadVars
<1>5. CASE ProcessSurfaceCommand
  <2>1. PICK c \in CommandKinds :
          \E o \in ProcessCommand(gpu, c, channel.frame, comp.active) : gpu' = o.gpu
    BY <1>5 DEF ProcessSurfaceCommand
  <2>2. channel.frame \in Frames /\ comp.active \in BOOLEAN /\ gpu \in Gpu(Windows)
    BY DEF Types, Channels
  <2>3. PICK o \in ProcessCommand(gpu, c, channel.frame, comp.active) : gpu' = o.gpu
    BY <2>1
  <2>4. gpu' \in Gpu(Windows)
    BY <2>1, <2>2, <2>3, ProcessCommandHere
  <2>5. channel \in Channels /\ owner \in Owners /\ stream \in {"gdi", "gpu", "gap"}
    BY DEF Types
  <2>6. /\ owner' \in {owner, "avc444"} /\ stream' \in {stream, "gap", "gpu"}
        /\ \E pc \in {"idle", "stop", "release"} :
             channel' = [channel EXCEPT !.pc = pc, !.active = FALSE]
    BY <1>5 DEF ProcessSurfaceCommand, LeftToGdi, Suppressed, TransitionRenderOutputOwner
  <2>7. owner' \in Owners /\ channel' \in Channels /\ stream' \in {"gdi", "gpu", "gap"}
    BY <2>5, <2>6 DEF Channels, Owners
  <2>8. UNCHANGED <<gdi, target, comp, threadVars, shown, ui, session>>
    BY <1>5 DEF ProcessSurfaceCommand
  <2>9. QED
    BY <2>4, <2>7, <2>8 DEF threadVars, Types
<1>6. CASE TakeoverStopsPipeline
  <2>1. channel \in Channels
    BY DEF Types
  <2>2. channel' \in Channels
    BY <1>6, <2>1 DEF TakeoverStopsPipeline, Channels
  <2>3. gdi' \in [running : BOOLEAN, bound : BOOLEAN]
    BY <1>6 DEF TakeoverStopsPipeline, StopRenderPipeline, Types
  <2>4. UNCHANGED <<owner, target, comp, gpu, threadVars, stream, shown, ui, session>>
    BY <1>6 DEF TakeoverStopsPipeline
  <2>5. QED
    BY <2>2, <2>3, <2>4 DEF Types, threadVars
<1>7. CASE TakeoverReleasesTarget
  <2>1. channel \in Channels
    BY DEF Types
  <2>2. channel' \in Channels
    BY <1>7, <2>1 DEF TakeoverReleasesTarget, Channels
  <2>3. /\ gdi' \in [running : BOOLEAN, bound : BOOLEAN]
        /\ comp' \in [configured : BOOLEAN, enabled : BOOLEAN, active : BOOLEAN]
    BY <1>7 DEF TakeoverReleasesTarget, ReleaseSurfaceRenderTarget, Types
  <2>4. UNCHANGED <<owner, target, gpu, threadVars, stream, shown, ui, session>>
    BY <1>7 DEF TakeoverReleasesTarget
  <2>5. QED
    BY <2>2, <2>3, <2>4 DEF Types, threadVars
<1>8. CASE OnEndFrame
  <2>1. channel \in Channels /\ comp.active \in BOOLEAN
    BY DEF Types
  <2>2. channel' \in Channels
    BY <1>8, <2>1 DEF OnEndFrame, Channels
  <2>3. UNCHANGED <<outputVars, comp, gpu, threadVars, stream, shown, ui, session>>
    BY <1>8 DEF OnEndFrame
  <2>4. QED
    BY <2>2, <2>3 DEF Types, outputVars, threadVars
<1>9. CASE QueueEndFrame
  <2>1. Task("endFrame", channel.frame, channel.matched) \in Tasks
    BY DEF Types, Channels, Task, Tasks
  <2>2. queue' \in Seq(Tasks)
    BY <1>9, <2>1, EnqueueEndFrameAdds DEF QueueEndFrame, Adds
  <2>3. running' \in BOOLEAN /\ handle' \in WorkerIds \cup {0} /\ workers' \in Threads
    BY <1>9, EnsureWorkerFacts DEF QueueEndFrame, EnqueueEndFrame
  <2>4. channel \in Channels
    BY DEF Types
  <2>5. NextFrame \in Frames
    BY <2>4 DEF Channels, NextFrame
  <2>6. channel' \in Channels
    BY <1>9, <2>4, <2>5 DEF QueueEndFrame, EndOfFrame, Channels
  <2>7. UNCHANGED <<outputVars, comp, gpu, stream, shown, ui, session>>
    BY <1>9 DEF QueueEndFrame
  <2>8. QED
    BY <2>2, <2>3, <2>6, <2>7 DEF Types, outputVars
<1>10. CASE ProcessEndFrame
  <2>1. PICK p \in PresentEndFrame(gpu, channel.frame, channel.matched, target.window) :
          gpu' = p.gpu /\ shown' = IF p.shown = 0 THEN shown ELSE p.shown
    BY <1>10 DEF ProcessEndFrame
  <2>2. /\ channel.frame \in Frames \cup {0} /\ channel.matched \in BOOLEAN
        /\ target.window \in Windows /\ gpu \in Gpu(Windows)
    BY DEF Types, Channels
  <2>3. p.gpu \in Gpu(Windows) /\ p.shown \in Frames \cup {0}
    BY <2>1, <2>2, PresentEndFrameHere
  <2>4. channel \in Channels /\ shown \in Frames \cup {0} /\ NextFrame \in Frames
    BY DEF Types, Channels, NextFrame
  <2>5. channel' \in Channels
    BY <1>10, <2>4 DEF ProcessEndFrame, EndOfFrame, Channels
  <2>6. gpu' \in Gpu(Windows) /\ shown' \in Frames \cup {0}
    BY <2>1, <2>3, <2>4
  <2>7. QED
    BY <1>10, <2>5, <2>6 DEF ProcessEndFrame, Types, outputVars, threadVars
<1>11. CASE DesktopResize
  <2>1. gdi' \in [running : BOOLEAN, bound : BOOLEAN]
    BY <1>11 DEF DesktopResize, ChannelIdle, StartRenderPipeline, Types
  <2>2. QED
    BY <1>11, <2>1 DEF DesktopResize, Types, outputVars, threadVars
<1>12. ASSUME NEW w \in WorkerIds, WorkerTakes(w)
      PROVE  Types'
  <2>1. queue' \in Seq(Tasks) /\ workers' \in Threads
    BY <1>12, WorkerTakesFacts
  <2>2. UNCHANGED <<outputVars, comp, gpu, running, handle, channel, stream, shown, ui, session>>
    BY <1>12 DEF WorkerTakes
  <2>3. QED
    BY <2>1, <2>2 DEF Types, outputVars
<1>13. ASSUME NEW w \in WorkerIds, WorkerLeaves(w)
      PROVE  Types'
  BY <1>13 DEF WorkerLeaves, Threads, Types, outputVars, threadVars
<1>14. ASSUME NEW w \in WorkerIds, ProcessWorkerTask(w)
      PROVE  Types'
  <2>1. /\ gpu' \in Gpu(Windows) /\ shown' \in Frames \cup {0} /\ workers' \in Threads
        /\ comp' = [comp EXCEPT !.active =
                      comp.active \/ (comp.enabled /\ workers[w].task.type # "prewarm")]
    BY <1>14, ProcessWorkerTaskFacts
  <2>2. UNCHANGED <<outputVars, queue, running, handle, channel, stream, ui, session>>
    BY <1>14 DEF ProcessWorkerTask
  <2>3. QED
    BY <2>1, <2>2 DEF Types, outputVars
<1>15. CASE OnXComponentSurfaceAvailable
  <2>1. target' \in [window : Windows, last : Windows]
    BY <1>15 DEF OnXComponentSurfaceAvailable, SurfaceAvailable, Types, Windows
  <2>2. gdi' \in [running : BOOLEAN, bound : BOOLEAN]
    BY <1>15 DEF OnXComponentSurfaceAvailable, SurfaceAvailable, Types
  <2>3. ui' \in [pc : {"idle", "look", "push", "owner"}, gone : BOOLEAN]
    BY <1>15 DEF OnXComponentSurfaceAvailable, SurfaceAvailable, Types
  <2>4. QED
    BY <1>15, <2>1, <2>2, <2>3 DEF OnXComponentSurfaceAvailable, Types, outputVars, threadVars
<1>16. CASE OnXComponentSurfaceDestroyed
  <2>1. target' \in [window : Windows, last : Windows]
    BY <1>16, NoWindow DEF OnXComponentSurfaceDestroyed, SurfaceGone, Types
  <2>2. gdi' \in [running : BOOLEAN, bound : BOOLEAN]
    BY <1>16 DEF OnXComponentSurfaceDestroyed, SurfaceGone, Types
  <2>3. ui' \in [pc : {"idle", "look", "push", "owner"}, gone : BOOLEAN]
    BY <1>16 DEF OnXComponentSurfaceDestroyed, SurfaceGone, Types
  <2>4. QED
    BY <1>16, <2>1, <2>2, <2>3 DEF OnXComponentSurfaceDestroyed, Types, outputVars, threadVars
<1>17. CASE PrewarmIfReady
  BY <1>17 DEF PrewarmIfReady, AfterPrewarm, Types, outputVars, threadVars
<1>18. CASE QueuePrewarm
  <2>1. Task("prewarm", 0, FALSE) \in Tasks
    BY DEF Task, Tasks
  <2>2. queue' \in Seq(Tasks)
    BY <1>18, <2>1, EnqueueAdds DEF QueuePrewarm, Adds
  <2>3. running' \in BOOLEAN /\ handle' \in WorkerIds \cup {0} /\ workers' \in Threads
    BY <1>18, EnsureWorkerFacts DEF QueuePrewarm, Enqueue
  <2>4. QED
    BY <1>18, <2>2, <2>3 DEF QueuePrewarm, AfterPrewarm, Types, outputVars
<1>19. CASE SurfaceDestroyedResetsOwner
  BY <1>19
     DEF SurfaceDestroyedResetsOwner, TransitionRenderOutputOwner, Owners, Types, outputVars,
         threadVars
<1>20. CASE ConfigureGraphicsPipelineChannel
  <2>0. session \in Sessions
    BY DEF Types
  <2>1. session' \in Sessions
    <3>1. PICK enable \in BOOLEAN :
            session' = [session EXCEPT !.pc = "stop", !.goal = "attach", !.enable = enable,
                          !.count = @ + 1]
      BY <1>20 DEF ConfigureGraphicsPipelineChannel
    <3>2. session.count + 1 \in 0 .. MaxSessions
      BY <1>20, <2>0 DEF ConfigureGraphicsPipelineChannel, Sessions
    <3>3. QED
      BY <2>0, <3>1, <3>2 DEF Sessions
  <2>2. comp' \in [configured : BOOLEAN, enabled : BOOLEAN, active : BOOLEAN]
    BY <1>20 DEF ConfigureGraphicsPipelineChannel, Types
  <2>3. QED
    BY <1>20, <2>1, <2>2 DEF ConfigureGraphicsPipelineChannel, Types, outputVars, threadVars
<1>21. CASE RestoreHooks
  <2>1. session' \in Sessions
    BY <1>21 DEF RestoreHooks, ChannelIdle, Types, Sessions
  <2>2. QED
    BY <1>21, <2>1 DEF RestoreHooks, Types, outputVars, threadVars
<1>22. CASE ResetAvcSurfaceOutput
  <2>1. session \in Sessions
    BY DEF Types
  <2>2. session' \in Sessions
    BY <1>22, <2>1 DEF ResetAvcSurfaceOutput, Sessions
  <2>3. comp' \in [configured : BOOLEAN, enabled : BOOLEAN, active : BOOLEAN]
    BY <1>22 DEF ResetAvcSurfaceOutput, Types
  <2>4. UNCHANGED <<outputVars, gpu, threadVars, channel, stream, shown, ui>>
    BY <1>22 DEF ResetAvcSurfaceOutput
  <2>5. QED
    BY <2>2, <2>3, <2>4 DEF Types, outputVars, threadVars
<1>23. CASE LookAtOwner
  BY <1>23 DEF LookAtOwner, Sessions, Types, outputVars, threadVars
<1>24. CASE ResetAvcGpuOutputOwner
  BY <1>24
     DEF ResetAvcGpuOutputOwner, TransitionRenderOutputOwner, Owners, Sessions, Types,
         outputVars, threadVars
<1>25. CASE ConfigureStopsWorker
  <2>1. session' \in Sessions
    BY <1>25 DEF ConfigureStopsWorker, StopWorker, Types, Sessions
  <2>2. handle' \in WorkerIds \cup {0} /\ queue' \in Seq(Tasks)
    BY <1>25 DEF ConfigureStopsWorker, StopWorker
  <2>3. running' \in BOOLEAN /\ UNCHANGED workers
    BY <1>25 DEF ConfigureStopsWorker, StopWorker
  <2>4. UNCHANGED <<outputVars, comp, gpu, channel, stream, shown, ui>>
    BY <1>25 DEF ConfigureStopsWorker
  <2>5. QED
    BY <2>1, <2>2, <2>3, <2>4 DEF Types, outputVars
<1>26. CASE Configure
  <2>1. gpu' \in Gpu(Windows)
    BY <1>26, NoWindow, Destroyed DEF Configure, Destroy, TransitionRenderOutputOwner
  <2>2. owner' \in Owners
    BY <1>26 DEF Configure, Destroy, TransitionRenderOutputOwner, Owners
  <2>3. comp' \in [configured : BOOLEAN, enabled : BOOLEAN, active : BOOLEAN]
    BY <1>26 DEF Configure, Types, Sessions
  <2>4. session' \in Sessions
    BY <1>26 DEF Configure, Destroy, TransitionRenderOutputOwner, Types, Sessions
  <2>5. QED
    BY <1>26, <2>1, <2>2, <2>3, <2>4 DEF Configure, Types, outputVars, threadVars
<1>27. CASE InstallHooks
  <2>1. Task("prewarm", 0, FALSE) \in Tasks
    BY DEF Task, Tasks
  <2>2. queue' \in Seq(Tasks)
    BY <1>27, <2>1, EnqueueAdds DEF InstallHooks, Adds, Types, threadVars
  <2>3. running' \in BOOLEAN /\ handle' \in WorkerIds \cup {0} /\ workers' \in Threads
    BY <1>27, EnsureWorkerFacts DEF InstallHooks, Enqueue, Types, threadVars
  <2>4. gdi' \in [running : BOOLEAN, bound : BOOLEAN]
    BY <1>27 DEF InstallHooks, StartRenderPipeline, Types
  <2>5. channel \in Channels /\ session \in Sessions
    BY DEF Types
  <2>6. channel' \in Channels /\ session' \in Sessions
    <3>1. 1 \in Frames /\ 0 \in 0 .. MaxCommands
      OBVIOUS
    <3>2. /\ channel' = [channel EXCEPT !.commands = 0, !.frame = 1, !.used = FALSE]
          /\ session' = [session EXCEPT !.pc = "up"]
      BY <1>27 DEF InstallHooks
    <3>3. channel' \in Channels
      BY <2>5, <3>1, <3>2 DEF Channels
    <3>4. session' \in Sessions
      BY <2>5, <3>2 DEF Sessions
    <3>5. QED
      BY <3>3, <3>4
  <2>7. stream' = "gdi" /\ UNCHANGED <<owner, target, comp, gpu, shown, ui>>
    BY <1>27 DEF InstallHooks
  <2>8. QED
    BY <2>2, <2>3, <2>4, <2>6, <2>7 DEF Types
<1>28. CASE UNCHANGED vars
  BY <1>28 DEF vars, outputVars, threadVars, Types, outputVars, threadVars
<1>29. QED
  BY <1>1, <1>2, <1>3, <1>4, <1>5, <1>6, <1>7, <1>8, <1>9, <1>10, <1>11, <1>12, <1>13, <1>14,
     <1>15, <1>16, <1>17, <1>18, <1>19, <1>20, <1>21, <1>22, <1>23, <1>24, <1>25, <1>26, <1>27,
     <1>28
     DEF Next, ChannelNext, WorkerNext, UiNext, SessionNext
-----------------------------------------------------------------------------
(* The session thread, the channel and the flags of the compositor.        *)

Comps == [configured : BOOLEAN, enabled : BOOLEAN, active : BOOLEAN]
Control == ChannelIsUp /\ ResetPhases /\ ActiveIsEnabled /\ SnapshotIsActive

\* Only what was queued for an active output can make it active.
LEMMA WorkerKeepsActive ==
  ASSUME Types, TasksAreGood, OnlyPrewarmsWhileStopped, WorkersAreKnown, WorkIsActive,
         session.pc \in {"up", "attach", "detached", "away"},
         NEW w \in WorkerIds, ProcessWorkerTask(w)
  PROVE  comp' = comp
<1>1. /\ GoodTask(workers[w].task) /\ Holds(w) /\ workers[w].task \in Tasks
      /\ comp' = [comp EXCEPT !.active =
                    comp.active \/ (comp.enabled /\ workers[w].task.type # "prewarm")]
  BY ProcessWorkerTaskFacts
<1>2. comp \in Comps
  BY DEF Types, Comps
<1>3. session.join = 0 /\ w # 0
  BY DEF WorkersAreKnown, WorkerIds
<1>4. comp.active \/ ~IsWork(workers[w].task)
  BY <1>1, <1>3 DEF WorkIsActive, OnlyPrewarmsWhileStopped, Stopped
<1>5. comp.active \/ workers[w].task.type = "prewarm"
  BY <1>1, <1>4 DEF IsWork, GoodTask, Tasks
<1>6. QED
  BY <1>1, <1>2, <1>5 DEF Comps

\* The control state keeps its invariants.
LEMMA ControlStep ==
  ASSUME Types, TasksAreGood, OnlyPrewarmsWhileStopped, WorkersAreKnown, WorkIsActive, Control,
         channel \in Channels, session \in Sessions, comp \in Comps, [Next]_vars
  PROVE  Control'
<1>1. CASE OnSurfaceCommand
  BY <1>1
     DEF OnSurfaceCommand, ChannelIdle, Control, ChannelIsUp, ResetPhases, ActiveIsEnabled,
         SnapshotIsActive, Channels, Sessions, Comps
<1>2. CASE RejectInvalidLc
  BY <1>2
     DEF RejectInvalidLc, LeftToGdi, Control, ChannelIsUp, ResetPhases, ActiveIsEnabled,
         SnapshotIsActive, Channels, Sessions, Comps
<1>3. CASE EnqueueSurfaceCommand
  BY <1>3
     DEF EnqueueSurfaceCommand, Suppressed, Task, Enqueue, Control, ChannelIsUp, ResetPhases,
         ActiveIsEnabled, SnapshotIsActive, Channels, Sessions, Comps
<1>4. CASE CannotEnqueue
  BY <1>4
     DEF CannotEnqueue, Control, ChannelIsUp, ResetPhases, ActiveIsEnabled, SnapshotIsActive,
         Channels, Sessions, Comps
<1>5. CASE ProcessSurfaceCommand
  <2>1. /\ channel.pc = "sync" /\ UNCHANGED <<comp, session>>
        /\ \E pc \in {"idle", "stop", "release"} :
             channel' = [channel EXCEPT !.pc = pc, !.active = FALSE]
    BY <1>5 DEF ProcessSurfaceCommand, LeftToGdi, Suppressed
  <2>2. QED
    BY <2>1 DEF Control, ChannelIsUp, ResetPhases, ActiveIsEnabled, SnapshotIsActive, Channels
<1>6. CASE TakeoverStopsPipeline
  BY <1>6
     DEF TakeoverStopsPipeline, StopRenderPipeline, Control, ChannelIsUp, ResetPhases,
         ActiveIsEnabled, SnapshotIsActive, Channels, Sessions, Comps
<1>7. CASE TakeoverReleasesTarget
  BY <1>7
     DEF TakeoverReleasesTarget, ReleaseSurfaceRenderTarget, Control, ChannelIsUp,
         ResetPhases, ActiveIsEnabled, SnapshotIsActive, Channels, Sessions, Comps
<1>8. CASE OnEndFrame
  BY <1>8
     DEF OnEndFrame, ChannelIdle, Control, ChannelIsUp, ResetPhases, ActiveIsEnabled,
         SnapshotIsActive, Channels, Sessions, Comps
<1>9. CASE QueueEndFrame
  BY <1>9
     DEF QueueEndFrame, EndOfFrame, NextFrame, Task, Control, ChannelIsUp, ResetPhases,
         ActiveIsEnabled, SnapshotIsActive, Channels, Sessions, Comps
<1>10. CASE ProcessEndFrame
  BY <1>10
     DEF ProcessEndFrame, EndOfFrame, NextFrame, Control, ChannelIsUp, ResetPhases,
         ActiveIsEnabled, SnapshotIsActive, Channels, Sessions, Comps
<1>11. CASE DesktopResize
  BY <1>11
     DEF DesktopResize, ChannelIdle, StartRenderPipeline, Control, ChannelIsUp, ResetPhases,
         ActiveIsEnabled, SnapshotIsActive, Channels, Sessions, Comps
<1>12. ASSUME NEW w \in WorkerIds, WorkerTakes(w)
      PROVE  Control'
  BY <1>12
     DEF WorkerTakes, Control, ChannelIsUp, ResetPhases, ActiveIsEnabled, SnapshotIsActive,
         Channels, Sessions, Comps
<1>13. ASSUME NEW w \in WorkerIds, WorkerLeaves(w)
      PROVE  Control'
  BY <1>13
     DEF WorkerLeaves, Control, ChannelIsUp, ResetPhases, ActiveIsEnabled, SnapshotIsActive,
         Channels, Sessions, Comps
<1>14. ASSUME NEW w \in WorkerIds, ProcessWorkerTask(w)
      PROVE  Control'
  <2>1. UNCHANGED <<channel, session>>
    BY <1>14 DEF ProcessWorkerTask
  <2>2. comp' = [comp EXCEPT !.active =
                  comp.active \/ (comp.enabled /\ workers[w].task.type # "prewarm")]
    BY <1>14, ProcessWorkerTaskFacts
  <2>3. session.pc = "up" => comp' = comp
    BY <1>14, WorkerKeepsActive
  <2>4. QED
    BY <2>1, <2>2, <2>3
       DEF Control, ChannelIsUp, ResetPhases, ActiveIsEnabled, SnapshotIsActive, Comps
<1>15. CASE OnXComponentSurfaceAvailable
  BY <1>15
     DEF OnXComponentSurfaceAvailable, SurfaceAvailable, Control, ChannelIsUp, ResetPhases,
         ActiveIsEnabled, SnapshotIsActive, Channels, Sessions, Comps
<1>16. CASE OnXComponentSurfaceDestroyed
  BY <1>16
     DEF OnXComponentSurfaceDestroyed, SurfaceGone, Control, ChannelIsUp, ResetPhases,
         ActiveIsEnabled, SnapshotIsActive, Channels, Sessions, Comps
<1>17. CASE PrewarmIfReady
  BY <1>17
     DEF PrewarmIfReady, AfterPrewarm, Control, ChannelIsUp, ResetPhases, ActiveIsEnabled,
         SnapshotIsActive, Channels, Sessions, Comps
<1>18. CASE QueuePrewarm
  BY <1>18
     DEF QueuePrewarm, AfterPrewarm, Task, Control, ChannelIsUp, ResetPhases,
         ActiveIsEnabled, SnapshotIsActive, Channels, Sessions, Comps
<1>19. CASE SurfaceDestroyedResetsOwner
  BY <1>19
     DEF SurfaceDestroyedResetsOwner, TransitionRenderOutputOwner, Control, ChannelIsUp,
         ResetPhases, ActiveIsEnabled, SnapshotIsActive, Channels, Sessions, Comps
<1>20. CASE ConfigureGraphicsPipelineChannel
  BY <1>20
     DEF ConfigureGraphicsPipelineChannel, Control, ChannelIsUp, ResetPhases,
         ActiveIsEnabled, SnapshotIsActive, Channels, Sessions, Comps
<1>21. CASE RestoreHooks
  BY <1>21
     DEF RestoreHooks, ChannelIdle, Control, ChannelIsUp, ResetPhases, ActiveIsEnabled,
         SnapshotIsActive, Channels, Sessions, Comps
<1>22. CASE ResetAvcSurfaceOutput
  BY <1>22
     DEF ResetAvcSurfaceOutput, Control, ChannelIsUp, ResetPhases, ActiveIsEnabled,
         SnapshotIsActive, Channels, Sessions, Comps
<1>23. CASE LookAtOwner
  BY <1>23
     DEF LookAtOwner, Control, ChannelIsUp, ResetPhases, ActiveIsEnabled, SnapshotIsActive,
         Channels, Sessions, Comps
<1>24. CASE ResetAvcGpuOutputOwner
  BY <1>24
     DEF ResetAvcGpuOutputOwner, TransitionRenderOutputOwner, Control, ChannelIsUp,
         ResetPhases, ActiveIsEnabled, SnapshotIsActive, Channels, Sessions, Comps
<1>25. CASE ConfigureStopsWorker
  BY <1>25
     DEF ConfigureStopsWorker, StopWorker, Control, ChannelIsUp, ResetPhases,
         ActiveIsEnabled, SnapshotIsActive, Channels, Sessions, Comps
<1>26. CASE Configure
  BY <1>26
     DEF Configure, Destroy, TransitionRenderOutputOwner, Control, ChannelIsUp, ResetPhases,
         ActiveIsEnabled, SnapshotIsActive, Channels, Sessions, Comps
<1>27. CASE InstallHooks
  BY <1>27
     DEF InstallHooks, StartRenderPipeline, Control, ChannelIsUp, ResetPhases,
         ActiveIsEnabled, SnapshotIsActive, Channels, Sessions, Comps
<1>28. CASE UNCHANGED vars
  BY <1>28
     DEF vars, outputVars, threadVars, Control, ChannelIsUp, ResetPhases, ActiveIsEnabled,
         SnapshotIsActive, Channels, Sessions, Comps
<1>29. QED
  BY <1>1, <1>2, <1>3, <1>4, <1>5, <1>6, <1>7, <1>8, <1>9, <1>10, <1>11, <1>12, <1>13, <1>14,
     <1>15, <1>16, <1>17, <1>18, <1>19, <1>20, <1>21, <1>22, <1>23, <1>24, <1>25, <1>26, <1>27,
     <1>28
     DEF Next, ChannelNext, WorkerNext, UiNext, SessionNext
-----------------------------------------------------------------------------
(* What is queued and held.                                                *)

\* The steps that change the queue or the workers, and the flags.
QueueSteps ==
  \/ EnqueueSurfaceCommand \/ QueueEndFrame \/ QueuePrewarm \/ ConfigureStopsWorker \/ InstallHooks
  \/ WorkerNext
CompSteps ==
  \/ TakeoverReleasesTarget \/ \E w \in WorkerIds : ProcessWorkerTask(w)
  \/ ConfigureGraphicsPipelineChannel \/ ResetAvcSurfaceOutput \/ Configure
LEMMA Steps ==
  ASSUME [Next]_vars
  PROVE  /\ UNCHANGED <<queue, workers>> \/ QueueSteps
         /\ UNCHANGED session \/ SessionNext
         /\ UNCHANGED comp \/ CompSteps
<1>1. CASE ChannelNext
  BY <1>1
     DEF ChannelNext, QueueSteps, CompSteps, threadVars, OnSurfaceCommand, RejectInvalidLc,
         EnqueueSurfaceCommand, CannotEnqueue, ProcessSurfaceCommand, TakeoverStopsPipeline,
         TakeoverReleasesTarget, OnEndFrame, QueueEndFrame, ProcessEndFrame, DesktopResize
<1>2. CASE WorkerNext
  BY <1>2 DEF QueueSteps, CompSteps, WorkerNext, WorkerTakes, WorkerLeaves, ProcessWorkerTask
<1>3. CASE UiNext
  BY <1>3
     DEF UiNext, QueueSteps, CompSteps, threadVars, OnXComponentSurfaceAvailable,
         OnXComponentSurfaceDestroyed, PrewarmIfReady, QueuePrewarm,
         SurfaceDestroyedResetsOwner
<1>4. CASE SessionNext
  BY <1>4
     DEF SessionNext, QueueSteps, CompSteps, threadVars, ConfigureGraphicsPipelineChannel,
         RestoreHooks, ResetAvcSurfaceOutput, LookAtOwner, ResetAvcGpuOutputOwner,
         ConfigureStopsWorker, Configure, InstallHooks
<1>5. CASE UNCHANGED vars
  BY <1>5 DEF vars, threadVars
<1>6. QED
  BY <1>1, <1>2, <1>3, <1>4, <1>5 DEF Next

\* Once up, a session stays so until the channel goes, and its output active.
LEMMA UpSteps ==
  ASSUME Types, [Next]_vars
  PROVE  /\ session'.pc = "up" /\ ~InstallHooks => session' = session
         /\ session'.pc = "up" /\ comp.active => comp'.active
         /\ Stopped' => Stopped \/ ConfigureStopsWorker
         /\ Stopped' /\ ~ConfigureStopsWorker /\ ~Configure => session'.join = session.join
<1>1. session \in Sessions /\ comp \in Comps
  BY DEF Types, Comps
<1>2. CASE SessionNext
  <2>1. CASE ConfigureGraphicsPipelineChannel
    BY <1>1, <2>1 DEF ConfigureGraphicsPipelineChannel, Stopped, Sessions, Comps
  <2>2. CASE RestoreHooks
    BY <1>1, <2>2 DEF RestoreHooks, ChannelIdle, Stopped, Sessions, Comps
  <2>3. CASE ResetAvcSurfaceOutput
    BY <1>1, <2>3 DEF ResetAvcSurfaceOutput, Stopped, Sessions, Comps
  <2>4. CASE LookAtOwner
    BY <1>1, <2>4 DEF LookAtOwner, Stopped, Sessions, Comps
  <2>5. CASE ResetAvcGpuOutputOwner
    BY <1>1, <2>5 DEF ResetAvcGpuOutputOwner, Stopped, Sessions, Comps
  <2>6. CASE ConfigureStopsWorker
    BY <1>1, <2>6 DEF ConfigureStopsWorker, Stopped, Sessions, Comps
  <2>7. CASE Configure
    BY <1>1, <2>7 DEF Configure, Stopped, Sessions, Comps
  <2>8. CASE InstallHooks
    BY <1>1, <2>8 DEF InstallHooks, Stopped, Sessions, Comps
  <2>9. QED
    BY <1>2, <2>1, <2>2, <2>3, <2>4, <2>5, <2>6, <2>7, <2>8 DEF SessionNext
<1>3. CASE UNCHANGED session
  <2>1. UNCHANGED comp \/ CompSteps
    BY Steps
  <2>2. /\ ~ConfigureGraphicsPipelineChannel /\ ~ResetAvcSurfaceOutput
        /\ session.pc = "up" => ~Configure
    BY <1>1, <1>3 DEF ConfigureGraphicsPipelineChannel, ResetAvcSurfaceOutput, Configure, Sessions
  <2>3. ASSUME TakeoverReleasesTarget
        PROVE  comp'.active
    BY <1>1, <2>3 DEF TakeoverReleasesTarget, Comps
  <2>4. ASSUME NEW w \in WorkerIds, ProcessWorkerTask(w), comp.active
        PROVE  comp'.active
    BY <1>1, <2>4 DEF ProcessWorkerTask, Comps
  <2>5. session.pc = "up" /\ comp.active => comp'.active
    BY <2>1, <2>2, <2>3, <2>4 DEF CompSteps
  <2>6. QED
    BY <1>3, <2>5 DEF Stopped
<1>4. QED
  BY <1>2, <1>3, Steps

\* The workers of a session are known.
LEMMA WorkersAreKnownStep ==
  ASSUME TypeOK, Types, WorkersAreKnown, [Next]_vars
  PROVE  WorkersAreKnown'
<1>0. session \in Sessions /\ handle \in WorkerIds \cup {0}
  BY DEF Types
<1>1. CASE EnqueueSurfaceCommand
  BY <1>1, EnsureWorkerFacts DEF EnqueueSurfaceCommand, Enqueue
<1>2. CASE QueueEndFrame
  BY <1>2, EnsureWorkerFacts DEF QueueEndFrame, EnqueueEndFrame
<1>3. CASE QueuePrewarm
  BY <1>3, EnsureWorkerFacts DEF QueuePrewarm, Enqueue
<1>4. ASSUME NEW w \in WorkerIds, WorkerTakes(w)
      PROVE  WorkersAreKnown'
  <2>1. UNCHANGED <<running, handle, session>>
    BY <1>4 DEF WorkerTakes
  <2>2. \A v \in WorkerIds : workers'[v].pc # "none" => workers[v].pc # "none"
    BY <1>4 DEF WorkerTakes, Types, Threads
  <2>3. QED
    BY <2>1, <2>2 DEF WorkersAreKnown
<1>5. ASSUME NEW w \in WorkerIds, WorkerLeaves(w)
      PROVE  WorkersAreKnown'
  <2>1. UNCHANGED <<running, handle, session>>
    BY <1>5 DEF WorkerLeaves
  <2>2. \A v \in WorkerIds : workers'[v].pc # "none" => workers[v].pc # "none"
    BY <1>5 DEF WorkerLeaves, Types, Threads
  <2>3. QED
    BY <2>1, <2>2 DEF WorkersAreKnown
<1>6. ASSUME NEW w \in WorkerIds, ProcessWorkerTask(w)
      PROVE  WorkersAreKnown'
  <2>1. UNCHANGED <<running, handle, session>>
    BY <1>6 DEF ProcessWorkerTask
  <2>2. \A v \in WorkerIds : workers'[v].pc # "none" => workers[v].pc # "none"
    BY <1>6 DEF ProcessWorkerTask, Types, Threads
  <2>3. QED
    BY <2>1, <2>2 DEF WorkersAreKnown
<1>7. CASE ConfigureGraphicsPipelineChannel
  BY <1>7, <1>0
     DEF ConfigureGraphicsPipelineChannel, threadVars, WorkersAreKnown, Sessions, WorkerIds
<1>8. CASE RestoreHooks
  BY <1>8, <1>0 DEF RestoreHooks, ChannelIdle, threadVars, WorkersAreKnown, Sessions, WorkerIds
<1>9. CASE ResetAvcSurfaceOutput
  BY <1>9, <1>0 DEF ResetAvcSurfaceOutput, threadVars, WorkersAreKnown, Sessions, WorkerIds
<1>10. CASE LookAtOwner
  BY <1>10, <1>0 DEF LookAtOwner, threadVars, WorkersAreKnown, Sessions, WorkerIds
<1>11. CASE ResetAvcGpuOutputOwner
  BY <1>11, <1>0
     DEF ResetAvcGpuOutputOwner, TransitionRenderOutputOwner, threadVars, WorkersAreKnown,
         Sessions, WorkerIds
<1>12. CASE ConfigureStopsWorker
  BY <1>12, <1>0
     DEF ConfigureStopsWorker, StopWorker, threadVars, WorkersAreKnown, Sessions, WorkerIds
<1>13. CASE Configure
  BY <1>13, <1>0
     DEF Configure, Destroy, TransitionRenderOutputOwner, threadVars, WorkersAreKnown,
         Sessions, WorkerIds
<1>14. CASE InstallHooks
  <2>1. session'.join = session.join /\ session.join = 0
    BY <1>14, <1>0 DEF InstallHooks, WorkersAreKnown, Sessions
  <2>2. CASE EnsureWorkerLocked
    BY <2>1, <2>2, EnsureWorkerFacts
  <2>3. CASE UNCHANGED threadVars
    BY <2>1, <2>3 DEF WorkersAreKnown, threadVars
  <2>4. QED
    BY <1>14, <2>2, <2>3 DEF InstallHooks, Enqueue
<1>15. CASE UNCHANGED <<running, handle, workers, session>>
  BY <1>15 DEF WorkersAreKnown
<1>16. QED
  BY <1>1, <1>2, <1>3, <1>4, <1>5, <1>6, <1>7, <1>8, <1>9, <1>10, <1>11, <1>12, <1>13, <1>14,
     <1>15
     DEF Next, ChannelNext, WorkerNext, UiNext, SessionNext, vars, threadVars,
         OnSurfaceCommand, RejectInvalidLc, CannotEnqueue, ProcessSurfaceCommand,
         TakeoverStopsPipeline, TakeoverReleasesTarget, OnEndFrame, ProcessEndFrame,
         DesktopResize, OnXComponentSurfaceAvailable, OnXComponentSurfaceDestroyed,
         PrewarmIfReady, SurfaceDestroyedResetsOwner

\* A task that is added is the only new one, and a worker that begins holds none.
LEMMA AddsOnly ==
  ASSUME NEW task \in Tasks, Adds(task)
  PROVE  \A i \in DOMAIN queue' : queue'[i] = task \/ \E j \in DOMAIN queue : queue'[i] = queue[j]
  BY DEF Adds

LEMMA EnqueueFacts ==
  ASSUME TypeOK, Types, [Next]_vars
  PROVE  /\ EnqueueSurfaceCommand =>
              /\ Adds(Task("command", channel.frame, FALSE)) /\ SameHeld
              /\ Task("command", channel.frame, FALSE) \in Tasks
         /\ QueueEndFrame =>
              /\ Adds(Task("endFrame", channel.frame, channel.matched)) /\ SameHeld
              /\ Task("endFrame", channel.frame, channel.matched) \in Tasks
         /\ QueuePrewarm =>
              Adds(Task("prewarm", 0, FALSE)) /\ SameHeld /\ Task("prewarm", 0, FALSE) \in Tasks
         /\ InstallHooks =>
              \/ Adds(Task("prewarm", 0, FALSE)) /\ SameHeld /\ Task("prewarm", 0, FALSE) \in Tasks
              \/ UNCHANGED <<queue, workers>>
<1>1. /\ Task("command", channel.frame, FALSE) \in Tasks /\ Task("prewarm", 0, FALSE) \in Tasks
      /\ Task("endFrame", channel.frame, channel.matched) \in Tasks
  BY DEF Types, Channels, Task, Tasks
<1>2. /\ EnqueueSurfaceCommand => Enqueue(Task("command", channel.frame, FALSE))
      /\ QueueEndFrame => EnqueueEndFrame(Task("endFrame", channel.frame, channel.matched))
      /\ QueuePrewarm => Enqueue(Task("prewarm", 0, FALSE))
      /\ InstallHooks => Enqueue(Task("prewarm", 0, FALSE)) \/ UNCHANGED <<queue, workers>>
  BY DEF EnqueueSurfaceCommand, QueueEndFrame, QueuePrewarm, InstallHooks, threadVars
<1>3. ASSUME NEW task \in Tasks
      PROVE  /\ Enqueue(task) => Adds(task) /\ SameHeld
             /\ EnqueueEndFrame(task) => Adds(task) /\ SameHeld
  BY EnqueueAdds, EnqueueEndFrameAdds, EnsureWorkerFacts DEF Enqueue, EnqueueEndFrame
<1>4. QED
  BY <1>1, <1>2, <1>3

\* Which tasks there are after a step: those there were, and what was added.
LEMMA TasksAreGoodStep ==
  ASSUME TypeOK, Types, TasksAreGood, [Next]_vars
  PROVE  TasksAreGood'
<1>1. ASSUME NEW task \in Tasks, GoodTask(task), Adds(task), SameHeld
      PROVE  TasksAreGood'
  BY <1>1, AddsOnly DEF TasksAreGood, SameHeld, GoodTask
<1>2. /\ GoodTask(Task("command", channel.frame, FALSE))
      /\ GoodTask(Task("endFrame", channel.frame, channel.matched))
      /\ GoodTask(Task("prewarm", 0, FALSE))
  BY DEF GoodTask, Task, Types, Channels
<1>3. CASE UNCHANGED <<queue, workers>>
  BY <1>3 DEF TasksAreGood, GoodTask, Holds
<1>4. CASE EnqueueSurfaceCommand \/ QueueEndFrame \/ QueuePrewarm \/ InstallHooks
  BY <1>1, <1>2, <1>3, <1>4, EnqueueFacts
<1>5. CASE ConfigureStopsWorker
  <2>1. queue' = <<>> /\ workers' = workers
    BY <1>5 DEF ConfigureStopsWorker, StopWorker
  <2>2. QED
    BY <2>1 DEF TasksAreGood, GoodTask, Holds
<1>6. ASSUME NEW w \in WorkerIds, WorkerTakes(w)
      PROVE  TasksAreGood'
  BY <1>6, WorkerTakesFacts DEF TasksAreGood, Holds, GoodTask
<1>7. ASSUME NEW w \in WorkerIds, WorkerLeaves(w) \/ ProcessWorkerTask(w)
      PROVE  TasksAreGood'
  <2>1. /\ queue' = queue
        /\ \A v \in WorkerIds : Holds(v)' => Holds(v) /\ workers'[v] = workers[v]
    BY <1>7 DEF WorkerLeaves, ProcessWorkerTask, Types, Threads, Holds
  <2>2. QED
    BY <2>1 DEF TasksAreGood, GoodTask
<1>8. QED
  BY <1>3, <1>4, <1>5, <1>6, <1>7, Steps DEF QueueSteps, WorkerNext

\* No work is queued between the worker's stop and the next session.
LEMMA OnlyPrewarmsWhileStoppedStep ==
  ASSUME TypeOK, Types, WorkersAreKnown, ChannelIsUp, OnlyPrewarmsWhileStopped, [Next]_vars
  PROVE  OnlyPrewarmsWhileStopped'
<1> SUFFICES ASSUME Stopped'
             PROVE  /\ \A i \in DOMAIN queue' : ~IsWork(queue'[i])
                    /\ \A w \in WorkerIds : Holds(w)' /\ w # session'.join =>
                         ~IsWork(workers'[w].task)
  BY DEF OnlyPrewarmsWhileStopped, IsWork
<1>1. CASE ConfigureStopsWorker
  <2>1. queue' = <<>> /\ workers' = workers /\ session.pc = "stop" /\ session'.join = handle
    BY <1>1 DEF ConfigureStopsWorker, StopWorker, Types, Sessions
  <2>2. \A w \in WorkerIds : Holds(w) => w = handle
    BY <2>1 DEF WorkersAreKnown, Holds, WorkerIds
  <2>3. QED
    BY <2>1, <2>2 DEF Holds
<1>2. CASE ~ConfigureStopsWorker
  <2>1. Stopped
    BY <1>2, UpSteps
  <2>2. ~EnqueueSurfaceCommand /\ ~QueueEndFrame /\ ~InstallHooks
    BY <2>1 DEF Stopped, ChannelIsUp, EnqueueSurfaceCommand, QueueEndFrame, InstallHooks, Types,
       Sessions
  <2>3. \A w \in WorkerIds : Holds(w) /\ w # session'.join => w # session.join
    <3>1. CASE Configure
      BY <3>1 DEF Configure, Holds
    <3>2. CASE ~Configure
      BY <1>2, <3>2, UpSteps
    <3>3. QED
      BY <3>1, <3>2
  <2>4. CASE UNCHANGED <<queue, workers>>
    BY <2>1, <2>3, <2>4 DEF OnlyPrewarmsWhileStopped, Holds, IsWork
  <2>5. CASE QueuePrewarm
    <3>1. Adds(Task("prewarm", 0, FALSE)) /\ SameHeld /\ Task("prewarm", 0, FALSE) \in Tasks
      BY <2>5, EnqueueFacts
    <3>2. ~IsWork(Task("prewarm", 0, FALSE))
      BY DEF IsWork, Task
    <3>3. QED
      BY <2>1, <2>3, <3>1, <3>2, AddsOnly DEF OnlyPrewarmsWhileStopped, SameHeld, IsWork
  <2>6. ASSUME NEW v \in WorkerIds, WorkerTakes(v)
        PROVE  /\ \A i \in DOMAIN queue' : ~IsWork(queue'[i])
               /\ \A w \in WorkerIds : Holds(w)' /\ w # session'.join => ~IsWork(workers'[w].task)
    BY <2>1, <2>3, <2>6, WorkerTakesFacts DEF OnlyPrewarmsWhileStopped, Holds, IsWork
  <2>7. ASSUME NEW v \in WorkerIds, WorkerLeaves(v) \/ ProcessWorkerTask(v)
        PROVE  /\ \A i \in DOMAIN queue' : ~IsWork(queue'[i])
               /\ \A w \in WorkerIds : Holds(w)' /\ w # session'.join => ~IsWork(workers'[w].task)
    <3>1. /\ queue' = queue
          /\ \A w \in WorkerIds : Holds(w)' => Holds(w) /\ workers'[w] = workers[w]
      BY <2>7 DEF WorkerLeaves, ProcessWorkerTask, Types, Threads, Holds
    <3>2. QED
      BY <2>1, <2>3, <3>1 DEF OnlyPrewarmsWhileStopped, IsWork
  <2>8. QED
    BY <1>2, <2>2, <2>4, <2>5, <2>6, <2>7, Steps DEF QueueSteps, WorkerNext
<1>3. QED
  BY <1>1, <1>2

\* While a session is up its work is queued for an active output.
LEMMA WorkIsActiveStep ==
  ASSUME TypeOK, Types, WorkersAreKnown, ChannelIsUp, SnapshotIsActive, OnlyPrewarmsWhileStopped,
         WorkIsActive, [Next]_vars
  PROVE  WorkIsActive'
<1> DEFINE NoWork == /\ \A i \in DOMAIN queue : ~IsWork(queue[i])
                     /\ \A w \in WorkerIds : Holds(w) => ~IsWork(workers[w].task)
<1> SUFFICES ASSUME session'.pc = "up", ~comp'.active
             PROVE  NoWork'
  BY DEF WorkIsActive, IsWork
<1>1. NoWork
  <2>1. CASE InstallHooks
    <3>1. session.pc = "attach"
      BY <2>1 DEF InstallHooks
    <3>2. session.join = 0
      BY <3>1 DEF WorkersAreKnown
    <3>3. QED
      BY <3>1, <3>2 DEF OnlyPrewarmsWhileStopped, Stopped, WorkerIds
  <2>2. CASE ~InstallHooks
    BY <2>2, UpSteps DEF WorkIsActive
  <2>3. QED
    BY <2>1, <2>2
<1>2. ~EnqueueSurfaceCommand /\ ~QueueEndFrame
  BY DEF EnqueueSurfaceCommand, QueueEndFrame, SnapshotIsActive
<1>3. CASE UNCHANGED <<queue, workers>>
  BY <1>1, <1>3 DEF Holds, IsWork
<1>4. ASSUME Adds(Task("prewarm", 0, FALSE)), SameHeld, Task("prewarm", 0, FALSE) \in Tasks
      PROVE  NoWork'
  <2>1. ~IsWork(Task("prewarm", 0, FALSE))
    BY DEF IsWork, Task
  <2>2. QED
    BY <1>1, <1>4, <2>1, AddsOnly DEF SameHeld, IsWork
<1>5. CASE QueuePrewarm \/ InstallHooks
  BY <1>3, <1>4, <1>5, EnqueueFacts
<1>6. CASE ConfigureStopsWorker
  <2>1. queue' = <<>> /\ workers' = workers
    BY <1>6 DEF ConfigureStopsWorker, StopWorker
  <2>2. QED
    BY <1>1, <2>1 DEF Holds, IsWork
<1>7. ASSUME NEW w \in WorkerIds, WorkerTakes(w)
      PROVE  NoWork'
  BY <1>1, <1>7, WorkerTakesFacts DEF Holds, IsWork
<1>8. ASSUME NEW w \in WorkerIds, WorkerLeaves(w) \/ ProcessWorkerTask(w)
      PROVE  NoWork'
  <2>1. /\ queue' = queue
        /\ \A v \in WorkerIds : Holds(v)' => Holds(v) /\ workers'[v] = workers[v]
    BY <1>8 DEF WorkerLeaves, ProcessWorkerTask, Types, Threads, Holds
  <2>2. QED
    BY <1>1, <2>1 DEF IsWork
<1>9. QED
  BY <1>2, <1>3, <1>5, <1>6, <1>7, <1>8, Steps DEF QueueSteps, WorkerNext
-----------------------------------------------------------------------------
(* What the GPU holds, and whose the stream and the output are.            *)

GpuSteps ==
  \/ ProcessSurfaceCommand \/ ProcessEndFrame \/ Configure
  \/ \E w \in WorkerIds : ProcessWorkerTask(w)
StreamSteps == RejectInvalidLc \/ EnqueueSurfaceCommand \/ ProcessSurfaceCommand \/ InstallHooks
OwnerSteps ==
  \/ ProcessSurfaceCommand \/ SurfaceDestroyedResetsOwner \/ ResetAvcGpuOutputOwner \/ Configure
LEMMA MoreSteps ==
  ASSUME [Next]_vars
  PROVE  /\ UNCHANGED <<gpu, shown>> \/ GpuSteps
         /\ UNCHANGED stream \/ StreamSteps
         /\ UNCHANGED owner \/ OwnerSteps
<1>1. CASE ChannelNext
  BY <1>1
     DEF ChannelNext, GpuSteps, StreamSteps, OwnerSteps, outputVars, OnSurfaceCommand,
         RejectInvalidLc, EnqueueSurfaceCommand, CannotEnqueue, ProcessSurfaceCommand,
         TakeoverStopsPipeline, TakeoverReleasesTarget, OnEndFrame, QueueEndFrame, ProcessEndFrame,
         DesktopResize
<1>2. CASE WorkerNext
  BY <1>2
     DEF GpuSteps, StreamSteps, OwnerSteps, outputVars, WorkerNext, WorkerTakes, WorkerLeaves,
         ProcessWorkerTask
<1>3. CASE UiNext
  BY <1>3
     DEF UiNext, GpuSteps, StreamSteps, OwnerSteps, outputVars, OnXComponentSurfaceAvailable,
         OnXComponentSurfaceDestroyed, PrewarmIfReady, QueuePrewarm, SurfaceDestroyedResetsOwner
<1>4. CASE SessionNext
  BY <1>4
     DEF SessionNext, GpuSteps, StreamSteps, OwnerSteps, outputVars,
         ConfigureGraphicsPipelineChannel, RestoreHooks, ResetAvcSurfaceOutput, LookAtOwner,
         ResetAvcGpuOutputOwner, ConfigureStopsWorker, Configure, InstallHooks
<1>5. CASE UNCHANGED vars
  BY <1>5 DEF vars, outputVars
<1>6. QED
  BY <1>1, <1>2, <1>3, <1>4, <1>5 DEF Next

\* Only Configure resets; what comes after it, until the session is up, is a prewarm.
LEMMA ResetSteps ==
  ASSUME Types, ChannelIsUp, [Next]_vars,
         session'.pc \in {"attach", "detached", "away"}, ~Configure
  PROVE  /\ session'.pc = session.pc
         /\ ~ProcessSurfaceCommand /\ ~ProcessEndFrame /\ ~TakeoverReleasesTarget
         /\ ~ResetAvcGpuOutputOwner /\ ~ConfigureGraphicsPipelineChannel /\ ~ResetAvcSurfaceOutput
<1>1. session \in Sessions
  BY DEF Types
<1>2. ~SessionNext
  BY <1>1
     DEF SessionNext, ConfigureGraphicsPipelineChannel, RestoreHooks, ResetAvcSurfaceOutput,
         LookAtOwner, ResetAvcGpuOutputOwner, ConfigureStopsWorker, InstallHooks, Sessions
<1>3. session' = session
  BY <1>2, Steps
<1>4. channel.pc = "idle"
  BY <1>3 DEF ChannelIsUp
<1>5. QED
  BY <1>2, <1>3, <1>4
     DEF ProcessSurfaceCommand, ProcessEndFrame, TakeoverReleasesTarget, SessionNext

LEMMA ConfigureFacts ==
  ASSUME Types, Configure
  PROVE  gpu' = NoGpu /\ gpu'.pending = 0 /\ shown' = 0 /\ ~comp'.active /\ owner' = "gdi"
  BY DEF Types, Configure, Destroy, NoGpu, TransitionRenderOutputOwner

LEMMA ResetIsIdleStep ==
  ASSUME Types, TasksAreGood, WorkersAreKnown, ChannelIsUp, OnlyPrewarmsWhileStopped, WorkIsActive,
         ResetIsIdle, [Next]_vars
  PROVE  ResetIsIdle'
<1> SUFFICES ASSUME session'.pc \in {"attach", "detached", "away"}
             PROVE  ~comp'.active /\ gpu'.pending = 0
  BY DEF ResetIsIdle
<1>1. CASE Configure
  BY <1>1, ConfigureFacts
<1>2. CASE ~Configure
  <2>1. ~comp.active /\ gpu.pending = 0 /\ session.pc \in {"attach", "detached", "away"}
    BY <1>2, ResetSteps DEF ResetIsIdle
  <2>2. ASSUME NEW w \in WorkerIds, ProcessWorkerTask(w)
        PROVE  comp' = comp /\ gpu'.pending = gpu.pending
    <3>1. Holds(w) /\ w # session.join
      BY <2>1, <2>2 DEF ProcessWorkerTask, Holds, WorkersAreKnown, WorkerIds
    <3>2. ~IsWork(workers[w].task)
      BY <2>1, <3>1 DEF OnlyPrewarmsWhileStopped, Stopped
    <3>3. QED
      BY <2>1, <2>2, <3>2, WorkerKeepsActive, ProcessWorkerTaskFacts
  <2>3. comp' = comp
    BY <1>2, <2>2, ResetSteps, Steps DEF CompSteps
  <2>4. gpu'.pending = gpu.pending
    BY <1>2, <2>2, ResetSteps, MoreSteps DEF GpuSteps
  <2>5. QED
    BY <2>1, <2>3, <2>4
<1>3. QED
  BY <1>1, <1>2

LEMMA QuietAfterResetStep ==
  ASSUME Types, ChannelIsUp, ResetPhases, QuietAfterReset, [Next]_vars
  PROVE  QuietAfterReset'
<1> SUFFICES ASSUME session'.pc \in {"detached", "away"}
             PROVE  gpu' = NoGpu /\ shown' = 0 /\ ~comp'.active /\ owner' = "gdi"
  BY DEF QuietAfterReset, NoGpu, NoRenderer, NoDecoder
<1>1. CASE Configure
  BY <1>1, ConfigureFacts
<1>2. CASE ~Configure
  <2>1. /\ session.pc \in {"detached", "away"} /\ ~comp.enabled
        /\ gpu = NoGpu /\ shown = 0 /\ ~comp.active /\ owner = "gdi"
    BY <1>2, ResetSteps DEF ResetPhases, QuietAfterReset
  <2>2. ASSUME NEW w \in WorkerIds, ProcessWorkerTask(w)
        PROVE  UNCHANGED <<gpu, comp, shown>>
    BY <2>1, <2>2 DEF ProcessWorkerTask
  <2>3. UNCHANGED <<gpu, comp, shown>>
    BY <1>2, <2>2, ResetSteps, Steps, MoreSteps DEF CompSteps, GpuSteps
  <2>4. owner' = "gdi"
    BY <1>2, <2>1, ResetSteps, MoreSteps
       DEF OwnerSteps, SurfaceDestroyedResetsOwner, TransitionRenderOutputOwner
  <2>5. QED
    BY <2>1, <2>3, <2>4
<1>3. QED
  BY <1>1, <1>2

\* The GPU takes the stream for an output that is active, or about to be.
LEMMA GpuStreamIsActiveStep ==
  ASSUME Types, ChannelIsUp, SnapshotIsActive, GpuStreamIsActive, [Next]_vars
  PROVE  GpuStreamIsActive'
<1> SUFFICES ASSUME session'.pc = "up", stream' = "gpu"
             PROVE  comp'.active \/ channel'.pc \in {"stop", "release"}
  BY DEF GpuStreamIsActive
<1>0. channel \in Channels /\ comp \in Comps /\ session \in Sessions
  BY DEF Types, Comps
<1>1. ~InstallHooks
  BY DEF InstallHooks
<1>2. session' = session /\ (comp.active => comp'.active)
  BY <1>1, UpSteps
<1>3. CASE ProcessSurfaceCommand
  BY <1>0, <1>2, <1>3
     DEF ProcessSurfaceCommand, LeftToGdi, Suppressed, GpuStreamIsActive, Channels
<1>4. CASE EnqueueSurfaceCommand
  BY <1>2, <1>4 DEF EnqueueSurfaceCommand, SnapshotIsActive
<1>5. CASE RejectInvalidLc
  BY <1>2, <1>5 DEF RejectInvalidLc, LeftToGdi, GpuStreamIsActive
<1>6. CASE UNCHANGED stream
  <2>1. comp.active \/ channel.pc \in {"stop", "release"}
    BY <1>2, <1>6 DEF GpuStreamIsActive
  <2>2. CASE comp.active
    BY <1>2, <2>2
  <2>3. CASE TakeoverStopsPipeline
    BY <1>0, <2>3 DEF TakeoverStopsPipeline, Channels
  <2>4. CASE TakeoverReleasesTarget
    BY <1>0, <2>4 DEF TakeoverReleasesTarget, Comps
  <2>5. CASE channel.pc \in {"stop", "release"} /\ ~TakeoverStopsPipeline /\ ~TakeoverReleasesTarget
    <3>1. ASSUME ChannelNext
          PROVE  FALSE
      BY <2>5, <3>1
         DEF ChannelNext, ChannelIdle, OnSurfaceCommand, RejectInvalidLc, EnqueueSurfaceCommand,
             CannotEnqueue, ProcessSurfaceCommand, OnEndFrame, QueueEndFrame, ProcessEndFrame,
             DesktopResize
    <3>2. channel' = channel
      BY <1>1, <3>1
         DEF Next, WorkerNext, UiNext, SessionNext, vars, WorkerTakes, WorkerLeaves,
             ProcessWorkerTask, OnXComponentSurfaceAvailable, OnXComponentSurfaceDestroyed,
             PrewarmIfReady, QueuePrewarm, SurfaceDestroyedResetsOwner,
             ConfigureGraphicsPipelineChannel, RestoreHooks, ResetAvcSurfaceOutput, LookAtOwner,
             ResetAvcGpuOutputOwner, ConfigureStopsWorker, Configure
    <3>3. QED
      BY <2>5, <3>2
  <2>6. QED
    BY <2>1, <2>2, <2>3, <2>4, <2>5
<1>7. QED
  BY <1>1, <1>3, <1>4, <1>5, <1>6, MoreSteps DEF StreamSteps

\* A command that the GPU cannot take while the output is active is dropped.
LEMMA GdiNeverResumesMidStreamStep ==
  ASSUME Types, ChannelIsUp, GpuStreamIsActive, GdiNeverResumesMidStream, [Next]_vars
  PROVE  GdiNeverResumesMidStream'
<1>1. CASE UNCHANGED stream
  BY <1>1 DEF GdiNeverResumesMidStream
<1>2. CASE RejectInvalidLc \/ EnqueueSurfaceCommand \/ InstallHooks
  BY <1>2
     DEF RejectInvalidLc, EnqueueSurfaceCommand, InstallHooks, LeftToGdi, Suppressed,
         GdiNeverResumesMidStream
<1>3. CASE ProcessSurfaceCommand
  <2>1. PICK c \in CommandKinds : \E o \in ProcessCommand(gpu, c, channel.frame, comp.active) :
          IF o.answer = "gdi" THEN LeftToGdi(c.rects # "bad")
          ELSE \E pc \in {"idle", "release", "stop"} : Suppressed(pc)
    BY <1>3 DEF ProcessSurfaceCommand
  <2>2. PICK o \in ProcessCommand(gpu, c, channel.frame, comp.active) :
          IF o.answer = "gdi" THEN LeftToGdi(c.rects # "bad")
          ELSE \E pc \in {"idle", "release", "stop"} : Suppressed(pc)
    BY <2>1
  <2>3. channel.frame \in Frames /\ comp.active \in BOOLEAN /\ gpu \in Gpu(Windows)
    BY DEF Types, Channels
  <2>4. comp.active /\ c.rects # "bad" => o.answer = "handled"
    BY <2>1, <2>2, <2>3, ProcessCommandHere
  <2>5. stream = "gpu" => comp.active
    BY <1>3 DEF ProcessSurfaceCommand, ChannelIsUp, GpuStreamIsActive
  <2>6. QED
    BY <2>2, <2>4, <2>5 DEF LeftToGdi, Suppressed, GdiNeverResumesMidStream
<1>4. QED
  BY <1>1, <1>2, <1>3, MoreSteps DEF StreamSteps
-----------------------------------------------------------------------------
(* Nothing waits for an end of a frame that does not come.                 *)

\* A frame without a command: the last one has ended, or the session begins.
LEMMA UnusedSteps ==
  ASSUME Types, ChannelIsUp, [Next]_vars, session'.pc = "up", ~channel'.used,
         ~QueueEndFrame, ~ProcessEndFrame, ~InstallHooks
  PROVE  /\ session.pc = "up" /\ ~channel.used
         /\ ~EnqueueSurfaceCommand /\ ~ProcessSurfaceCommand /\ ~ConfigureStopsWorker /\ ~Configure
<1>1. session' = session /\ channel \in Channels /\ session \in Sessions
  BY UpSteps DEF Types
<1>2. ~ConfigureStopsWorker /\ ~Configure
  BY <1>1 DEF ConfigureStopsWorker, Configure
<1>3. ~channel.used
  <2>1. CASE ChannelNext
    BY <1>1, <2>1
       DEF ChannelNext, OnSurfaceCommand, RejectInvalidLc, EnqueueSurfaceCommand, CannotEnqueue,
           ProcessSurfaceCommand, TakeoverStopsPipeline, TakeoverReleasesTarget, OnEndFrame,
           DesktopResize, LeftToGdi, Suppressed, Channels
  <2>2. CASE ~ChannelNext
    BY <2>2
       DEF Next, WorkerNext, UiNext, SessionNext, vars, WorkerTakes, WorkerLeaves,
           ProcessWorkerTask, OnXComponentSurfaceAvailable, OnXComponentSurfaceDestroyed,
           PrewarmIfReady, QueuePrewarm, SurfaceDestroyedResetsOwner,
           ConfigureGraphicsPipelineChannel, RestoreHooks, ResetAvcSurfaceOutput, LookAtOwner,
           ResetAvcGpuOutputOwner, ConfigureStopsWorker, Configure
  <2>3. QED
    BY <2>1, <2>2
<1>4. QED
  BY <1>1, <1>2, <1>3 DEF ChannelIsUp, EnqueueSurfaceCommand, ProcessSurfaceCommand

\* While a session is up, one worker at most holds a task.
LEMMA OneHolder ==
  ASSUME WorkersAreKnown, session.pc = "up", NEW v \in WorkerIds, NEW w \in WorkerIds,
         workers[v].pc # "none", workers[w].pc # "none"
  PROVE  v = w
  BY DEF WorkersAreKnown, WorkerIds

LEMMA WorkIsEndedStep ==
  ASSUME TypeOK, Types, TasksAreGood, WorkersAreKnown, ChannelIsUp, OnlyPrewarmsWhileStopped,
         WorkIsActive, ActiveIsEnabled, SnapshotIsActive, ResetIsIdle, WorkIsEnded, [Next]_vars
  PROVE  WorkIsEnded'
<1> DEFINE Ended ==
      /\ \A i \in DOMAIN queue :
           queue[i].type = "command" =>
             \E j \in DOMAIN queue : i < j /\ queue[j].type = "endFrame"
      /\ \A w \in WorkerIds : Holds(w) /\ workers[w].task.type = "command" => EndIsQueued
      /\ gpu.pending # 0 => EndIsQueued \/ EndIsHeld
    NoWork == /\ \A i \in DOMAIN queue : ~IsWork(queue[i])
              /\ \A w \in WorkerIds : Holds(w) => ~IsWork(workers[w].task)
<1> SUFFICES ASSUME session'.pc = "up", ~channel'.used
             PROVE  Ended'
  BY DEF WorkIsEnded
<1>1. CASE QueueEndFrame
  <2>1. Adds(Task("endFrame", channel.frame, channel.matched))
    BY <1>1, EnqueueFacts
  <2>2. /\ Len(queue') \in DOMAIN queue' /\ queue'[Len(queue')].type = "endFrame"
        /\ \A i \in DOMAIN queue' : i # Len(queue') => i < Len(queue')
    BY <2>1 DEF Adds, Task
  <2>3. QED
    BY <2>2 DEF EndIsQueued
<1>2. CASE ProcessEndFrame
  <2>1. PICK p \in PresentEndFrame(gpu, channel.frame, channel.matched, target.window) :
          gpu' = p.gpu
    BY <1>2 DEF ProcessEndFrame
  <2>2. /\ channel.frame \in Frames \cup {0} /\ channel.matched \in BOOLEAN
        /\ target.window \in Windows /\ gpu \in Gpu(Windows)
    BY DEF Types, Channels
  <2>3. gpu'.pending = 0
    <3>1. p.gpu \in Gpu(Windows) /\ p.gpu.pending = 0 /\ p.shown \in Frames \cup {0}
      BY <2>1, <2>2, PresentEndFrameHere
    <3>2. QED
      BY <2>1, <3>1
  <2>4. NoWork /\ queue' = queue /\ workers' = workers
    BY <1>2 DEF ProcessEndFrame, threadVars, ChannelIsUp, SnapshotIsActive, WorkIsActive
  <2>5. QED
    BY <2>3, <2>4 DEF IsWork, Holds
<1>3. CASE InstallHooks
  <2>1. session.pc = "attach" /\ gpu' = gpu
    BY <1>3 DEF InstallHooks
  <2>2. session.join = 0 /\ gpu.pending = 0
    BY <2>1 DEF WorkersAreKnown, ResetIsIdle
  <2>3. NoWork
    BY <2>1, <2>2 DEF OnlyPrewarmsWhileStopped, Stopped, WorkerIds
  <2>4. CASE UNCHANGED <<queue, workers>>
    BY <2>1, <2>2, <2>3, <2>4 DEF IsWork, Holds
  <2>5. CASE Adds(Task("prewarm", 0, FALSE)) /\ SameHeld /\ Task("prewarm", 0, FALSE) \in Tasks
    <3>1. Task("prewarm", 0, FALSE).type = "prewarm"
      BY DEF Task
    <3>2. NoWork'
      BY <2>3, <2>5, <3>1, AddsOnly DEF SameHeld, IsWork
    <3>3. QED
      BY <2>1, <2>2, <3>2 DEF IsWork
  <2>6. QED
    BY <1>3, <2>4, <2>5, EnqueueFacts
<1>4. CASE ~QueueEndFrame /\ ~ProcessEndFrame /\ ~InstallHooks
  <2>1. /\ session.pc = "up" /\ Ended
        /\ ~EnqueueSurfaceCommand /\ ~ProcessSurfaceCommand /\ ~ConfigureStopsWorker /\ ~Configure
    BY <1>4, UnusedSteps DEF WorkIsEnded
  <2>2. queue \in Seq(Tasks)
    BY DEF Types
  <2>3. CASE QueuePrewarm
    <3>1. queue' = Append(queue, Task("prewarm", 0, FALSE)) /\ gpu' = gpu
      BY <2>3 DEF QueuePrewarm, Enqueue
    <3>2. /\ Len(queue') = Len(queue) + 1 /\ queue'[Len(queue')].type = "prewarm"
          /\ \A i \in DOMAIN queue : i \in DOMAIN queue' /\ queue'[i] = queue[i]
          /\ \A i \in DOMAIN queue' : i = Len(queue') \/ i \in DOMAIN queue
      BY <2>2, <3>1 DEF Task
    <3>3. SameHeld
      BY <2>3, EnqueueFacts
    <3>4. EndIsQueued => EndIsQueued'
      BY <3>2 DEF EndIsQueued
    <3>5. EndIsHeld => EndIsHeld'
      BY <3>3 DEF EndIsHeld, SameHeld
    <3>6. \A i \in DOMAIN queue' : queue'[i].type = "command" =>
             \E j \in DOMAIN queue' : i < j /\ queue'[j].type = "endFrame"
      BY <2>1, <3>2
    <3>7. QED
      BY <2>1, <3>1, <3>3, <3>4, <3>5, <3>6 DEF SameHeld
  <2>4. ASSUME NEW w \in WorkerIds, WorkerTakes(w)
        PROVE  Ended'
    <3>1. /\ queue' \in Seq(Tasks)
          /\ 1 \in DOMAIN queue /\ Holds(w)' /\ workers'[w].task = queue[1] /\ ~Holds(w)
          /\ \A i \in DOMAIN queue' : i + 1 \in DOMAIN queue /\ queue'[i] = queue[i + 1]
          /\ \A i \in DOMAIN queue : i # 1 => i - 1 \in DOMAIN queue'
      BY <2>4, WorkerTakesFacts
    <3>2. \A v \in WorkerIds : ~Holds(v) /\ (Holds(v)' => v = w)
      <4>1. \A v \in WorkerIds : Holds(v) => v = w
        BY <2>1, <2>4, OneHolder DEF WorkerTakes, Holds
      <4>2. \A v \in WorkerIds \ {w} : workers'[v] = workers[v]
        BY <2>4, WorkerTakesFacts
      <4>3. QED
        BY <3>1, <4>1, <4>2 DEF Holds
    <3>3. \A i \in DOMAIN queue, k \in DOMAIN queue :
            i < k => k - 1 \in DOMAIN queue' /\ queue'[k - 1] = queue[k]
      BY <2>2, <3>1
    <3>4. \A i \in DOMAIN queue' : queue'[i].type = "command" =>
             \E j \in DOMAIN queue' : i < j /\ queue'[j].type = "endFrame"
      <4> SUFFICES ASSUME NEW i \in DOMAIN queue', queue'[i].type = "command"
                   PROVE  \E j \in DOMAIN queue' : i < j /\ queue'[j].type = "endFrame"
        OBVIOUS
      <4>1. PICK k \in DOMAIN queue : i + 1 < k /\ queue[k].type = "endFrame"
        BY <2>1, <3>1
      <4>2. k - 1 \in DOMAIN queue' /\ queue'[k - 1] = queue[k]
        BY <3>1, <3>3, <4>1
      <4>3. i < k - 1
        BY <2>2, <3>1, <4>1
      <4>4. QED
        BY <4>1, <4>2, <4>3
    <3>5. queue[1].type = "command" => EndIsQueued'
      BY <2>1, <3>1, <3>3 DEF EndIsQueued
    <3>6. EndIsQueued => EndIsQueued' \/ EndIsHeld'
      <4> SUFFICES ASSUME NEW j \in DOMAIN queue, queue[j].type = "endFrame"
                   PROVE  EndIsQueued' \/ EndIsHeld'
        BY DEF EndIsQueued
      <4>1. CASE j = 1
        BY <3>1, <4>1 DEF EndIsHeld
      <4>2. CASE j # 1
        <5>1. 1 < j
          BY <2>2, <4>2
        <5>2. QED
          BY <3>1, <3>3, <5>1 DEF EndIsQueued
      <4>3. QED
        BY <4>1, <4>2
    <3>7. gpu' = gpu
      BY <2>4 DEF WorkerTakes
    <3>8. QED
      BY <2>1, <3>1, <3>2, <3>4, <3>5, <3>6, <3>7 DEF EndIsHeld
  <2>5. ASSUME NEW w \in WorkerIds, WorkerLeaves(w)
        PROVE  Ended'
    <3>1. gpu' = gpu /\ queue' = queue
      BY <2>5 DEF WorkerLeaves
    <3>2. \A v \in WorkerIds : (Holds(v)' <=> Holds(v)) /\ workers'[v].task = workers[v].task
      BY <2>5 DEF WorkerLeaves, Types, Threads, Holds
    <3>3. QED
      BY <2>1, <3>1, <3>2 DEF EndIsHeld, EndIsQueued
  <2>6. ASSUME NEW w \in WorkerIds, ProcessWorkerTask(w)
        PROVE  Ended'
    <3>1. /\ Holds(w) /\ GoodTask(workers[w].task) /\ workers[w].task \in Tasks /\ ~Holds(w)'
          /\ ~IsWork(workers[w].task) => gpu'.pending = gpu.pending
          /\ comp.enabled /\ workers[w].task.type = "endFrame" => gpu'.pending = 0
          /\ \A v \in WorkerIds \ {w} : workers'[v] = workers[v]
      BY <2>6, ProcessWorkerTaskFacts
    <3>2. queue' = queue
      BY <2>6 DEF ProcessWorkerTask
    <3>3. \A v \in WorkerIds : (Holds(v) => v = w) /\ ~Holds(v)'
      <4>1. \A v \in WorkerIds : Holds(v) => v = w
        BY <2>1, <3>1, OneHolder DEF Holds
      <4>2. QED
        BY <3>1, <4>1 DEF Holds
    <3>4. IsWork(workers[w].task) => comp.enabled
      BY <2>1, <3>1 DEF WorkIsActive, ActiveIsEnabled
    <3>5. workers[w].task.type = "command" => EndIsQueued
      BY <2>1, <3>1
    <3>6. gpu'.pending # 0 => EndIsQueued
      BY <2>1, <3>1, <3>3, <3>4, <3>5 DEF IsWork, EndIsHeld
    <3>7. QED
      BY <2>1, <3>2, <3>3, <3>6 DEF EndIsQueued
  <2>7. CASE UNCHANGED <<queue, workers, gpu>>
    BY <2>1, <2>7 DEF Holds, EndIsHeld, EndIsQueued
  <2>8. QED
    <3>1. UNCHANGED <<queue, workers>> \/ QueuePrewarm \/ WorkerNext
      BY <1>4, <2>1, Steps DEF QueueSteps
    <3>2. UNCHANGED gpu \/ WorkerNext
      BY <1>4, <2>1, MoreSteps DEF GpuSteps, WorkerNext
    <3>3. QED
      BY <2>3, <2>4, <2>5, <2>6, <2>7, <3>1, <3>2 DEF WorkerNext
<1>5. QED
  BY <1>1, <1>2, <1>3, <1>4
-----------------------------------------------------------------------------
(* The queue is bounded by what the ui thread and the channel can queue.    *)

LeftIsNatural == UiLeft \in Nat /\ ChannelLeft \in Nat
LEMMA LeftTypes == Types => LeftIsNatural
<1> SUFFICES ASSUME Types PROVE LeftIsNatural
  OBVIOUS
<1>1. /\ target.last \in 0 .. MaxTargets /\ channel.commands \in 0 .. MaxCommands
      /\ MaxTargets \in Nat /\ MaxCommands \in Nat
  BY DEF Types, Windows, Channels
<1>2. MaxTargets - target.last \in Nat /\ MaxCommands - channel.commands \in Nat
  BY <1>1
<1>3. QED
  BY <1>2 DEF LeftIsNatural, UiLeft, ChannelLeft

LEMMA UiLeftStep ==
  ASSUME Types, [Next]_vars
  PROVE  UiLeft' <= UiLeft /\ (QueuePrewarm => UiLeft' + 1 <= UiLeft)
<1>0. /\ target \in [window : Windows, last : Windows] /\ UiLeft \in Nat
      /\ ui \in [pc : {"idle", "look", "push", "owner"}, gone : BOOLEAN]
      /\ target.last \in Nat /\ MaxTargets \in Nat
  BY LeftTypes DEF LeftIsNatural, Types, Windows
<1>1. CASE OnXComponentSurfaceAvailable
  <2>1. /\ ui.pc = "idle" /\ ui'.pc = "look"
        /\ target'.last = target.last + 1 /\ target'.window # 0
    BY <1>0, <1>1 DEF OnXComponentSurfaceAvailable, SurfaceAvailable
  <2>2. QED
    BY <1>0, <1>1, <2>1 DEF UiLeft, QueuePrewarm
<1>2. CASE OnXComponentSurfaceDestroyed
  <2>1. /\ ui.pc = "idle" /\ ui'.pc = "look"
        /\ target'.last = target.last /\ target.window # 0 /\ target'.window = 0
    BY <1>0, <1>2 DEF OnXComponentSurfaceDestroyed, SurfaceGone
  <2>2. QED
    BY <1>0, <1>2, <2>1 DEF UiLeft, QueuePrewarm
<1>3. CASE PrewarmIfReady
  <2>1. ui.pc = "look" /\ target' = target
    BY <1>3 DEF PrewarmIfReady, outputVars
  <2>2. QED
    BY <1>0, <1>3, <2>1 DEF UiLeft, QueuePrewarm
<1>4. CASE QueuePrewarm
  <2>1. ui.pc = "push" /\ ui'.pc \in {"owner", "idle"} /\ target' = target
    BY <1>4 DEF QueuePrewarm, AfterPrewarm, outputVars
  <2>2. QED
    BY <1>0, <2>1 DEF UiLeft
<1>5. CASE SurfaceDestroyedResetsOwner
  <2>1. ui.pc = "owner" /\ ui'.pc = "idle" /\ target' = target
    BY <1>0, <1>5 DEF SurfaceDestroyedResetsOwner
  <2>2. QED
    BY <1>0, <1>5, <2>1 DEF UiLeft, QueuePrewarm
<1>6. CASE ~UiNext
  <2>1. UNCHANGED <<target, ui>>
    BY <1>6
       DEF Next, ChannelNext, WorkerNext, SessionNext, vars, outputVars, OnSurfaceCommand,
           RejectInvalidLc, EnqueueSurfaceCommand, CannotEnqueue, ProcessSurfaceCommand,
           TakeoverStopsPipeline, TakeoverReleasesTarget, OnEndFrame, QueueEndFrame,
           ProcessEndFrame, DesktopResize, WorkerTakes, WorkerLeaves, ProcessWorkerTask,
           ConfigureGraphicsPipelineChannel, RestoreHooks, ResetAvcSurfaceOutput, LookAtOwner,
           ResetAvcGpuOutputOwner, ConfigureStopsWorker, Configure, InstallHooks
  <2>2. ~QueuePrewarm
    BY <1>6 DEF UiNext
  <2>3. QED
    BY <1>0, <2>1, <2>2 DEF UiLeft
<1>7. QED
  BY <1>1, <1>2, <1>3, <1>4, <1>5, <1>6 DEF UiNext

LEMMA ChannelLeftStep ==
  ASSUME Types, ChannelIsUp, [Next]_vars, session.pc = "up"
  PROVE  /\ ChannelLeft' <= ChannelLeft
         /\ EnqueueSurfaceCommand \/ QueueEndFrame => ChannelLeft' + 1 <= ChannelLeft
<1>0. /\ channel \in Channels /\ ChannelLeft \in Nat
      /\ channel.commands \in Nat /\ MaxCommands \in Nat
  BY LeftTypes DEF LeftIsNatural, Types, Channels
<1>1. CASE OnSurfaceCommand
  <2>1. /\ channel.pc = "idle" /\ channel'.pc = "command" /\ channel'.used
        /\ channel'.commands = channel.commands + 1
    BY <1>0, <1>1 DEF OnSurfaceCommand, ChannelIdle, Channels
  <2>2. ~EnqueueSurfaceCommand /\ ~QueueEndFrame
    BY <2>1 DEF EnqueueSurfaceCommand, QueueEndFrame
  <2>3. QED
    BY <1>0, <2>1, <2>2 DEF ChannelLeft
<1>2. CASE EnqueueSurfaceCommand
  <2>1. /\ channel.pc = "command" /\ channel'.pc = "idle" /\ channel'.used = channel.used
        /\ channel'.commands = channel.commands
    BY <1>0, <1>2 DEF EnqueueSurfaceCommand, Suppressed, Channels
  <2>2. QED
    BY <1>0, <2>1 DEF ChannelLeft
<1>3. CASE QueueEndFrame
  <2>1. /\ channel.pc = "end" /\ channel'.pc = "idle" /\ channel.used /\ ~channel'.used
        /\ channel'.commands = channel.commands
    BY <1>0, <1>3 DEF QueueEndFrame, EndOfFrame, ChannelIsUp, Channels
  <2>2. QED
    BY <1>0, <2>1 DEF ChannelLeft
<1>4. CASE ~OnSurfaceCommand /\ ~EnqueueSurfaceCommand /\ ~QueueEndFrame
  <2>1. /\ channel'.commands = channel.commands /\ (channel'.used => channel.used)
        /\ channel'.pc = "command" => channel.pc = "command"
    <3>1. CASE ChannelNext
      BY <1>0, <1>4, <3>1
         DEF ChannelNext, RejectInvalidLc, CannotEnqueue, ProcessSurfaceCommand,
             TakeoverStopsPipeline, TakeoverReleasesTarget, OnEndFrame, ProcessEndFrame,
             DesktopResize, LeftToGdi, Suppressed, EndOfFrame, Channels
    <3>2. CASE ~ChannelNext
      <4>1. ~InstallHooks
        BY DEF InstallHooks
      <4>2. channel' = channel
        BY <3>2, <4>1
           DEF Next, WorkerNext, UiNext, SessionNext, vars, WorkerTakes, WorkerLeaves,
               ProcessWorkerTask, OnXComponentSurfaceAvailable, OnXComponentSurfaceDestroyed,
               PrewarmIfReady, QueuePrewarm, SurfaceDestroyedResetsOwner,
               ConfigureGraphicsPipelineChannel, RestoreHooks, ResetAvcSurfaceOutput, LookAtOwner,
               ResetAvcGpuOutputOwner, ConfigureStopsWorker, Configure
      <4>3. QED
        BY <4>2
    <3>3. QED
      BY <3>1, <3>2
  <2>2. QED
    BY <1>0, <1>4, <2>1 DEF ChannelLeft
<1>5. QED
  BY <1>1, <1>2, <1>3, <1>4

\* By how much a step lengthens the queue.
Enqueues == EnqueueSurfaceCommand \/ QueueEndFrame \/ QueuePrewarm \/ InstallHooks
LEMMA QueueLengthStep ==
  ASSUME TypeOK, Types, [Next]_vars
  PROVE  /\ Len(queue') \in Nat /\ Len(queue) \in Nat
         /\ Len(queue') <= Len(queue) + 1 /\ (~Enqueues => Len(queue') <= Len(queue))
         /\ ConfigureStopsWorker => Len(queue') = 0
<1>1. queue \in Seq(Tasks) /\ Len(queue) \in Nat
  BY DEF Types
<1>2. CASE UNCHANGED <<queue, workers>> /\ ~ConfigureStopsWorker
  BY <1>1, <1>2
<1>3. CASE ConfigureStopsWorker
  <2>1. queue' = <<>>
    BY <1>3 DEF ConfigureStopsWorker, StopWorker
  <2>2. Len(queue') = 0
    BY <2>1
  <2>3. QED
    BY <1>1, <2>2
<1>4. CASE Enqueues /\ ~ConfigureStopsWorker
  <2>1. Len(queue') \in 1 .. Len(queue) + 1 \/ queue' = queue
    BY <1>4, EnqueueFacts DEF Enqueues, Adds
  <2>2. QED
    BY <1>1, <1>4, <2>1
<1>5. ASSUME NEW w \in WorkerIds, WorkerTakes(w), ~ConfigureStopsWorker
      PROVE  Len(queue') \in Nat /\ Len(queue') <= Len(queue)
  BY <1>1, <1>5, WorkerTakesFacts
<1>6. ASSUME NEW w \in WorkerIds, WorkerLeaves(w) \/ ProcessWorkerTask(w)
      PROVE  queue' = queue
  BY <1>6 DEF WorkerLeaves, ProcessWorkerTask
<1>7. QED
  BY <1>1, <1>2, <1>3, <1>4, <1>5, <1>6, Steps DEF QueueSteps, WorkerNext, Enqueues

LEMMA QueueIsBoundedStep ==
  ASSUME TypeOK, Types, Types', ChannelIsUp, QueueIsBounded, [Next]_vars
  PROVE  QueueIsBounded'
<1>1. /\ UiLeft \in Nat /\ ChannelLeft \in Nat /\ UiLeft' \in Nat /\ ChannelLeft' \in Nat
      /\ Len(queue') \in Nat /\ Len(queue) \in Nat
  <2>1. Types' => LeftIsNatural'
    BY LeftTypes, PTL
  <2>2. QED
    BY <2>1, LeftTypes, QueueLengthStep DEF LeftIsNatural
\* The numbers before and after the step.
<1>2. PICK n \in Nat, u \in Nat, c \in Nat, m \in Nat, v \in Nat, d \in Nat :
        /\ n = Len(queue) /\ u = UiLeft /\ c = ChannelLeft
        /\ m = Len(queue') /\ v = UiLeft' /\ d = ChannelLeft'
  BY <1>1, Zenon
<1>3. m <= n + 1 /\ (~Enqueues => m <= n) /\ (ConfigureStopsWorker => m = 0)
  BY <1>2, QueueLengthStep, Zenon
<1>4. v <= u /\ (QueuePrewarm => v + 1 <= u)
  BY <1>2, UiLeftStep, Zenon
<1>5. /\ u <= 2 * MaxTargets
      /\ n + u + (IF session.pc = "up" THEN c ELSE 0)
           <= 2 * MaxTargets + (IF Stopped THEN 0 ELSE 2 * MaxCommands + 1)
  BY <1>2, Zenon DEF QueueIsBounded
<1>6. MaxTargets \in Nat /\ MaxCommands \in Nat
  OBVIOUS
<1>7. CASE ConfigureStopsWorker
  <2>1. m = 0 /\ session'.pc = "join"
    BY <1>3, <1>7 DEF ConfigureStopsWorker, Types, Sessions
  <2>2. v <= 2 * MaxTargets /\ m + v + 0 <= 2 * MaxTargets + 0
    BY <1>4, <1>5, <1>6, <2>1
  <2>3. session'.pc # "up" /\ Stopped'
    BY <2>1 DEF Stopped
  <2>4. QED
    BY <1>2, <2>2, <2>3 DEF QueueIsBounded
<1>8. CASE InstallHooks
  <2>1. session.pc = "attach" /\ session'.pc = "up"
    BY <1>8 DEF InstallHooks, Types, Sessions
  <2>2. channel.pc = "idle" /\ channel'.pc = "idle" /\ channel'.commands = 0 /\ ~channel'.used
    BY <1>8, <2>1 DEF InstallHooks, ChannelIsUp, Types, Channels
  <2>3. d = 2 * MaxCommands
    BY <1>2, <1>6, <2>2 DEF ChannelLeft
  <2>4. n + u <= 2 * MaxTargets
    BY <1>5, <1>6, <2>1 DEF Stopped
  <2>5. m + v + d <= 2 * MaxTargets + (2 * MaxCommands + 1)
    BY <1>3, <1>4, <1>6, <2>3, <2>4
  <2>6. v <= 2 * MaxTargets
    BY <1>4, <1>5, <1>6
  <2>7. QED
    BY <1>2, <2>1, <2>5, <2>6 DEF QueueIsBounded, Stopped
<1>9. CASE ~ConfigureStopsWorker /\ ~InstallHooks
  <2>1. (Stopped' => Stopped) /\ (session'.pc = "up" => session.pc = "up")
    BY <1>9, UpSteps
  <2>2. v <= 2 * MaxTargets
    BY <1>4, <1>5, <1>6
  <2>3. CASE session.pc = "up"
    <3>1. d <= c /\ (EnqueueSurfaceCommand \/ QueueEndFrame => d + 1 <= c)
      BY <1>2, <2>3, ChannelLeftStep, Zenon
    <3>2. m + v + d <= n + u + c
      <4>1. CASE Enqueues
        BY <1>3, <1>4, <1>9, <3>1, <4>1 DEF Enqueues
      <4>2. CASE ~Enqueues
        BY <1>3, <1>4, <3>1, <4>2
      <4>3. QED
        BY <4>1, <4>2
    <3>3. n + u + c <= 2 * MaxTargets + (2 * MaxCommands + 1)
      BY <1>5, <2>3 DEF Stopped
    <3>4. ~Stopped /\ ~Stopped'
      BY <2>1, <2>3 DEF Stopped
    <3>5. m + v + (IF session'.pc = "up" THEN d ELSE 0) <= 2 * MaxTargets + (2 * MaxCommands + 1)
      BY <1>6, <3>2, <3>3
    <3>6. QED
      BY <1>2, <2>2, <3>4, <3>5 DEF QueueIsBounded
  <2>4. CASE session.pc # "up"
    <3>1. ~EnqueueSurfaceCommand /\ ~QueueEndFrame
      BY <2>4 DEF ChannelIsUp, EnqueueSurfaceCommand, QueueEndFrame
    <3>2. m + v <= n + u
      <4>1. CASE QueuePrewarm
        BY <1>3, <1>4, <4>1
      <4>2. CASE ~QueuePrewarm
        BY <1>3, <1>4, <1>9, <3>1, <4>2 DEF Enqueues
      <4>3. QED
        BY <4>1, <4>2
    <3>3. m + v <= 2 * MaxTargets + (IF Stopped' THEN 0 ELSE 2 * MaxCommands + 1)
      BY <1>5, <1>6, <2>1, <2>4, <3>2
    <3>4. QED
      BY <1>2, <2>1, <2>2, <2>4, <3>3 DEF QueueIsBounded
  <2>5. QED
    BY <2>3, <2>4
<1>10. QED
  BY <1>7, <1>8, <1>9
-----------------------------------------------------------------------------
(* The inductive invariant, and what follows from it.                      *)

LEMMA InvInit == Init => IInv
<1> SUFFICES ASSUME Init PROVE IInv
  OBVIOUS
<1>1. Types /\ queue = <<>>
  <2>1. target \in [window : Windows, last : Windows]
    BY DEF Init, OutputInit, Windows
  <2>2. gpu \in Gpu(Windows)
    BY NoWindow, Destroyed DEF Init, Destroy
  <2>3. NoTask \in Tasks
    BY DEF NoTask, Tasks
  <2>4. workers \in Threads
    BY <2>3 DEF Init, Threads
  <2>5. channel \in Channels /\ session \in Sessions
    BY DEF Init, Channels, Sessions
  <2>6. /\ owner \in Owners /\ gdi \in [running : BOOLEAN, bound : BOOLEAN]
        /\ comp \in [configured : BOOLEAN, enabled : BOOLEAN, active : BOOLEAN]
        /\ ui \in [pc : {"idle", "look", "push", "owner"}, gone : BOOLEAN]
    BY DEF Init, OutputInit, Owners
  <2>7. /\ queue = <<>> /\ queue \in Seq(Tasks)
        /\ running \in BOOLEAN /\ handle \in WorkerIds \cup {0}
        /\ shown \in Frames \cup {0} /\ stream \in {"gdi", "gpu", "gap"}
    <3>1. queue = <<>> /\ running = FALSE /\ handle = 0 /\ shown = 0 /\ stream = "gdi"
      BY DEF Init
    <3>2. <<>> \in Seq(Tasks)
      OBVIOUS
    <3>3. QED
      BY <3>1, <3>2
  <2>8. QED
    BY <2>1, <2>2, <2>4, <2>5, <2>6, <2>7 DEF Types
<1>2. TypeOK
  <2>1. 0 <= MaxQueue
    BY DEF MaxQueue
  <2>2. QED
    BY <1>1, <2>1, TypesFromTypeOK
<1>3. \A w \in WorkerIds : workers[w].pc = "none" /\ ~Holds(w)
  BY DEF Init, Holds
<1>4. TasksAreGood /\ WorkersAreKnown /\ OnlyPrewarmsWhileStopped /\ WorkIsActive /\ WorkIsEnded
  <2>1. session.pc = "away" /\ session.join = 0 /\ ~running /\ handle = 0
    BY DEF Init
  <2>2. QED
    BY <1>1, <1>3, <2>1
       DEF TasksAreGood, WorkersAreKnown, OnlyPrewarmsWhileStopped, WorkIsActive, WorkIsEnded
<1>5. /\ ChannelIsUp /\ ResetPhases /\ ActiveIsEnabled /\ SnapshotIsActive /\ ResetIsIdle
      /\ GpuStreamIsActive /\ GdiNeverResumesMidStream /\ QuietAfterReset
  BY DEF Init, OutputInit, NoGpu, ChannelIsUp, ResetPhases, ActiveIsEnabled, SnapshotIsActive,
     ResetIsIdle, GpuStreamIsActive, GdiNeverResumesMidStream, QuietAfterReset
<1>6. QueueIsBounded
  <2>1. UiLeft <= 2 * MaxTargets /\ UiLeft \in Nat
    <3>1. /\ MaxTargets \in Nat /\ ui.pc = "idle"
          /\ target \in {[window |-> 0, last |-> 0], [window |-> 1, last |-> 1]}
      BY DEF Init, OutputInit
    <3>2. QED
      BY <1>1, <3>1, LeftTypes DEF LeftIsNatural, UiLeft
  <2>2. session.pc = "away" /\ Len(queue) = 0
    BY <1>1 DEF Init
  <2>3. QED
    BY <2>1, <2>2 DEF QueueIsBounded, Stopped
<1>7. QED
  BY <1>2, <1>4, <1>5, <1>6 DEF IInv

LEMMA InvStep == IInv /\ [Next]_vars => IInv'
<1> SUFFICES ASSUME IInv, [Next]_vars
             PROVE  IInv'
  OBVIOUS
<1>1. /\ TypeOK /\ TasksAreGood /\ WorkersAreKnown /\ ChannelIsUp /\ ResetPhases
      /\ OnlyPrewarmsWhileStopped /\ WorkIsActive /\ ActiveIsEnabled /\ SnapshotIsActive
      /\ ResetIsIdle /\ GpuStreamIsActive /\ WorkIsEnded /\ QueueIsBounded
      /\ GdiNeverResumesMidStream /\ QuietAfterReset
  BY DEF IInv
<1>2. Types
  BY <1>1, TypesFromTypeOK
<1>3. Types'
  BY <1>1, <1>2, TypesStep
<1>4. TypeOK' /\ QueueIsBounded'
  <2>1. QueueIsBounded'
    BY <1>1, <1>2, <1>3, QueueIsBoundedStep
  <2>2. Types' => LeftIsNatural'
    BY LeftTypes, PTL
  <2>3. UiLeft' \in Nat /\ ChannelLeft' \in Nat /\ Len(queue') \in Nat
    BY <1>1, <1>2, <1>3, <2>2, QueueLengthStep DEF LeftIsNatural
  <2>4. PICK m \in Nat, v \in Nat, d \in Nat :
          m = Len(queue') /\ v = UiLeft' /\ d = ChannelLeft'
    BY <2>3, Zenon
  <2>5. m + v + (IF session'.pc = "up" THEN d ELSE 0)
          <= 2 * MaxTargets + (IF Stopped' THEN 0 ELSE 2 * MaxCommands + 1)
    BY <2>1, <2>4, Zenon DEF QueueIsBounded
  <2>6. m <= 2 * MaxCommands + 2 * MaxTargets + 4
    BY <2>5
  <2>7. Len(queue') <= MaxQueue'
    BY <2>4, <2>6 DEF MaxQueue
  <2>8. (TypeOK <=> Types /\ Len(queue) <= MaxQueue)'
    BY TypesFromTypeOK, PTL
  <2>9. QED
    BY <1>3, <2>1, <2>7, <2>8
<1>5. TasksAreGood' /\ WorkersAreKnown'
  BY <1>1, <1>2, TasksAreGoodStep, WorkersAreKnownStep
<1>6. ChannelIsUp' /\ ResetPhases' /\ ActiveIsEnabled' /\ SnapshotIsActive'
  <2>1. channel \in Channels /\ session \in Sessions /\ comp \in Comps
    BY <1>2 DEF Types, Comps
  <2>2. Control
    BY <1>1 DEF Control
  <2>3. Control'
    BY <1>1, <1>2, <2>1, <2>2, ControlStep
  <2>4. QED
    BY <2>3 DEF Control
<1>7. OnlyPrewarmsWhileStopped' /\ WorkIsActive'
  BY <1>1, <1>2, OnlyPrewarmsWhileStoppedStep, WorkIsActiveStep
<1>8. ResetIsIdle' /\ QuietAfterReset'
  BY <1>1, <1>2, ResetIsIdleStep, QuietAfterResetStep
<1>9. GpuStreamIsActive' /\ GdiNeverResumesMidStream'
  BY <1>1, <1>2, GpuStreamIsActiveStep, GdiNeverResumesMidStreamStep
<1>10. WorkIsEnded'
  BY <1>1, <1>2, WorkIsEndedStep
<1>11. QED
  BY <1>4, <1>5, <1>6, <1>7, <1>8, <1>9, <1>10 DEF IInv

LEMMA Invariant == Spec => []IInv
  BY InvInit, InvStep, PTL DEF Spec

\* The types are kept whatever fails and in whatever order the threads run, and the
\* queue, over which the code only counts, is bounded by what its producers can add.
THEOREM TypeCorrect == Spec => []TypeOK
<1>1. IInv => TypeOK
  BY DEF IInv
<1>2. QED
  BY <1>1, Invariant, PTL

\* FreeRDP's own decoder never gets back a stream of which it has missed a part.
THEOREM StreamStaysWithGpu == Spec => []GdiNeverResumesMidStream
<1>1. IInv => GdiNeverResumesMidStream
  BY DEF IInv
<1>2. QED
  BY <1>1, Invariant, PTL

\* Dropping all but the last frame end of a deep queue strands no update.
THEOREM NoUpdateIsStranded == Spec => []NoUpdateLeftPending
<1>1. IInv => NoUpdateLeftPending
  BY DEF IInv, WorkIsEnded, NoUpdateLeftPending, WorkersAtRest, EndIsQueued, EndIsHeld, Holds
<1>2. QED
  BY <1>1, Invariant, PTL

\* No prewarm that comes too late brings a reset compositor back to life.
THEOREM ResetIsQuiet == Spec => []QuietAfterReset
<1>1. IInv => QuietAfterReset
  BY DEF IInv
<1>2. QED
  BY <1>1, Invariant, PTL
=============================================================================
