----------------------------- MODULE Avc444Gpu -----------------------------
(***************************************************************************)
(* What the AVC444 GPU compositor does to its GPU state while it holds     *)
(* processingMutex_: Avc444GpuCompositorImpl::State with the renderer      *)
(* (surface/avc444_gpu_renderer) and the one hardware decoder              *)
(* (surface/avc444_hardware_decoder) that decodes luma and chroma.         *)
(*                                                                         *)
(* EGL, GL and the codec fail when they like: an operation that may fail   *)
(* is the set of its outcomes.  Pixels, timing and wording are left out.   *)
(***************************************************************************)
EXTENDS Naturals

CONSTANTS
  Sizes,       \* sizes of remote surfaces
  Frames       \* frame numbers, 0 is none

ASSUME GpuAssumption == Sizes \subseteq Nat \ {0} /\ Frames \subseteq Nat \ {0}

NoRenderer == [size |-> 0, window |-> 0, luma |-> FALSE, chroma |-> FALSE]
NoDecoder == [started |-> FALSE, size |-> 0]
\* State after Destroy; the flags of State's other members.
NoGpu ==
  [renderer |-> NoRenderer, decoder |-> NoDecoder, params |-> FALSE, reset |-> FALSE,
   pending |-> 0, pendingSize |-> 0]

\* A renderer or decoder that is gone remembers nothing, an update that waits has
\* a size.
Gpu(windows) ==
 {g \in
  [renderer : [size : Sizes \cup {0}, window : windows, luma : BOOLEAN, chroma : BOOLEAN],
   decoder : [started : BOOLEAN, size : Sizes \cup {0}],
   params : BOOLEAN, reset : BOOLEAN,
   pending : Frames \cup {0}, pendingSize : Sizes \cup {0}] :
    /\ g.renderer.size = 0 => g.renderer = NoRenderer
    /\ g.decoder.started <=> g.decoder.size # 0
    /\ g.pending = 0 <=> g.pendingSize = 0}
-----------------------------------------------------------------------------
(* Avc444GpuRenderer.                                                      *)

\* A window of 0 asks for no window and keeps the one attached.
RendererFits(r, window, size) ==
  r.size = size /\ (window = 0 \/ r.window = window)

\* Another window for textures of the right size: they stay, composed or not.
AttachWindow(r, window) == {[r EXCEPT !.window = window], NoRenderer}

\* The shaders compile and link, the planes have their textures, or not.
CreatePrograms == BOOLEAN
CreateTextures == BOOLEAN

\* Everything is made anew, and nothing is composed yet.
Initialize(window, size) ==
  {IF programs /\ textures
   THEN [size |-> size, window |-> window, luma |-> FALSE, chroma |-> FALSE]
   ELSE NoRenderer : programs \in CreatePrograms, textures \in CreateTextures}

\* Ensure; it has failed if the renderer is gone.
RendererEnsure(r, window, size) ==
  IF RendererFits(r, window, size) THEN {r}
  ELSE IF r.size = size THEN AttachWindow(r, window)
  ELSE Initialize(window, size)

ReadyToPresent(r) == r.luma /\ r.chroma

\* What fails changes no flag.
MakeCurrent(r) == IF r.size = 0 THEN {FALSE} ELSE BOOLEAN
UploadSource == BOOLEAN
Applied(r, composed) ==
  {IF current /\ uploaded THEN [ok |-> TRUE, renderer |-> composed]
   ELSE [ok |-> FALSE, renderer |-> r] : current \in MakeCurrent(r), uploaded \in UploadSource}

\* The luma stream brings base chroma for its rectangles.
ApplyLuma(r) == Applied(r, [r EXCEPT !.luma = TRUE, !.chroma = TRUE])

\* ApplyChromaV1 and ApplyChromaV2.
ApplyChroma(r) == Applied(r, [r EXCEPT !.chroma = TRUE])

\* Present: draw and swap.
Present(r) == IF ReadyToPresent(r) THEN MakeCurrent(r) ELSE {FALSE}
-----------------------------------------------------------------------------
(* Avc444HardwareDecoder.                                                  *)

Close == NoDecoder

\* Ensure; it has failed if the decoder is not started.  One of the pixel formats is
\* accepted, or none.
ConfigureWithPixelFormat == BOOLEAN
DecoderEnsure(d, size) ==
  IF d.started /\ d.size = size THEN {d}
  ELSE {IF accepted THEN [started |-> TRUE, size |-> size] ELSE Close :
          accepted \in ConfigureWithPixelFormat}

\* The planes of the native buffer, or else the memory of the buffer.  Planes that
\* can be mapped and have an unsupported layout are not tried the other way.
MapOutput(native, memory) ==
  CASE native = "planes" -> TRUE
    [] native = "unsupported" -> FALSE
    [] native \in {"none", "unmapped", "odd columns"} -> memory

\* Decode waits a bounded time for the output of this very packet and frees the
\* late outputs of earlier ones.
Decode(d) ==
  IF ~d.started THEN {"Failed"}
  ELSE {"Failed", "NoOutput"} \cup
       {IF MapOutput(native, memory) THEN "Decoded" ELSE "Failed" :
          native \in {"none", "unmapped", "odd columns", "unsupported", "planes"},
          memory \in BOOLEAN}
-----------------------------------------------------------------------------
(* Avc444GpuCompositorImpl::State.  An outcome is the state and the answer: *)
(* "go" while ProcessCommand has not returned.                             *)

Outcome(g, answer) == [gpu |-> g, answer |-> answer]

\* The steps of ProcessCommand one after the other, until one of them returns.
Then(outcomes, Step(_)) ==
  UNION {IF o.answer = "go" THEN Step(o.gpu) ELSE {o} : o \in outcomes}

Destroy == NoGpu

Prewarm(g, size) == {[g EXCEPT !.renderer = r] : r \in RendererEnsure(g.renderer, 0, size)}

\* Mutant: the frame is cleared and the rest of the update kept.
ClearPendingFrame(g) == [g EXCEPT !.pending = 0]

ClearPending(g) == [g EXCEPT !.pending = 0, !.pendingSize = 0]

\* The update is dropped and the GPU keeps the stream; a decoder that lost the
\* stream is closed before the next command.
IgnoreActiveUpdate(g, resetDecoders) ==
  Outcome([ClearPending(g) EXCEPT !.reset = @ \/ resetDecoders], "handled")

DropActiveSynchronousTimeout(g) == Outcome(ClearPending(g), "handled")

\* GDI has not lost the stream yet: it keeps the command.
LeaveToGdi(g) == Outcome(g, "gdi")
LeaveToGdiWithoutRenderer(g) == Outcome([g EXCEPT !.renderer = NoRenderer], "gdi")

\* Mutant: a failure hands the stream back whether the GPU has it or not.
FailBeforeToGdi(g, active) == LeaveToGdi(g)

\* fail(), before and after the renderer has been touched.
FailBefore(g, active) == IF active THEN IgnoreActiveUpdate(g, FALSE) ELSE LeaveToGdi(g)
FailAfter(g, active) ==
  IF active THEN IgnoreActiveUpdate(g, FALSE) ELSE LeaveToGdiWithoutRenderer(g)

\* The decoder is closed if the last failure asked for it, the textures made.
Prepare(g, size, active) ==
  LET h == IF g.reset THEN [g EXCEPT !.decoder = Close, !.reset = FALSE] ELSE g
  IN  {IF r.size = 0 THEN FailBefore([h EXCEPT !.renderer = r], active)
       ELSE Outcome([h EXCEPT !.renderer = r], "go") :
         r \in RendererEnsure(h.renderer, 0, size)}

\* The SPS and PPS of a packet are kept for the decoder's next start.
PrepareH264Packet(g, hasParams) == [g EXCEPT !.params = @ \/ hasParams]

\* One stream, luma or chroma: a decoder begins with SPS and PPS, of this packet
\* (hasParams) or an earlier one.
DecodeStream(g, hasParams, size, active) ==
  LET h == PrepareH264Packet(g, hasParams)
      Result(d, decoded) ==
        LET k == [h EXCEPT !.decoder = d]
        IN  CASE decoded = "Decoded" -> Outcome(k, "go")
              [] decoded # "Decoded" /\ ~active -> LeaveToGdi(k)
              [] decoded = "NoOutput" /\ active -> DropActiveSynchronousTimeout(k)
              [] decoded = "Failed" /\ active -> IgnoreActiveUpdate(k, TRUE)
  IN  IF ~h.decoder.started /\ ~h.params
      THEN {IF active THEN IgnoreActiveUpdate(h, TRUE) ELSE LeaveToGdi(h)}
      ELSE UNION {IF d.started THEN {Result(d, decoded) : decoded \in Decode(d)}
                  ELSE {FailBefore([h EXCEPT !.decoder = d], active)} :
                    d \in DecoderEnsure(h.decoder, size)}

\* The planes of a decoded stream go into the textures.
ApplyStream(g, stream, active) ==
  {LET h == [g EXCEPT !.renderer = a.renderer]
   IN  IF a.ok THEN Outcome(h, "go") ELSE FailAfter(h, active) :
     a \in IF stream = "luma" THEN ApplyLuma(g.renderer) ELSE ApplyChroma(g.renderer)}

\* A complete picture waits for the end of its frame; a frame that still waits
\* gives way.
QueuePresent(g, frame, size, active) ==
  IF ReadyToPresent(g.renderer)
  THEN {Outcome([g EXCEPT !.pending = frame, !.pendingSize = size], "handled")}
  ELSE {IF active THEN Outcome(ClearPending(g), "handled") ELSE LeaveToGdi(g)}

NeedsLuma(lc) == lc \in {0, 1}
NeedsChroma(lc) == lc \in {0, 2}

\* What a command may be: the stream combination LC (3 is not one), the damage.
CommandKinds ==
  [lc : 0 .. 2, rects : {"some", "none", "bad"}, size : Sizes, params : BOOLEAN]

ProcessCommand(g, c, frame, active) ==
  LET Luma(h) == IF NeedsLuma(c.lc) THEN DecodeStream(h, c.params, c.size, active)
                 ELSE {Outcome(h, "go")}
      Chroma(h) == IF NeedsChroma(c.lc) THEN DecodeStream(h, c.params, c.size, active)
                   ELSE {Outcome(h, "go")}
      Damage(h) ==
        IF c.rects = "some" THEN {Outcome(h, "go")}
        ELSE {Outcome(h, IF active THEN "handled" ELSE "gdi")}
      ApplyL(h) == IF NeedsLuma(c.lc) THEN ApplyStream(h, "luma", active)
                   ELSE {Outcome(h, "go")}
      ApplyC(h) == IF NeedsChroma(c.lc) THEN ApplyStream(h, "chroma", active)
                   ELSE {Outcome(h, "go")}
      Queue(h) == QueuePresent(h, frame, c.size, active)
  IN  IF c.rects = "bad" THEN {LeaveToGdi(g)}
      ELSE Then(Then(Then(Then(Then(Then(
             Prepare(g, c.size, active), Luma), Chroma), Damage), ApplyL), ApplyC), Queue)
-----------------------------------------------------------------------------
(* The end of a frame.  shown is the frame that reaches the window, or 0.  *)

\* The window is attached and the picture drawn, or the update is given up.
PresentOn(g, window, frame) ==
  UNION {{[gpu |-> [ClearPending(g) EXCEPT !.renderer = r],
           shown |-> IF ok THEN frame ELSE 0] : ok \in Present(r)} :
           r \in RendererEnsure(g.renderer, window, g.pendingSize)}

\* PresentEndFrame and PresentQueuedUpdate: whatever waits is presented or dropped.
PresentEndFrame(g, frame, matched, window) ==
  IF g.pending # 0 /\ matched /\ g.pending = frame /\ window # 0
  THEN PresentOn(g, window, frame)
  ELSE {[gpu |-> ClearPending(g), shown |-> 0]}
=============================================================================
