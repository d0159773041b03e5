----------------------------- MODULE Avc420Gpu -----------------------------
(***************************************************************************)
(* What the AVC420 GPU compositor does to its GPU state while it holds     *)
(* processingMutex_: Avc420GpuCompositorImpl::State with the renderer      *)
(* (surface/avc420_native_buffer_renderer), which keeps a composite of the *)
(* remote desktop and paints only what a command or a GDI frame changes,   *)
(* and the hardware decoder (surface/avc420_hardware_decoder).             *)
(*                                                                         *)
(* EGL, GL and the codec fail when they like: an operation that may fail   *)
(* is the set of its outcomes.  Pixels, timing and wording are left out;   *)
(* of the composite it is known whether every part of it has been painted. *)
(***************************************************************************)
EXTENDS Naturals

CONSTANTS
  Sizes,             \* sizes of remote surfaces, 0 is none
  Frames,            \* frame numbers, 0 is none
  FailureThreshold,  \* kActiveFailureFallbackThreshold
  IgnoreThreshold    \* kActiveResetIgnoreFallbackThreshold

ASSUME GpuAssumption ==
  /\ 0 \notin Sizes /\ Frames \subseteq Nat \ {0}
  /\ FailureThreshold \in Nat \ {0} /\ IgnoreThreshold \in Nat \ {0}

\* The composite: no texture, one that was only cleared, one that was painted in
\* part since, one that was painted everywhere.
Pictures == {"none", "blank", "holes", "whole"}

\* State after Destroy.
NoGpu ==
  [size |-> 0, window |-> 0, picture |-> "none", pictureSize |-> 0,
   decoder |-> 0, params |-> FALSE, reset |-> FALSE, unsupported |-> 0,
   pending |-> 0, pendingSize |-> 0, currentSize |-> 0, background |-> FALSE,
   failures |-> 0, ignored |-> 0]

\* A renderer without a context has no window and no composite; what waits to be
\* presented has a size.
Gpu(windows) ==
  {g \in
   [size : Sizes \cup {0}, window : windows, picture : Pictures,
    pictureSize : Sizes \cup {0}, decoder : Sizes \cup {0}, params : BOOLEAN,
    reset : BOOLEAN, unsupported : Sizes \cup {0}, pending : Frames \cup {0},
    pendingSize : Sizes \cup {0}, currentSize : Sizes \cup {0}, background : BOOLEAN,
    failures : 0 .. FailureThreshold, ignored : 0 .. IgnoreThreshold] :
     /\ g.size = 0 => g.window = 0 /\ g.picture = "none"
     /\ g.picture = "none" <=> g.pictureSize = 0
     /\ g.pending = 0 <=> g.pendingSize = 0}

\* The counters are only ever compared with their thresholds.
Failed(g) ==
  [g EXCEPT !.failures = IF @ < FailureThreshold THEN @ + 1 ELSE @]
Ignored(g) ==
  [g EXCEPT !.ignored = IF @ < IgnoreThreshold THEN @ + 1 ELSE @]
-----------------------------------------------------------------------------
(* Avc420NativeBufferRenderer.  An outcome is the state and whether it     *)
(* succeeded.                                                              *)

Result(g, ok) == [gpu |-> g, ok |-> ok]

DestroyRenderer(g) ==
  [g EXCEPT !.size = 0, !.window = 0, !.picture = "none", !.pictureSize = 0]

DetachWindowSurface(g) == [g EXCEPT !.window = 0]

\* A window of 0 asks for no window and keeps the one attached; the composite stays
\* as it is, whatever the size.
AttachWindow(g, window) ==
  IF window \in {0, g.window} THEN {Result(g, TRUE)}
  ELSE {Result([g EXCEPT !.window = window], TRUE), Result(DetachWindowSurface(g), FALSE)}

\* The shaders compile and link, or not.
CreateProgram == BOOLEAN

\* Display, pbuffer, context and program, once.
EnsureInitialized(g) == IF g.size # 0 THEN {TRUE} ELSE CreateProgram

RendererEnsure(g, window, size) ==
  UNION {IF ready THEN AttachWindow([g EXCEPT !.size = size], window)
         ELSE {Result(DestroyRenderer(g), FALSE)} : ready \in EnsureInitialized(g)}

\* A composite of another size is thrown away and made anew, cleared to black.
EnsureCompositeSurface(g) ==
  IF g.pictureSize = g.size THEN {Result(g, TRUE)}
  ELSE {Result([g EXCEPT !.picture = "blank", !.pictureSize = g.size], TRUE),
        Result([g EXCEPT !.picture = "none", !.pictureSize = 0], FALSE)}

\* What is painted covers the surface, or a part of it.
Painted(g, full) ==
  [g EXCEPT !.picture = IF full \/ @ = "whole" THEN "whole" ELSE "holes"]

MakeCurrent == BOOLEAN

\* An EGL image of the decoder's buffer as a texture, until it has been drawn.
ImportFrame == BOOLEAN

\* What is drawn without an error counts as painted.
Draw(g, full, drawn) ==
  IF drawn THEN Result(Painted(g, full), TRUE) ELSE Result(g, FALSE)

\* The rectangles of a command.
CompositeFrame(g, full) ==
  UNION {IF ~current THEN {Result(g, FALSE)}
         ELSE UNION {IF s.ok THEN {Draw(s.gpu, full, imported) : imported \in ImportFrame}
                     ELSE {s} : s \in EnsureCompositeSurface(g)} : current \in MakeCurrent}

\* The damage of a GDI frame, uploaded; damage that is not valid is all of it.
CompositeRgbaFrame(g, full) ==
  UNION {IF ~current THEN {Result(g, FALSE)}
         ELSE UNION {IF s.ok THEN {Draw(s.gpu, full, uploaded) : uploaded \in BOOLEAN}
                     ELSE {s} : s \in EnsureCompositeSurface(g)} : current \in MakeCurrent}

PresentComposite(g) ==
  IF g.picture \in {"holes", "whole"} /\ g.window # 0 THEN MakeCurrent ELSE {FALSE}
-----------------------------------------------------------------------------
(* Avc420HardwareDecoder.                                                  *)

Close(g) == [g EXCEPT !.decoder = 0]

\* One of the pixel formats is accepted, or the decoder stays closed.
ConfigureWithPixelFormat == BOOLEAN
DecoderEnsure(g, size) ==
  IF g.decoder = size THEN {Result(g, TRUE)}
  ELSE {IF accepted THEN Result([g EXCEPT !.decoder = size], TRUE) ELSE Result(Close(g), FALSE) :
          accepted \in ConfigureWithPixelFormat}

\* The output is a native buffer, or useless.
AttachNativeOutput == BOOLEAN

\* Decode waits a bounded time for the output of this very packet.
Decode ==
  {"NoOutput", "Failed"} \cup
  {IF attached THEN "Decoded" ELSE "Failed" : attached \in AttachNativeOutput}
-----------------------------------------------------------------------------
(* Avc420GpuCompositorImpl::State.  An outcome is the state and the answer: *)
(* "go" while the function has not returned.                                *)

Outcome(g, answer) == [gpu |-> g, answer |-> answer]

\* The steps of a function one after the other, until one of them returns.
Then(outcomes, Step(_)) ==
  UNION {IF o.answer = "go" THEN Step(o.gpu) ELSE {o} : o \in outcomes}

Destroy == NoGpu

Prewarm(g, size) == {r.gpu : r \in RendererEnsure(g, 0, size)}

\* A mutant: the size of what waited stays.
ClearPendingFrame(g) == [g EXCEPT !.pending = 0]

ClearPendingPresent(g) == [g EXCEPT !.pending = 0, !.pendingSize = 0]

\* The compositor gives up: GDI may recover with the next frame it can decode.
Release(g) ==
  Outcome([DestroyRenderer(Close(ClearPendingPresent(g))) EXCEPT !.reset = FALSE], "released")

\* applyActiveUpdatePolicy.
PreserveOwner(g) == Outcome(Ignored(ClearPendingPresent(g)), "handled")
ResetDecoderAndPreserveOwner(g) ==
  LET h == Ignored(ClearPendingPresent(g))
  IN  IF h.ignored = IgnoreThreshold THEN Release(h)
      ELSE Outcome([h EXCEPT !.reset = TRUE], "handled")

\* fail.
Fail(g, active) ==
  LET h == Failed(g)
  IN  IF ~active THEN Outcome(DestroyRenderer(ClearPendingPresent(h)), "gdi")
      ELSE IF h.failures = FailureThreshold THEN Release(h)
      ELSE ResetDecoderAndPreserveOwner(h)

\* A size that could not be imported is not tried again until the compositor is
\* active, is reset or gets another size.
WarmUp(g, size, active) ==
  LET h == IF g.unsupported = size THEN g ELSE [g EXCEPT !.unsupported = 0]
  IN  {IF h.unsupported # 0 /\ ~active THEN Outcome(h, "gdi") ELSE Outcome(h, "go")}

Prepare(g, size, active) ==
  LET h == IF g.reset THEN [Close(g) EXCEPT !.reset = FALSE] ELSE g
  IN  {IF r.ok THEN Outcome(r.gpu, "go")
       ELSE IF active THEN Fail(r.gpu, active)
       ELSE Outcome(r.gpu, "gdi") : r \in RendererEnsure(h, 0, size)}

\* The SPS and PPS of a packet are kept for the decoder's next start.
PrepareH264Packet(g, hasParams) == [g EXCEPT !.params = @ \/ hasParams]

\* A decoder begins with SPS and PPS, of this packet (hasParams) or an earlier one.
Bootstrap(g, hasParams, active) ==
  LET h == PrepareH264Packet(g, hasParams)
  IN  {IF h.decoder # 0 \/ h.params THEN Outcome(h, "go")
       ELSE IF active THEN ResetDecoderAndPreserveOwner(h)
       ELSE Outcome(h, "gdi")}

DecodeFrame(g, size, active) ==
  LET h == IF g.pendingSize = size THEN g ELSE ClearPendingPresent(g)
      Answer(d, decoded) ==
        CASE decoded = "Decoded" -> Outcome([d EXCEPT !.unsupported = 0], "go")
          [] decoded # "Decoded" /\ ~active -> Outcome(d, "gdi")
          [] decoded = "NoOutput" /\ active -> PreserveOwner(d)
          [] decoded = "Failed" /\ active -> Fail(d, active)
  IN  UNION {IF d.ok THEN {Answer(d.gpu, decoded) : decoded \in Decode}
             ELSE {Fail(d.gpu, active)} : d \in DecoderEnsure(h, size)}

\* A composite that fails before the takeover rules the size out.
CompositeCommand(g, c, active) ==
  {IF r.ok THEN Outcome(r.gpu, "go")
   ELSE IF active THEN Fail(r.gpu, active)
   ELSE Outcome([DestroyRenderer(Close(ClearPendingPresent(r.gpu)))
                   EXCEPT !.unsupported = c.size], "gdi") : r \in CompositeFrame(g, c.full)}

QueuePresent(g, size, frame) ==
  {Outcome([g EXCEPT !.pending = frame, !.pendingSize = size, !.currentSize = size],
           "handled")}

\* Codec, stream and rectangles have been looked at before.  A command that is wrong
\* (bad) is released by an active output.
ProcessCommand(g, c, frame, active) ==
  LET Renderer(h) == Prepare(h, c.size, active)
      Params(h) == UNION {Bootstrap(h, hasParams, active) : hasParams \in BOOLEAN}
      Picture(h) == DecodeFrame(h, c.size, active)
      Paint(h) == CompositeCommand(h, c, active)
      Queue(h) == QueuePresent(h, c.size, frame)
      good == Then(Then(Then(Then(Then(
                WarmUp(g, c.size, active), Renderer), Params), Picture), Paint), Queue)
      bad == Outcome(g, IF active THEN "released" ELSE "gdi")
  IN  good \cup {bad}

\* The pixels of GDI go into the composite.
ProcessGdiFrame(g, size, full) ==
  UNION {IF ~r.ok THEN {Result(Failed(r.gpu), FALSE)}
         ELSE {IF p.ok
               THEN Result([p.gpu EXCEPT !.background = TRUE, !.currentSize = size], TRUE)
               ELSE Result(Failed(p.gpu), FALSE) : p \in CompositeRgbaFrame(r.gpu, full)} :
         r \in RendererEnsure(g, 0, size)}
-----------------------------------------------------------------------------
(* What reaches the window.  shown is the composite that is swapped, or no. *)

Shown(g, picture) == [gpu |-> g, shown |-> picture]

\* The window is attached and the composite drawn: g with nothing to present any
\* more, g whose window failed, g whose draw failed.
Present(g, window, size, Windowless(_), Undrawn(_)) ==
  UNION {IF ~r.ok THEN {Shown(Windowless(r.gpu), "no")}
         ELSE {IF ok THEN Shown([ClearPendingPresent(r.gpu) EXCEPT !.background = FALSE],
                                r.gpu.picture)
               ELSE Shown(Undrawn(r.gpu), "no") : ok \in PresentComposite(r.gpu)} :
         r \in RendererEnsure(g, window, size)}

FailedAndIgnored(g) == Ignored(Failed(g))

\* OnSurfaceTargetChanged: the retained composite goes to the new target at once.
OnSurfaceTargetChanged(g, window, active) ==
  LET size == IF g.pendingSize # 0 THEN g.pendingSize ELSE g.currentSize
  IN  IF ~active \/ window = 0 \/ size = 0 THEN {Shown(DetachWindowSurface(g), "no")}
      ELSE Present(g, window, size, Failed, Failed)

\* PresentQueuedUpdate: an end of another frame drops the update; without a target
\* an active output keeps it.
PresentQueuedUpdate(g, frame, matched, window, active) ==
  LET Undrawn(h) == FailedAndIgnored(ClearPendingPresent(h))
  IN  IF ~matched \/ frame # g.pending THEN {Shown(Ignored(ClearPendingPresent(g)), "no")}
      ELSE IF window = 0
      THEN {Shown(IF active THEN Ignored(g) ELSE FailedAndIgnored(ClearPendingPresent(g)), "no")}
      ELSE Present(g, window, g.pendingSize, Failed, Undrawn)

\* The composite with GDI's pixels goes to the window, without a command.
PresentGdiBackground(g, window) ==
  IF g.currentSize = 0 THEN {Shown(g, "no")}
  ELSE IF window = 0 THEN {Shown(Ignored(g), "no")}
  ELSE Present(g, window, g.currentSize, Failed, FailedAndIgnored)

\* At once, unless an update waits for the end of its frame,
PresentGdiBackgroundNow(g, window, active) ==
  IF active /\ g.background /\ g.pending = 0 THEN PresentGdiBackground(g, window)
  ELSE {Shown(g, "no")}

\* or at the end of a frame that had no command.
PresentGdiBackgroundAtEndFrame(g, matched, window, active) ==
  IF active /\ g.background /\ matched THEN PresentGdiBackground(g, window)
  ELSE {Shown(g, "no")}

PresentEndFrame(g, frame, matched, window, active) ==
  IF g.pending # 0 THEN PresentQueuedUpdate(g, frame, matched, window, active)
  ELSE PresentGdiBackgroundAtEndFrame(g, matched, window, active)
=============================================================================
