--------------------- MODULE Avc420GpuCompositorProofs ---------------------
(***************************************************************************)
(* Theorems about the AVC420 GPU compositor, for every set of sizes and    *)
(* frames, every threshold and every bound: type correctness, that an      *)
(* output pauses only for want of a window, that the output has one        *)
(* painter, and that what is shown has been painted everywhere.            *)
(*                                                                         *)
(* The owner changes hands in steps of several threads; the invariant says *)
(* for every state in between who is yet to start GDI's pipeline.  Of the  *)
(* composite it says that the size recorded for the background is the size *)
(* of a picture that was painted everywhere, unless the compositor is      *)
(* mistaken about it.                                                      *)
(***************************************************************************)
EXTENDS Avc420GpuCompositor, FiniteSetTheorems, TLAPS

USE TargetAssumption, GpuAssumption, CompositorAssumption
    DEF TargetAssumption, GpuAssumption, CompositorAssumption

-----------------------------------------------------------------------------
(* The GPU state.  W are the windows, 0 is among them.                      *)

SamePicture(g, h) == h.picture = g.picture /\ h.pictureSize = g.pictureSize
Whole(g, size) == g.picture = "whole" /\ g.pictureSize = size

\* What h has of the state and the picture of g.
Keeps(W, g, h) ==
  h \in Gpu(W) /\ SamePicture(g, h) /\ h.pending \in {g.pending, 0}

LEMMA GpuParts ==
  ASSUME NEW W, NEW g \in Gpu(W)
  PROVE  /\ g.size \in Sizes \cup {0} /\ g.window \in W /\ g.picture \in Pictures
         /\ g.pictureSize \in Sizes \cup {0} /\ g.decoder \in Sizes \cup {0}
         /\ g.pending \in Frames \cup {0} /\ g.pendingSize \in Sizes \cup {0}
         /\ g.currentSize \in Sizes \cup {0}
         /\ g.size = 0 => g.window = 0 /\ g.picture = "none"
         /\ g.picture = "none" <=> g.pictureSize = 0
         /\ g.pending = 0 <=> g.pendingSize = 0
  BY DEF Gpu

LEMMA Destroyed ==
  ASSUME NEW W, 0 \in W
  PROVE  Destroy \in Gpu(W) /\ Destroy.picture = "none" /\ Destroy.pending = 0
  BY DEF Gpu, Destroy, NoGpu, Pictures

LEMMA Cleared ==
  ASSUME NEW W, NEW g \in Gpu(W)
  PROVE  LET h == ClearPendingPresent(g)
         IN  Keeps(W, g, h) /\ h.pending = 0 /\ h.size = g.size
  BY DEF ClearPendingPresent, Gpu, Keeps, SamePicture

\* The counters.
LEMMA Counted ==
  ASSUME NEW W, NEW g \in Gpu(W)
  PROVE  /\ Keeps(W, g, Failed(g)) /\ Failed(g).pending = g.pending /\ Failed(g).size = g.size
         /\ Keeps(W, g, Ignored(g)) /\ Ignored(g).pending = g.pending /\ Ignored(g).size = g.size
<1>1. /\ g.failures \in 0 .. FailureThreshold /\ g.ignored \in 0 .. IgnoreThreshold
  BY DEF Gpu
<1> DEFINE f == IF g.failures < FailureThreshold THEN g.failures + 1 ELSE g.failures
           i == IF g.ignored < IgnoreThreshold THEN g.ignored + 1 ELSE g.ignored
<1>2. f \in 0 .. FailureThreshold /\ i \in 0 .. IgnoreThreshold
  BY <1>1
<1>3. Failed(g) = [g EXCEPT !.failures = f] /\ Ignored(g) = [g EXCEPT !.ignored = i]
  BY DEF Failed, Ignored
<1> HIDE DEF f, i
<1>4. [g EXCEPT !.failures = f] \in Gpu(W)
  BY <1>2 DEF Gpu
<1>5. [g EXCEPT !.ignored = i] \in Gpu(W)
  BY <1>2 DEF Gpu
<1>6. QED
  BY <1>3, <1>4, <1>5 DEF Keeps, SamePicture, Gpu

LEMMA DestroyedRenderer ==
  ASSUME NEW W, 0 \in W, NEW g \in Gpu(W)
  PROVE  LET h == DestroyRenderer(g)
         IN  /\ h \in Gpu(W) /\ h.picture = "none" /\ h.pending = g.pending
             /\ g.size = 0 => Keeps(W, g, h)
  BY DEF DestroyRenderer, Gpu, Keeps, SamePicture, Pictures

LEMMA Closed ==
  ASSUME NEW W, NEW g \in Gpu(W)
  PROVE  Keeps(W, g, Close(g)) /\ Close(g).pending = g.pending /\ Close(g).size = g.size
  BY DEF Close, Gpu, Keeps, SamePicture

LEMMA Detached ==
  ASSUME NEW W, 0 \in W, NEW g \in Gpu(W)
  PROVE  LET h == DetachWindowSurface(g)
         IN  Keeps(W, g, h) /\ h.pending = g.pending /\ h.size = g.size
  BY DEF DetachWindowSurface, Gpu, Keeps, SamePicture

LEMMA SetReset ==
  ASSUME NEW W, NEW g \in Gpu(W), NEW b \in BOOLEAN
  PROVE  LET h == [g EXCEPT !.reset = b]
         IN  Keeps(W, g, h) /\ h.pending = g.pending /\ h.size = g.size
  BY DEF Gpu, Keeps, SamePicture

LEMMA KeepsKept ==
  ASSUME NEW W, NEW g, NEW h, NEW k, Keeps(W, g, h), Keeps(W, h, k)
  PROVE  Keeps(W, g, k)
  BY DEF Keeps, SamePicture

\* The renderer: the picture stays as it is.
LEMMA RendererEnsureKeeps ==
  ASSUME NEW W, 0 \in W, NEW g \in Gpu(W), NEW window \in W, NEW size \in Sizes
  PROVE  \A r \in RendererEnsure(g, window, size) :
           /\ r.ok \in BOOLEAN /\ Keeps(W, g, r.gpu) /\ r.gpu.pending = g.pending
           /\ r.ok => r.gpu.size = size
           /\ g.size # 0 => r.gpu.size = size
<1> DEFINE h == [g EXCEPT !.size = size]
<1>1. Keeps(W, g, h) /\ h.pending = g.pending /\ h.size = size
  BY DEF Gpu, Keeps, SamePicture
<1>2. h \in Gpu(W) /\ [h EXCEPT !.window = window] \in Gpu(W)
  BY DEF Gpu
<1> HIDE DEF h
<1>3. LET k == [h EXCEPT !.window = window]
      IN  Keeps(W, h, k) /\ k.pending = h.pending /\ k.size = h.size
  BY <1>2 DEF Keeps, SamePicture, Gpu
<1>4. \A a \in AttachWindow(h, window) :
        /\ a.ok \in BOOLEAN /\ Keeps(W, h, a.gpu) /\ a.gpu.pending = h.pending
        /\ a.gpu.size = h.size
  <2>1. Keeps(W, h, h)
    BY <1>2 DEF Keeps, SamePicture
  <2>2. TAKE a \in AttachWindow(h, window)
  <2>3. \/ a.ok = TRUE /\ a.gpu = h
        \/ a.ok = TRUE /\ a.gpu = [h EXCEPT !.window = window]
        \/ a.ok = FALSE /\ a.gpu = DetachWindowSurface(h)
    BY DEF AttachWindow, Result
  <2>4. LET k == DetachWindowSurface(h)
        IN  Keeps(W, h, k) /\ k.pending = h.pending /\ k.size = h.size
    BY <1>2, Detached
  <2>5. QED
    BY <1>3, <2>1, <2>3, <2>4
<1>5. \A a \in AttachWindow(h, window) :
        /\ a.ok \in BOOLEAN /\ Keeps(W, g, a.gpu) /\ a.gpu.pending = g.pending
        /\ a.gpu.size = size
  BY <1>1, <1>4, KeepsKept
<1>6. g.size = 0 => LET k == DestroyRenderer(g) IN Keeps(W, g, k) /\ k.pending = g.pending
  BY DestroyedRenderer
<1>7. RendererEnsure(g, window, size) =
        UNION {IF ready THEN AttachWindow(h, window)
               ELSE {Result(DestroyRenderer(g), FALSE)} : ready \in EnsureInitialized(g)}
  BY DEF RendererEnsure, h
<1>8. CASE g.size = 0
  <2>1. TAKE r \in RendererEnsure(g, window, size)
  <2>5. PICK ready \in EnsureInitialized(g) :
          r \in IF ready THEN AttachWindow(h, window) ELSE {Result(DestroyRenderer(g), FALSE)}
    BY <1>7
  <2>2. r \in AttachWindow(h, window) \/ r = Result(DestroyRenderer(g), FALSE)
    BY <2>5
  <2>3. CASE r \in AttachWindow(h, window)
    BY <1>5, <1>8, <2>3
  <2>4. CASE r = Result(DestroyRenderer(g), FALSE)
    <3>1. r.ok = FALSE /\ r.gpu = DestroyRenderer(g)
      BY <2>4 DEF Result
    <3>2. QED
      BY <1>6, <1>8, <3>1
  <2>6. QED
    BY <2>2, <2>3, <2>4
<1>9. CASE g.size # 0
  <2>1. RendererEnsure(g, window, size) = AttachWindow(h, window)
    BY <1>7, <1>9 DEF EnsureInitialized
  <2>2. QED
    BY <1>5, <2>1
<1>10. QED
  BY <1>8, <1>9

-----------------------------------------------------------------------------
(* The steps of a function of the GPU state.                                *)

\* What a step of an output (active or not) leaves, up to the composite: the picture
\* stays, unless the output is released or the command left to GDI.
Stage(W, g, active, o) ==
  /\ o.gpu \in Gpu(W) /\ o.gpu.pending \in {g.pending, 0}
  /\ o.answer \in {"go", "handled", "released", "gdi"}
  /\ active => o.answer # "gdi"
  /\ o.answer = "handled" => active /\ o.gpu.pending = 0
  /\ \/ SamePicture(g, o.gpu)
     \/ o.answer \in {"released", "gdi"} /\ o.gpu.picture = "none"

LEMMA StageKept ==
  ASSUME NEW W, NEW g, NEW h, NEW active, NEW o,
         Keeps(W, g, h), Stage(W, h, active, o)
  PROVE  Stage(W, g, active, o)
  BY DEF Stage, Keeps, SamePicture

LEMMA StageStage ==
  ASSUME NEW W, NEW g, NEW o, NEW active, NEW p,
         Stage(W, g, active, o), o.answer = "go", Stage(W, o.gpu, active, p)
  PROVE  Stage(W, g, active, p)
  BY DEF Stage, SamePicture

LEMMA ReleaseStage ==
  ASSUME NEW W, 0 \in W, NEW g \in Gpu(W)
  PROVE  Stage(W, g, TRUE, Release(g)) /\ Release(g).answer = "released"
<1> DEFINE h == ClearPendingPresent(g)
           d == DestroyRenderer(Close(h))
<1>1. h \in Gpu(W) /\ h.pending = 0
  BY Cleared DEF Keeps
<1> HIDE DEF h
<1>2. d \in Gpu(W) /\ d.picture = "none" /\ d.pending = 0
  BY <1>1, Closed, DestroyedRenderer DEF Keeps
<1>3. Release(g) = Outcome([d EXCEPT !.reset = FALSE], "released")
  BY DEF Release, h
<1> HIDE DEF d
<1> DEFINE k == [d EXCEPT !.reset = FALSE]
<1>4. k \in Gpu(W) /\ k.picture = "none" /\ k.pending = 0
  BY <1>2, SetReset DEF Keeps, SamePicture
<1> HIDE DEF k
<1>5. Release(g).gpu = k /\ Release(g).answer = "released"
  BY <1>3 DEF Outcome, k
<1>6. QED
  BY <1>4, <1>5 DEF Stage

LEMMA PreserveStage ==
  ASSUME NEW W, NEW g \in Gpu(W)
  PROVE  Stage(W, g, TRUE, PreserveOwner(g)) /\ PreserveOwner(g).answer = "handled"
<1> DEFINE h == ClearPendingPresent(g)
<1>1. Keeps(W, g, h) /\ h.pending = 0 /\ h \in Gpu(W)
  BY Cleared DEF Keeps
<1>2. PreserveOwner(g) = Outcome(Ignored(h), "handled")
  BY DEF PreserveOwner
<1> HIDE DEF h
<1>3. Keeps(W, g, Ignored(h)) /\ Ignored(h).pending = 0
  BY <1>1, Counted, KeepsKept
<1>4. QED
  BY <1>2, <1>3 DEF Stage, Outcome, Keeps

LEMMA ResetStage ==
  ASSUME NEW W, 0 \in W, NEW g \in Gpu(W)
  PROVE  LET o == ResetDecoderAndPreserveOwner(g)
         IN  Stage(W, g, TRUE, o) /\ o.answer # "go"
<1> DEFINE c == ClearPendingPresent(g)
           h == Ignored(c)
<1>1. Keeps(W, g, c) /\ c.pending = 0 /\ c \in Gpu(W)
  BY Cleared DEF Keeps
<1>2. ResetDecoderAndPreserveOwner(g) =
        IF h.ignored = IgnoreThreshold THEN Release(h)
        ELSE Outcome([h EXCEPT !.reset = TRUE], "handled")
  BY DEF ResetDecoderAndPreserveOwner
<1> HIDE DEF c
<1>3. Keeps(W, g, h) /\ h.pending = 0 /\ h \in Gpu(W)
  BY <1>1, Counted, KeepsKept DEF Keeps
<1> HIDE DEF h
<1>4. Stage(W, g, TRUE, Release(h)) /\ Release(h).answer = "released"
  BY <1>3, ReleaseStage, StageKept
<1>5. LET k == [h EXCEPT !.reset = TRUE] IN Keeps(W, g, k) /\ k.pending = 0
  BY <1>3, SetReset, KeepsKept
<1>6. QED
  BY <1>2, <1>4, <1>5 DEF Stage, Outcome, Keeps

LEMMA FailStage ==
  ASSUME NEW W, 0 \in W, NEW g \in Gpu(W), NEW active \in BOOLEAN
  PROVE  Stage(W, g, active, Fail(g, active)) /\ Fail(g, active).answer # "go"
<1> DEFINE h == Failed(g)
           c == ClearPendingPresent(h)
<1>1. Keeps(W, g, h) /\ h \in Gpu(W)
  BY Counted DEF Keeps
<1>2. Fail(g, active) =
        IF ~active THEN Outcome(DestroyRenderer(c), "gdi")
        ELSE IF h.failures = FailureThreshold THEN Release(h)
        ELSE ResetDecoderAndPreserveOwner(h)
  BY DEF Fail
<1> HIDE DEF h
<1>3. c \in Gpu(W) /\ c.pending = 0
  BY <1>1, Cleared DEF Keeps
<1> HIDE DEF c
<1>4. DestroyRenderer(c) \in Gpu(W) /\ DestroyRenderer(c).picture = "none"
      /\ DestroyRenderer(c).pending = 0
  BY <1>3, DestroyedRenderer
<1>5. CASE ~active
  BY <1>2, <1>4, <1>5 DEF Stage, Outcome
<1>6. CASE active
  BY <1>1, <1>2, <1>6, ReleaseStage, ResetStage, StageKept
<1>7. QED
  BY <1>5, <1>6

LEMMA WarmUpStage ==
  ASSUME NEW W, NEW g \in Gpu(W), NEW size, NEW active \in BOOLEAN
  PROVE  \A o \in WarmUp(g, size, active) : Stage(W, g, active, o)
<1> DEFINE h == IF g.unsupported = size THEN g ELSE [g EXCEPT !.unsupported = 0]
<1>1. Keeps(W, g, h)
  <2>1. LET k == [g EXCEPT !.unsupported = 0] IN Keeps(W, g, k)
    BY DEF Gpu, Keeps, SamePicture
  <2>2. Keeps(W, g, g)
    BY DEF Keeps, SamePicture
  <2>3. QED
    BY <2>1, <2>2
<1>2. \A o \in WarmUp(g, size, active) :
        o.gpu = h /\ (o.answer = "go" \/ (o.answer = "gdi" /\ ~active))
  BY DEF WarmUp, Outcome
<1> HIDE DEF h
<1>3. QED
  BY <1>1, <1>2 DEF Stage, Keeps

LEMMA PrepareStage ==
  ASSUME NEW W, 0 \in W, NEW g \in Gpu(W), NEW size \in Sizes, NEW active \in BOOLEAN
  PROVE  \A o \in Prepare(g, size, active) :
           Stage(W, g, active, o) /\ (o.answer = "go" => o.gpu.size = size)
<1> DEFINE h == IF g.reset THEN [Close(g) EXCEPT !.reset = FALSE] ELSE g
<1>1. Keeps(W, g, h) /\ h \in Gpu(W)
  <2>1. Keeps(W, g, g)
    BY DEF Keeps, SamePicture
  <2>2. LET k == [Close(g) EXCEPT !.reset = FALSE] IN Keeps(W, g, k)
    BY Closed, SetReset, KeepsKept DEF Keeps
  <2>3. QED
    BY <2>1, <2>2 DEF Keeps
<1>2. Prepare(g, size, active) =
        {IF r.ok THEN Outcome(r.gpu, "go")
         ELSE IF active THEN Fail(r.gpu, active)
         ELSE Outcome(r.gpu, "gdi") : r \in RendererEnsure(h, 0, size)}
  BY DEF Prepare
<1> HIDE DEF h
<1>3. ASSUME NEW r \in RendererEnsure(h, 0, size)
      PROVE  /\ r.ok \in BOOLEAN /\ Keeps(W, g, r.gpu) /\ r.gpu \in Gpu(W)
             /\ r.ok => r.gpu.size = size
  BY <1>1, RendererEnsureKeeps, KeepsKept DEF Keeps
<1>4. TAKE o \in Prepare(g, size, active)
<1>5. PICK r \in RendererEnsure(h, 0, size) :
        o = IF r.ok THEN Outcome(r.gpu, "go")
            ELSE IF active THEN Fail(r.gpu, active)
            ELSE Outcome(r.gpu, "gdi")
  BY <1>2
<1>6. CASE o = Fail(r.gpu, active)
  BY <1>3, <1>6, FailStage, StageKept
<1>7. CASE o = Outcome(r.gpu, "go") /\ r.ok
  BY <1>3, <1>7 DEF Stage, Outcome, Keeps
<1>8. CASE o = Outcome(r.gpu, "gdi") /\ ~active
  BY <1>3, <1>8 DEF Stage, Outcome, Keeps
<1>9. QED
  BY <1>3, <1>5, <1>6, <1>7, <1>8

LEMMA BootstrapStage ==
  ASSUME NEW W, 0 \in W, NEW g \in Gpu(W), NEW hasParams \in BOOLEAN, NEW active \in BOOLEAN
  PROVE  \A o \in Bootstrap(g, hasParams, active) :
           Stage(W, g, active, o) /\ (o.answer = "go" => o.gpu.size = g.size)
<1> DEFINE h == PrepareH264Packet(g, hasParams)
<1>1. Keeps(W, g, h) /\ h \in Gpu(W) /\ h.size = g.size
  <2>1. g.params \in BOOLEAN
    BY DEF Gpu
  <2>2. (g.params \/ hasParams) \in BOOLEAN
    BY <2>1
  <2> DEFINE p == g.params \/ hasParams
  <2>3. h = [g EXCEPT !.params = p] /\ p \in BOOLEAN
    BY <2>2 DEF PrepareH264Packet
  <2> HIDE DEF p, h
  <2>4. [g EXCEPT !.params = p] \in Gpu(W)
    BY <2>3 DEF Gpu
  <2>5. QED
    BY <2>3, <2>4 DEF Keeps, SamePicture, Gpu
<1>2. \A o \in Bootstrap(g, hasParams, active) :
        \/ o = Outcome(h, "go")
        \/ active /\ o = ResetDecoderAndPreserveOwner(h)
        \/ ~active /\ o = Outcome(h, "gdi")
  BY DEF Bootstrap
<1> HIDE DEF h
<1>3. TAKE o \in Bootstrap(g, hasParams, active)
<1>4. CASE active /\ o = ResetDecoderAndPreserveOwner(h)
  BY <1>1, <1>4, ResetStage, StageKept
<1>5. CASE o = Outcome(h, "go") \/ (~active /\ o = Outcome(h, "gdi"))
  BY <1>1, <1>5 DEF Stage, Outcome, Keeps
<1>6. QED
  BY <1>2, <1>4, <1>5

LEMMA DecoderEnsureKeeps ==
  ASSUME NEW W, NEW g \in Gpu(W), NEW size \in Sizes
  PROVE  \A d \in DecoderEnsure(g, size) :
           d.ok \in BOOLEAN /\ Keeps(W, g, d.gpu) /\ d.gpu.size = g.size
<1> DEFINE k == [g EXCEPT !.decoder = size]
<1>1. Keeps(W, g, k) /\ k.size = g.size
  BY DEF Gpu, Keeps, SamePicture
<1>2. Keeps(W, g, g)
  BY DEF Keeps, SamePicture
<1>3. \A d \in DecoderEnsure(g, size) : d.ok \in BOOLEAN /\ d.gpu \in {g, k, Close(g)}
  <2>1. TAKE d \in DecoderEnsure(g, size)
  <2>2. d = Result(g, TRUE) \/ d = Result(k, TRUE) \/ d = Result(Close(g), FALSE)
    BY DEF DecoderEnsure
  <2> HIDE DEF k
  <2>3. \/ d.gpu = g /\ d.ok = TRUE
        \/ d.gpu = k /\ d.ok = TRUE
        \/ d.gpu = Close(g) /\ d.ok = FALSE
    BY <2>2 DEF Result
  <2>4. QED
    BY <2>3
<1> HIDE DEF k
<1>4. Keeps(W, g, Close(g)) /\ Close(g).size = g.size
  BY Closed
<1>5. TAKE d \in DecoderEnsure(g, size)
<1>6. d.ok \in BOOLEAN /\ (d.gpu = g \/ d.gpu = k \/ d.gpu = Close(g))
  BY <1>3
<1>7. QED
  BY <1>1, <1>2, <1>4, <1>6

LEMMA DecodeStage ==
  ASSUME NEW W, 0 \in W, NEW g \in Gpu(W), NEW size \in Sizes, NEW active \in BOOLEAN
  PROVE  \A o \in DecodeFrame(g, size, active) :
           Stage(W, g, active, o) /\ (o.answer = "go" => o.gpu.size = g.size)
<1> DEFINE h == IF g.pendingSize = size THEN g ELSE ClearPendingPresent(g)
           Answer(d, decoded) ==
             CASE decoded = "Decoded" -> Outcome([d EXCEPT !.unsupported = 0], "go")
               [] decoded # "Decoded" /\ ~active -> Outcome(d, "gdi")
               [] decoded = "NoOutput" /\ active -> PreserveOwner(d)
               [] decoded = "Failed" /\ active -> Fail(d, active)
<1>1. Keeps(W, g, h) /\ h \in Gpu(W) /\ h.size = g.size
  <2>1. Keeps(W, g, g)
    BY DEF Keeps, SamePicture
  <2>2. QED
    BY <2>1, Cleared DEF Keeps
<1>2. DecodeFrame(g, size, active) =
        UNION {IF d.ok THEN {Answer(d.gpu, decoded) : decoded \in Decode}
               ELSE {Fail(d.gpu, active)} : d \in DecoderEnsure(h, size)}
  BY DEF DecodeFrame
<1>3. ASSUME NEW d, NEW decoded \in Decode
      PROVE  \/ Answer(d, decoded) = Outcome([d EXCEPT !.unsupported = 0], "go")
             \/ ~active /\ Answer(d, decoded) = Outcome(d, "gdi")
             \/ active /\ Answer(d, decoded) = PreserveOwner(d)
             \/ Answer(d, decoded) = Fail(d, active)
  <2>1. decoded \in {"NoOutput", "Failed", "Decoded"}
    BY DEF Decode, AttachNativeOutput
  <2>2. CASE decoded = "Decoded"
    BY <2>2
  <2>3. CASE decoded = "NoOutput"
    BY <2>3
  <2>4. CASE decoded = "Failed"
    BY <2>4
  <2>5. QED
    BY <2>1, <2>2, <2>3, <2>4
<1> HIDE DEF h, Answer
<1>4. TAKE o \in DecodeFrame(g, size, active)
<1>5. PICK d \in DecoderEnsure(h, size) :
        o \in IF d.ok THEN {Answer(d.gpu, decoded) : decoded \in Decode}
              ELSE {Fail(d.gpu, active)}
  BY <1>2
<1>6. Keeps(W, g, d.gpu) /\ d.gpu \in Gpu(W) /\ d.gpu.size = g.size
  BY <1>1, DecoderEnsureKeeps, KeepsKept DEF Keeps
<1>7. \/ o = Outcome([d.gpu EXCEPT !.unsupported = 0], "go")
      \/ ~active /\ o = Outcome(d.gpu, "gdi")
      \/ active /\ o = PreserveOwner(d.gpu)
      \/ o = Fail(d.gpu, active)
  BY <1>3, <1>5
<1>8. CASE o = Outcome([d.gpu EXCEPT !.unsupported = 0], "go")
  <2>1. LET k == [d.gpu EXCEPT !.unsupported = 0] IN Keeps(W, d.gpu, k) /\ k.size = d.gpu.size
    BY <1>6 DEF Gpu, Keeps, SamePicture
  <2>2. QED
    BY <1>6, <1>8, <2>1, KeepsKept DEF Stage, Outcome, Keeps
<1>9. CASE ~active /\ o = Outcome(d.gpu, "gdi")
  BY <1>6, <1>9 DEF Stage, Outcome, Keeps
<1>10. CASE active /\ o = PreserveOwner(d.gpu)
  BY <1>6, <1>10, PreserveStage, StageKept
<1>11. CASE o = Fail(d.gpu, active)
  BY <1>6, <1>11, FailStage, StageKept
<1>12. QED
  BY <1>7, <1>8, <1>9, <1>10, <1>11

-----------------------------------------------------------------------------
(* The composite: painting all of it, or a part of one that is whole, makes *)
(* it whole, and what fails makes no holes.                                 *)

Composed(W, g, full, r) ==
  /\ r.ok \in BOOLEAN /\ r.gpu \in Gpu(W)
  /\ r.gpu.pending = g.pending /\ r.gpu.size = g.size
  /\ Whole(g, g.size) => Whole(r.gpu, g.size)
  /\ full /\ r.ok => Whole(r.gpu, g.size)
  /\ (full \/ Whole(g, g.size)) /\ r.gpu.picture = "holes" => g.picture = "holes"

LEMMA EnsureComposite ==
  ASSUME NEW W, NEW g \in Gpu(W), g.size # 0
  PROVE  \A s \in EnsureCompositeSurface(g) :
           /\ s.ok \in BOOLEAN /\ s.gpu \in Gpu(W)
           /\ s.gpu.pending = g.pending /\ s.gpu.size = g.size
           /\ s.ok => s.gpu.pictureSize = g.size
           /\ \/ SamePicture(g, s.gpu)
              \/ g.pictureSize # g.size /\ s.gpu.picture \in {"blank", "none"}
<1> DEFINE b == [g EXCEPT !.picture = "blank", !.pictureSize = g.size]
           n == [g EXCEPT !.picture = "none", !.pictureSize = 0]
<1>1. b \in Gpu(W) /\ n \in Gpu(W)
  BY DEF Gpu, Pictures
<1>2. /\ b.pending = g.pending /\ b.size = g.size /\ b.pictureSize = g.size
      /\ b.picture = "blank"
      /\ n.pending = g.pending /\ n.size = g.size /\ n.picture = "none"
  BY DEF Gpu
<1>3. EnsureCompositeSurface(g) =
        IF g.pictureSize = g.size THEN {Result(g, TRUE)} ELSE {Result(b, TRUE), Result(n, FALSE)}
  BY DEF EnsureCompositeSurface
<1> HIDE DEF b, n
<1>4. TAKE s \in EnsureCompositeSurface(g)
<1>5. \/ s.ok = TRUE /\ s.gpu = g /\ g.pictureSize = g.size
      \/ s.ok = TRUE /\ s.gpu = b /\ g.pictureSize # g.size
      \/ s.ok = FALSE /\ s.gpu = n /\ g.pictureSize # g.size
  BY <1>3 DEF Result
<1>6. QED
  BY <1>1, <1>2, <1>5 DEF SamePicture

LEMMA DrawComposes ==
  ASSUME NEW W, NEW g \in Gpu(W), g.size # 0, NEW full \in BOOLEAN,
         NEW s \in EnsureCompositeSurface(g), s.ok, NEW drawn \in BOOLEAN
  PROVE  Composed(W, g, full, Draw(s.gpu, full, drawn))
<1> DEFINE k == s.gpu
           p == Painted(k, full)
<1>1. /\ k \in Gpu(W) /\ k.pending = g.pending /\ k.size = g.size /\ k.pictureSize = g.size
      /\ \/ SamePicture(g, k)
         \/ g.pictureSize # g.size /\ k.picture \in {"blank", "none"}
  BY EnsureComposite
<1>2. Draw(s.gpu, full, drawn) = IF drawn THEN Result(p, TRUE) ELSE Result(k, FALSE)
  BY DEF Draw
<1> HIDE DEF k
<1>3. k.picture # "none" /\ k.size # 0
  BY <1>1 DEF Gpu
<1>4. /\ p \in Gpu(W) /\ p.pending = k.pending /\ p.size = k.size
      /\ p.pictureSize = k.pictureSize
      /\ p.picture = IF full \/ k.picture = "whole" THEN "whole" ELSE "holes"
  BY <1>1, <1>3 DEF Painted, Gpu, Pictures
<1> HIDE DEF p
<1>5. CASE drawn
  <2>1. Draw(s.gpu, full, drawn).gpu = p /\ Draw(s.gpu, full, drawn).ok = TRUE
    BY <1>2, <1>5 DEF Result
  <2>2. QED
    BY <1>1, <1>4, <2>1 DEF Composed, Whole, SamePicture
<1>6. CASE ~drawn
  <2>1. Draw(s.gpu, full, drawn).gpu = k /\ Draw(s.gpu, full, drawn).ok = FALSE
    BY <1>2, <1>6 DEF Result
  <2>2. QED
    BY <1>1, <2>1 DEF Composed, Whole, SamePicture
<1>7. QED
  BY <1>5, <1>6

LEMMA FrameComposes ==
  ASSUME NEW W, NEW g \in Gpu(W), g.size # 0, NEW full \in BOOLEAN
  PROVE  /\ \A r \in CompositeFrame(g, full) : Composed(W, g, full, r)
         /\ \A r \in CompositeRgbaFrame(g, full) : Composed(W, g, full, r)
<1>1. Composed(W, g, full, Result(g, FALSE))
  <2>1. Result(g, FALSE).gpu = g /\ Result(g, FALSE).ok = FALSE
    BY DEF Result
  <2>2. QED
    BY <2>1 DEF Composed
<1>2. ASSUME NEW s \in EnsureCompositeSurface(g), ~s.ok
      PROVE  Composed(W, g, full, s)
  BY <1>2, EnsureComposite DEF Composed, Whole, SamePicture
<1>3. ASSUME NEW s \in EnsureCompositeSurface(g),
             NEW r \in IF s.ok THEN {Draw(s.gpu, full, drawn) : drawn \in BOOLEAN} ELSE {s}
      PROVE  Composed(W, g, full, r)
  <2>1. CASE s.ok
    <3>1. PICK drawn \in BOOLEAN : r = Draw(s.gpu, full, drawn)
      BY <2>1
    <3>2. QED
      BY <2>1, <3>1, DrawComposes
  <2>2. CASE ~s.ok
    BY <1>2, <2>2
  <2>3. QED
    BY <2>1, <2>2
<1> DEFINE Drawn == UNION {IF s.ok THEN {Draw(s.gpu, full, drawn) : drawn \in BOOLEAN}
                           ELSE {s} : s \in EnsureCompositeSurface(g)}
<1>4. \A r \in Drawn : Composed(W, g, full, r)
  BY <1>3
<1>5. /\ CompositeFrame(g, full)
           = UNION {IF ~current THEN {Result(g, FALSE)} ELSE Drawn : current \in BOOLEAN}
      /\ CompositeRgbaFrame(g, full)
           = UNION {IF ~current THEN {Result(g, FALSE)} ELSE Drawn : current \in BOOLEAN}
  BY DEF CompositeFrame, CompositeRgbaFrame, ImportFrame, MakeCurrent
<1> HIDE DEF Drawn
<1>6. QED
  BY <1>1, <1>4, <1>5

\* What a command leaves of the picture.
Processed(W, g, c, active, o) ==
  /\ o.gpu \in Gpu(W)
  /\ o.answer \in {"go", "gdi", "handled", "released"}
  /\ active => o.answer # "gdi"
  /\ Whole(g, c.size) /\ o.answer \in {"go", "handled"} => Whole(o.gpu, c.size)
  /\ (c.full \/ Whole(g, c.size)) /\ o.gpu.picture = "holes" => g.picture = "holes"

LEMMA StageProcessed ==
  ASSUME NEW W, NEW g, NEW c, NEW active, NEW o, Stage(W, g, active, o)
  PROVE  Processed(W, g, c, active, o)
  BY DEF Stage, Processed, SamePicture, Whole

LEMMA CompositeProcessed ==
  ASSUME NEW W, 0 \in W, NEW g \in Gpu(W), NEW c \in Commands, g.size = c.size,
         NEW active \in BOOLEAN
  PROVE  \A o \in CompositeCommand(g, c, active) :
           /\ Processed(W, g, c, active, o) /\ o.gpu.pending \in {g.pending, 0}
           /\ o.answer = "handled" => active /\ o.gpu.pending = 0
           /\ c.full /\ o.answer = "go" => Whole(o.gpu, c.size)
<1>0. c.size \in Sizes /\ c.size # 0 /\ c.full \in BOOLEAN
  BY DEF Commands
<1>1. TAKE o \in CompositeCommand(g, c, active)
<1> DEFINE Gone(h) == DestroyRenderer(Close(ClearPendingPresent(h)))
<1>2. PICK r \in CompositeFrame(g, c.full) :
        o = IF r.ok THEN Outcome(r.gpu, "go")
            ELSE IF active THEN Fail(r.gpu, active)
            ELSE Outcome([Gone(r.gpu) EXCEPT !.unsupported = c.size], "gdi")
  BY DEF CompositeCommand
<1>3. Composed(W, g, c.full, r)
  BY <1>0, FrameComposes
<1>4. r.gpu \in Gpu(W) /\ r.gpu.pending = g.pending /\ r.ok \in BOOLEAN
  BY <1>3 DEF Composed
<1>5. CASE r.ok
  <2>1. o.gpu = r.gpu /\ o.answer = "go"
    BY <1>2, <1>5 DEF Outcome
  <2>2. QED
    BY <1>3, <1>4, <1>5, <2>1 DEF Composed, Processed
<1>6. CASE ~r.ok /\ active
  <2>1. Stage(W, r.gpu, active, o) /\ o.answer # "go"
    BY <1>2, <1>4, <1>6, FailStage
  <2>2. Whole(g, c.size) => Whole(r.gpu, c.size)
    BY <1>3 DEF Composed
  <2>3. (c.full \/ Whole(g, c.size)) /\ r.gpu.picture = "holes" => g.picture = "holes"
    BY <1>3 DEF Composed
  <2>4. QED
    BY <1>4, <1>6, <2>1, <2>2, <2>3 DEF Stage, Processed, SamePicture, Whole
<1>7. CASE ~r.ok /\ ~active
  <2> DEFINE cleared == ClearPendingPresent(r.gpu)
             closed == Close(cleared)
             d == DestroyRenderer(closed)
             k == [d EXCEPT !.unsupported = c.size]
  <2>1. cleared \in Gpu(W) /\ cleared.pending = 0
    BY <1>4, Cleared DEF Keeps
  <2> HIDE DEF cleared
  <2>2. closed \in Gpu(W) /\ closed.pending = 0
    BY <2>1, Closed DEF Keeps
  <2> HIDE DEF closed
  <2>3. d \in Gpu(W) /\ d.pending = 0 /\ d.picture = "none"
    BY <2>2, DestroyedRenderer
  <2>4. o = Outcome(k, "gdi")
    BY <1>2, <1>7 DEF cleared, closed
  <2> HIDE DEF d
  <2>5. k \in Gpu(W) /\ k.pending = 0 /\ k.picture = "none"
    BY <1>0, <2>3 DEF Gpu
  <2> HIDE DEF k
  <2>6. o.gpu = k /\ o.answer = "gdi"
    BY <2>4 DEF Outcome
  <2>7. QED
    BY <1>7, <2>5, <2>6 DEF Processed
<1>8. QED
  BY <1>4, <1>5, <1>6, <1>7

LEMMA CommandProcessed ==
  ASSUME NEW W, 0 \in W, NEW g \in Gpu(W), NEW c \in Commands, NEW frame \in Frames,
         NEW active \in BOOLEAN
  PROVE  \A o \in ProcessCommand(g, c, frame, active) :
           /\ Processed(W, g, c, active, o) /\ o.answer # "go"
           /\ o.answer # "handled" => o.gpu.pending \in {g.pending, 0}
           /\ c.full /\ o.answer = "handled" /\ (~active \/ o.gpu.pending # 0)
                => Whole(o.gpu, c.size)
<1> DEFINE A == WarmUp(g, c.size, active)
           B == UNION {IF o.answer = "go" THEN Prepare(o.gpu, c.size, active) ELSE {o} : o \in A}
           C == UNION {IF o.answer = "go"
                       THEN UNION {Bootstrap(o.gpu, hasParams, active) : hasParams \in BOOLEAN}
                       ELSE {o} : o \in B}
           D == UNION {IF o.answer = "go" THEN DecodeFrame(o.gpu, c.size, active) ELSE {o} :
                         o \in C}
           E == UNION {IF o.answer = "go" THEN CompositeCommand(o.gpu, c, active) ELSE {o} :
                         o \in D}
           F == UNION {IF o.answer = "go" THEN QueuePresent(o.gpu, c.size, frame) ELSE {o} :
                         o \in E}
           bad == Outcome(g, IF active THEN "released" ELSE "gdi")
<1>0. c.size \in Sizes /\ c.size # 0 /\ c.full \in BOOLEAN /\ frame # 0
  BY DEF Commands
<1>1. ProcessCommand(g, c, frame, active) = F \cup {bad}
  BY DEF ProcessCommand, Then
<1>2. \A o \in A : Stage(W, g, active, o) /\ o.gpu \in Gpu(W)
  BY WarmUpStage DEF Stage
<1> HIDE DEF A
<1>3. \A o \in B : /\ Stage(W, g, active, o) /\ o.gpu \in Gpu(W)
                   /\ o.answer = "go" => o.gpu.size = c.size
  <2>1. TAKE o \in B
  <2>2. PICK p \in A : o \in IF p.answer = "go" THEN Prepare(p.gpu, c.size, active) ELSE {p}
    OBVIOUS
  <2>3. CASE p.answer = "go"
    BY <1>0, <1>2, <2>2, <2>3, PrepareStage, StageStage DEF Stage
  <2>4. CASE p.answer # "go"
    BY <1>2, <2>2, <2>4
  <2>5. QED
    BY <2>3, <2>4
<1> HIDE DEF B
<1>4. \A o \in C : /\ Stage(W, g, active, o) /\ o.gpu \in Gpu(W)
                   /\ o.answer = "go" => o.gpu.size = c.size
  <2>1. TAKE o \in C
  <2>2. PICK p \in B : o \in IF p.answer = "go"
                             THEN UNION {Bootstrap(p.gpu, hasParams, active) :
                                           hasParams \in BOOLEAN}
                             ELSE {p}
    OBVIOUS
  <2>3. CASE p.answer = "go"
    <3>1. PICK hasParams \in BOOLEAN : o \in Bootstrap(p.gpu, hasParams, active)
      BY <2>2, <2>3
    <3>2. Stage(W, p.gpu, active, o) /\ (o.answer = "go" => o.gpu.size = p.gpu.size)
      BY <1>3, <3>1, BootstrapStage
    <3>3. Stage(W, g, active, p) /\ p.gpu.size = c.size
      BY <1>3, <2>3
    <3>4. Stage(W, g, active, o)
      BY <2>3, <3>2, <3>3, StageStage
    <3>5. QED
      BY <3>2, <3>3, <3>4 DEF Stage
  <2>4. CASE p.answer # "go"
    BY <1>3, <2>2, <2>4
  <2>5. QED
    BY <2>3, <2>4
<1> HIDE DEF C
<1>5. \A o \in D : /\ Stage(W, g, active, o) /\ o.gpu \in Gpu(W)
                   /\ o.answer = "go" => o.gpu.size = c.size
  <2>1. TAKE o \in D
  <2>2. PICK p \in C : o \in IF p.answer = "go" THEN DecodeFrame(p.gpu, c.size, active) ELSE {p}
    OBVIOUS
  <2>3. CASE p.answer = "go"
    <3>1. Stage(W, p.gpu, active, o) /\ (o.answer = "go" => o.gpu.size = p.gpu.size)
      BY <1>0, <1>4, <2>2, <2>3, DecodeStage
    <3>2. QED
      BY <1>4, <2>3, <3>1, StageStage DEF Stage
  <2>4. CASE p.answer # "go"
    BY <1>4, <2>2, <2>4
  <2>5. QED
    BY <2>3, <2>4
<1> HIDE DEF D
<1>6. \A o \in E : /\ Processed(W, g, c, active, o) /\ o.gpu.pending \in {g.pending, 0}
                   /\ o.answer = "handled" => active /\ o.gpu.pending = 0
                   /\ c.full /\ o.answer = "go" => Whole(o.gpu, c.size)
  <2>1. TAKE o \in E
  <2>2. PICK p \in D : o \in IF p.answer = "go" THEN CompositeCommand(p.gpu, c, active) ELSE {p}
    OBVIOUS
  <2>3. CASE p.answer = "go"
    <3>1. /\ Processed(W, p.gpu, c, active, o) /\ o.gpu.pending \in {p.gpu.pending, 0}
          /\ o.answer = "handled" => active /\ o.gpu.pending = 0
          /\ c.full /\ o.answer = "go" => Whole(o.gpu, c.size)
      BY <1>5, <2>2, <2>3, CompositeProcessed
    <3>2. SamePicture(g, p.gpu) /\ p.gpu.pending \in {g.pending, 0}
      BY <1>5, <2>3 DEF Stage
    <3>3. QED
      BY <3>1, <3>2 DEF Processed, SamePicture, Whole
  <2>4. CASE p.answer # "go"
    BY <1>5, <2>2, <2>4, StageProcessed DEF Stage
  <2>5. QED
    BY <2>3, <2>4
<1> HIDE DEF E
<1>7. ASSUME NEW o \in F
      PROVE  /\ Processed(W, g, c, active, o) /\ o.answer # "go"
             /\ o.answer # "handled" => o.gpu.pending \in {g.pending, 0}
             /\ c.full /\ o.answer = "handled" /\ (~active \/ o.gpu.pending # 0)
                  => Whole(o.gpu, c.size)
  <2>1. PICK p \in E : o \in IF p.answer = "go" THEN QueuePresent(p.gpu, c.size, frame) ELSE {p}
    OBVIOUS
  <2>2. CASE p.answer = "go"
    <3> DEFINE k == [p.gpu EXCEPT !.pending = frame, !.pendingSize = c.size,
                                  !.currentSize = c.size]
    <3>1. o = Outcome(k, "handled")
      BY <2>1, <2>2 DEF QueuePresent
    <3>2. p.gpu \in Gpu(W)
      BY <1>6 DEF Processed
    <3>3. k \in Gpu(W) /\ k.picture = p.gpu.picture /\ k.pictureSize = p.gpu.pictureSize
      BY <1>0, <3>2 DEF Gpu
    <3> HIDE DEF k
    <3>4. o.gpu = k /\ o.answer = "handled"
      BY <3>1 DEF Outcome
    <3>5. QED
      BY <1>6, <2>2, <3>3, <3>4 DEF Processed, Whole
  <2>3. CASE p.answer # "go"
    BY <1>6, <2>1, <2>3
  <2>4. QED
    BY <2>2, <2>3
<1> HIDE DEF F
<1>8. /\ bad.gpu = g /\ bad.answer \in {"released", "gdi"} /\ (active => bad.answer # "gdi")
  BY DEF Outcome
<1> HIDE DEF bad
<1>9. /\ Processed(W, g, c, active, bad) /\ bad.answer # "go" /\ bad.answer # "handled"
      /\ bad.gpu.pending \in {g.pending, 0}
  BY <1>8 DEF Processed
<1>10. QED
  BY <1>1, <1>7, <1>9

\* GDI's pixels: what they leave of the picture is what a command leaves.
LEMMA GdiFrameProcessed ==
  ASSUME NEW W, 0 \in W, NEW g \in Gpu(W), NEW size \in Sizes, NEW full \in BOOLEAN
  PROVE  \A b \in ProcessGdiFrame(g, size, full) :
           /\ b.ok \in BOOLEAN /\ b.gpu \in Gpu(W) /\ b.gpu.pending = g.pending
           /\ Whole(g, size) => Whole(b.gpu, size)
           /\ full /\ b.ok => Whole(b.gpu, size)
           /\ (full \/ Whole(g, size)) /\ b.gpu.picture = "holes" => g.picture = "holes"
<1>1. TAKE b \in ProcessGdiFrame(g, size, full)
<1>2. PICK r \in RendererEnsure(g, 0, size) :
        b \in IF ~r.ok THEN {Result(Failed(r.gpu), FALSE)}
              ELSE {IF p.ok
                    THEN Result([p.gpu EXCEPT !.background = TRUE, !.currentSize = size], TRUE)
                    ELSE Result(Failed(p.gpu), FALSE) : p \in CompositeRgbaFrame(r.gpu, full)}
  BY <1>1 DEF ProcessGdiFrame
<1>3. /\ r.ok \in BOOLEAN /\ r.gpu \in Gpu(W) /\ SamePicture(g, r.gpu)
      /\ r.gpu.pending = g.pending /\ (r.ok => r.gpu.size = size) /\ size # 0
  BY RendererEnsureKeeps DEF Keeps
<1>4. ASSUME NEW h \in Gpu(W)
      PROVE  /\ Result(Failed(h), FALSE).ok = FALSE
             /\ Result(Failed(h), FALSE).gpu \in Gpu(W)
             /\ SamePicture(h, Result(Failed(h), FALSE).gpu)
             /\ Result(Failed(h), FALSE).gpu.pending = h.pending
  BY Counted DEF Result, Keeps
<1>5. CASE ~r.ok
  <2>1. b = Result(Failed(r.gpu), FALSE)
    BY <1>2, <1>5
  <2>2. QED
    BY <1>3, <1>4, <2>1 DEF SamePicture, Whole
<1>6. CASE r.ok
  <2>1. PICK p \in CompositeRgbaFrame(r.gpu, full) :
          b = IF p.ok
              THEN Result([p.gpu EXCEPT !.background = TRUE, !.currentSize = size], TRUE)
              ELSE Result(Failed(p.gpu), FALSE)
    BY <1>2, <1>6
  <2>2. Composed(W, r.gpu, full, p)
    BY <1>3, <1>6, FrameComposes
  <2>3. /\ p.ok \in BOOLEAN /\ p.gpu \in Gpu(W) /\ p.gpu.pending = g.pending
        /\ Whole(g, size) => Whole(p.gpu, size)
        /\ full /\ p.ok => Whole(p.gpu, size)
        /\ (full \/ Whole(g, size)) /\ p.gpu.picture = "holes" => g.picture = "holes"
    BY <1>3, <1>6, <2>2 DEF Composed, SamePicture, Whole
  <2>4. CASE p.ok
    <3> DEFINE k == [p.gpu EXCEPT !.background = TRUE, !.currentSize = size]
    <3>1. b = Result(k, TRUE)
      BY <2>1, <2>4
    <3>2. k \in Gpu(W) /\ SamePicture(p.gpu, k) /\ k.pending = p.gpu.pending
      BY <2>3 DEF Gpu, SamePicture
    <3> HIDE DEF k
    <3>3. b.gpu = k /\ b.ok = TRUE
      BY <3>1 DEF Result
    <3>4. QED
      BY <2>3, <2>4, <3>2, <3>3 DEF SamePicture, Whole
  <2>5. CASE ~p.ok
    <3>1. b = Result(Failed(p.gpu), FALSE)
      BY <2>1, <2>5
    <3>2. QED
      BY <1>4, <2>3, <3>1 DEF SamePicture, Whole
  <2>6. QED
    BY <2>3, <2>4, <2>5
<1>7. QED
  BY <1>3, <1>5, <1>6

LEMMA PrewarmKeeps ==
  ASSUME NEW W, 0 \in W, NEW g \in Gpu(W), NEW size \in Sizes
  PROVE  \A h \in Prewarm(g, size) : Keeps(W, g, h)
  BY RendererEnsureKeeps DEF Prewarm

-----------------------------------------------------------------------------
(* What reaches the window.                                                 *)

\* The composite is shown as it is, and stays as it is.
Presented(W, g, t) ==
  /\ Keeps(W, g, t.gpu)
  /\ t.shown \in {"no", "holes", "whole"} /\ (t.shown # "no" => t.shown = g.picture)

LEMMA NotShown ==
  ASSUME NEW W, NEW g, NEW h, Keeps(W, g, h)
  PROVE  Presented(W, g, Shown(h, "no"))
  BY DEF Presented, Shown

\* The outcomes of Present, for each way its callers go on.
LEMMA PresentOutcomes ==
  ASSUME NEW W, 0 \in W, NEW g \in Gpu(W), NEW window \in W, NEW size \in Sizes,
         NEW r \in RendererEnsure(g, window, size)
  PROVE  /\ Presented(W, g, Shown(Failed(r.gpu), "no"))
         /\ Presented(W, g, Shown(FailedAndIgnored(r.gpu), "no"))
         /\ Presented(W, g, Shown(FailedAndIgnored(ClearPendingPresent(r.gpu)), "no"))
         /\ TRUE \in PresentComposite(r.gpu) =>
              Presented(W, g, Shown([ClearPendingPresent(r.gpu) EXCEPT !.background = FALSE],
                                    r.gpu.picture))
<1> DEFINE h == r.gpu
<1>1. Keeps(W, g, h) /\ h \in Gpu(W)
  BY RendererEnsureKeeps DEF Keeps
<1> HIDE DEF h
<1>2. ASSUME NEW k, Keeps(W, g, k)
      PROVE  Keeps(W, g, Failed(k)) /\ Keeps(W, g, FailedAndIgnored(k))
  <2>1. Keeps(W, g, Failed(k))
    BY <1>2, Counted, KeepsKept DEF Keeps
  <2> DEFINE f == Failed(k)
  <2> HIDE DEF f
  <2>2. Keeps(W, g, f)
    BY <2>1 DEF f
  <2>3. Keeps(W, g, Ignored(f))
    BY <2>2, Counted, KeepsKept DEF Keeps
  <2>4. QED
    BY <2>1, <2>3 DEF FailedAndIgnored, f
<1>3. Keeps(W, g, ClearPendingPresent(h))
  BY <1>1, Cleared, KeepsKept
<1> DEFINE c == ClearPendingPresent(h)
           k == [c EXCEPT !.background = FALSE]
<1> HIDE DEF c
<1>4. Keeps(W, c, k)
  <2>1. c \in Gpu(W)
    BY <1>3 DEF c, Keeps
  <2>2. k \in Gpu(W)
    BY <2>1 DEF Gpu
  <2>3. k.picture = c.picture /\ k.pictureSize = c.pictureSize /\ k.pending = c.pending
    BY <2>1 DEF Gpu
  <2>4. QED
    BY <2>2, <2>3 DEF Keeps, SamePicture
<1>5. Keeps(W, g, k)
  BY <1>3, <1>4, KeepsKept DEF c
<1> HIDE DEF k
<1>6. TRUE \in PresentComposite(h) => h.picture \in {"holes", "whole"}
  BY DEF PresentComposite
<1>7. TRUE \in PresentComposite(h) => Presented(W, g, Shown(k, h.picture))
  BY <1>1, <1>5, <1>6 DEF Presented, Shown, Keeps, SamePicture
<1>8. QED
  BY <1>1, <1>2, <1>3, <1>7, NotShown DEF h, c, k

LEMMA PresentPresented ==
  ASSUME NEW W, 0 \in W, NEW g \in Gpu(W), NEW window \in W, NEW size \in Sizes
  PROVE  /\ \A t \in Present(g, window, size, Failed, Failed) : Presented(W, g, t)
         /\ \A t \in Present(g, window, size, Failed, FailedAndIgnored) : Presented(W, g, t)
         /\ \A t \in Present(g, window, size, Failed,
                             LAMBDA h : FailedAndIgnored(ClearPendingPresent(h))) :
              Presented(W, g, t)
<1> DEFINE Done(r) == Shown([ClearPendingPresent(r.gpu) EXCEPT !.background = FALSE],
                            r.gpu.picture)
           One(r, undrawn) ==
             IF ~r.ok THEN {Shown(Failed(r.gpu), "no")}
             ELSE {IF ok THEN Done(r) ELSE Shown(undrawn, "no") : ok \in PresentComposite(r.gpu)}
<1>1. ASSUME NEW r \in RendererEnsure(g, window, size), NEW undrawn,
             Presented(W, g, Shown(undrawn, "no")), NEW t \in One(r, undrawn)
      PROVE  Presented(W, g, t)
  <2>1. t = Shown(Failed(r.gpu), "no") \/ t = Shown(undrawn, "no")
        \/ (TRUE \in PresentComposite(r.gpu) /\ t = Done(r))
    <3>1. PresentComposite(r.gpu) \subseteq BOOLEAN
      BY DEF PresentComposite, MakeCurrent
    <3> HIDE DEF Done
    <3>2. QED
      BY <1>1, <3>1
  <2>2. QED
    BY <1>1, <2>1, PresentOutcomes
<1>2. \A r \in RendererEnsure(g, window, size) :
        /\ \A t \in One(r, Failed(r.gpu)) : Presented(W, g, t)
        /\ \A t \in One(r, FailedAndIgnored(r.gpu)) : Presented(W, g, t)
        /\ \A t \in One(r, FailedAndIgnored(ClearPendingPresent(r.gpu))) : Presented(W, g, t)
  BY <1>1, PresentOutcomes
<1>3. Present(g, window, size, Failed, Failed)
        = UNION {One(r, Failed(r.gpu)) : r \in RendererEnsure(g, window, size)}
  BY DEF Present
<1>4. Present(g, window, size, Failed, FailedAndIgnored)
        = UNION {One(r, FailedAndIgnored(r.gpu)) : r \in RendererEnsure(g, window, size)}
  BY DEF Present
<1>5. Present(g, window, size, Failed, LAMBDA h : FailedAndIgnored(ClearPendingPresent(h)))
        = UNION {One(r, FailedAndIgnored(ClearPendingPresent(r.gpu))) :
                   r \in RendererEnsure(g, window, size)}
  BY DEF Present
<1> HIDE DEF One
<1>6. QED
  BY <1>2, <1>3, <1>4, <1>5

LEMMA TargetPresented ==
  ASSUME NEW W, 0 \in W, NEW g \in Gpu(W), NEW window \in W, NEW active \in BOOLEAN
  PROVE  \A t \in OnSurfaceTargetChanged(g, window, active) :
           Presented(W, g, t) /\ (~active => t.shown = "no")
<1> DEFINE size == IF g.pendingSize # 0 THEN g.pendingSize ELSE g.currentSize
<1>1. size \in Sizes \cup {0}
  BY GpuParts
<1>2. OnSurfaceTargetChanged(g, window, active) =
        IF ~active \/ window = 0 \/ size = 0 THEN {Shown(DetachWindowSurface(g), "no")}
        ELSE Present(g, window, size, Failed, Failed)
  BY DEF OnSurfaceTargetChanged
<1> HIDE DEF size
<1>3. Presented(W, g, Shown(DetachWindowSurface(g), "no"))
      /\ Shown(DetachWindowSurface(g), "no").shown = "no"
  BY Detached, NotShown DEF Shown
<1>4. CASE ~active \/ window = 0 \/ size = 0
  BY <1>2, <1>3, <1>4
<1>5. CASE ~(~active \/ window = 0 \/ size = 0)
  BY <1>1, <1>2, <1>5, PresentPresented
<1>6. QED
  BY <1>4, <1>5

LEMMA BackgroundPresented ==
  ASSUME NEW W, 0 \in W, NEW g \in Gpu(W), NEW window \in W, NEW active, NEW matched
  PROVE  /\ \A t \in PresentGdiBackgroundNow(g, window, active) : Presented(W, g, t)
         /\ \A t \in PresentGdiBackgroundAtEndFrame(g, matched, window, active) :
              Presented(W, g, t)
<1>1. g.currentSize \in Sizes \cup {0}
  BY GpuParts
<1>2. Presented(W, g, Shown(g, "no")) /\ Presented(W, g, Shown(Ignored(g), "no"))
  BY Counted, NotShown DEF Keeps, SamePicture
<1>3. \A t \in PresentGdiBackground(g, window) : Presented(W, g, t)
  <2>1. CASE g.currentSize = 0 \/ window = 0
    BY <1>2, <2>1 DEF PresentGdiBackground
  <2>2. CASE g.currentSize # 0 /\ window # 0
    <3>1. PresentGdiBackground(g, window)
            = Present(g, window, g.currentSize, Failed, FailedAndIgnored)
      BY <2>2 DEF PresentGdiBackground
    <3>2. QED
      BY <1>1, <2>2, <3>1, PresentPresented
  <2>3. QED
    BY <2>1, <2>2
<1>4. QED
  BY <1>2, <1>3 DEF PresentGdiBackgroundNow, PresentGdiBackgroundAtEndFrame

LEMMA EndFramePresented ==
  ASSUME NEW W, 0 \in W, NEW g \in Gpu(W), NEW frame, NEW matched, NEW window \in W,
         NEW active
  PROVE  \A t \in PresentEndFrame(g, frame, matched, window, active) :
           /\ Presented(W, g, t)
           /\ ~active /\ g.pending = 0 => t.shown = "no"
<1>1. CASE g.pending = 0
  <2>1. PresentEndFrame(g, frame, matched, window, active)
          = PresentGdiBackgroundAtEndFrame(g, matched, window, active)
    BY <1>1 DEF PresentEndFrame
  <2>2. ~active => \A t \in PresentGdiBackgroundAtEndFrame(g, matched, window, active) :
                     t.shown = "no"
    BY DEF PresentGdiBackgroundAtEndFrame, Shown
  <2>3. QED
    BY <2>1, <2>2, BackgroundPresented
<1>2. CASE g.pending # 0
  <2> DEFINE c == ClearPendingPresent(g)
  <2>1. g.pendingSize \in Sizes
    BY <1>2, GpuParts
  <2>2. Keeps(W, g, c) /\ c \in Gpu(W)
    BY Cleared DEF Keeps
  <2> HIDE DEF c
  <2>3. Keeps(W, g, Ignored(c)) /\ Keeps(W, g, Failed(c)) /\ Failed(c) \in Gpu(W)
    BY <2>2, Counted, KeepsKept DEF Keeps
  <2>4. Keeps(W, g, FailedAndIgnored(c))
    <3> DEFINE f == Failed(c)
    <3>1. Keeps(W, g, f) /\ f \in Gpu(W)
      BY <2>3
    <3> HIDE DEF f
    <3>2. Keeps(W, g, Ignored(f))
      BY <3>1, Counted, KeepsKept
    <3>3. QED
      BY <3>2 DEF f, FailedAndIgnored
  <2>5. Keeps(W, g, Ignored(g))
    BY Counted
  <2> DEFINE P == Present(g, window, g.pendingSize, Failed,
                          LAMBDA h : FailedAndIgnored(ClearPendingPresent(h)))
  <2>6. \A t \in P : Presented(W, g, t)
    BY <2>1, PresentPresented
  <2>7. PresentEndFrame(g, frame, matched, window, active) =
          IF ~matched \/ frame # g.pending THEN {Shown(Ignored(c), "no")}
          ELSE IF window = 0
          THEN {Shown(IF active THEN Ignored(g) ELSE FailedAndIgnored(c), "no")}
          ELSE P
    BY <1>2 DEF PresentEndFrame, PresentQueuedUpdate, c
  <2> HIDE DEF P
  <2>8. QED
    BY <1>2, <2>3, <2>4, <2>5, <2>6, <2>7, NotShown
<1>3. QED
  BY <1>1, <1>2

-----------------------------------------------------------------------------
(* The invariant.                                                          *)

Windows == 0 .. MaxTargets
Comps == [enabled : BOOLEAN, active : BOOLEAN, seed : Sizes \cup {0},
          state : {"detached", "active", "targetPaused", "failed"}]
Threads == [WorkerIds -> [pc : {"none", "waiting", "holds", "clear", "start"}, task : Tasks]]
Channels ==
  [pc : {"idle", "command", "paused", "detach", "sync", "stop", "release", "start", "end",
         "syncEnd", "resize"},
   command : Commands \cup {NoCommand}, frame : Frames, used : BOOLEAN,
   active : BOOLEAN, matched : BOOLEAN, events : 0 .. MaxEvents]
Uis == [pc : {"idle", "prewarm", "target", "start", "owner"}, gone : BOOLEAN]
Sessions ==
  [pc : {"away", "stop", "join", "attach", "up", "down"}, goal : {"attach", "down"},
   join : WorkerIds \cup {0}, count : 0 .. MaxSessions]
Hists == [revived : BOOLEAN, mistaken : BOOLEAN, stolen : BOOLEAN]
Pipelines == [running : BOOLEAN, bound : BOOLEAN]

\* Type correctness, variable by variable.
Types ==
  /\ owner \in Owners /\ gdi \in Pipelines
  /\ target \in [window : Windows, last : Windows]
  /\ comp \in Comps /\ gpu \in Gpu(Windows)
  /\ queue \in Seq(Tasks) /\ Len(queue) <= MaxTasks
  /\ running \in BOOLEAN /\ handle \in WorkerIds \cup {0} /\ workers \in Threads
  /\ channel \in Channels /\ shown \in {"no", "holes", "whole"}
  /\ ui \in Uis /\ session \in Sessions /\ hist \in Hists

\* An output that is active has a state, and a compositor.
ActiveIsOn == comp.active => comp.enabled /\ comp.state \in {"active", "targetPaused"}

LEMMA TypesFromTypeOK == TypeOK <=> Types /\ ActiveIsOn
  BY DEF TypeOK, Types, ActiveIsOn, OutputTypeOK, Windows, Threads, Channels, Sessions, Comps,
         Uis, Hists, Pipelines

LEMMA NoWindow == 0 \in Windows
  BY DEF Windows

Holds(w) == workers[w].pc = "holds"

\* Tasks are well formed: a command has its rectangles and the number of its frame.
GoodTask(task) ==
  /\ task.type # "none"
  /\ task.type = "command" => task.command \in Commands /\ task.frame \in Frames
TasksAreGood ==
  /\ \A i \in DOMAIN queue : GoodTask(queue[i])
  /\ \A w \in WorkerIds : Holds(w) => GoodTask(workers[w].task)

\* The channel has work only in a session that is up, with a compositor.
ChannelIsUp ==
  /\ channel.pc # "idle" => session.pc = "up"
  /\ session.pc \in {"attach", "up"} => comp.enabled /\ session.goal = "attach"
  /\ channel.pc \in {"command", "paused", "detach", "sync"} => channel.command \in Commands

\* The ui thread: a window that has gone stays away until the callback has returned.
UiPhases ==
  /\ ui.gone => target.window = 0
  /\ ui.pc \in {"start", "owner"} => ui.gone

\* An output is paused while there is no window, or the ui thread is about to tell.
PausedIsActive == comp.state = "targetPaused" => comp.active
PausedUntilTold ==
  comp.state = "targetPaused" => target.window = 0 \/ ui.pc \in {"prewarm", "target"}

\* Between the claim of the output and the takeover's end nobody else is active.
Claiming == channel.pc \in {"stop", "release"}
ClaimIsExclusive == Claiming => ~comp.active /\ (owner = "avc420" \/ hist.stolen)

\* Owner and activity, but for what is excused.
OwnerIsActive == owner # "avc444" /\ (owner = "avc420" => comp.active \/ Claiming)
ActiveIsOwner ==
  session.pc \in {"attach", "up"} /\ comp.active =>
    owner = "avc420" \/ hist.revived \/ hist.stolen
OwnerHasTheWindow == owner = "avc420" /\ comp.active => ~gdi.bound

\* When GDI owns the output its pipeline runs, or somebody is yet to start it.
Restarts(w) == workers[w].pc \in {"clear", "start"}
Due ==
  \/ gdi.running
  \/ channel.pc \in {"start", "resize"} \/ ui.pc = "start"
  \/ \E w \in WorkerIds : Restarts(w)
StartIsDue == session.pc = "up" /\ owner = "gdi" => Due \/ hist.stolen

\* The size recorded for the background is that of a composite painted everywhere.
BackgroundIsWhole ==
  (comp.active \/ Claiming) /\ comp.seed # 0 /\ ~hist.mistaken => Whole(gpu, comp.seed)
NoHoles == gpu.picture = "holes" \/ shown = "holes" => hist.mistaken

\* An output that is not active shows nothing, and nothing waits to be shown.
InactiveIsDark == ~comp.active => shown = "no" /\ (~Claiming => gpu.pending = 0)

\* The inductive invariant.
Control == ChannelIsUp /\ UiPhases /\ ActiveIsOn /\ PausedIsActive /\ PausedUntilTold
Ownership ==
  ClaimIsExclusive /\ OwnerIsActive /\ ActiveIsOwner /\ OwnerHasTheWindow /\ StartIsDue
Painting == BackgroundIsWhole /\ NoHoles /\ InactiveIsDark
IInv == Types /\ TasksAreGood /\ Control /\ Ownership /\ Painting
-----------------------------------------------------------------------------
(* What the steps of the queue do.                                         *)

\* What is left of a sequence was in it, and is no longer than it.
LEMMA KeptElements ==
  ASSUME NEW T, NEW q \in Seq(T), NEW S \in SUBSET (DOMAIN q)
  PROVE  /\ ElementsAt(q, S) \in Seq(T) /\ Len(ElementsAt(q, S)) <= Len(q)
         /\ \A n \in DOMAIN ElementsAt(q, S) : \E i \in DOMAIN q : ElementsAt(q, S)[n] = q[i]
<1> DEFINE Rank(i) == Cardinality({j \in S : j <= i})
           Place(n) == CHOOSE i \in S : \A j \in S : Rank(j) = n => Rank(i) = n
<1>1. S \in SUBSET (1 .. Len(q)) /\ Len(q) \in Nat
  OBVIOUS
<1>2. Cardinality(S) \in Nat /\ Cardinality(S) <= Len(q) /\ (S = {} => Cardinality(S) = 0)
  <2>1. \A N \in Nat : IsFiniteSet(1 .. N) /\ Cardinality(1 .. N) = N
    BY FS_Interval
  <2>2. IsFiniteSet(1 .. Len(q)) /\ Cardinality(1 .. Len(q)) = Len(q)
    BY <1>1, <2>1
  <2>3. QED
    BY <1>1, <2>2, FS_Subset, FS_CardinalityType, FS_EmptySet
<1>3. ElementsAt(q, S) = [n \in 1 .. Cardinality(S) |-> q[Place(n)]]
  BY DEF ElementsAt
<1> HIDE DEF Rank
<1>4. ASSUME NEW n \in 1 .. Cardinality(S)
      PROVE  Place(n) \in DOMAIN q /\ q[Place(n)] \in T
  <2>1. S # {}
    BY <1>2
  <2>2. \E i \in S : \A j \in S : Rank(j) = n => Rank(i) = n
    BY <2>1
  <2>3. Place(n) \in S
    BY <2>2
  <2>4. QED
    BY <1>1, <2>3
<1> HIDE DEF Place
<1>5. QED
  BY <1>2, <1>3, <1>4

\* The queue grows by no more than this task.
Grows(task) ==
  /\ queue' \in Seq(Tasks) /\ Len(queue') <= MaxTasks
  /\ \A i \in DOMAIN queue' : queue'[i] = task \/ \E j \in DOMAIN queue : queue'[i] = queue[j]

\* No thread but one that begins does anything.
OthersWait ==
  /\ running' \in BOOLEAN /\ handle' \in WorkerIds \cup {0} /\ workers' \in Threads
  /\ \A w \in WorkerIds : /\ workers'[w].task = workers[w].task
                          /\ Holds(w)' => Holds(w)
                          /\ Restarts(w) => Restarts(w)'

LEMMA EnsureWorkerFacts ==
  ASSUME Types, EnsureWorkerLocked
  PROVE  OthersWait
<1>1. CASE running
  BY <1>1 DEF Types, EnsureWorkerLocked, OthersWait, Holds, Restarts
<1>2. CASE ~running
  <2>1. PICK w \in WorkerIds :
          /\ workers[w].pc = "none" /\ handle' = w
          /\ workers' = [workers EXCEPT ![w].pc = "waiting"]
    BY <1>2 DEF EnsureWorkerLocked
  <2>2. running' = TRUE
    BY <1>2 DEF EnsureWorkerLocked
  <2>3. workers' \in Threads
    BY <2>1 DEF Types, Threads
  <2>4. \A v \in WorkerIds : /\ workers'[v].task = workers[v].task
                             /\ Holds(v)' => Holds(v)
                             /\ Restarts(v) => Restarts(v)'
    BY <2>1 DEF Types, Threads, Holds, Restarts
  <2>5. QED
    BY <2>1, <2>2, <2>3, <2>4 DEF OthersWait
<1>3. QED
  BY <1>1, <1>2 DEF Types

LEMMA ThreadsStay ==
  ASSUME Types, UNCHANGED threadVars
  PROVE  OthersWait /\ \A task : Grows(task)
  BY DEF Types, threadVars, OthersWait, Grows, Holds, Restarts

LEMMA BacklogFacts ==
  ASSUME Types
  PROVE  /\ Backlog \in Seq(Tasks) /\ Len(Backlog) <= Len(queue)
         /\ \A n \in DOMAIN Backlog : \E i \in DOMAIN queue : Backlog[n] = queue[i]
<1>1. queue \in Seq(Tasks)
  BY DEF Types
<1>2. PICK S \in SUBSET (DOMAIN queue) : CompactWorkerBacklog(queue) = ElementsAt(queue, S)
  BY DEF CompactWorkerBacklog
<1>3. Backlog = ElementsAt(queue, S) \/ Backlog = queue
  BY <1>2 DEF Backlog
<1>4. QED
  BY <1>1, <1>3, KeptElements

LEMMA EnqueueFacts ==
  ASSUME Types, NEW task \in Tasks, Enqueue(task)
  PROVE  OthersWait /\ Grows(task)
<1> DEFINE kept == Backlog
<1>1. /\ kept \in Seq(Tasks)
      /\ \A n \in DOMAIN kept : \E i \in DOMAIN queue : kept[n] = queue[i]
  BY BacklogFacts
<1>2. queue' = Append(kept, task) /\ Len(kept) < MaxTasks
  BY DEF Enqueue
<1> HIDE DEF kept
<1>3. /\ queue' \in Seq(Tasks) /\ Len(queue') = Len(kept) + 1 /\ queue'[Len(queue')] = task
      /\ \A i \in 1 .. Len(kept) : queue'[i] = kept[i]
      /\ DOMAIN kept = 1 .. Len(kept) /\ Len(kept) \in Nat
  BY <1>1, <1>2
<1>4. Grows(task)
  BY <1>1, <1>2, <1>3 DEF Grows
<1>5. QED
  BY <1>4, EnsureWorkerFacts DEF Enqueue

LEMMA CannotEnqueueFacts ==
  ASSUME Types, CannotEnqueue
  PROVE  OthersWait /\ \A task : Grows(task)
<1>1. CASE EnsureWorkerLocked /\ queue' = Backlog
  <2>1. Len(queue) \in Nat /\ Len(Backlog) \in Nat
    BY BacklogFacts DEF Types
  <2>2. \A task : Grows(task)
    BY <1>1, <2>1, BacklogFacts DEF Grows, Types
  <2>3. QED
    BY <1>1, <2>2, EnsureWorkerFacts
<1>2. CASE UNCHANGED threadVars
  BY <1>2, ThreadsStay
<1>3. QED
  BY <1>1, <1>2 DEF CannotEnqueue

LEMMA PrewarmIsGood == PrewarmTask \in Tasks /\ GoodTask(PrewarmTask)
  BY DEF PrewarmTask, Tasks, NoCommand, GoodTask

LEMMA EnqueuePrewarmFacts ==
  ASSUME Types, EnqueuePrewarm
  PROVE  OthersWait /\ Grows(PrewarmTask)
<1>1. OthersWait
  BY EnsureWorkerFacts DEF EnqueuePrewarm
<1>2. queue \in Seq(Tasks) /\ PrewarmTask \in Tasks
  BY PrewarmIsGood DEF Types
<1>3. CASE Len(queue) < MaxTasks
  <2>1. queue' = Append(queue, PrewarmTask)
    BY <1>3 DEF EnqueuePrewarm
  <2>2. /\ queue' \in Seq(Tasks) /\ Len(queue') = Len(queue) + 1
        /\ queue'[Len(queue')] = PrewarmTask
        /\ \A i \in 1 .. Len(queue) : queue'[i] = queue[i]
        /\ DOMAIN queue = 1 .. Len(queue) /\ Len(queue) \in Nat
    BY <1>2, <2>1
  <2>3. QED
    BY <1>1, <1>3, <2>2 DEF Grows
<1>4. CASE ~(Len(queue) < MaxTasks)
  BY <1>1, <1>4 DEF EnqueuePrewarm, Grows, Types
<1>5. QED
  BY <1>3, <1>4

LEMMA WorkerTakesFacts ==
  ASSUME Types, NEW w \in WorkerIds, WorkerTakes(w)
  PROVE  /\ queue' \in Seq(Tasks) /\ Len(queue') <= MaxTasks /\ 1 \in DOMAIN queue
         /\ \A i \in DOMAIN queue' : i + 1 \in DOMAIN queue /\ queue'[i] = queue[i + 1]
         /\ workers' \in Threads /\ workers'[w].task = queue[1] /\ Holds(w)'
         /\ \A v \in WorkerIds \ {w} : workers'[v] = workers[v]
         /\ \A v \in WorkerIds : Restarts(v)' = Restarts(v)
<1>1. queue \in Seq(Tasks) /\ queue # <<>> /\ queue' = Tail(queue) /\ workers \in Threads
  BY DEF Types, WorkerTakes
<1>2. Head(queue) = queue[1] /\ queue[1] \in Tasks /\ Len(queue) \in Nat \ {0}
  BY <1>1
<1>3. workers' = [workers EXCEPT ![w] = [pc |-> "holds", task |-> queue[1]]]
  BY <1>2 DEF WorkerTakes
<1>4. /\ queue' \in Seq(Tasks) /\ Len(queue') = Len(queue) - 1
      /\ DOMAIN queue = 1 .. Len(queue) /\ DOMAIN queue' = 1 .. Len(queue) - 1
      /\ \A i \in 1 .. Len(queue) - 1 : queue'[i] = queue[i + 1]
  BY <1>1, <1>2
<1>5. /\ workers' \in Threads /\ Holds(w)' /\ workers'[w].task = queue[1]
      /\ \A v \in WorkerIds \ {w} : workers'[v] = workers[v]
      /\ ~Restarts(w)'
  BY <1>1, <1>2, <1>3 DEF Threads, Holds, Restarts
<1>6. ~Restarts(w)
  BY DEF WorkerTakes, Restarts
<1>7. \A v \in WorkerIds : Restarts(v)' = Restarts(v)
  BY <1>5, <1>6 DEF Restarts
<1>8. Len(queue) <= MaxTasks
  BY DEF Types
<1>9. QED
  BY <1>2, <1>4, <1>5, <1>7, <1>8
-----------------------------------------------------------------------------
(* What the steps of the compositor do.                                    *)

\* The window gets the picture, or stays as it is.
PictureKept ==
  /\ Keeps(Windows, gpu, gpu')
  /\ shown' \in {"no", "holes", "whole"} /\ shown' \in {shown, gpu.picture}

LEMMA PresentedHere ==
  ASSUME Types, NEW t, Presented(Windows, gpu, t), gpu' = t.gpu, ShownNow(t.shown)
  PROVE  PictureKept /\ (t.shown = "no" => shown' = shown)
  BY DEF Types, Presented, PictureKept, ShownNow

LEMMA RetargetPresents ==
  ASSUME Types, NEW window \in Windows, NEW active \in BOOLEAN,
         \E t \in OnSurfaceTargetChanged(gpu, window, active) : gpu' = t.gpu /\ ShownNow(t.shown)
  PROVE  PictureKept /\ (~active => shown' = shown)
<1>1. PICK t \in OnSurfaceTargetChanged(gpu, window, active) : gpu' = t.gpu /\ ShownNow(t.shown)
  OBVIOUS
<1>2. Presented(Windows, gpu, t) /\ (~active => t.shown = "no")
  BY NoWindow, TargetPresented DEF Types
<1>3. QED
  BY <1>1, <1>2, PresentedHere

LEMMA NothingPresented ==
  ASSUME Types, UNCHANGED <<gpu, shown>>
  PROVE  PictureKept
  BY DEF Types, PictureKept, Keeps, SamePicture

LEMMA PauseFacts ==
  ASSUME Types, PauseOutput
  PROVE  /\ PictureKept /\ (~comp.active => shown' = shown)
         /\ comp' = IF comp.active THEN [comp EXCEPT !.state = "targetPaused"] ELSE comp
<1>1. CASE comp.active
  <2>1. /\ comp' = [comp EXCEPT !.state = "targetPaused"]
        /\ \E t \in OnSurfaceTargetChanged(gpu, target.window, TRUE) :
             gpu' = t.gpu /\ ShownNow(t.shown)
    BY <1>1 DEF PauseOutput
  <2>2. target.window \in Windows
    BY DEF Types
  <2>3. QED
    BY <1>1, <2>1, <2>2, RetargetPresents
<1>2. CASE ~comp.active
  BY <1>2, NothingPresented DEF PauseOutput
<1>3. QED
  BY <1>1, <1>2

LEMMA RetargetFacts ==
  ASSUME Types, RetargetOutput
  PROVE  /\ PictureKept /\ (~comp.active => shown' = shown)
         /\ comp' = [comp EXCEPT !.state = IF ~comp.active THEN @
                                           ELSE IF target.window = 0 THEN "targetPaused"
                                           ELSE "active"]
<1>1. comp \in Comps /\ target.window \in Windows /\ comp.active \in BOOLEAN
  BY DEF Types, Comps
<1>2. CASE comp.active /\ target.window = 0
  BY <1>2, PauseFacts DEF RetargetOutput
<1>3. CASE ~(comp.active /\ target.window = 0)
  <2>1. /\ \E t \in OnSurfaceTargetChanged(gpu, target.window, comp.active) :
             gpu' = t.gpu /\ ShownNow(t.shown)
        /\ comp' = [comp EXCEPT !.state = IF comp.active THEN "active" ELSE @]
    BY <1>3 DEF RetargetOutput
  <2>2. PictureKept /\ (~comp.active => shown' = shown)
    BY <1>1, <2>1, RetargetPresents
  <2>3. QED
    BY <1>3, <2>1, <2>2
<1>4. QED
  BY <1>2, <1>3

LEMMA DestroyFacts ==
  ASSUME gpu' = Destroy
  PROVE  gpu' \in Gpu(Windows) /\ gpu'.picture = "none" /\ gpu'.pending = 0
  BY NoWindow, Destroyed

\* What a task does: it is dropped, or processed according to its type.
LEMMA ProcessWorkerTaskFacts ==
  ASSUME Types, TasksAreGood, NEW w \in WorkerIds, ProcessWorkerTask(w)
  PROVE  /\ Holds(w) /\ ~Claiming /\ workers[w].task \in Tasks /\ GoodTask(workers[w].task)
         /\ UNCHANGED <<gdi, target, queue, running, handle, channel, ui, session>>
         /\ \/ /\ workers' = [workers EXCEPT ![w] = [pc |-> "waiting", task |-> NoTask]]
               /\ UNCHANGED <<owner, comp, gpu, shown, hist>>
            \/ comp.enabled /\ ProcessPrewarm(w)
            \/ comp.enabled /\ workers[w].task.type = "command" /\ ProcessQueuedCommand(w)
            \/ comp.enabled /\ ProcessQueuedEndFrame(w)
<1>1. /\ Holds(w) /\ ~Claiming /\ workers[w].task \in Tasks /\ GoodTask(workers[w].task)
      /\ UNCHANGED <<gdi, target, queue, running, handle, channel, ui, session>>
  BY DEF ProcessWorkerTask, Holds, Unlocked, Claiming, Types, Threads, TasksAreGood
<1>2. workers[w].task.type \in {"prewarm", "command", "endFrame"}
  BY <1>1 DEF GoodTask, Tasks
<1>3. CASE ~comp.enabled
  BY <1>1, <1>3 DEF ProcessWorkerTask
<1>4. CASE comp.enabled /\ workers[w].task.type = "prewarm"
  BY <1>1, <1>4 DEF ProcessWorkerTask
<1>5. CASE comp.enabled /\ workers[w].task.type = "command"
  BY <1>1, <1>5 DEF ProcessWorkerTask
<1>6. CASE comp.enabled /\ workers[w].task.type = "endFrame"
  BY <1>1, <1>6 DEF ProcessWorkerTask
<1>7. QED
  BY <1>2, <1>3, <1>4, <1>5, <1>6

LEMMA ProcessPrewarmFacts ==
  ASSUME Types, NEW w \in WorkerIds, ProcessPrewarm(w)
  PROVE  /\ PictureKept /\ UNCHANGED <<owner, shown, hist>>
         /\ comp' = [comp EXCEPT !.state = IF comp.active THEN @ ELSE "detached"]
         /\ workers' = [workers EXCEPT ![w] = [pc |-> "waiting", task |-> NoTask]]
<1>1. \A size \in Sizes : \A h \in Prewarm(gpu, size) : Keeps(Windows, gpu, h)
  BY NoWindow, PrewarmKeeps DEF Types
<1>2. Keeps(Windows, gpu, gpu') /\ UNCHANGED <<owner, shown, hist>>
  BY <1>1 DEF ProcessPrewarm
<1>3. PictureKept
  BY <1>2 DEF PictureKept, Types
<1>4. QED
  BY <1>2, <1>3 DEF ProcessPrewarm

\* An output that is made active without a claim.
LEMMA ActiveHist ==
  ASSUME Types
  PROVE  /\ HistWhenActive \in Hists
         /\ HistWhenActive.stolen = hist.stolen
         /\ HistWhenActive.revived <=> hist.revived \/ ~comp.active
         /\ HistWhenActive.mistaken <=> hist.mistaken \/ (~comp.active /\ comp.seed # 0)
<1>1. hist \in Hists /\ comp \in Comps
  BY DEF Types
<1>2. QED
  BY <1>1 DEF HistWhenActive, Hists, Comps

LEMMA ProcessQueuedEndFrameFacts ==
  ASSUME Types, NEW w \in WorkerIds, ProcessQueuedEndFrame(w)
  PROVE  /\ PictureKept /\ UNCHANGED owner
         /\ comp' = [comp EXCEPT !.active = TRUE,
                                 !.state = IF (target.window = 0 /\ comp.active)
                                              \/ @ = "targetPaused"
                                           THEN "targetPaused" ELSE "active"]
         /\ hist' = HistWhenActive
         /\ workers' = [workers EXCEPT ![w] = [pc |-> "waiting", task |-> NoTask]]
<1> DEFINE task == workers[w].task
           paused == target.window = 0 /\ comp.active
           Presenting == PresentEndFrame(gpu, task.frame, task.matched, target.window, TRUE)
           Pausing == OnSurfaceTargetChanged(gpu, 0, TRUE)
<1>1. /\ gpu \in Gpu(Windows) /\ target.window \in Windows /\ 0 \in Windows
      /\ comp \in Comps
  BY NoWindow DEF Types
<1>2. /\ \E p \in IF paused THEN Pausing ELSE IF target.window = 0 THEN {Shown(gpu, "no")}
                  ELSE Presenting :
           gpu' = p.gpu /\ ShownNow(p.shown)
      /\ comp' = [Reactivated EXCEPT !.state = IF paused THEN "targetPaused" ELSE @]
      /\ hist' = HistWhenActive
      /\ workers' = [workers EXCEPT ![w] = [pc |-> "waiting", task |-> NoTask]]
      /\ UNCHANGED owner
  BY DEF ProcessQueuedEndFrame
<1>3. \A p \in Presenting : Presented(Windows, gpu, p)
  BY <1>1, EndFramePresented
<1>4. \A p \in Pausing : Presented(Windows, gpu, p)
  BY <1>1, TargetPresented
<1>5. Presented(Windows, gpu, Shown(gpu, "no"))
  BY <1>1, NotShown DEF Keeps, SamePicture
<1> HIDE DEF Presenting, Pausing
<1>6. PictureKept
  BY <1>2, <1>3, <1>4, <1>5, PresentedHere
<1>7. comp' = [comp EXCEPT !.active = TRUE,
                           !.state = IF paused \/ @ = "targetPaused"
                                     THEN "targetPaused" ELSE "active"]
  BY <1>1, <1>2 DEF Reactivated, Comps
<1>8. QED
  BY <1>2, <1>6, <1>7

\* The lemma about a command, for the windows there are.
LEMMA CommandHere ==
  \A g \in Gpu(Windows), c \in Commands, frame \in Frames, active \in BOOLEAN :
    \A o \in ProcessCommand(g, c, frame, active) :
      /\ Processed(Windows, g, c, active, o) /\ o.answer # "go"
      /\ o.answer # "handled" => o.gpu.pending \in {g.pending, 0}
      /\ c.full /\ o.answer = "handled" /\ (~active \/ o.gpu.pending # 0)
           => Whole(o.gpu, c.size)
  BY NoWindow, CommandProcessed

\* A command that is not released leaves the output active.
LEMMA ProcessQueuedCommandFacts ==
  ASSUME Types, NEW w \in WorkerIds, GoodTask(workers[w].task),
         workers[w].task.type = "command", ProcessQueuedCommand(w)
  PROVE  LET c == workers[w].task.command
         IN  \/ /\ gpu' = Destroy /\ shown' = "no" /\ owner' = "gdi"
                /\ comp' = [comp EXCEPT !.active = FALSE, !.state = "failed"]
                /\ workers' = [workers EXCEPT ![w] = [pc |-> "clear", task |-> NoTask]]
                /\ UNCHANGED hist
             \/ /\ c.full \in BOOLEAN /\ c.size \in Sizes /\ gpu' \in Gpu(Windows)
                /\ Whole(gpu, c.size) => Whole(gpu', c.size)
                /\ c.full /\ gpu'.pending # 0 => Whole(gpu', c.size)
                /\ (c.full \/ Whole(gpu, c.size)) /\ gpu'.picture = "holes"
                     => gpu.picture = "holes"
                /\ comp' = [Reactivated EXCEPT !.seed = IF c.full THEN c.size ELSE @]
                /\ hist' = [hist EXCEPT !.revived = @ \/ ~comp.active,
                                        !.mistaken = @ \/ IF c.full THEN gpu'.pending = 0
                                            ELSE ~comp.active \/ c.size # comp.seed]
                /\ workers' = [workers EXCEPT ![w] = [pc |-> "waiting", task |-> NoTask]]
                /\ UNCHANGED <<owner, shown>>
<1> DEFINE task == workers[w].task
           c == task.command
<1>1. PICK o \in ProcessCommand(gpu, c, task.frame, TRUE) :
        IF o.answer = "released"
        THEN /\ gpu' = Destroy /\ shown' = "no"
             /\ TransitionRenderOutputOwner("gdi")
             /\ comp' = [comp EXCEPT !.active = FALSE, !.state = "failed"]
             /\ workers' = [workers EXCEPT ![w] = [pc |-> "clear", task |-> NoTask]]
             /\ UNCHANGED hist
        ELSE /\ gpu' = o.gpu
             /\ comp' = [Reactivated EXCEPT !.seed = IF c.full THEN c.size ELSE @]
             /\ hist' = [hist EXCEPT !.revived = @ \/ ~comp.active,
                                     !.mistaken = @ \/ IF c.full THEN o.gpu.pending = 0
                                         ELSE ~comp.active \/ c.size # comp.seed]
             /\ workers' = [workers EXCEPT ![w] = [pc |-> "waiting", task |-> NoTask]]
             /\ UNCHANGED <<owner, shown>>
  BY DEF ProcessQueuedCommand
<1>2. c \in Commands /\ task.frame \in Frames /\ gpu \in Gpu(Windows)
  BY DEF GoodTask, Types
<1>3. c.full \in BOOLEAN /\ c.size \in Sizes
  BY <1>2 DEF Commands
<1> HIDE DEF c
<1>4. /\ Processed(Windows, gpu, c, TRUE, o) /\ o.answer # "go"
      /\ c.full /\ o.answer = "handled" /\ o.gpu.pending # 0 => Whole(o.gpu, c.size)
  BY <1>2, CommandHere
<1>5. CASE o.answer = "released"
  BY <1>1, <1>5 DEF TransitionRenderOutputOwner
<1>6. CASE o.answer # "released"
  <2>1. /\ o.answer = "handled" /\ o.gpu \in Gpu(Windows)
        /\ Whole(gpu, c.size) => Whole(o.gpu, c.size)
        /\ (c.full \/ Whole(gpu, c.size)) /\ o.gpu.picture = "holes" => gpu.picture = "holes"
    BY <1>4, <1>6 DEF Processed
  <2>2. gpu' = o.gpu
    BY <1>1, <1>6
  <2>3. /\ comp' = [Reactivated EXCEPT !.seed = IF c.full THEN c.size ELSE @]
        /\ hist' = [hist EXCEPT !.revived = @ \/ ~comp.active,
                                !.mistaken = @ \/ IF c.full THEN gpu'.pending = 0
                                    ELSE ~comp.active \/ c.size # comp.seed]
        /\ workers' = [workers EXCEPT ![w] = [pc |-> "waiting", task |-> NoTask]]
        /\ UNCHANGED <<owner, shown>>
    BY <1>1, <1>6, <2>2
  <2>4. QED
    BY <1>3, <1>4, <2>1, <2>2, <2>3 DEF c
<1>7. QED
  BY <1>5, <1>6

\* The steps of the channel that process what could not be queued.
LEMMA ProcessWhileActiveFacts ==
  ASSUME Types, ChannelIsUp, ProcessWhileActive
  PROVE  /\ channel.pc = "sync" /\ comp.active /\ gpu' \in Gpu(Windows)
         /\ comp' = [comp EXCEPT !.state = "active"] /\ channel' = Returned
         /\ UNCHANGED <<outputVars, threadVars, shown, ui, session>>
         /\ \E m \in BOOLEAN :
              /\ hist' = [hist EXCEPT !.mistaken = m] /\ (hist.mistaken => m)
              /\ ~m => comp.seed \in Sizes
              /\ ~m /\ Whole(gpu, comp.seed) =>
                   /\ Whole(gpu', comp.seed)
                   /\ gpu'.picture = "holes" => gpu.picture = "holes"
<1> DEFINE c == channel.command
           M(o) == \/ hist.mistaken \/ o.answer = "released" \/ c.full
                   \/ c.size # comp.seed
<1>1. /\ channel.pc = "sync" /\ comp.active
      /\ comp' = [comp EXCEPT !.state = "active"] /\ channel' = Returned
      /\ UNCHANGED <<outputVars, threadVars, shown, ui, session>>
  BY DEF ProcessWhileActive
<1>2. PICK o \in ProcessCommand(gpu, c, channel.frame, TRUE) :
        gpu' = o.gpu /\ hist' = [hist EXCEPT !.mistaken = M(o)]
  BY DEF ProcessWhileActive
<1>3. c \in Commands /\ channel.frame \in Frames /\ gpu \in Gpu(Windows)
  BY <1>1 DEF ChannelIsUp, Types, Channels
<1> HIDE DEF c
<1>4. Processed(Windows, gpu, c, TRUE, o) /\ o.answer # "go"
  BY <1>3, CommandHere
<1>5. o.gpu \in Gpu(Windows)
  BY <1>4 DEF Processed
<1>6. ASSUME ~M(o), Whole(gpu, comp.seed)
      PROVE  /\ Whole(o.gpu, comp.seed)
             /\ o.gpu.picture = "holes" => gpu.picture = "holes"
  <2>1. o.answer = "handled" /\ Whole(gpu, c.size) /\ c.size = comp.seed
    BY <1>4, <1>6 DEF Processed
  <2>2. QED
    BY <1>4, <2>1 DEF Processed
<1>7. (hist.mistaken => M(o)) /\ M(o) \in BOOLEAN /\ (~M(o) => comp.seed \in Sizes)
  BY <1>3 DEF Commands
<1> HIDE DEF M
<1>8. \E m \in BOOLEAN :
        /\ hist' = [hist EXCEPT !.mistaken = m] /\ (hist.mistaken => m)
        /\ ~m => comp.seed \in Sizes
        /\ ~m /\ Whole(gpu, comp.seed) =>
             /\ Whole(o.gpu, comp.seed)
             /\ o.gpu.picture = "holes" => gpu.picture = "holes"
  BY <1>2, <1>6, <1>7
<1>9. QED
  BY <1>1, <1>2, <1>5, <1>8

LEMMA GdiFrameHere ==
  \A g \in Gpu(Windows), size \in Sizes, full \in BOOLEAN :
    \A b \in ProcessGdiFrame(g, size, full) :
      /\ b.ok \in BOOLEAN /\ b.gpu \in Gpu(Windows) /\ b.gpu.pending = g.pending
      /\ Whole(g, size) => Whole(b.gpu, size)
      /\ full /\ b.ok => Whole(b.gpu, size)
      /\ (full \/ Whole(g, size)) /\ b.gpu.picture = "holes" => g.picture = "holes"
  BY NoWindow, GdiFrameProcessed

\* A background that was seeded covers everything.
LEMMA SeedFacts ==
  ASSUME Types, NEW c \in Commands
  PROVE  \A s \in SeedBackground(c) :
           /\ s.gpu \in Gpu(Windows) /\ s.gpu.pending = gpu.pending /\ s.ok \in BOOLEAN
           /\ s.gpu.picture = "holes" => gpu.picture = "holes"
           /\ s.ok => c.full \/ Whole(s.gpu, c.size)
<1>1. c.full \in BOOLEAN /\ c.size \in Sizes /\ gpu \in Gpu(Windows)
  BY DEF Commands, Types
<1> DEFINE size == c.size
           seeds == ProcessGdiFrame(gpu, size, TRUE)
<1>2. size \in Sizes
  BY <1>1
<1>3. SeedBackground(c) =
        IF c.full THEN {Result(gpu, TRUE)} ELSE {Result(gpu, FALSE)} \cup seeds
  BY DEF SeedBackground
<1> HIDE DEF size
<1>4. ASSUME NEW b \in seeds
      PROVE  /\ b.ok \in BOOLEAN /\ b.gpu \in Gpu(Windows) /\ b.gpu.pending = gpu.pending
             /\ b.ok => Whole(b.gpu, size)
             /\ b.gpu.picture = "holes" => gpu.picture = "holes"
  <2>1. gpu \in Gpu(Windows) /\ TRUE \in BOOLEAN
    BY <1>1
  <2>2. b \in ProcessGdiFrame(gpu, size, TRUE)
    BY <1>4
  <2>3. \A full \in BOOLEAN : b \in ProcessGdiFrame(gpu, size, full) =>
      /\ b.ok \in BOOLEAN /\ b.gpu \in Gpu(Windows) /\ b.gpu.pending = gpu.pending
      /\ full /\ b.ok => Whole(b.gpu, size)
      /\ full /\ b.gpu.picture = "holes" => gpu.picture = "holes"
    BY <1>2, <2>1, GdiFrameHere
  <2>4. QED
    BY <2>1, <2>2, <2>3
<1> HIDE DEF seeds
<1>5. /\ Result(gpu, TRUE).gpu = gpu /\ Result(gpu, TRUE).ok = TRUE
      /\ Result(gpu, FALSE).gpu = gpu /\ Result(gpu, FALSE).ok = FALSE
  BY DEF Result
<1>6. QED
  BY <1>1, <1>3, <1>4, <1>5 DEF size

LEMMA WaitForSeedFacts ==
  ASSUME Types, ChannelIsUp, WaitForSeed
  PROVE  /\ channel.pc = "sync" /\ ~comp.active /\ channel' = Returned
         /\ gpu' \in Gpu(Windows) /\ gpu'.pending = gpu.pending
         /\ gpu'.picture = "holes" => gpu.picture = "holes"
         /\ UNCHANGED <<outputVars, comp, threadVars, shown, ui, session, hist>>
<1>1. channel.pc = "sync" /\ channel.command \in Commands
  BY DEF WaitForSeed, ChannelIsUp
<1>2. QED
  BY <1>1, SeedFacts DEF WaitForSeed

LEMMA ProcessAndClaimFacts ==
  ASSUME Types, ChannelIsUp, ProcessAndClaim
  PROVE  LET c == channel.command
         IN  /\ channel.pc = "sync" /\ ~comp.active /\ c.size \in Sizes
             /\ gpu' \in Gpu(Windows) /\ comp' = [comp EXCEPT !.seed = c.size]
             /\ UNCHANGED <<gdi, target, threadVars, shown, ui, session>>
             /\ \/ /\ Whole(gpu', c.size) /\ owner' = "avc420" /\ hist' = NoHist
                   /\ channel' = [channel EXCEPT
                                    !.pc = IF owner = "avc420" THEN "release" ELSE "stop"]
                \/ /\ gpu'.pending \in {gpu.pending, 0}
                   /\ gpu'.picture = "holes" => gpu.picture = "holes"
                   /\ channel' = Returned /\ UNCHANGED <<owner, hist>>
<1> DEFINE c == channel.command
<1>1. /\ channel.pc = "sync" /\ ~comp.active /\ comp' = [comp EXCEPT !.seed = c.size]
      /\ UNCHANGED <<gdi, target, threadVars, shown, ui, session>>
  BY DEF ProcessAndClaim
<1>2. c \in Commands /\ channel.frame \in Frames
  BY <1>1 DEF ChannelIsUp, Types, Channels
<1>3. PICK s \in SeedBackground(c) :
        /\ s.ok
        /\ \E o \in ProcessCommand(s.gpu, c, channel.frame, FALSE) :
             /\ gpu' = o.gpu
             /\ IF o.answer = "handled"
                THEN /\ TransitionRenderOutputOwner("avc420")
                     /\ hist' = NoHist
                     /\ channel' = [channel EXCEPT
                                      !.pc = IF owner = "avc420" THEN "release" ELSE "stop"]
                ELSE channel' = Returned /\ UNCHANGED <<owner, hist>>
  BY DEF ProcessAndClaim
<1>4. c.size \in Sizes /\ c.full \in BOOLEAN
  BY <1>2 DEF Commands
<1> HIDE DEF c
<1>5. /\ s.gpu \in Gpu(Windows) /\ s.gpu.pending = gpu.pending
      /\ s.gpu.picture = "holes" => gpu.picture = "holes"
      /\ c.full \/ Whole(s.gpu, c.size)
  BY <1>2, <1>3, SeedFacts
<1>6. PICK o \in ProcessCommand(s.gpu, c, channel.frame, FALSE) :
             /\ gpu' = o.gpu
             /\ IF o.answer = "handled"
                THEN /\ TransitionRenderOutputOwner("avc420")
                     /\ hist' = NoHist
                     /\ channel' = [channel EXCEPT
                                      !.pc = IF owner = "avc420" THEN "release" ELSE "stop"]
                ELSE channel' = Returned /\ UNCHANGED <<owner, hist>>
  BY <1>3
<1>7. /\ Processed(Windows, s.gpu, c, FALSE, o)
      /\ o.answer # "handled" => o.gpu.pending \in {s.gpu.pending, 0}
      /\ c.full /\ o.answer = "handled" => Whole(o.gpu, c.size)
  BY <1>2, <1>5, CommandHere
<1>8. /\ o.gpu \in Gpu(Windows)
      /\ o.gpu.picture = "holes" => gpu.picture = "holes"
      /\ o.answer = "handled" => Whole(o.gpu, c.size)
  BY <1>5, <1>7 DEF Processed
<1>9. CASE o.answer = "handled"
  BY <1>1, <1>4, <1>6, <1>8, <1>9 DEF TransitionRenderOutputOwner, c
<1>10. CASE o.answer # "handled"
  BY <1>1, <1>4, <1>5, <1>6, <1>7, <1>8, <1>10 DEF c
<1>11. QED
  BY <1>9, <1>10

LEMMA ProcessEndFrameFacts ==
  ASSUME Types, ProcessEndFrame
  PROVE  /\ channel.pc = "syncEnd" /\ PictureKept /\ EndOfFrame
         /\ ~comp.active /\ gpu.pending = 0 => shown' = shown
         /\ UNCHANGED <<outputVars, comp, threadVars, ui, session, hist>>
<1>1. PICK p \in PresentEndFrame(gpu, channel.frame, channel.matched, target.window,
                                 comp.active) :
        gpu' = p.gpu /\ ShownNow(p.shown)
  BY DEF ProcessEndFrame
<1>2. gpu \in Gpu(Windows) /\ target.window \in Windows
  BY DEF Types
<1>3. Presented(Windows, gpu, p) /\ (~comp.active /\ gpu.pending = 0 => p.shown = "no")
  BY <1>1, <1>2, NoWindow, EndFramePresented
<1>4. PictureKept /\ (p.shown = "no" => shown' = shown)
  BY <1>1, <1>3, PresentedHere
<1>5. QED
  BY <1>3, <1>4 DEF ProcessEndFrame

LEMMA OnGdiFrameFacts ==
  ASSUME Types, OnGdiFrame
  PROVE  /\ ChannelIdle /\ MoreEvents /\ owner = "avc420" /\ comp.active /\ channel' = Event
         /\ UNCHANGED <<outputVars, threadVars, ui, session>>
         /\ \/ comp' = [comp EXCEPT !.seed = 0] /\ UNCHANGED <<gpu, shown, hist>>
            \/ \E size \in Sizes, full \in BOOLEAN :
                 /\ comp.seed = size \/ full
                 /\ gpu' \in Gpu(Windows) /\ (Whole(gpu, size) => Whole(gpu', size))
                 /\ (full \/ Whole(gpu, size)) /\ gpu'.picture = "holes" => gpu.picture = "holes"
                 /\ shown' \in {"no", "holes", "whole"} /\ shown' \in {shown, gpu'.picture}
                 /\ \/ /\ comp' = [comp EXCEPT !.seed = size] /\ UNCHANGED hist
                       /\ full => Whole(gpu', size)
                    \/ /\ UNCHANGED comp
                       /\ hist' = [hist EXCEPT !.mistaken = @ \/ comp.seed # size]
<1>1. /\ ChannelIdle /\ MoreEvents /\ owner = "avc420" /\ comp.active /\ channel' = Event
      /\ UNCHANGED <<outputVars, threadVars, ui, session>>
  BY DEF OnGdiFrame
<1>2. PICK size \in Sizes, full \in BOOLEAN :
       IF comp.seed # size /\ ~full
       THEN comp' = [comp EXCEPT !.seed = 0] /\ UNCHANGED <<gpu, shown, hist>>
       ELSE \E b \in ProcessGdiFrame(gpu, size, full) :
              IF b.ok
              THEN /\ \E p \in PresentGdiBackgroundNow(b.gpu, target.window, TRUE) :
                        gpu' = p.gpu /\ ShownNow(p.shown)
                   /\ comp' = [comp EXCEPT !.seed = size]
                   /\ UNCHANGED hist
              ELSE /\ gpu' = b.gpu
                   /\ hist' = [hist EXCEPT !.mistaken = @ \/ comp.seed # size]
                   /\ UNCHANGED <<comp, shown>>
  BY DEF OnGdiFrame
<1>3. CASE comp.seed # size /\ ~full
  BY <1>1, <1>2, <1>3
<1>4. CASE comp.seed = size \/ full
  <2>0. gpu \in Gpu(Windows) /\ target.window \in Windows /\ shown \in {"no", "holes", "whole"}
    BY DEF Types
  <2>1. PICK b \in ProcessGdiFrame(gpu, size, full) :
              IF b.ok
              THEN /\ \E p \in PresentGdiBackgroundNow(b.gpu, target.window, TRUE) :
                        gpu' = p.gpu /\ ShownNow(p.shown)
                   /\ comp' = [comp EXCEPT !.seed = size]
                   /\ UNCHANGED hist
              ELSE /\ gpu' = b.gpu
                   /\ hist' = [hist EXCEPT !.mistaken = @ \/ comp.seed # size]
                   /\ UNCHANGED <<comp, shown>>
    BY <1>2, <1>4
  <2>2. /\ b.ok \in BOOLEAN /\ b.gpu \in Gpu(Windows)
        /\ Whole(gpu, size) => Whole(b.gpu, size)
        /\ full /\ b.ok => Whole(b.gpu, size)
        /\ (full \/ Whole(gpu, size)) /\ b.gpu.picture = "holes" => gpu.picture = "holes"
    BY <2>0, GdiFrameHere
  <2>3. CASE b.ok
    <3>1. PICK p \in PresentGdiBackgroundNow(b.gpu, target.window, TRUE) :
            gpu' = p.gpu /\ ShownNow(p.shown)
      BY <2>1, <2>3
    <3>2. Presented(Windows, b.gpu, p)
      BY <2>0, <2>2, NoWindow, BackgroundPresented
    <3>3. /\ gpu' \in Gpu(Windows) /\ SamePicture(b.gpu, gpu')
          /\ shown' \in {"no", "holes", "whole"} /\ shown' \in {shown, gpu'.picture}
      BY <2>0, <3>1, <3>2 DEF Presented, Keeps, SamePicture, ShownNow
    <3>4. /\ Whole(gpu, size) => Whole(gpu', size)
          /\ full => Whole(gpu', size)
          /\ (full \/ Whole(gpu, size)) /\ gpu'.picture = "holes" => gpu.picture = "holes"
      BY <2>2, <2>3, <3>3 DEF SamePicture, Whole
    <3>5. comp' = [comp EXCEPT !.seed = size] /\ UNCHANGED hist
      BY <2>1, <2>3
    <3>6. QED
      BY <1>1, <1>4, <3>3, <3>4, <3>5
  <2>4. CASE ~b.ok
    <3>1. gpu' = b.gpu /\ hist' = [hist EXCEPT !.mistaken = @ \/ comp.seed # size]
          /\ UNCHANGED <<comp, shown>>
      BY <2>1, <2>4
    <3>2. QED
      BY <1>1, <1>4, <2>0, <2>2, <3>1
  <2>5. QED
    BY <2>2, <2>3, <2>4
<1>5. QED
  BY <1>3, <1>4
-----------------------------------------------------------------------------
(* Type correctness.                                                       *)

LEMMA ChannelTypes ==
  ASSUME Types
  PROVE  /\ Returned \in Channels /\ NextFrame \in Frames
         /\ EndOfFrame => channel' \in Channels
         /\ MoreEvents => Event \in Channels
         /\ \A pc \in {"idle", "command", "paused", "detach", "sync", "stop", "release", "start",
                       "end", "syncEnd", "resize"}, active \in BOOLEAN :
              /\ [channel EXCEPT !.pc = pc] \in Channels
              /\ [channel EXCEPT !.pc = pc, !.active = active] \in Channels
              /\ MoreEvents => [Event EXCEPT !.pc = pc] \in Channels
<1>1. channel \in Channels
  BY DEF Types
<1>2. NextFrame \in Frames
  BY <1>1 DEF Channels, NextFrame
<1>3. Returned \in Channels
  BY <1>1 DEF Channels, Returned
<1>4. EndOfFrame => channel' \in Channels
  BY <1>2, <1>3 DEF EndOfFrame, Channels
<1>5. MoreEvents => channel.events + 1 \in 0 .. MaxEvents
  BY <1>1 DEF MoreEvents, Channels
<1>6. MoreEvents => Event \in Channels
  BY <1>1, <1>5 DEF Channels, Event
<1>7. ASSUME NEW pc \in {"idle", "command", "paused", "detach", "sync", "stop", "release",
                         "start", "end", "syncEnd", "resize"}
      PROVE  /\ [channel EXCEPT !.pc = pc] \in Channels
             /\ \A active \in BOOLEAN : [channel EXCEPT !.pc = pc, !.active = active] \in Channels
             /\ MoreEvents => [Event EXCEPT !.pc = pc] \in Channels
  <2>1. [channel EXCEPT !.pc = pc] \in Channels
    BY <1>1, <1>7 DEF Channels
  <2>2. ASSUME NEW active \in BOOLEAN
        PROVE  [channel EXCEPT !.pc = pc, !.active = active] \in Channels
    BY <1>1, <1>7, <2>2 DEF Channels
  <2>3. MoreEvents => [Event EXCEPT !.pc = pc] \in Channels
    BY <1>6, <1>7 DEF Channels
  <2>4. QED
    BY <2>1, <2>2, <2>3
<1>8. QED
  BY <1>2, <1>3, <1>4, <1>6, <1>7

\* The owner and GDI's pipeline, whoever changes them.
LEMMA PipelineTypes ==
  ASSUME Types
  PROVE  /\ StartRenderPipeline => gdi' \in Pipelines
         /\ StopRenderPipeline => gdi' \in Pipelines
         /\ ReleaseSurfaceRenderTarget => gdi' \in Pipelines
         /\ TransitionRenderOutputOwner("gdi") => owner' \in Owners
  BY DEF Types, Pipelines, StartRenderPipeline, StopRenderPipeline, ReleaseSurfaceRenderTarget,
         TransitionRenderOutputOwner, Owners

LEMMA DetachTypes ==
  ASSUME Types, DetachOutputActive
  PROVE  /\ owner' = "gdi" /\ comp' \in Comps /\ gpu' \in Gpu(Windows) /\ shown' = "no"
         /\ ~comp'.active /\ comp'.state = "detached" /\ comp'.enabled = comp.enabled
         /\ gpu'.picture = "none" /\ gpu'.pending = 0 /\ queue' = <<>>
<1>1. /\ comp' = [comp EXCEPT !.active = FALSE, !.state = "detached", !.seed = 0]
      /\ gpu' = Destroy /\ shown' = "no" /\ owner' = "gdi" /\ queue' = <<>>
  BY DEF DetachOutputActive, TransitionRenderOutputOwner
<1>2. QED
  BY <1>1, DestroyFacts DEF Types, Comps

LEMMA NoQueue == <<>> \in Seq(Tasks) /\ Len(<<>>) <= MaxTasks
  OBVIOUS

\* The steps of the channel.
LEMMA ChannelTypesStep ==
  ASSUME Types, TasksAreGood, Control, ChannelNext
  PROVE  Types'
<1>0. channel \in Channels /\ comp \in Comps
  BY DEF Types
<1>1. CASE OnSurfaceCommand
  <2>1. PICK c \in Commands :
       /\ comp' = [comp EXCEPT !.seed = IF c.full \/ @ = c.size THEN @ ELSE 0]
       /\ channel' = [channel EXCEPT !.pc = "command", !.command = c, !.used = TRUE,
                        !.active = comp.active, !.events = @ + 1]
    BY <1>1 DEF OnSurfaceCommand
  <2>2. channel.events + 1 \in 0 .. MaxEvents
    BY <1>0, <1>1 DEF OnSurfaceCommand, MoreEvents, Channels
  <2>3. channel' \in Channels
    BY <1>0, <2>1, <2>2 DEF Channels, Comps
  <2>4. comp' \in Comps
    BY <1>0, <2>1 DEF Comps
  <2>5. UNCHANGED <<outputVars, gpu, threadVars, shown, ui, session, hist>>
    BY <1>1 DEF OnSurfaceCommand
  <2>6. QED
    BY <2>3, <2>4, <2>5 DEF Types, outputVars, threadVars
<1>2. CASE CommandWithoutTarget
  <2>1. PictureKept /\ comp' = IF comp.active THEN [comp EXCEPT !.state = "targetPaused"] ELSE comp
    BY <1>2, PauseFacts DEF CommandWithoutTarget
  <2>2. channel' \in Channels
    BY <1>2, ChannelTypes DEF CommandWithoutTarget
  <2>3. comp' \in Comps /\ gpu' \in Gpu(Windows) /\ shown' \in {"no", "holes", "whole"}
    BY <1>0, <2>1 DEF Comps, PictureKept, Keeps
  <2>4. UNCHANGED <<outputVars, threadVars, ui, session, hist>>
    BY <1>2 DEF CommandWithoutTarget
  <2>5. QED
    BY <2>2, <2>3, <2>4 DEF Types, outputVars, threadVars
<1>3. CASE WaitForBackground
  <2>1. channel' \in Channels
    BY <1>3, ChannelTypes DEF WaitForBackground
  <2>2. QED
    BY <1>3, <2>1 DEF WaitForBackground, Types, outputVars, threadVars
<1>4. CASE DetachForBackground
  <2>1. channel' \in Channels
    BY <1>4, ChannelTypes DEF DetachForBackground
  <2>2. CASE comp.active
    BY <1>4, <2>1, <2>2, DetachTypes, NoQueue DEF DetachForBackground, Types, Owners
  <2>3. CASE ~comp.active
    BY <1>4, <2>1, <2>3 DEF DetachForBackground, Types
  <2>4. QED
    BY <2>2, <2>3
<1>5. CASE StartAfterDetach
  <2>1. channel' \in Channels
    BY <1>5, ChannelTypes DEF StartAfterDetach
  <2>2. QED
    BY <1>5, <2>1, PipelineTypes DEF StartAfterDetach, Types, threadVars
<1>6. CASE EnqueueSurfaceCommand
  <2>1. CommandTask(channel.command, channel.frame) \in Tasks
    BY <1>0 DEF CommandTask, PrewarmTask, Tasks, Channels, NoCommand
  <2>2. channel' \in Channels
    BY <1>6, ChannelTypes DEF EnqueueSurfaceCommand
  <2>3. QED
    BY <1>6, <2>1, <2>2, EnqueueFacts
       DEF EnqueueSurfaceCommand, Types, outputVars, Grows, OthersWait
<1>7. CASE CannotEnqueueCommand
  <2>1. OthersWait /\ Grows(PrewarmTask)
    BY <1>7, CannotEnqueueFacts, ThreadsStay DEF CannotEnqueueCommand
  <2>2. channel' \in Channels
    BY <1>7, ChannelTypes DEF CannotEnqueueCommand
  <2>3. QED
    BY <1>7, <2>1, <2>2 DEF CannotEnqueueCommand, Types, outputVars, Grows, OthersWait
<1>8. CASE ProcessWhileActive
  <2>1. channel' \in Channels
    BY <1>8, ProcessWhileActiveFacts, ChannelTypes DEF Control
  <2>2. hist' \in Hists
    BY <1>8, ProcessWhileActiveFacts DEF Control, Types, Hists
  <2>3. comp' \in Comps
    BY <1>0, <1>8, ProcessWhileActiveFacts DEF Control, Comps
  <2>4. gpu' \in Gpu(Windows) /\ UNCHANGED <<outputVars, threadVars, shown, ui, session>>
    BY <1>8, ProcessWhileActiveFacts DEF Control
  <2>5. QED
    BY <2>1, <2>2, <2>3, <2>4 DEF Types, outputVars, threadVars
<1>9. CASE WaitForSeed
  <2>1. channel' \in Channels
    BY <1>9, WaitForSeedFacts, ChannelTypes DEF Control
  <2>2. /\ gpu' \in Gpu(Windows)
        /\ UNCHANGED <<outputVars, comp, threadVars, shown, ui, session, hist>>
    BY <1>9, WaitForSeedFacts DEF Control
  <2>3. QED
    BY <2>1, <2>2 DEF Types, outputVars, threadVars
<1>10. CASE ProcessAndClaim
  <2>1. /\ gpu' \in Gpu(Windows) /\ channel.command.size \in Sizes
        /\ comp' = [comp EXCEPT !.seed = channel.command.size]
        /\ UNCHANGED <<gdi, target, threadVars, shown, ui, session>>
    BY <1>10, ProcessAndClaimFacts DEF Control
  <2>2. \/ /\ owner' = "avc420" /\ hist' = NoHist
           /\ channel' = [channel EXCEPT !.pc = IF owner = "avc420" THEN "release" ELSE "stop"]
        \/ channel' = Returned /\ UNCHANGED <<owner, hist>>
    BY <1>10, ProcessAndClaimFacts DEF Control
  <2>3. channel' \in Channels
    BY <2>2, ChannelTypes
  <2>4. comp' \in Comps
    BY <1>0, <2>1 DEF Comps
  <2>5. owner' \in Owners /\ hist' \in Hists
    <3>1. NoHist \in Hists /\ "avc420" \in Owners
      BY DEF NoHist, Hists, Owners
    <3>2. owner \in Owners /\ hist \in Hists
      BY DEF Types
    <3>3. owner' \in {owner, "avc420"} /\ hist' \in {hist, NoHist}
      BY <2>2
    <3>4. QED
      BY <3>1, <3>2, <3>3
  <2>6. QED
    BY <2>1, <2>3, <2>4, <2>5 DEF Types, threadVars
<1>11. CASE TakeoverStopsPipeline
  <2>1. channel' \in Channels
    BY <1>11, ChannelTypes DEF TakeoverStopsPipeline
  <2>2. QED
    BY <1>11, <2>1, PipelineTypes DEF TakeoverStopsPipeline, Types, threadVars
<1>12. CASE TakeoverReleasesTarget
  <2>1. channel' \in Channels
    BY <1>12, ChannelTypes DEF TakeoverReleasesTarget
  <2>2. comp' \in Comps
    BY <1>0, <1>12 DEF TakeoverReleasesTarget, Comps
  <2>3. QED
    BY <1>12, <2>1, <2>2, PipelineTypes DEF TakeoverReleasesTarget, Types, threadVars
<1>13. CASE OnEndFrame
  <2>1. channel' \in Channels
    <3>1. PICK matched \in BOOLEAN :
            channel' = [channel EXCEPT !.pc = "end", !.active = comp.active, !.matched = matched]
      BY <1>13 DEF OnEndFrame
    <3>2. comp.active \in BOOLEAN
      BY <1>0 DEF Comps
    <3>3. QED
      BY <1>0, <3>1, <3>2 DEF Channels
  <2>2. QED
    BY <1>13, <2>1 DEF OnEndFrame, Types, outputVars, threadVars
<1>14. CASE EndFrameWithoutTarget
  <2>1. PictureKept /\ comp' = IF comp.active THEN [comp EXCEPT !.state = "targetPaused"] ELSE comp
    BY <1>14, PauseFacts DEF EndFrameWithoutTarget
  <2>2. channel' \in Channels
    BY <1>14, ChannelTypes DEF EndFrameWithoutTarget
  <2>3. comp' \in Comps /\ gpu' \in Gpu(Windows) /\ shown' \in {"no", "holes", "whole"}
    BY <1>0, <2>1 DEF Comps, PictureKept, Keeps
  <2>4. UNCHANGED <<outputVars, threadVars, ui, session, hist>>
    BY <1>14 DEF EndFrameWithoutTarget
  <2>5. QED
    BY <2>2, <2>3, <2>4 DEF Types, outputVars, threadVars
<1>15. CASE EnqueueEndFrame
  <2>1. EndFrameTask(channel.frame, channel.matched) \in Tasks
    BY <1>0 DEF EndFrameTask, PrewarmTask, Tasks, Channels, NoCommand
  <2>2. channel' \in Channels
    BY <1>15, ChannelTypes DEF EnqueueEndFrame
  <2>3. QED
    BY <1>15, <2>1, <2>2, EnqueueFacts DEF EnqueueEndFrame, Types, outputVars, Grows, OthersWait
<1>16. CASE CannotEnqueueEndFrame
  <2>1. OthersWait /\ Grows(PrewarmTask)
    BY <1>16, CannotEnqueueFacts, ThreadsStay DEF CannotEnqueueEndFrame
  <2>2. channel' \in Channels
    BY <1>16, ChannelTypes DEF CannotEnqueueEndFrame
  <2>3. QED
    BY <1>16, <2>1, <2>2 DEF CannotEnqueueEndFrame, Types, outputVars, Grows, OthersWait
<1>17. CASE ProcessEndFrame
  <2>1. channel' \in Channels
    BY <1>17, ProcessEndFrameFacts, ChannelTypes
  <2>2. /\ gpu' \in Gpu(Windows) /\ shown' \in {"no", "holes", "whole"}
        /\ UNCHANGED <<outputVars, comp, threadVars, ui, session, hist>>
    BY <1>17, ProcessEndFrameFacts DEF PictureKept, Keeps
  <2>3. QED
    BY <2>1, <2>2 DEF Types, outputVars, threadVars
<1>18. CASE OnGdiFrame
  <2>1. channel' \in Channels
    BY <1>18, OnGdiFrameFacts, ChannelTypes
  <2>2. UNCHANGED <<outputVars, threadVars, ui, session>>
    BY <1>18, OnGdiFrameFacts
  <2>3. gpu' \in Gpu(Windows) /\ shown' \in {"no", "holes", "whole"}
    BY <1>18, OnGdiFrameFacts DEF Types
  <2>4. comp' \in Comps
    BY <1>0, <1>18, OnGdiFrameFacts DEF Comps
  <2>5. hist' \in Hists
    BY <1>18, OnGdiFrameFacts DEF Types, Hists
  <2>6. QED
    BY <2>1, <2>2, <2>3, <2>4, <2>5 DEF Types, outputVars, threadVars
<1>19. CASE SetOutputInactive
  <2>1. channel' \in Channels
    <3>1. MoreEvents /\ Event.pc = "idle"
      BY <1>0, <1>19 DEF SetOutputInactive, ChannelIdle, Event, Channels
    <3>2. channel' = [Event EXCEPT !.pc = "start"] \/ channel' = [Event EXCEPT !.pc = "idle"]
      BY <1>19, <3>1 DEF SetOutputInactive
    <3>3. QED
      BY <3>1, <3>2, ChannelTypes
  <2>2. comp' \in Comps
    BY <1>0, <1>19 DEF SetOutputInactive, Comps
  <2>3. gpu' \in Gpu(Windows)
    BY <1>19, DestroyFacts DEF SetOutputInactive
  <2>4. QED
    BY <1>19, <2>1, <2>2, <2>3, NoQueue, PipelineTypes DEF SetOutputInactive, Types
<1>20. CASE SetOutputActive
  <2>1. channel' \in Channels
    BY <1>20, ChannelTypes DEF SetOutputActive
  <2>2. comp' \in Comps /\ hist' \in Hists
    BY <1>0, <1>20, ActiveHist DEF SetOutputActive, Comps
  <2>3. QED
    BY <1>20, <2>1, <2>2 DEF SetOutputActive, Types, outputVars, threadVars
<1>21. CASE DesktopResize
  <2>1. channel' \in Channels
    BY <1>21, ChannelTypes DEF DesktopResize
  <2>2. QED
    BY <1>21, <2>1, PipelineTypes DEF DesktopResize, Types, threadVars
<1>22. CASE DesktopResized
  <2>1. channel' \in Channels
    BY <1>22, ChannelTypes DEF DesktopResized
  <2>2. gdi' \in Pipelines
    BY <1>22, PipelineTypes DEF DesktopResized, Types
  <2>3. RetargetOutput => comp' \in Comps /\ PictureKept
    BY <1>0, RetargetFacts DEF Comps
  <2>4. comp' \in Comps /\ gpu' \in Gpu(Windows) /\ shown' \in {"no", "holes", "whole"}
    BY <1>22, <2>3 DEF DesktopResized, PictureKept, Keeps, Types
  <2>5. UNCHANGED <<owner, target, threadVars, ui, session, hist>>
    BY <1>22 DEF DesktopResized
  <2>6. QED
    BY <2>1, <2>2, <2>4, <2>5 DEF Types, threadVars
<1>23. QED
  BY <1>1, <1>2, <1>3, <1>4, <1>5, <1>6, <1>7, <1>8, <1>9, <1>10, <1>11, <1>12, <1>13, <1>14,
     <1>15, <1>16, <1>17, <1>18, <1>19, <1>20, <1>21, <1>22 DEF ChannelNext

LEMMA DoneTypes ==
  ASSUME Types, NEW w \in WorkerIds
  PROVE  /\ [workers EXCEPT ![w] = [pc |-> "waiting", task |-> NoTask]] \in Threads
         /\ [workers EXCEPT ![w] = [pc |-> "clear", task |-> NoTask]] \in Threads
<1>1. NoTask \in Tasks
  BY DEF NoTask, PrewarmTask, Tasks, NoCommand
<1>2. QED
  BY <1>1 DEF Types, Threads

\* What a task leaves of the compositor.
LEMMA ProcessedTypes ==
  ASSUME Types, TasksAreGood, NEW w \in WorkerIds, ProcessWorkerTask(w)
  PROVE  /\ owner' \in Owners /\ comp' \in Comps /\ gpu' \in Gpu(Windows)
         /\ shown' \in {"no", "holes", "whole"} /\ hist' \in Hists /\ workers' \in Threads
<1>0. comp \in Comps /\ hist \in Hists /\ owner \in Owners
  BY DEF Types
<1>1. CASE UNCHANGED <<owner, comp, gpu, shown, hist>>
           /\ workers' = [workers EXCEPT ![w] = [pc |-> "waiting", task |-> NoTask]]
  BY <1>1, DoneTypes DEF Types
<1>2. CASE ProcessPrewarm(w)
  <2>1. comp' \in Comps
    BY <1>0, <1>2, ProcessPrewarmFacts DEF Comps
  <2>2. gpu' \in Gpu(Windows) /\ shown' \in {"no", "holes", "whole"}
    BY <1>2, ProcessPrewarmFacts DEF PictureKept, Keeps
  <2>3. QED
    BY <1>0, <1>2, <2>1, <2>2, ProcessPrewarmFacts, DoneTypes
<1>3. CASE ProcessQueuedEndFrame(w)
  <2>1. comp' \in Comps
    BY <1>0, <1>3, ProcessQueuedEndFrameFacts DEF Comps
  <2>2. gpu' \in Gpu(Windows) /\ shown' \in {"no", "holes", "whole"}
    BY <1>3, ProcessQueuedEndFrameFacts DEF PictureKept, Keeps
  <2>3. hist' \in Hists
    BY <1>3, ProcessQueuedEndFrameFacts, ActiveHist
  <2>4. QED
    BY <1>0, <1>3, <2>1, <2>2, <2>3, ProcessQueuedEndFrameFacts, DoneTypes
<1>4. CASE workers[w].task.type = "command" /\ ProcessQueuedCommand(w)
  <2> DEFINE c == workers[w].task.command
  <2>0. GoodTask(workers[w].task)
    BY ProcessWorkerTaskFacts
  <2>1. CASE /\ gpu' = Destroy /\ shown' = "no" /\ owner' = "gdi"
             /\ comp' = [comp EXCEPT !.active = FALSE, !.state = "failed"]
             /\ workers' = [workers EXCEPT ![w] = [pc |-> "clear", task |-> NoTask]]
             /\ UNCHANGED hist
    <3>1. comp' \in Comps
      BY <1>0, <2>1 DEF Comps
    <3>2. QED
      BY <1>0, <2>1, <3>1, DestroyFacts, DoneTypes DEF Owners
  <2>2. CASE /\ c.full \in BOOLEAN /\ c.size \in Sizes /\ gpu' \in Gpu(Windows)
             /\ comp' = [Reactivated EXCEPT !.seed = IF c.full THEN c.size ELSE @]
             /\ hist' = [hist EXCEPT !.revived = @ \/ ~comp.active,
                                     !.mistaken = @ \/ IF c.full THEN gpu'.pending = 0
                                         ELSE ~comp.active \/ c.size # comp.seed]
             /\ workers' = [workers EXCEPT ![w] = [pc |-> "waiting", task |-> NoTask]]
             /\ UNCHANGED <<owner, shown>>
    <3>1. Reactivated \in Comps
      BY <1>0 DEF Reactivated, Comps
    <3>2. comp' \in Comps
      BY <2>2, <3>1 DEF Comps
    <3>3. hist' \in Hists
      BY <1>0, <2>2 DEF Hists
    <3>4. QED
      BY <1>0, <2>2, <3>2, <3>3, DoneTypes DEF Types
  <2>3. QED
    BY <1>4, <2>0, <2>1, <2>2, ProcessQueuedCommandFacts
<1>5. QED
  BY <1>1, <1>2, <1>3, <1>4, ProcessWorkerTaskFacts

LEMMA WorkerTypesStep ==
  ASSUME Types, TasksAreGood, WorkerNext
  PROVE  Types'
<1>1. ASSUME NEW w \in WorkerIds, WorkerTakes(w)
      PROVE  Types'
  BY <1>1, WorkerTakesFacts DEF WorkerTakes, Types, outputVars
<1>2. ASSUME NEW w \in WorkerIds, WorkerLeaves(w)
      PROVE  Types'
  BY <1>2 DEF WorkerLeaves, Types, Threads, outputVars
<1>3. ASSUME NEW w \in WorkerIds, ProcessWorkerTask(w)
      PROVE  Types'
  <2>1. UNCHANGED <<gdi, target, queue, running, handle, channel, ui, session>>
    BY <1>3 DEF ProcessWorkerTask
  <2>2. QED
    BY <1>3, <2>1, ProcessedTypes DEF Types
<1>4. ASSUME NEW w \in WorkerIds, ClearStaleWork(w)
      PROVE  Types'
  <2>1. workers' \in Threads
    BY <1>4 DEF ClearStaleWork, Types, Threads
  <2>2. QED
    BY <1>4, <2>1, NoQueue DEF ClearStaleWork, Types, outputVars
<1>5. ASSUME NEW w \in WorkerIds, RestartPipeline(w)
      PROVE  Types'
  <2>1. workers' \in Threads /\ gdi' \in Pipelines
    BY <1>5, PipelineTypes DEF RestartPipeline, Types, Threads
  <2>2. QED
    BY <1>5, <2>1 DEF RestartPipeline, Types
<1>6. QED
  BY <1>1, <1>2, <1>3, <1>4, <1>5 DEF WorkerNext

LEMMA UiTypesStep ==
  ASSUME Types, UiNext
  PROVE  Types'
<1>0. ui \in Uis /\ comp \in Comps
  BY DEF Types
<1>1. CASE OnXComponentSurfaceAvailable
  <2>1. target' \in [window : Windows, last : Windows] /\ gdi' \in Pipelines
    <3>1. target.last \in 0 .. MaxTargets /\ target.last < MaxTargets /\ gdi \in Pipelines
      BY <1>1 DEF OnXComponentSurfaceAvailable, SurfaceAvailable, Types, Windows
    <3>2. target.last + 1 \in Windows
      BY <3>1 DEF Windows
    <3>3. /\ target' = [window |-> target.last + 1, last |-> target.last + 1]
          /\ gdi' = [gdi EXCEPT !.bound = FALSE]
      BY <1>1 DEF OnXComponentSurfaceAvailable, SurfaceAvailable
    <3>4. QED
      BY <3>1, <3>2, <3>3 DEF Pipelines
  <2>2. QED
    BY <1>1, <2>1 DEF OnXComponentSurfaceAvailable, Types, Uis, threadVars
<1>2. CASE OnXComponentSurfaceDestroyed
  <2>1. target' \in [window : Windows, last : Windows] /\ gdi' \in Pipelines
    BY <1>2, NoWindow DEF OnXComponentSurfaceDestroyed, SurfaceGone, Types, Pipelines
  <2>2. QED
    BY <1>2, <2>1 DEF OnXComponentSurfaceDestroyed, Types, Uis, threadVars
<1>3. CASE PrewarmIfReady
  <2>1. OthersWait /\ Grows(PrewarmTask)
    BY <1>3, EnqueuePrewarmFacts, ThreadsStay DEF PrewarmIfReady
  <2>2. ui' \in Uis
    BY <1>0, <1>3 DEF PrewarmIfReady, Uis
  <2>3. QED
    BY <1>3, <2>1, <2>2 DEF PrewarmIfReady, Types, outputVars, Grows, OthersWait
<1>4. CASE TargetChanged
  <2>1. ui' \in Uis
    BY <1>0, <1>4 DEF TargetChanged, Uis
  <2>2. UNCHANGED <<gdi, target, running, handle, workers, channel, session, hist>>
    BY <1>4 DEF TargetChanged
  <2>3. CASE DetachOutputActive
    BY <2>1, <2>2, <2>3, DetachTypes, NoQueue DEF Types, Owners
  <2>4. CASE UNCHANGED <<owner, queue>> /\ RetargetOutput
    <3>1. comp' \in Comps /\ PictureKept
      BY <1>0, <2>4, RetargetFacts DEF Comps
    <3>2. QED
      BY <2>1, <2>2, <2>4, <3>1 DEF Types, PictureKept, Keeps
  <2>5. CASE UNCHANGED <<owner, queue, comp, gpu, shown>>
    BY <2>1, <2>2, <2>5 DEF Types
  <2>6. QED
    BY <1>4, <2>3, <2>4, <2>5 DEF TargetChanged
<1>5. CASE StartAfterSurfaceDestroyed
  BY <1>0, <1>5, PipelineTypes DEF StartAfterSurfaceDestroyed, Types, Uis, threadVars
<1>6. CASE SurfaceDestroyedResetsOwner
  <2>1. hist' \in Hists
    BY <1>6 DEF SurfaceDestroyedResetsOwner, Types, Hists
  <2>2. QED
    BY <1>6, <2>1, PipelineTypes DEF SurfaceDestroyedResetsOwner, Types, Uis, threadVars
<1>7. QED
  BY <1>1, <1>2, <1>3, <1>4, <1>5, <1>6 DEF UiNext

LEMMA SessionTypesStep ==
  ASSUME Types, SessionNext
  PROVE  Types'
<1>0. session \in Sessions /\ channel \in Channels /\ handle \in WorkerIds \cup {0}
  BY DEF Types
<1>1. CASE ConfigureAvc420SurfaceOutput
  <2>1. session.count + 1 \in 0 .. MaxSessions
    BY <1>0, <1>1 DEF ConfigureAvc420SurfaceOutput, Sessions
  <2>2. session' \in Sessions
    BY <1>0, <1>1, <2>1 DEF ConfigureAvc420SurfaceOutput, Sessions
  <2>3. QED
    BY <1>1, <2>2 DEF ConfigureAvc420SurfaceOutput, Types, outputVars, threadVars
<1>2. CASE RestoreHooks
  <2>1. session' \in Sessions
    BY <1>0, <1>2 DEF RestoreHooks, Sessions
  <2>2. QED
    BY <1>2, <2>1, PipelineTypes DEF RestoreHooks, Types, threadVars
<1>3. CASE ConfigureStopsWorker
  <2>1. session' \in Sessions
    BY <1>0, <1>3 DEF ConfigureStopsWorker, Sessions
  <2>2. QED
    BY <1>3, <2>1, NoQueue DEF ConfigureStopsWorker, StopWorker, Types, outputVars
<1>4. CASE Configure
  <2>1. session' \in Sessions /\ comp' \in Comps
    BY <1>0, <1>4 DEF Configure, Sessions, Comps
  <2>2. gpu' \in Gpu(Windows)
    BY <1>4, DestroyFacts DEF Configure
  <2>3. NoHist \in Hists /\ owner' \in Owners
    BY <1>4 DEF Configure, NoHist, Hists, Owners, Types
  <2>4. QED
    BY <1>4, <2>1, <2>2, <2>3 DEF Configure, Types, threadVars
<1>5. CASE InstallHooks
  <2>1. channel' \in Channels
    <3>1. channel' = [channel EXCEPT !.events = 0, !.frame = 1, !.used = FALSE]
          /\ 0 \in 0 .. MaxEvents /\ 1 \in Frames
      BY <1>5 DEF InstallHooks
    <3>2. QED
      BY <1>0, <3>1 DEF Channels
  <2>2. session' \in Sessions
    BY <1>0, <1>5 DEF InstallHooks, Sessions
  <2>3. OthersWait /\ Grows(PrewarmTask) /\ gdi' \in Pipelines
    BY <1>5, EnqueuePrewarmFacts, PipelineTypes DEF InstallHooks
  <2>4. QED
    BY <1>5, <2>1, <2>2, <2>3 DEF InstallHooks, Types, Grows, OthersWait
<1>6. CASE PostDisconnect
  <2>1. session' \in Sessions
    BY <1>0, <1>6 DEF PostDisconnect, Sessions
  <2>2. QED
    BY <1>6, <2>1, PipelineTypes DEF PostDisconnect, Types, threadVars
<1>7. QED
  BY <1>1, <1>2, <1>3, <1>4, <1>5, <1>6 DEF SessionNext

LEMMA TypesStep ==
  ASSUME Types, TasksAreGood, Control, [Next]_vars
  PROVE  Types'
<1>1. CASE GdiPipelinePaints
  <2>1. gdi' \in Pipelines
    BY <1>1 DEF GdiPipelinePaints, GdiPaints, Types, Pipelines
  <2>2. QED
    BY <1>1, <2>1 DEF GdiPipelinePaints, GdiPaints, Types, threadVars
<1>2. CASE UNCHANGED vars
  BY <1>2 DEF vars, Types, outputVars, threadVars
<1>3. QED
  BY <1>1, <1>2, ChannelTypesStep, WorkerTypesStep, UiTypesStep, SessionTypesStep DEF Next
-----------------------------------------------------------------------------
(* What is queued and held.                                                *)

LEMMA TaskAdded ==
  ASSUME Types, TasksAreGood, NEW task, GoodTask(task), Grows(task), OthersWait
  PROVE  TasksAreGood'
  BY DEF TasksAreGood, Grows, OthersWait, GoodTask, Holds

LEMMA QueueEmptied ==
  ASSUME TasksAreGood, queue' = <<>> \/ UNCHANGED queue, UNCHANGED workers
  PROVE  TasksAreGood'
  BY DEF TasksAreGood, GoodTask, Holds

\* The tasks after a step: those there were, and one that was added.
LEMMA TasksAreGoodStep ==
  ASSUME Types, TasksAreGood, Control, [Next]_vars
  PROVE  TasksAreGood'
<1>1. CASE ChannelNext
  <2>1. CASE EnqueueSurfaceCommand
    <3>1. /\ channel.command \in Commands /\ channel.frame \in Frames
      BY <2>1 DEF EnqueueSurfaceCommand, Deciding, Control, ChannelIsUp, Types, Channels
    <3> DEFINE task == CommandTask(channel.command, channel.frame)
    <3>2. task \in Tasks /\ GoodTask(task)
      BY <3>1 DEF CommandTask, PrewarmTask, Tasks, NoCommand, GoodTask
    <3>3. Enqueue(task)
      BY <2>1 DEF EnqueueSurfaceCommand
    <3> HIDE DEF task
    <3>4. QED
      BY <3>2, <3>3, EnqueueFacts, TaskAdded
  <2>2. CASE EnqueueEndFrame
    <3>1. channel.frame \in Frames /\ channel.matched \in BOOLEAN
      BY DEF Types, Channels
    <3> DEFINE task == EndFrameTask(channel.frame, channel.matched)
    <3>2. task \in Tasks /\ GoodTask(task)
      BY <3>1 DEF EndFrameTask, PrewarmTask, Tasks, NoCommand, GoodTask
    <3>3. Enqueue(task)
      BY <2>2 DEF EnqueueEndFrame
    <3> HIDE DEF task
    <3>4. QED
      BY <3>2, <3>3, EnqueueFacts, TaskAdded
  <2>3. CASE CannotEnqueueCommand \/ CannotEnqueueEndFrame
    BY <2>3, CannotEnqueueFacts, ThreadsStay, PrewarmIsGood, TaskAdded
       DEF CannotEnqueueCommand, CannotEnqueueEndFrame
  <2>4. CASE DetachForBackground \/ SetOutputInactive
    BY <2>4, QueueEmptied DEF DetachForBackground, SetOutputInactive, DetachOutputActive
  <2>5. CASE UNCHANGED <<queue, workers>>
    BY <2>5, QueueEmptied
  <2>6. QED
    BY <1>1, <2>1, <2>2, <2>3, <2>4, <2>5
       DEF ChannelNext, threadVars, OnSurfaceCommand, CommandWithoutTarget, WaitForBackground,
           StartAfterDetach, ProcessWhileActive, WaitForSeed, ProcessAndClaim,
           TakeoverStopsPipeline, TakeoverReleasesTarget, OnEndFrame, EndFrameWithoutTarget,
           ProcessEndFrame, OnGdiFrame, SetOutputActive, DesktopResize, DesktopResized
<1>2. CASE WorkerNext
  <2>1. ASSUME NEW w \in WorkerIds, WorkerTakes(w)
        PROVE  TasksAreGood'
    BY <2>1, WorkerTakesFacts DEF TasksAreGood, Holds, GoodTask
  <2>2. ASSUME NEW w \in WorkerIds,
               queue' = <<>> \/ UNCHANGED queue,
               \A v \in WorkerIds : Holds(v)' => Holds(v) /\ workers'[v] = workers[v]
        PROVE  TasksAreGood'
    BY <2>2 DEF TasksAreGood, GoodTask
  <2>3. ASSUME NEW w \in WorkerIds, WorkerLeaves(w)
        PROVE  TasksAreGood'
    BY <2>2, <2>3 DEF WorkerLeaves, Types, Threads, Holds
  <2>4. ASSUME NEW w \in WorkerIds, ProcessWorkerTask(w)
        PROVE  TasksAreGood'
    <3>1. UNCHANGED queue
      BY <2>4 DEF ProcessWorkerTask
    <3>2. \/ workers' = [workers EXCEPT ![w] = [pc |-> "waiting", task |-> NoTask]]
          \/ workers' = [workers EXCEPT ![w] = [pc |-> "clear", task |-> NoTask]]
      BY <2>4, ProcessWorkerTaskFacts, ProcessPrewarmFacts, ProcessQueuedEndFrameFacts,
         ProcessQueuedCommandFacts
    <3>3. \A v \in WorkerIds : Holds(v)' => Holds(v) /\ workers'[v] = workers[v]
      BY <3>2 DEF Types, Threads, Holds
    <3>4. QED
      BY <2>2, <3>1, <3>3
  <2>5. ASSUME NEW w \in WorkerIds, ClearStaleWork(w) \/ RestartPipeline(w)
        PROVE  TasksAreGood'
    <3>1. queue' = <<>> \/ UNCHANGED queue
      BY <2>5 DEF ClearStaleWork, RestartPipeline
    <3>2. \A v \in WorkerIds : Holds(v)' => Holds(v) /\ workers'[v] = workers[v]
      BY <2>5 DEF ClearStaleWork, RestartPipeline, Types, Threads, Holds
    <3>3. QED
      BY <2>2, <3>1, <3>2
  <2>6. QED
    BY <1>2, <2>1, <2>3, <2>4, <2>5 DEF WorkerNext
<1>3. CASE UiNext
  <2>1. CASE PrewarmIfReady
    BY <2>1, EnqueuePrewarmFacts, ThreadsStay, PrewarmIsGood, TaskAdded DEF PrewarmIfReady
  <2>2. CASE TargetChanged
    BY <2>2, QueueEmptied DEF TargetChanged, DetachOutputActive
  <2>3. CASE UNCHANGED <<queue, workers>>
    BY <2>3, QueueEmptied
  <2>4. QED
    BY <1>3, <2>1, <2>2, <2>3
       DEF UiNext, threadVars, OnXComponentSurfaceAvailable, OnXComponentSurfaceDestroyed,
           StartAfterSurfaceDestroyed, SurfaceDestroyedResetsOwner
<1>4. CASE SessionNext
  <2>1. CASE InstallHooks
    BY <2>1, EnqueuePrewarmFacts, PrewarmIsGood, TaskAdded DEF InstallHooks
  <2>2. CASE ConfigureStopsWorker
    BY <2>2, QueueEmptied DEF ConfigureStopsWorker, StopWorker
  <2>3. CASE UNCHANGED <<queue, workers>>
    BY <2>3, QueueEmptied
  <2>4. QED
    BY <1>4, <2>1, <2>2, <2>3
       DEF SessionNext, threadVars, ConfigureAvc420SurfaceOutput, RestoreHooks, Configure,
           PostDisconnect
<1>5. CASE GdiPipelinePaints \/ UNCHANGED vars
  BY <1>5, QueueEmptied DEF GdiPipelinePaints, vars, threadVars
<1>6. QED
  BY <1>1, <1>2, <1>3, <1>4, <1>5 DEF Next
-----------------------------------------------------------------------------
(* The flags of the compositor, the channel and the ui thread.             *)

\* What a step makes of the flags: only a compositor that is on is active, and only an
\* output that is active pauses, for want of a window.
FlagsKept ==
  /\ comp'.enabled = comp.enabled
  /\ comp'.active => comp.enabled /\ comp'.state \in {"active", "targetPaused"}
  /\ comp'.state = "targetPaused" =>
       comp'.active /\ (target.window = 0 \/ comp.state = "targetPaused")

LEMMA SameFlags ==
  ASSUME Control, comp'.enabled = comp.enabled, comp'.active = comp.active,
         comp'.state = comp.state
  PROVE  FlagsKept
  BY DEF Control, FlagsKept, ActiveIsOn, PausedIsActive

LEMMA PausedFlags ==
  ASSUME Types, Control, target.window = 0,
         comp' = IF comp.active THEN [comp EXCEPT !.state = "targetPaused"] ELSE comp
  PROVE  FlagsKept
  BY DEF Types, Comps, Control, FlagsKept, ActiveIsOn, PausedIsActive

LEMMA RetargetFlags ==
  ASSUME Types, Control, RetargetOutput
  PROVE  FlagsKept /\ (comp'.state = "targetPaused" => target.window = 0)
<1>1. comp' = [comp EXCEPT !.state = IF ~comp.active THEN @
                                     ELSE IF target.window = 0 THEN "targetPaused"
                                     ELSE "active"]
  BY RetargetFacts
<1>2. QED
  BY <1>1 DEF Types, Comps, Control, FlagsKept, ActiveIsOn, PausedIsActive

LEMMA ChannelFlags ==
  ASSUME Types, Control, ChannelNext
  PROVE  FlagsKept /\ UNCHANGED <<target, ui, session>> /\ session.pc = "up"
<1>0. comp \in Comps
  BY DEF Types
<1>1. UNCHANGED <<target, ui, session>> /\ session.pc = "up"
  BY DEF ChannelNext, threadVars, outputVars, OnSurfaceCommand, CommandWithoutTarget,
         WaitForBackground, DetachForBackground, StartAfterDetach, EnqueueSurfaceCommand,
         CannotEnqueueCommand, ProcessWhileActive, WaitForSeed, ProcessAndClaim,
         TakeoverStopsPipeline, TakeoverReleasesTarget, OnEndFrame, EndFrameWithoutTarget,
         EnqueueEndFrame, CannotEnqueueEndFrame, ProcessEndFrame, OnGdiFrame,
         SetOutputInactive, SetOutputActive, DesktopResize, DesktopResized,
         ChannelIdle, Deciding, Control, ChannelIsUp
<1> SUFFICES FlagsKept
  BY <1>1
<1>2. comp.enabled
  BY <1>1 DEF Control, ChannelIsUp
<1>3. CASE UNCHANGED comp
  BY <1>3, SameFlags
<1>4. CASE OnSurfaceCommand \/ ProcessAndClaim \/ OnGdiFrame
  <2>1. \E seed : comp' = [comp EXCEPT !.seed = seed]
    <3>1. CASE OnSurfaceCommand
      BY <3>1 DEF OnSurfaceCommand
    <3>2. CASE ProcessAndClaim
      BY <3>2 DEF ProcessAndClaim
    <3>3. CASE OnGdiFrame
      <4>1. comp = [comp EXCEPT !.seed = comp.seed]
        BY <1>0 DEF Comps
      <4>2. QED
        BY <3>3, <4>1, OnGdiFrameFacts
    <3>4. QED
      BY <1>4, <3>1, <3>2, <3>3
  <2>2. QED
    BY <1>0, <2>1, SameFlags DEF Comps
<1>5. CASE CommandWithoutTarget \/ EndFrameWithoutTarget
  BY <1>5, PauseFacts, PausedFlags DEF CommandWithoutTarget, EndFrameWithoutTarget
<1>6. CASE DetachForBackground \/ SetOutputInactive
  <2>1. \/ comp' = [comp EXCEPT !.active = FALSE, !.state = "detached", !.seed = 0]
        \/ UNCHANGED comp
    BY <1>6 DEF DetachForBackground, SetOutputInactive, DetachOutputActive
  <2>2. QED
    BY <1>0, <1>3, <2>1 DEF Comps, FlagsKept
<1>7. CASE ProcessWhileActive \/ SetOutputActive \/ TakeoverReleasesTarget
  <2>1. \/ comp' = [comp EXCEPT !.state = "active"] /\ comp.active
        \/ comp' = [comp EXCEPT !.active = TRUE, !.state = "active"]
    BY <1>7 DEF ProcessWhileActive, SetOutputActive, TakeoverReleasesTarget
  <2>2. QED
    BY <1>0, <1>2, <2>1 DEF Comps, FlagsKept
<1>8. CASE DesktopResized
  BY <1>3, <1>8, RetargetFlags DEF DesktopResized
<1>9. QED
  BY <1>1, <1>3, <1>4, <1>5, <1>6, <1>7, <1>8
     DEF ChannelNext, WaitForBackground, StartAfterDetach, EnqueueSurfaceCommand,
         CannotEnqueueCommand, WaitForSeed, TakeoverStopsPipeline, OnEndFrame,
         EnqueueEndFrame, CannotEnqueueEndFrame, ProcessEndFrame, DesktopResize

LEMMA WorkerFlags ==
  ASSUME Types, TasksAreGood, Control, WorkerNext
  PROVE  FlagsKept /\ UNCHANGED <<target, ui, session, channel>>
<1>0. comp \in Comps
  BY DEF Types
<1>3. UNCHANGED <<target, ui, session, channel>>
  BY DEF WorkerNext, WorkerTakes, WorkerLeaves, ProcessWorkerTask, ClearStaleWork,
         RestartPipeline, outputVars
<1> SUFFICES FlagsKept
  BY <1>3
<1>1. CASE UNCHANGED comp
  BY <1>1, SameFlags
<1>2. ASSUME NEW w \in WorkerIds, ProcessWorkerTask(w)
      PROVE  FlagsKept
  <2>1. CASE comp.enabled /\ ProcessPrewarm(w)
    BY <1>0, <2>1, ProcessPrewarmFacts DEF Comps, FlagsKept, Control, ActiveIsOn
  <2>2. CASE comp.enabled /\ ProcessQueuedEndFrame(w)
    <3>1. comp' = [comp EXCEPT !.active = TRUE,
                               !.state = IF (target.window = 0 /\ comp.active)
                                            \/ @ = "targetPaused"
                                         THEN "targetPaused" ELSE "active"]
      BY <2>2, ProcessQueuedEndFrameFacts
    <3>2. QED
      BY <1>0, <2>2, <3>1 DEF Comps, FlagsKept
  <2>3. CASE comp.enabled /\ workers[w].task.type = "command" /\ ProcessQueuedCommand(w)
    <3>1. \/ comp' = [comp EXCEPT !.active = FALSE, !.state = "failed"]
          \/ \E seed : comp' = [Reactivated EXCEPT !.seed = seed]
      BY <1>2, <2>3, ProcessWorkerTaskFacts, ProcessQueuedCommandFacts
    <3>2. CASE comp' = [comp EXCEPT !.active = FALSE, !.state = "failed"]
      BY <1>0, <3>2 DEF Comps, FlagsKept
    <3>3. CASE \E seed : comp' = [Reactivated EXCEPT !.seed = seed]
      <4>1. /\ Reactivated \in Comps /\ Reactivated.active /\ Reactivated.enabled = comp.enabled
            /\ Reactivated.state = IF comp.state = "targetPaused" THEN "targetPaused" ELSE "active"
        BY <1>0 DEF Reactivated, Comps
      <4>2. /\ comp'.active /\ comp'.enabled = comp.enabled
            /\ comp'.state = IF comp.state = "targetPaused" THEN "targetPaused" ELSE "active"
        BY <3>3, <4>1 DEF Comps
      <4>3. QED
        BY <2>3, <4>2 DEF FlagsKept
    <3>4. QED
      BY <3>1, <3>2, <3>3
  <2>4. QED
    BY <1>1, <1>2, <2>1, <2>2, <2>3, ProcessWorkerTaskFacts
<1>4. QED
  BY <1>1, <1>2
     DEF WorkerNext, WorkerTakes, WorkerLeaves, ClearStaleWork, RestartPipeline

\* The command at hand is one until it has been processed.
LEMMA ChannelCommands ==
  ASSUME Types, Control, ChannelNext,
         channel'.pc \in {"command", "paused", "detach", "sync"}
  PROVE  channel'.command \in Commands
<1>0. channel \in Channels
  BY DEF Types
<1>1. CASE OnSurfaceCommand
  BY <1>0, <1>1 DEF OnSurfaceCommand, Channels
<1>2. CASE CommandWithoutTarget \/ WaitForBackground \/ CannotEnqueueCommand
  <2>1. channel.command \in Commands
    BY <1>2 DEF CommandWithoutTarget, WaitForBackground, CannotEnqueueCommand, Deciding, Control,
                ChannelIsUp
  <2>2. channel' = Returned \/ channel'.command = channel.command
    <3>1. CASE CommandWithoutTarget
      BY <1>0, <3>1 DEF CommandWithoutTarget, Channels
    <3>2. CASE WaitForBackground
      BY <1>0, <3>2 DEF WaitForBackground, Channels
    <3>3. CASE CannotEnqueueCommand
      BY <1>0, <3>3 DEF CannotEnqueueCommand, Channels
    <3>4. QED
      BY <1>2, <3>1, <3>2, <3>3
  <2>3. Returned.pc = "idle"
    BY <1>0 DEF Returned, Channels
  <2>4. QED
    BY <2>1, <2>2, <2>3
<1>3. CASE channel'.pc \in {"idle", "stop", "release", "start", "end", "syncEnd", "resize"}
  BY <1>3
<1>4. CASE channel' = Returned
  BY <1>0, <1>4 DEF Returned, Channels
<1>5. CASE EndOfFrame
  BY <1>0, <1>5 DEF EndOfFrame, Returned, Channels
<1>6. CASE ChannelIdle /\ channel' = Event
  BY <1>0, <1>6 DEF ChannelIdle, Event, Channels
<1>7. CASE DetachForBackground \/ ProcessAndClaim \/ TakeoverStopsPipeline \/ OnEndFrame
  <2>1. CASE DetachForBackground
    BY <1>0, <1>4, <2>1 DEF DetachForBackground, Channels
  <2>2. CASE ProcessAndClaim
    <3>1. channel' = Returned \/ channel'.pc \in {"stop", "release"}
      BY <1>0, <2>2, ProcessAndClaimFacts DEF Control, Channels
    <3>2. QED
      BY <1>3, <1>4, <3>1
  <2>3. CASE TakeoverStopsPipeline
    BY <1>0, <2>3 DEF TakeoverStopsPipeline, Channels
  <2>4. CASE OnEndFrame
    BY <1>0, <2>4 DEF OnEndFrame, Channels
  <2>5. QED
    BY <1>7, <2>1, <2>2, <2>3, <2>4
<1>8. CASE CannotEnqueueEndFrame \/ SetOutputInactive \/ DesktopResize
  <2>1. CASE CannotEnqueueEndFrame
    BY <1>0, <2>1 DEF CannotEnqueueEndFrame, Channels
  <2>2. CASE SetOutputInactive
    BY <1>0, <2>2 DEF SetOutputInactive, ChannelIdle, Event, Channels
  <2>3. CASE DesktopResize
    BY <1>0, <2>3 DEF DesktopResize, Event, Channels
  <2>4. QED
    BY <1>8, <2>1, <2>2, <2>3
<1>9. QED
  BY <1>1, <1>2, <1>4, <1>5, <1>6, <1>7, <1>8, OnGdiFrameFacts
     DEF ChannelNext, StartAfterDetach, EnqueueSurfaceCommand, ProcessWhileActive, WaitForSeed,
         TakeoverReleasesTarget, EndFrameWithoutTarget, EnqueueEndFrame, ProcessEndFrame,
         SetOutputActive, DesktopResized

\* A step that keeps the flags, with the same window and the same ui thread.
LEMMA FlagsControl ==
  ASSUME Control, FlagsKept, UNCHANGED <<target, ui>>
  PROVE  UiPhases' /\ ActiveIsOn' /\ PausedIsActive' /\ PausedUntilTold'
  BY DEF Control, FlagsKept, UiPhases, ActiveIsOn, PausedIsActive, PausedUntilTold

LEMMA ControlStep ==
  ASSUME Types, TasksAreGood, Control, [Next]_vars
  PROVE  Control'
<1>0. comp \in Comps /\ ui \in Uis /\ session \in Sessions /\ channel \in Channels
  BY DEF Types
<1>1. CASE ChannelNext
  <2>1. FlagsKept /\ UNCHANGED <<target, ui, session>> /\ session.pc = "up"
    BY <1>1, ChannelFlags
  <2>2. ChannelIsUp'
    BY <1>1, <2>1, ChannelCommands DEF Control, ChannelIsUp, FlagsKept
  <2>3. QED
    BY <2>1, <2>2, FlagsControl DEF Control
<1>2. CASE WorkerNext
  <2>1. FlagsKept /\ UNCHANGED <<target, ui, session, channel>>
    BY <1>2, WorkerFlags
  <2>2. ChannelIsUp'
    BY <2>1 DEF Control, ChannelIsUp, FlagsKept
  <2>3. QED
    BY <2>1, <2>2, FlagsControl DEF Control
<1>3. CASE UiNext
  <2>1. CASE OnXComponentSurfaceAvailable
    BY <2>1 DEF OnXComponentSurfaceAvailable, Control, ChannelIsUp, UiPhases, ActiveIsOn,
                PausedIsActive, PausedUntilTold
  <2>2. CASE OnXComponentSurfaceDestroyed
    <3>1. target'.window = 0
      BY <2>2 DEF OnXComponentSurfaceDestroyed, SurfaceGone, Types
    <3>2. ui' = [pc |-> "prewarm", gone |-> TRUE] /\ UNCHANGED <<comp, session, channel>>
      BY <2>2 DEF OnXComponentSurfaceDestroyed
    <3>3. QED
      BY <3>1, <3>2 DEF Control, ChannelIsUp, UiPhases, ActiveIsOn, PausedIsActive,
                        PausedUntilTold
  <2>3. CASE PrewarmIfReady
    <3>1. ui'.pc = "target" /\ ui'.gone = ui.gone
      BY <1>0, <2>3 DEF PrewarmIfReady, Uis
    <3>2. QED
      BY <2>3, <3>1 DEF PrewarmIfReady, outputVars, Control, ChannelIsUp, UiPhases, ActiveIsOn,
                        PausedIsActive, PausedUntilTold
  <2>4. CASE TargetChanged
    <3>1. UNCHANGED <<target, channel, session>>
      BY <2>4 DEF TargetChanged
    <3>2. CASE comp.enabled /\ comp.active /\ ui.gone
      <4>1. DetachOutputActive /\ ui' = [ui EXCEPT !.pc = "start"]
        BY <2>4, <3>2 DEF TargetChanged
      <4>2. QED
        BY <1>0, <3>1, <3>2, <4>1, DetachTypes
           DEF Uis, Control, ChannelIsUp, UiPhases, ActiveIsOn, PausedIsActive, PausedUntilTold
    <3>3. ASSUME ui' = IF ui.gone THEN [ui EXCEPT !.pc = "owner"] ELSE [ui EXCEPT !.pc = "idle"],
                 comp'.enabled = comp.enabled,
                 comp'.active => comp'.enabled /\ comp'.state \in {"active", "targetPaused"},
                 comp'.state = "targetPaused" => comp'.active /\ target.window = 0
          PROVE  Control'
      <4>1. ui'.gone = ui.gone /\ (ui'.pc \in {"start", "owner"} => ui.gone)
        BY <1>0, <3>3 DEF Uis
      <4>2. QED
        BY <3>1, <3>3, <4>1
           DEF Control, ChannelIsUp, UiPhases, ActiveIsOn, PausedIsActive, PausedUntilTold
    <3>4. CASE comp.enabled /\ ~(comp.active /\ ui.gone)
      <4>1. FlagsKept /\ (comp'.state = "targetPaused" => target.window = 0)
        BY <2>4, <3>4, RetargetFlags DEF TargetChanged
      <4>2. ui' = IF ui.gone THEN [ui EXCEPT !.pc = "owner"] ELSE [ui EXCEPT !.pc = "idle"]
        BY <2>4, <3>4 DEF TargetChanged
      <4>3. QED
        BY <3>3, <4>1, <4>2 DEF FlagsKept
    <3>5. CASE ~comp.enabled
      <4>0. UNCHANGED comp
        BY <2>4, <3>5 DEF TargetChanged
      <4>1. ui' = IF ui.gone THEN [ui EXCEPT !.pc = "owner"] ELSE [ui EXCEPT !.pc = "idle"]
        BY <2>4, <3>5 DEF TargetChanged
      <4>2. ~comp.active /\ comp.state # "targetPaused"
        BY <3>5 DEF Control, ActiveIsOn, PausedIsActive
      <4>3. QED
        BY <3>3, <4>0, <4>1, <4>2
    <3>6. QED
      BY <3>2, <3>4, <3>5
  <2>5. CASE StartAfterSurfaceDestroyed
    <3>1. ui.pc = "start" /\ ui'.pc = "owner" /\ ui'.gone = ui.gone
      BY <1>0, <2>5 DEF StartAfterSurfaceDestroyed, Uis
    <3>2. UNCHANGED <<target, comp, channel, session>>
      BY <2>5 DEF StartAfterSurfaceDestroyed
    <3>3. QED
      BY <3>1, <3>2 DEF Control, ChannelIsUp, UiPhases, ActiveIsOn, PausedIsActive,
                        PausedUntilTold
  <2>6. CASE SurfaceDestroyedResetsOwner
    <3>1. ui.pc = "owner" /\ ui' = [pc |-> "idle", gone |-> FALSE]
      BY <2>6 DEF SurfaceDestroyedResetsOwner
    <3>2. UNCHANGED <<target, comp, channel, session>>
      BY <2>6 DEF SurfaceDestroyedResetsOwner
    <3>3. QED
      BY <3>1, <3>2 DEF Control, ChannelIsUp, UiPhases, ActiveIsOn, PausedIsActive,
                        PausedUntilTold
  <2>7. QED
    BY <1>3, <2>1, <2>2, <2>3, <2>4, <2>5, <2>6 DEF UiNext
<1>4. CASE SessionNext
  <2>1. ASSUME UNCHANGED <<target, comp, ui>>, channel'.pc = "idle",
               session'.pc \in {"attach", "up"} => comp.enabled /\ session'.goal = "attach"
        PROVE  Control'
    BY <2>1 DEF Control, ChannelIsUp, UiPhases, ActiveIsOn, PausedIsActive, PausedUntilTold
  <2>2. CASE ConfigureAvc420SurfaceOutput \/ ConfigureStopsWorker \/ PostDisconnect
    <3>1. UNCHANGED <<target, comp, ui, channel>> /\ session.pc # "up"
          /\ session'.pc \in {"stop", "join", "away"}
      BY <1>0, <2>2 DEF ConfigureAvc420SurfaceOutput, ConfigureStopsWorker, PostDisconnect,
                        outputVars, Sessions
    <3>2. QED
      BY <2>1, <3>1 DEF Control, ChannelIsUp
  <2>3. CASE RestoreHooks
    <3>1. UNCHANGED <<target, comp, ui, channel>> /\ channel.pc = "idle" /\ session'.pc = "stop"
      BY <1>0, <2>3 DEF RestoreHooks, ChannelIdle, Sessions
    <3>2. QED
      BY <2>1, <3>1
  <2>4. CASE Configure
    <3>1. UNCHANGED <<target, ui, channel>> /\ session.pc = "join"
      BY <2>4 DEF Configure
    <3>2. session'.pc = session.goal /\ session'.goal = session.goal
      BY <1>0, <2>4 DEF Configure, Sessions
    <3>3. /\ comp'.enabled = (session.goal = "attach")
          /\ comp'.active = FALSE /\ comp'.state = "detached"
      BY <2>4 DEF Configure
    <3>4. session.goal \in {"attach", "down"}
      BY <1>0 DEF Sessions
    <3>5. channel.pc = "idle"
      BY <3>1 DEF Control, ChannelIsUp
    <3>6. ChannelIsUp'
      BY <3>1, <3>2, <3>3, <3>4, <3>5 DEF ChannelIsUp
    <3>7. QED
      BY <3>1, <3>3, <3>6
         DEF Control, UiPhases, ActiveIsOn, PausedIsActive, PausedUntilTold
  <2>5. CASE InstallHooks
    <3>1. UNCHANGED <<target, comp, ui>> /\ session.pc = "attach"
      BY <2>5 DEF InstallHooks
    <3>2. channel'.pc = channel.pc
      BY <1>0, <2>5 DEF InstallHooks, Channels
    <3>3. session'.goal = session.goal
      BY <1>0, <2>5 DEF InstallHooks, Sessions
    <3>4. QED
      BY <2>1, <3>1, <3>2, <3>3 DEF Control, ChannelIsUp
  <2>6. QED
    BY <1>4, <2>2, <2>3, <2>4, <2>5 DEF SessionNext
<1>5. CASE GdiPipelinePaints \/ UNCHANGED vars
  BY <1>5 DEF GdiPipelinePaints, GdiPaints, vars, outputVars, Control, ChannelIsUp, UiPhases,
              ActiveIsOn, PausedIsActive, PausedUntilTold
<1>6. QED
  BY <1>1, <1>2, <1>3, <1>4, <1>5 DEF Next
-----------------------------------------------------------------------------
(* The owner of the output.                                                *)

\* A step that leaves the owner and the activity of the compositor as they are.
LEMMA OwnershipKept ==
  ASSUME Ownership, owner' = owner, comp'.active = comp.active, Claiming' = Claiming,
         hist'.stolen = hist.stolen, hist'.revived = hist.revived,
         session'.pc \in {"attach", "up"} => session.pc \in {"attach", "up"},
         gdi'.bound => gdi.bound, StartIsDue'
  PROVE  Ownership'
  BY DEF Ownership, ClaimIsExclusive, OwnerIsActive, ActiveIsOwner, OwnerHasTheWindow

LEMMA DueKept ==
  ASSUME Ownership, owner' = owner, session'.pc = session.pc, hist'.stolen = hist.stolen,
         gdi' = gdi, channel.pc \in {"start", "resize"} => channel'.pc \in {"start", "resize"},
         ui.pc = "start" => ui'.pc = "start", \A w \in WorkerIds : Restarts(w) => Restarts(w)'
  PROVE  StartIsDue'
  BY DEF Ownership, StartIsDue, Due

\* Whoever starts the pipeline of the owner starts it if it is GDI's.
LEMMA Started ==
  ASSUME Types, StartRenderPipeline
  PROVE  gdi'.bound = gdi.bound /\ (owner = "gdi" => gdi'.running)
  BY DEF Types, Pipelines, StartRenderPipeline

\* A channel that neither claims the output nor owes a start, before and after.
Calm == {"idle", "command", "paused", "detach", "sync", "end", "syncEnd"}

LEMMA CalmStep ==
  ASSUME Ownership, channel.pc \in Calm, channel'.pc \in Calm, comp'.active = comp.active,
         UNCHANGED <<outputVars, ui, session>>,
         hist'.stolen = hist.stolen, hist'.revived = hist.revived, OthersWait
  PROVE  Ownership'
<1>1. Claiming' = Claiming
  BY DEF Claiming, Calm
<1>2. StartIsDue'
  BY DueKept DEF outputVars, OthersWait, Calm
<1>3. QED
  BY <1>1, <1>2, OwnershipKept DEF outputVars

\* Where the channel may go.
LEMMA ChannelPhases ==
  ASSUME Types
  PROVE  /\ Returned.pc = "idle"
         /\ EndOfFrame => channel'.pc = "idle"
         /\ MoreEvents => Event.pc = channel.pc
         /\ \A pc \in {"paused", "detach", "sync", "stop", "release", "start", "end", "syncEnd",
                       "resize"} :
              /\ [channel EXCEPT !.pc = pc].pc = pc
              /\ \A active \in BOOLEAN : [channel EXCEPT !.pc = pc, !.active = active].pc = pc
              /\ [Event EXCEPT !.pc = pc].pc = pc
<1>1. channel \in Channels
  BY DEF Types
<1>2. Returned.pc = "idle" /\ (MoreEvents => Event.pc = channel.pc)
  BY <1>1 DEF Returned, Event, Channels
<1>3. EndOfFrame => channel'.pc = "idle"
  BY <1>1, <1>2 DEF EndOfFrame, Returned, Channels
<1>4. QED
  BY <1>1, <1>2, <1>3 DEF Event, Channels

\* The activity of the compositor in the steps that leave it as it is.
LEMMA PausedActivity ==
  ASSUME Types, PauseOutput
  PROVE  comp'.active = comp.active
<1>1. comp \in Comps
  BY DEF Types
<1>2. QED
  BY <1>1, PauseFacts DEF Comps

LEMMA RetargetedActivity ==
  ASSUME Types, RetargetOutput
  PROVE  comp'.active = comp.active
<1>1. comp \in Comps
  BY DEF Types
<1>2. QED
  BY <1>1, RetargetFacts DEF Comps

\* The channel's steps that neither take the output nor give it back.
CalmNext ==
  \/ OnSurfaceCommand \/ CommandWithoutTarget \/ WaitForBackground
  \/ EnqueueSurfaceCommand \/ CannotEnqueueCommand \/ ProcessWhileActive \/ WaitForSeed
  \/ OnEndFrame \/ EndFrameWithoutTarget \/ EnqueueEndFrame \/ CannotEnqueueEndFrame
  \/ ProcessEndFrame \/ OnGdiFrame \/ SetOutputActive

LEMMA CalmPhases ==
  ASSUME Types, Control, CalmNext
  PROVE  channel.pc \in Calm /\ channel'.pc \in Calm /\ Claiming' = Claiming /\ ~Claiming
<1>0. channel \in Channels
  BY DEF Types
<1>1. CASE OnSurfaceCommand
  BY <1>0, <1>1 DEF OnSurfaceCommand, ChannelIdle, Channels, Calm, Claiming
<1>2. CASE CommandWithoutTarget
  <2>1. channel.pc = "command" /\ channel'.pc \in {"paused", "idle"}
    BY <1>0, <1>2, ChannelPhases DEF CommandWithoutTarget, Channels
  <2>2. QED
    BY <2>1 DEF Calm, Claiming
<1>3. CASE WaitForBackground
  BY <1>3, ChannelPhases DEF WaitForBackground, Deciding, Calm, Claiming
<1>4. CASE EnqueueSurfaceCommand
  BY <1>4, ChannelPhases DEF EnqueueSurfaceCommand, Deciding, Calm, Claiming
<1>5. CASE CannotEnqueueCommand
  BY <1>0, <1>5 DEF CannotEnqueueCommand, Deciding, Channels, Calm, Claiming
<1>6. CASE ProcessWhileActive \/ WaitForSeed
  <2>1. channel.pc = "sync" /\ channel' = Returned
    BY <1>6 DEF ProcessWhileActive, WaitForSeed
  <2>2. QED
    BY <2>1, ChannelPhases DEF Calm, Claiming
<1>7. CASE OnEndFrame
  BY <1>0, <1>7 DEF OnEndFrame, ChannelIdle, Channels, Calm, Claiming
<1>8. CASE EndFrameWithoutTarget \/ EnqueueEndFrame \/ ProcessEndFrame
  BY <1>8, ChannelPhases DEF EndFrameWithoutTarget, EnqueueEndFrame, ProcessEndFrame, Calm,
                             Claiming
<1>9. CASE CannotEnqueueEndFrame
  BY <1>0, <1>9 DEF CannotEnqueueEndFrame, Channels, Calm, Claiming
<1>10. CASE OnGdiFrame \/ SetOutputActive
  <2>1. channel.pc = "idle" /\ MoreEvents /\ channel' = Event
    BY <1>10 DEF OnGdiFrame, SetOutputActive, ChannelIdle
  <2>2. QED
    BY <2>1, ChannelPhases DEF Calm, Claiming
<1>11. QED
  BY <1>1, <1>2, <1>3, <1>4, <1>5, <1>6, <1>7, <1>8, <1>9, <1>10 DEF CalmNext

\* The output is made active without a claim, which is right only if it was active.
LEMMA ReactivatedOwnership ==
  ASSUME Types, Ownership, ~Claiming, ~Claiming', comp'.active, hist'.stolen = hist.stolen,
         hist.revived \/ ~comp.active => hist'.revived,
         UNCHANGED <<owner, gdi, session>>, StartIsDue'
  PROVE  Ownership'
  BY DEF Ownership, ClaimIsExclusive, OwnerIsActive, ActiveIsOwner, OwnerHasTheWindow

LEMMA CalmOwnershipStep ==
  ASSUME Types, Control, Ownership, CalmNext
  PROVE  Ownership'
<1>0. comp \in Comps /\ channel \in Channels /\ hist \in Hists
  BY DEF Types
<1>1. channel.pc \in Calm /\ channel'.pc \in Calm
  BY CalmPhases
<1>2. UNCHANGED threadVars => OthersWait
  BY ThreadsStay
<1>3. CASE OnSurfaceCommand
  <2>1. comp'.active = comp.active
    BY <1>0, <1>3 DEF OnSurfaceCommand, Comps
  <2>2. QED
    BY <1>1, <1>2, <1>3, <2>1, CalmStep DEF OnSurfaceCommand
<1>4. CASE CommandWithoutTarget \/ EndFrameWithoutTarget
  BY <1>1, <1>2, <1>4, CalmStep, PausedActivity DEF CommandWithoutTarget, EndFrameWithoutTarget
<1>5. CASE WaitForBackground \/ OnEndFrame
  BY <1>1, <1>2, <1>5, CalmStep DEF WaitForBackground, OnEndFrame
<1>6. CASE EnqueueSurfaceCommand
  <2>1. CommandTask(channel.command, channel.frame) \in Tasks
    BY <1>0 DEF CommandTask, PrewarmTask, Tasks, Channels, NoCommand
  <2>2. OthersWait
    BY <1>6, <2>1, EnqueueFacts DEF EnqueueSurfaceCommand
  <2>3. QED
    BY <1>1, <1>6, <2>2, CalmStep DEF EnqueueSurfaceCommand
<1>7. CASE EnqueueEndFrame
  <2>1. EndFrameTask(channel.frame, channel.matched) \in Tasks
    BY <1>0 DEF EndFrameTask, PrewarmTask, Tasks, Channels, NoCommand
  <2>2. OthersWait
    BY <1>7, <2>1, EnqueueFacts DEF EnqueueEndFrame
  <2>3. QED
    BY <1>1, <1>7, <2>2, CalmStep DEF EnqueueEndFrame
<1>8. CASE CannotEnqueueCommand \/ CannotEnqueueEndFrame
  <2>1. OthersWait
    BY <1>2, <1>8, CannotEnqueueFacts DEF CannotEnqueueCommand, CannotEnqueueEndFrame
  <2>2. QED
    BY <1>1, <1>8, <2>1, CalmStep DEF CannotEnqueueCommand, CannotEnqueueEndFrame
<1>9. CASE ProcessWhileActive
  <2>1. /\ comp' = [comp EXCEPT !.state = "active"]
        /\ UNCHANGED <<outputVars, threadVars, ui, session>>
        /\ \E m \in BOOLEAN : hist' = [hist EXCEPT !.mistaken = m]
    BY <1>9, ProcessWhileActiveFacts DEF Control
  <2>2. comp'.active = comp.active
    BY <1>0, <2>1 DEF Comps
  <2>3. hist'.stolen = hist.stolen /\ hist'.revived = hist.revived
    BY <1>0, <2>1 DEF Hists
  <2>4. QED
    BY <1>1, <1>2, <2>1, <2>2, <2>3, CalmStep
<1>10. CASE WaitForSeed
  BY <1>1, <1>2, <1>10, WaitForSeedFacts, CalmStep DEF Control
<1>11. CASE ProcessEndFrame
  BY <1>1, <1>2, <1>11, ProcessEndFrameFacts, CalmStep
<1>12. CASE OnGdiFrame
  <2>1. comp'.active = comp.active
    BY <1>0, <1>12, OnGdiFrameFacts DEF Comps
  <2>2. hist'.stolen = hist.stolen /\ hist'.revived = hist.revived
    BY <1>0, <1>12, OnGdiFrameFacts DEF Hists
  <2>3. QED
    BY <1>1, <1>2, <1>12, <2>1, <2>2, OnGdiFrameFacts, CalmStep
<1>13. CASE SetOutputActive
  <2>1. comp'.active
    BY <1>0, <1>13 DEF SetOutputActive, Comps
  <2>2. /\ hist'.stolen = hist.stolen
        /\ hist.revived \/ ~comp.active => hist'.revived
    BY <1>13, ActiveHist DEF SetOutputActive
  <2>3. UNCHANGED <<outputVars, ui, session>> /\ OthersWait
    BY <1>2, <1>13 DEF SetOutputActive
  <2>4. StartIsDue'
    BY <1>1, <2>2, <2>3, DueKept DEF outputVars, OthersWait, Calm
  <2>5. QED
    BY <2>1, <2>2, <2>3, <2>4, CalmPhases, ReactivatedOwnership DEF outputVars
<1>14. QED
  BY <1>3, <1>4, <1>5, <1>6, <1>7, <1>8, <1>9, <1>10, <1>11, <1>12, <1>13 DEF CalmNext

\* The channel's steps that take the output, give it back or stop GDI's pipeline.
LEMMA ChannelOwnershipStep ==
  ASSUME Types, Control, Ownership, ChannelNext
  PROVE  Ownership'
<1>0. comp \in Comps /\ channel \in Channels /\ hist \in Hists /\ gdi \in Pipelines
  BY DEF Types
<1>1. session' = session /\ ui' = ui
  BY ChannelFlags
<1>2. CASE DetachForBackground
  <2>1. channel.pc = "detach"
    BY <1>2 DEF DetachForBackground
  <2>2. CASE comp.active
    <3>0. DetachOutputActive /\ channel' = [channel EXCEPT !.pc = "start"]
      BY <1>2, <2>2 DEF DetachForBackground
    <3>1. owner' = "gdi" /\ ~comp'.active /\ channel'.pc = "start"
      BY <1>0, <3>0, DetachTypes DEF Channels
    <3>2. QED
      BY <3>1 DEF Ownership, ClaimIsExclusive, Claiming, OwnerIsActive, ActiveIsOwner,
                  OwnerHasTheWindow, StartIsDue, Due
  <2>3. CASE ~comp.active
    <3>1. channel'.pc = "idle" /\ UNCHANGED <<outputVars, threadVars, comp, hist>>
      BY <1>2, <2>3, ChannelPhases DEF DetachForBackground, outputVars, threadVars
    <3>2. QED
      BY <1>1, <2>1, <3>1, ThreadsStay, CalmStep DEF Calm
  <2>4. QED
    BY <2>2, <2>3
<1>3. CASE StartAfterDetach
  <2>1. channel.pc = "start" /\ channel'.pc = "idle" /\ UNCHANGED <<owner, comp, hist>>
    BY <1>3, ChannelPhases DEF StartAfterDetach
  <2>2. gdi'.bound = gdi.bound /\ (owner = "gdi" => gdi'.running)
    BY <1>3, Started DEF StartAfterDetach
  <2>3. StartIsDue'
    BY <2>1, <2>2 DEF StartIsDue, Due
  <2>4. Claiming' = Claiming
    BY <2>1 DEF Claiming
  <2>5. QED
    BY <1>1, <2>1, <2>2, <2>3, <2>4, OwnershipKept
<1>4. CASE ProcessAndClaim
  <2>1. /\ channel.pc = "sync" /\ ~comp.active
        /\ comp' = [comp EXCEPT !.seed = channel.command.size]
        /\ UNCHANGED <<gdi, target, threadVars, shown, ui, session>>
    BY <1>4, ProcessAndClaimFacts DEF Control
  <2>2. ~comp'.active /\ comp'.active = comp.active
    BY <1>0, <2>1 DEF Comps
  <2>3. CASE owner' = "avc420" /\ channel'.pc \in {"release", "stop"}
    BY <2>2, <2>3 DEF Ownership, ClaimIsExclusive, Claiming, OwnerIsActive, ActiveIsOwner,
                      OwnerHasTheWindow, StartIsDue
  <2>4. CASE channel' = Returned /\ UNCHANGED <<owner, hist>>
    BY <2>1, <2>2, <2>4, ThreadsStay, CalmStep, ChannelPhases DEF Calm, outputVars
  <2>5. QED
    <3>1. \/ /\ owner' = "avc420"
             /\ channel' = [channel EXCEPT !.pc = IF owner = "avc420" THEN "release" ELSE "stop"]
          \/ channel' = Returned /\ UNCHANGED <<owner, hist>>
      BY <1>4, ProcessAndClaimFacts DEF Control
    <3>2. CASE owner' = "avc420"
               /\ channel' = [channel EXCEPT !.pc = IF owner = "avc420" THEN "release" ELSE "stop"]
      BY <2>3, <3>2, ChannelPhases
    <3>3. QED
      BY <2>4, <3>1, <3>2
<1>5. CASE TakeoverStopsPipeline
  <2>1. channel.pc = "stop" /\ channel'.pc = "release" /\ UNCHANGED <<owner, comp, hist>>
    BY <1>5, ChannelPhases DEF TakeoverStopsPipeline
  <2>2. owner = "avc420" \/ hist.stolen
    BY <2>1 DEF Ownership, ClaimIsExclusive, Claiming
  <2>3. StartIsDue'
    BY <2>1, <2>2 DEF StartIsDue
  <2>4. gdi'.bound = gdi.bound
    BY <1>0, <1>5 DEF TakeoverStopsPipeline, StopRenderPipeline, Pipelines
  <2>5. Claiming' = Claiming
    BY <2>1 DEF Claiming
  <2>6. QED
    BY <1>1, <2>1, <2>3, <2>4, <2>5, OwnershipKept
<1>6. CASE TakeoverReleasesTarget
  <2>1. /\ channel.pc = "release" /\ channel'.pc = "idle" /\ UNCHANGED <<owner, hist>>
        /\ comp' = [comp EXCEPT !.active = TRUE, !.state = "active"]
        /\ gdi' = [gdi EXCEPT !.bound = FALSE]
    BY <1>6, ChannelPhases DEF TakeoverReleasesTarget, ReleaseSurfaceRenderTarget
  <2>2. owner \in {"gdi", "avc420"} /\ (owner = "avc420" \/ hist.stolen)
    BY <2>1 DEF Ownership, ClaimIsExclusive, OwnerIsActive, Claiming, Types, Owners
  <2>3. comp'.active /\ ~gdi'.bound
    BY <1>0, <2>1 DEF Comps, Pipelines
  <2>4. QED
    BY <2>1, <2>2, <2>3 DEF Ownership, ClaimIsExclusive, Claiming, OwnerIsActive, ActiveIsOwner,
                            OwnerHasTheWindow, StartIsDue
<1>7. CASE SetOutputInactive
  <2>1. /\ owner' = "gdi"
        /\ comp' = [comp EXCEPT !.active = FALSE, !.state = "detached", !.seed = 0]
        /\ UNCHANGED <<gdi, workers, hist>> /\ channel.pc = "idle"
    BY <1>7 DEF SetOutputInactive, TransitionRenderOutputOwner, ChannelIdle
  <2>2. ~comp'.active
    BY <1>0, <2>1 DEF Comps
  <2>3. channel'.pc = IF owner = "avc420" THEN "start" ELSE "idle"
    BY <1>7, <2>1, ChannelPhases DEF SetOutputInactive
  <2>4. StartIsDue'
    <3>1. CASE owner = "avc420"
      BY <2>3, <3>1 DEF StartIsDue, Due
    <3>2. CASE owner = "gdi"
      BY <1>1, <2>1, <2>3, <3>2 DEF Ownership, StartIsDue, Due, Restarts
    <3>3. QED
      BY <3>1, <3>2 DEF Types, Owners, Ownership, OwnerIsActive
  <2>5. QED
    BY <2>1, <2>2, <2>3, <2>4 DEF Ownership, ClaimIsExclusive, Claiming, OwnerIsActive,
                                  ActiveIsOwner, OwnerHasTheWindow
<1>8. CASE DesktopResize
  <2>1. channel.pc = "idle" /\ channel'.pc = "resize" /\ UNCHANGED <<owner, comp, hist>>
    BY <1>8, ChannelPhases DEF DesktopResize, ChannelIdle
  <2>2. gdi'.bound = gdi.bound
    BY <1>0, <1>8 DEF DesktopResize, StopRenderPipeline, Pipelines
  <2>3. StartIsDue' /\ Claiming' = Claiming
    BY <2>1 DEF StartIsDue, Due, Claiming
  <2>4. QED
    BY <1>1, <2>1, <2>2, <2>3, OwnershipKept
<1>9. CASE DesktopResized
  <2>1. channel.pc = "resize" /\ channel'.pc = "idle" /\ UNCHANGED <<owner, hist>>
    BY <1>9, ChannelPhases DEF DesktopResized
  <2>2. Claiming' = Claiming
    BY <2>1 DEF Claiming
  <2>3. CASE owner = "avc420"
    <3>1. comp'.active = comp.active /\ UNCHANGED gdi
      BY <1>9, <2>3, RetargetedActivity DEF DesktopResized
    <3>2. StartIsDue'
      BY <2>1, <2>3 DEF StartIsDue
    <3>3. QED
      BY <1>1, <2>1, <2>2, <3>1, <3>2, OwnershipKept
  <2>4. CASE owner # "avc420"
    <3>1. UNCHANGED comp /\ gdi'.bound = gdi.bound /\ (owner = "gdi" => gdi'.running)
      BY <1>9, <2>4, Started DEF DesktopResized
    <3>2. StartIsDue'
      BY <2>1, <3>1 DEF StartIsDue, Due
    <3>3. QED
      BY <1>1, <2>1, <2>2, <3>1, <3>2, OwnershipKept
  <2>5. QED
    BY <2>3, <2>4
<1>10. QED
  BY <1>2, <1>3, <1>4, <1>5, <1>6, <1>7, <1>8, <1>9, CalmOwnershipStep
     DEF ChannelNext, CalmNext

LEMMA WorkerOwnershipStep ==
  ASSUME Types, TasksAreGood, Control, Ownership, WorkerNext
  PROVE  Ownership'
<1>0. comp \in Comps /\ hist \in Hists /\ workers \in Threads
  BY DEF Types
<1>1. UNCHANGED <<target, ui, session, channel>>
  BY WorkerFlags
<1>2. Claiming' = Claiming
  BY <1>1 DEF Claiming
<1>3. ASSUME UNCHANGED <<owner, comp, gdi, hist>>, \A v \in WorkerIds : Restarts(v) => Restarts(v)'
      PROVE  Ownership'
  BY <1>1, <1>2, <1>3, DueKept, OwnershipKept
<1>4. ASSUME NEW w \in WorkerIds, WorkerTakes(w)
      PROVE  Ownership'
  BY <1>3, <1>4, WorkerTakesFacts DEF WorkerTakes, outputVars
<1>5. ASSUME NEW w \in WorkerIds, WorkerLeaves(w)
      PROVE  Ownership'
  <2>1. \A v \in WorkerIds : Restarts(v) => Restarts(v)'
    BY <1>0, <1>5 DEF WorkerLeaves, Restarts, Threads
  <2>2. QED
    BY <1>3, <1>5, <2>1 DEF WorkerLeaves, outputVars
<1>6. ASSUME NEW w \in WorkerIds, ClearStaleWork(w)
      PROVE  Ownership'
  <2>1. \A v \in WorkerIds : Restarts(v) => Restarts(v)'
    BY <1>0, <1>6 DEF ClearStaleWork, Restarts, Threads
  <2>2. QED
    BY <1>3, <1>6, <2>1 DEF ClearStaleWork, outputVars
<1>7. ASSUME NEW w \in WorkerIds, RestartPipeline(w)
      PROVE  Ownership'
  <2>1. gdi'.bound = gdi.bound /\ (owner = "gdi" => gdi'.running)
    BY <1>7, Started DEF RestartPipeline
  <2>2. UNCHANGED <<owner, comp, hist>>
    BY <1>7 DEF RestartPipeline
  <2>3. StartIsDue'
    BY <2>1, <2>2 DEF StartIsDue, Due
  <2>4. QED
    BY <1>1, <1>2, <2>1, <2>2, <2>3, OwnershipKept
<1>8. ASSUME NEW w \in WorkerIds, ProcessWorkerTask(w)
      PROVE  Ownership'
  <2>0. Holds(w) /\ ~Claiming /\ GoodTask(workers[w].task) /\ UNCHANGED gdi
    BY <1>8, ProcessWorkerTaskFacts
  <2>1. workers' = [workers EXCEPT ![w] = [pc |-> "waiting", task |-> NoTask]]
          => \A v \in WorkerIds : Restarts(v) => Restarts(v)'
    BY <1>0, <2>0 DEF Holds, Restarts, Threads
  <2>2. CASE UNCHANGED <<owner, comp, gpu, shown, hist>>
             /\ workers' = [workers EXCEPT ![w] = [pc |-> "waiting", task |-> NoTask]]
    BY <1>3, <2>0, <2>1, <2>2
  <2>3. CASE ProcessPrewarm(w)
    <3>1. comp'.active = comp.active
      BY <1>0, <2>3, ProcessPrewarmFacts DEF Comps
    <3>2. UNCHANGED <<owner, hist>> /\ \A v \in WorkerIds : Restarts(v) => Restarts(v)'
      BY <2>1, <2>3, ProcessPrewarmFacts
    <3>3. QED
      BY <1>1, <1>2, <2>0, <3>1, <3>2, DueKept, OwnershipKept
  <2>4. CASE ProcessQueuedEndFrame(w)
    <3>1. comp'.active
      BY <1>0, <2>4, ProcessQueuedEndFrameFacts DEF Comps
    <3>2. hist'.stolen = hist.stolen /\ (hist.revived \/ ~comp.active => hist'.revived)
      BY <2>4, ProcessQueuedEndFrameFacts, ActiveHist
    <3>3. UNCHANGED owner /\ \A v \in WorkerIds : Restarts(v) => Restarts(v)'
      BY <2>1, <2>4, ProcessQueuedEndFrameFacts
    <3>4. StartIsDue'
      BY <1>1, <2>0, <3>2, <3>3, DueKept
    <3>5. QED
      BY <1>1, <1>2, <2>0, <3>1, <3>2, <3>3, <3>4, ReactivatedOwnership
  <2>5. CASE workers[w].task.type = "command" /\ ProcessQueuedCommand(w)
    <3> DEFINE c == workers[w].task.command
    <3>1. CASE /\ owner' = "gdi" /\ comp' = [comp EXCEPT !.active = FALSE, !.state = "failed"]
               /\ workers' = [workers EXCEPT ![w] = [pc |-> "clear", task |-> NoTask]]
               /\ UNCHANGED hist
      <4>1. ~comp'.active
        BY <1>0, <3>1 DEF Comps
      <4>2. Restarts(w)'
        BY <1>0, <3>1 DEF Restarts, Threads
      <4>3. QED
        BY <1>1, <2>0, <3>1, <4>1, <4>2
           DEF Ownership, ClaimIsExclusive, Claiming, OwnerIsActive, ActiveIsOwner,
               OwnerHasTheWindow, StartIsDue, Due
    <3>2. CASE /\ comp' = [Reactivated EXCEPT !.seed = IF c.full THEN c.size ELSE @]
               /\ hist' = [hist EXCEPT !.revived = @ \/ ~comp.active,
                                       !.mistaken = @ \/ IF c.full THEN gpu'.pending = 0
                                           ELSE ~comp.active \/ c.size # comp.seed]
               /\ workers' = [workers EXCEPT ![w] = [pc |-> "waiting", task |-> NoTask]]
               /\ UNCHANGED owner
      <4>1. comp'.active
        BY <1>0, <3>2 DEF Reactivated, Comps
      <4>2. hist'.stolen = hist.stolen /\ (hist.revived \/ ~comp.active => hist'.revived)
        BY <1>0, <3>2 DEF Hists
      <4>3. StartIsDue'
        BY <1>1, <2>0, <2>1, <3>2, <4>2, DueKept
      <4>4. QED
        BY <1>1, <1>2, <2>0, <3>2, <4>1, <4>2, <4>3, ReactivatedOwnership
    <3>3. QED
      BY <2>0, <2>5, <3>1, <3>2, ProcessQueuedCommandFacts
  <2>6. QED
    BY <1>8, <2>2, <2>3, <2>4, <2>5, ProcessWorkerTaskFacts
<1>9. QED
  BY <1>4, <1>5, <1>6, <1>7, <1>8 DEF WorkerNext

LEMMA UiOwnershipStep ==
  ASSUME Types, Control, Ownership, UiNext
  PROVE  Ownership'
<1>0. /\ comp \in Comps /\ hist \in Hists /\ workers \in Threads /\ gdi \in Pipelines
      /\ ui \in Uis
  BY DEF Types
<1>1. UNCHANGED <<session, channel>>
  BY DEF UiNext, OnXComponentSurfaceAvailable, OnXComponentSurfaceDestroyed, PrewarmIfReady,
         TargetChanged, StartAfterSurfaceDestroyed, SurfaceDestroyedResetsOwner
<1>2. Claiming' = Claiming
  BY <1>1 DEF Claiming
<1>3. CASE OnXComponentSurfaceAvailable \/ OnXComponentSurfaceDestroyed
  <2>1. /\ UNCHANGED <<owner, comp, threadVars, hist>> /\ ui.pc = "idle"
        /\ gdi' = [gdi EXCEPT !.bound = FALSE]
    BY <1>3 DEF OnXComponentSurfaceAvailable, OnXComponentSurfaceDestroyed, SurfaceAvailable,
                SurfaceGone
  <2>2. ~gdi'.bound /\ gdi'.running = gdi.running
    BY <1>0, <2>1 DEF Pipelines
  <2>3. StartIsDue'
    BY <1>1, <2>1, <2>2 DEF Ownership, StartIsDue, Due, threadVars, Restarts
  <2>4. QED
    BY <1>1, <1>2, <2>1, <2>2, <2>3, OwnershipKept
<1>4. CASE PrewarmIfReady
  <2>1. OthersWait
    BY <1>4, EnqueuePrewarmFacts, ThreadsStay DEF PrewarmIfReady
  <2>2. UNCHANGED <<owner, gdi, comp, hist>> /\ ui.pc = "prewarm"
    BY <1>4 DEF PrewarmIfReady, outputVars
  <2>3. StartIsDue'
    BY <1>1, <2>1, <2>2, DueKept DEF OthersWait
  <2>4. QED
    BY <1>1, <1>2, <2>2, <2>3, OwnershipKept
<1>5. CASE TargetChanged
  <2>1. ~Claiming /\ UNCHANGED <<gdi, workers, hist>> /\ ui.pc = "target"
    BY <1>5 DEF TargetChanged, Unlocked, Claiming
  <2>2. CASE comp.enabled /\ comp.active /\ ui.gone
    <3>1. DetachOutputActive /\ ui' = [ui EXCEPT !.pc = "start"]
      BY <1>5, <2>2 DEF TargetChanged
    <3>2. owner' = "gdi" /\ ~comp'.active
      BY <3>1, DetachTypes
    <3>3. ui'.pc = "start"
      BY <1>0, <3>1 DEF Uis
    <3>4. QED
      BY <1>2, <2>1, <3>2, <3>3 DEF Ownership, ClaimIsExclusive, OwnerIsActive, ActiveIsOwner,
                                    OwnerHasTheWindow, StartIsDue, Due
  <2>3. CASE ~(comp.enabled /\ comp.active /\ ui.gone)
    <3>1. UNCHANGED owner /\ (RetargetOutput \/ UNCHANGED comp)
      BY <1>5, <2>3 DEF TargetChanged
    <3>2. comp'.active = comp.active
      BY <3>1, RetargetedActivity
    <3>3. StartIsDue'
      BY <1>1, <2>1, <3>1, DueKept DEF Restarts
    <3>4. QED
      BY <1>1, <1>2, <2>1, <3>1, <3>2, <3>3, OwnershipKept
  <2>4. QED
    BY <2>2, <2>3
<1>6. CASE StartAfterSurfaceDestroyed
  <2>1. gdi'.bound = gdi.bound /\ (owner = "gdi" => gdi'.running)
    BY <1>6, Started DEF StartAfterSurfaceDestroyed
  <2>2. UNCHANGED <<owner, comp, hist>>
    BY <1>6 DEF StartAfterSurfaceDestroyed
  <2>3. StartIsDue'
    BY <2>1, <2>2 DEF StartIsDue, Due
  <2>4. QED
    BY <1>1, <1>2, <2>1, <2>2, <2>3, OwnershipKept
<1>7. CASE SurfaceDestroyedResetsOwner
  <2>1. /\ owner' = "gdi" /\ UNCHANGED <<gdi, comp, workers>> /\ ui.pc = "owner"
        /\ hist' = [hist EXCEPT !.stolen = @ \/ owner = "avc420"]
    BY <1>7 DEF SurfaceDestroyedResetsOwner, TransitionRenderOutputOwner, threadVars
  <2>2. /\ hist'.revived = hist.revived
        /\ hist'.stolen <=> hist.stolen \/ owner = "avc420"
    BY <1>0, <2>1 DEF Hists
  <2>3. owner \in {"gdi", "avc420"}
    BY DEF Types, Owners, Ownership, OwnerIsActive
  <2>4. StartIsDue'
    BY <1>1, <2>1, <2>2, <2>3 DEF Ownership, StartIsDue, Due, Restarts
  <2>5. QED
    BY <1>1, <1>2, <2>1, <2>2, <2>3, <2>4
       DEF Ownership, ClaimIsExclusive, OwnerIsActive, ActiveIsOwner, OwnerHasTheWindow
<1>8. QED
  BY <1>3, <1>4, <1>5, <1>6, <1>7 DEF UiNext

LEMMA SessionOwnershipStep ==
  ASSUME Types, Control, Ownership, SessionNext
  PROVE  Ownership'
<1>0. session \in Sessions /\ gdi \in Pipelines /\ channel \in Channels
  BY DEF Types
<1>1. CASE ConfigureAvc420SurfaceOutput \/ ConfigureStopsWorker \/ PostDisconnect
  <2>1. UNCHANGED <<owner, comp, hist, channel>> /\ session'.pc \in {"stop", "join", "away"}
    BY <1>0, <1>1 DEF ConfigureAvc420SurfaceOutput, ConfigureStopsWorker, PostDisconnect,
                      outputVars, Sessions
  <2>2. gdi'.bound = gdi.bound
    BY <1>0, <1>1 DEF ConfigureAvc420SurfaceOutput, ConfigureStopsWorker, PostDisconnect,
                      outputVars, StopRenderPipeline, Pipelines
  <2>3. StartIsDue' /\ Claiming' = Claiming
    BY <2>1 DEF StartIsDue, Claiming
  <2>4. QED
    BY <2>1, <2>2, <2>3, OwnershipKept
<1>2. CASE RestoreHooks
  <2>1. /\ owner' = "gdi" /\ UNCHANGED <<comp, hist, channel, gdi>> /\ channel.pc = "idle"
        /\ session'.pc = "stop"
    BY <1>0, <1>2 DEF RestoreHooks, TransitionRenderOutputOwner, ChannelIdle, Sessions
  <2>2. QED
    BY <2>1 DEF Ownership, ClaimIsExclusive, Claiming, OwnerIsActive, ActiveIsOwner,
                OwnerHasTheWindow, StartIsDue
<1>3. CASE Configure
  <2>1. /\ owner' = (IF owner = "avc420" THEN "gdi" ELSE owner) /\ ~comp'.active
        /\ session.pc = "join" /\ UNCHANGED channel
    BY <1>3 DEF Configure
  <2>2. session'.pc \in {"attach", "down"} /\ channel'.pc = "idle"
    BY <1>0, <1>3, <2>1 DEF Configure, Sessions, Control, ChannelIsUp
  <2>3. owner' # "avc420" /\ owner' # "avc444"
    BY <2>1 DEF Ownership, OwnerIsActive
  <2>4. QED
    BY <2>1, <2>2, <2>3 DEF Ownership, ClaimIsExclusive, Claiming, OwnerIsActive,
                            ActiveIsOwner, OwnerHasTheWindow, StartIsDue
<1>4. CASE InstallHooks
  <2>1. UNCHANGED <<owner, comp, hist>> /\ session.pc = "attach"
    BY <1>4 DEF InstallHooks
  <2>2. channel'.pc = channel.pc
    BY <1>0, <1>4 DEF InstallHooks, Channels
  <2>3. gdi'.bound = gdi.bound /\ (owner = "gdi" => gdi'.running)
    BY <1>4, Started DEF InstallHooks
  <2>4. StartIsDue' /\ Claiming' = Claiming
    BY <2>1, <2>2, <2>3 DEF StartIsDue, Due, Claiming
  <2>5. QED
    BY <2>1, <2>3, <2>4, OwnershipKept
<1>5. QED
  BY <1>1, <1>2, <1>3, <1>4 DEF SessionNext

LEMMA OwnershipStep ==
  ASSUME Types, TasksAreGood, Control, Ownership, [Next]_vars
  PROVE  Ownership'
<1>1. CASE GdiPipelinePaints
  <2>1. /\ owner = "gdi" /\ gdi' = [gdi EXCEPT !.bound = TRUE]
        /\ UNCHANGED <<owner, comp, workers, channel, ui, session, hist>>
    BY <1>1 DEF GdiPipelinePaints, GdiPaints, threadVars
  <2>2. gdi'.running = gdi.running
    BY <2>1 DEF Types, Pipelines
  <2>3. QED
    BY <2>1, <2>2 DEF Ownership, ClaimIsExclusive, Claiming, OwnerIsActive, ActiveIsOwner,
                      OwnerHasTheWindow, StartIsDue, Due, Restarts
<1>2. CASE UNCHANGED vars
  <2>1. UNCHANGED <<owner, gdi, comp, workers, channel, ui, session, hist>>
    BY <1>2 DEF vars, outputVars, threadVars
  <2>2. QED
    BY <2>1 DEF Ownership, ClaimIsExclusive, Claiming, OwnerIsActive, ActiveIsOwner,
                OwnerHasTheWindow, StartIsDue, Due, Restarts
<1>3. QED
  BY <1>1, <1>2, ChannelOwnershipStep, WorkerOwnershipStep, UiOwnershipStep,
     SessionOwnershipStep DEF Next
-----------------------------------------------------------------------------
(* The composite and the window.                                           *)

\* A step that paints nothing: the composite stays, the window may get it.
LEMMA NothingPainted ==
  ASSUME Types, Painting, PictureKept, comp'.active = comp.active,
         comp'.seed \in {comp.seed, 0}, Claiming' = Claiming,
         hist'.mistaken = hist.mistaken,
         ~comp.active => shown' = shown
  PROVE  Painting'
<1>1. BackgroundIsWhole'
  BY DEF Painting, BackgroundIsWhole, PictureKept, Keeps, SamePicture, Whole
<1>2. NoHoles'
  BY DEF Painting, NoHoles, PictureKept, Keeps, SamePicture
<1>3. InactiveIsDark'
  BY DEF Painting, InactiveIsDark, PictureKept, Keeps
<1>4. QED
  BY <1>1, <1>2, <1>3 DEF Painting

\* A step that gives the output up.
LEMMA GivenUp ==
  ASSUME gpu' = Destroy, shown' = "no", ~comp'.active, ~Claiming'
  PROVE  Painting'
  BY DestroyFacts DEF Painting, BackgroundIsWhole, NoHoles, InactiveIsDark

\* What is painted is excused, or goes onto a background that is whole.
LEMMA Repainted ==
  ASSUME Painting, comp'.active, shown' \in {shown, gpu'.picture},
         ~hist'.mistaken => ~hist.mistaken /\ (comp'.seed # 0 => Whole(gpu', comp'.seed)),
         ~hist'.mistaken /\ gpu'.picture = "holes" => gpu.picture = "holes"
  PROVE  Painting'
  BY DEF Painting, BackgroundIsWhole, NoHoles, InactiveIsDark

\* What the calm steps of the channel paint and show.
LEMMA CalmPaintingStep ==
  ASSUME Types, Control, Painting, CalmNext
  PROVE  Painting'
<1>0. comp \in Comps /\ hist \in Hists /\ 0 \notin Sizes
  BY DEF Types
<1>1. Claiming' = Claiming /\ ~Claiming
  BY CalmPhases
<1>2. CASE OnSurfaceCommand
  <2>1. PICK c \in Commands : comp' = [comp EXCEPT !.seed = IF c.full \/ @ = c.size THEN @ ELSE 0]
    BY <1>2 DEF OnSurfaceCommand
  <2>2. comp'.active = comp.active /\ comp'.seed \in {comp.seed, 0}
    BY <1>0, <2>1 DEF Comps
  <2>3. UNCHANGED <<gpu, shown, hist>>
    BY <1>2 DEF OnSurfaceCommand
  <2>4. QED
    BY <1>1, <2>2, <2>3, NothingPresented, NothingPainted
<1>3. CASE SetOutputActive
  <2>1. comp'.active /\ comp'.seed = comp.seed
    BY <1>0, <1>3 DEF SetOutputActive, Comps
  <2>2. UNCHANGED <<gpu, shown>>
    BY <1>3 DEF SetOutputActive
  <2>3. ~hist'.mistaken => ~hist.mistaken /\ (comp.active \/ comp.seed = 0)
    BY <1>3, ActiveHist DEF SetOutputActive
  <2>4. QED
    BY <2>1, <2>2, <2>3, Repainted DEF Painting, BackgroundIsWhole
<1>4. CASE CommandWithoutTarget \/ EndFrameWithoutTarget
  <2>1. PauseOutput /\ UNCHANGED hist
    BY <1>4 DEF CommandWithoutTarget, EndFrameWithoutTarget
  <2>2. comp'.active = comp.active /\ comp'.seed = comp.seed
    BY <1>0, <2>1, PauseFacts DEF Comps
  <2>3. QED
    BY <1>1, <2>1, <2>2, PauseFacts, NothingPainted
<1>5. CASE UNCHANGED <<comp, gpu, shown, hist>>
  BY <1>1, <1>5, NothingPresented, NothingPainted
<1>6. CASE ProcessWhileActive
  <2>1. comp.active /\ comp' = [comp EXCEPT !.state = "active"] /\ shown' = shown
    BY <1>6, ProcessWhileActiveFacts DEF Control
  <2>2. comp'.active /\ comp'.seed = comp.seed
    BY <1>0, <2>1 DEF Comps
  <2>3. PICK m \in BOOLEAN :
          /\ hist' = [hist EXCEPT !.mistaken = m] /\ (hist.mistaken => m)
          /\ ~m => comp.seed \in Sizes
          /\ ~m /\ Whole(gpu, comp.seed) =>
               /\ Whole(gpu', comp.seed)
               /\ gpu'.picture = "holes" => gpu.picture = "holes"
    BY <1>6, ProcessWhileActiveFacts DEF Control
  <2>4. hist'.mistaken = m
    BY <1>0, <2>3 DEF Hists
  <2>5. ~hist'.mistaken => ~m /\ ~hist.mistaken
    BY <2>3, <2>4
  <2>6. ~hist'.mistaken => Whole(gpu, comp.seed)
    BY <1>0, <2>1, <2>3, <2>5 DEF Painting, BackgroundIsWhole
  <2>7. QED
    BY <2>1, <2>2, <2>3, <2>5, <2>6, Repainted
<1>7. CASE WaitForSeed
  <2>1. /\ ~comp.active /\ gpu'.pending = gpu.pending
        /\ gpu'.picture = "holes" => gpu.picture = "holes"
        /\ UNCHANGED <<comp, shown, hist>>
    BY <1>7, WaitForSeedFacts DEF Control
  <2>2. QED
    BY <1>1, <2>1 DEF Painting, BackgroundIsWhole, NoHoles, InactiveIsDark
<1>8. CASE ProcessEndFrame
  <2>1. /\ PictureKept /\ (~comp.active /\ gpu.pending = 0 => shown' = shown)
        /\ UNCHANGED <<comp, hist>>
    BY <1>8, ProcessEndFrameFacts
  <2>2. ~comp.active => shown' = shown
    BY <1>1, <2>1 DEF Painting, InactiveIsDark
  <2>3. QED
    BY <1>1, <2>1, <2>2, NothingPainted
<1>9. CASE OnGdiFrame
  <2>1. comp.active
    BY <1>9, OnGdiFrameFacts
  <2>2. CASE comp' = [comp EXCEPT !.seed = 0] /\ UNCHANGED <<gpu, shown, hist>>
    <3>1. comp'.active = comp.active /\ comp'.seed = 0
      BY <1>0, <2>2 DEF Comps
    <3>2. QED
      BY <1>1, <2>2, <3>1, NothingPresented, NothingPainted
  <2>3. ASSUME NEW size \in Sizes, NEW full \in BOOLEAN,
               comp.seed = size \/ full, Whole(gpu, size) => Whole(gpu', size),
               (full \/ Whole(gpu, size)) /\ gpu'.picture = "holes" => gpu.picture = "holes",
               shown' \in {shown, gpu'.picture},
               \/ /\ comp' = [comp EXCEPT !.seed = size] /\ UNCHANGED hist
                  /\ full => Whole(gpu', size)
               \/ /\ UNCHANGED comp
                  /\ hist' = [hist EXCEPT !.mistaken = @ \/ comp.seed # size]
        PROVE  Painting'
    <3>1. comp.seed = size /\ ~hist.mistaken => Whole(gpu, size)
      BY <1>0, <2>1, <2>3 DEF Painting, BackgroundIsWhole
    <3>2. CASE comp' = [comp EXCEPT !.seed = size] /\ UNCHANGED hist /\ (full => Whole(gpu', size))
      <4>1. comp'.active /\ comp'.seed = size
        BY <1>0, <2>1, <3>2 DEF Comps
      <4>2. hist'.mistaken = hist.mistaken
        BY <3>2
      <4>3. ~hist.mistaken => Whole(gpu', size) /\ (gpu'.picture = "holes" => gpu.picture = "holes")
        BY <2>3, <3>1, <3>2
      <4>4. QED
        BY <2>3, <4>1, <4>2, <4>3, Repainted
    <3>3. CASE UNCHANGED comp /\ hist' = [hist EXCEPT !.mistaken = @ \/ comp.seed # size]
      <4>1. hist'.mistaken <=> hist.mistaken \/ comp.seed # size
        BY <1>0, <3>3 DEF Hists
      <4>2. ~hist'.mistaken => ~hist.mistaken /\ comp.seed = size
        BY <4>1
      <4>3. QED
        BY <2>1, <2>3, <3>1, <3>3, <4>2, Repainted
    <3>4. QED
      BY <2>3, <3>2, <3>3
  <2>4. QED
    BY <1>9, <2>2, <2>3, OnGdiFrameFacts
<1>10. QED
  BY <1>2, <1>3, <1>4, <1>5, <1>6, <1>7, <1>8, <1>9
     DEF CalmNext, WaitForBackground, EnqueueSurfaceCommand, CannotEnqueueCommand, OnEndFrame,
         EnqueueEndFrame, CannotEnqueueEndFrame

LEMMA ChannelPaintingStep ==
  ASSUME Types, Control, Ownership, Painting, ChannelNext
  PROVE  Painting'
<1>0. comp \in Comps /\ channel \in Channels /\ hist \in Hists
  BY DEF Types
<1>1. ASSUME UNCHANGED <<gpu, shown, comp, hist>>, Claiming' = Claiming
      PROVE  Painting'
  BY <1>1, NothingPresented, NothingPainted
<1>2. CASE DetachForBackground
  <2>1. CASE comp.active
    <3>1. DetachOutputActive /\ channel' = [channel EXCEPT !.pc = "start"]
      BY <1>2, <2>1 DEF DetachForBackground
    <3>2. ~Claiming'
      BY <1>0, <3>1 DEF Channels, Claiming
    <3>3. QED
      BY <3>1, <3>2, DetachTypes, GivenUp DEF DetachOutputActive
  <2>2. CASE ~comp.active
    <3>1. channel.pc = "detach" /\ channel' = Returned /\ UNCHANGED <<comp, gpu, shown, hist>>
      BY <1>2, <2>2 DEF DetachForBackground
    <3>2. QED
      BY <1>1, <3>1, ChannelPhases DEF Claiming
  <2>3. QED
    BY <2>1, <2>2
<1>3. CASE StartAfterDetach
  <2>1. channel.pc = "start" /\ channel' = Returned /\ UNCHANGED <<comp, gpu, shown, hist>>
    BY <1>3 DEF StartAfterDetach
  <2>2. QED
    BY <1>1, <2>1, ChannelPhases DEF Claiming
<1>4. CASE ProcessAndClaim
  <2> DEFINE c == channel.command
  <2>1. /\ channel.pc = "sync" /\ ~comp.active /\ comp' = [comp EXCEPT !.seed = c.size]
        /\ UNCHANGED shown
    BY <1>4, ProcessAndClaimFacts DEF Control
  <2>2. ~comp'.active /\ comp'.seed = c.size
    BY <1>0, <2>1 DEF Comps
  <2>3. ~Claiming /\ shown = "no" /\ gpu.pending = 0
    BY <2>1 DEF Claiming, Painting, InactiveIsDark
  <2>4. CASE /\ Whole(gpu', c.size)
             /\ channel' = [channel EXCEPT !.pc = IF owner = "avc420" THEN "release" ELSE "stop"]
    <3>1. Claiming'
      BY <1>0, <2>4 DEF Claiming, Channels
    <3>2. QED
      BY <2>1, <2>2, <2>3, <2>4, <3>1
         DEF Painting, BackgroundIsWhole, NoHoles, InactiveIsDark, Whole
  <2>5. CASE /\ gpu'.pending \in {gpu.pending, 0}
             /\ gpu'.picture = "holes" => gpu.picture = "holes"
             /\ channel' = Returned /\ UNCHANGED hist
    <3>1. ~Claiming'
      BY <2>5, ChannelPhases DEF Claiming
    <3>2. hist'.mistaken = hist.mistaken
      BY <2>5
    <3>3. QED
      BY <2>1, <2>2, <2>3, <2>5, <3>1, <3>2
         DEF Painting, BackgroundIsWhole, NoHoles, InactiveIsDark
  <2>6. QED
    BY <1>4, <2>4, <2>5, ProcessAndClaimFacts DEF Control
<1>5. CASE TakeoverStopsPipeline
  <2>1. Claiming' = Claiming
    BY <1>0, <1>5 DEF TakeoverStopsPipeline, Claiming, Channels
  <2>2. QED
    BY <1>1, <1>5, <2>1 DEF TakeoverStopsPipeline
<1>6. CASE TakeoverReleasesTarget
  <2>1. Claiming /\ UNCHANGED <<gpu, shown, hist>>
        /\ comp' = [comp EXCEPT !.active = TRUE, !.state = "active"]
    BY <1>6 DEF TakeoverReleasesTarget, Claiming
  <2>2. comp'.active /\ comp'.seed = comp.seed
    BY <1>0, <2>1 DEF Comps
  <2>3. QED
    BY <2>1, <2>2 DEF Painting, BackgroundIsWhole, NoHoles, InactiveIsDark
<1>7. CASE SetOutputInactive
  <2>1. /\ comp' = [comp EXCEPT !.active = FALSE, !.state = "detached", !.seed = 0]
        /\ gpu' = Destroy /\ shown' = "no" /\ channel.pc = "idle" /\ MoreEvents
        /\ channel' = [Event EXCEPT !.pc = IF owner = "avc420" THEN "start" ELSE @]
    BY <1>7 DEF SetOutputInactive, ChannelIdle
  <2>2. ~comp'.active
    BY <1>0, <2>1 DEF Comps
  <2>3. ~Claiming'
    BY <1>0, <2>1 DEF Claiming, Channels, Event
  <2>4. QED
    BY <2>1, <2>2, <2>3, GivenUp
<1>8. CASE DesktopResize
  <2>1. channel.pc = "idle" /\ channel' = [Event EXCEPT !.pc = "resize"]
        /\ UNCHANGED <<comp, gpu, shown, hist>>
    BY <1>8 DEF DesktopResize, ChannelIdle
  <2>2. Claiming' = Claiming
    BY <2>1, ChannelPhases DEF Claiming
  <2>3. QED
    BY <1>1, <2>1, <2>2
<1>9. CASE DesktopResized
  <2>1. channel.pc = "resize" /\ channel' = Returned /\ UNCHANGED hist
    BY <1>9 DEF DesktopResized
  <2>2. Claiming' = Claiming
    BY <2>1, ChannelPhases DEF Claiming
  <2>3. CASE RetargetOutput
    <3>1. comp'.active = comp.active /\ comp'.seed = comp.seed
      BY <1>0, <2>3, RetargetFacts DEF Comps
    <3>2. QED
      BY <2>1, <2>2, <2>3, <3>1, RetargetFacts, NothingPainted
  <2>4. CASE UNCHANGED <<comp, gpu, shown>>
    BY <1>1, <2>1, <2>2, <2>4
  <2>5. QED
    BY <1>9, <2>3, <2>4 DEF DesktopResized
<1>10. QED
  BY <1>2, <1>3, <1>4, <1>5, <1>6, <1>7, <1>8, <1>9, CalmPaintingStep DEF ChannelNext, CalmNext

LEMMA WorkerPaintingStep ==
  ASSUME Types, TasksAreGood, Control, Painting, WorkerNext
  PROVE  Painting'
<1>0. comp \in Comps /\ hist \in Hists /\ 0 \notin Sizes
  BY DEF Types
<1>1. Claiming' = Claiming
  BY WorkerFlags DEF Claiming
<1>2. CASE UNCHANGED <<gpu, shown, comp, hist>>
  BY <1>1, <1>2, NothingPresented, NothingPainted
<1>3. ASSUME NEW w \in WorkerIds, ProcessWorkerTask(w)
      PROVE  Painting'
  <2>0. ~Claiming /\ GoodTask(workers[w].task)
    BY <1>3, ProcessWorkerTaskFacts
  <2>1. CASE ProcessPrewarm(w)
    <3>1. comp'.active = comp.active /\ comp'.seed = comp.seed
      BY <1>0, <2>1, ProcessPrewarmFacts DEF Comps
    <3>2. QED
      BY <1>1, <2>1, <3>1, ProcessPrewarmFacts, NothingPainted
  <2>2. CASE ProcessQueuedEndFrame(w)
    <3>1. comp'.active /\ comp'.seed = comp.seed
      BY <1>0, <2>2, ProcessQueuedEndFrameFacts DEF Comps
    <3>2. hist'.mistaken <=> hist.mistaken \/ (~comp.active /\ comp.seed # 0)
      BY <1>0, <2>2, ProcessQueuedEndFrameFacts, ActiveHist
    <3>3. SamePicture(gpu, gpu') /\ shown' \in {shown, gpu'.picture}
      BY <2>2, ProcessQueuedEndFrameFacts DEF PictureKept, Keeps, SamePicture
    <3>4. ~hist'.mistaken => ~hist.mistaken /\ (comp.active \/ comp.seed = 0)
      BY <3>2
    <3>5. ~hist'.mistaken => (comp.seed # 0 => Whole(gpu', comp.seed))
      BY <3>3, <3>4 DEF Painting, BackgroundIsWhole, SamePicture, Whole
    <3>6. gpu'.picture = gpu.picture
      BY <3>3 DEF SamePicture
    <3>7. QED
      BY <3>1, <3>3, <3>4, <3>5, <3>6, Repainted
  <2>3. CASE workers[w].task.type = "command" /\ ProcessQueuedCommand(w)
    <3> DEFINE c == workers[w].task.command
    <3>1. CASE gpu' = Destroy /\ shown' = "no"
               /\ comp' = [comp EXCEPT !.active = FALSE, !.state = "failed"]
      <4>1. ~comp'.active
        BY <1>0, <3>1 DEF Comps
      <4>2. QED
        BY <1>1, <2>0, <3>1, <4>1, GivenUp
    <3>2. ASSUME c.full \in BOOLEAN, c.size \in Sizes,
                 Whole(gpu, c.size) => Whole(gpu', c.size),
                 c.full /\ gpu'.pending # 0 => Whole(gpu', c.size),
                 (c.full \/ Whole(gpu, c.size)) /\ gpu'.picture = "holes" => gpu.picture = "holes",
                 comp' = [Reactivated EXCEPT !.seed = IF c.full THEN c.size ELSE @],
                 hist' = [hist EXCEPT !.revived = @ \/ ~comp.active,
                                      !.mistaken = @ \/ IF c.full THEN gpu'.pending = 0
                                          ELSE ~comp.active \/ c.size # comp.seed],
                 UNCHANGED shown
          PROVE  Painting'
      <4> HIDE DEF c
      <4>1. comp'.active /\ comp'.seed = (IF c.full THEN c.size ELSE comp.seed)
        BY <1>0, <3>2 DEF Reactivated, Comps
      <4>2. hist'.mistaken <=>
              hist.mistaken \/ IF c.full THEN gpu'.pending = 0
                                ELSE ~comp.active \/ c.size # comp.seed
        BY <1>0, <3>2 DEF Hists
      <4>3. ~hist'.mistaken => ~hist.mistaken
        BY <4>2
      <4>4. ~hist'.mistaken => c.full \/ Whole(gpu, c.size)
        BY <1>0, <3>2, <4>2, <4>3 DEF Painting, BackgroundIsWhole
      <4>5. ~hist'.mistaken => Whole(gpu', comp'.seed)
        BY <3>2, <4>1, <4>2, <4>4
      <4>6. QED
        BY <3>2, <4>1, <4>3, <4>4, <4>5, Repainted
    <3>3. QED
      BY <2>0, <2>3, <3>1, <3>2, ProcessQueuedCommandFacts
  <2>4. QED
    BY <1>2, <1>3, <2>1, <2>2, <2>3, ProcessWorkerTaskFacts
<1>4. QED
  BY <1>2, <1>3 DEF WorkerNext, WorkerTakes, WorkerLeaves, ClearStaleWork, RestartPipeline

LEMMA PaintingStep ==
  ASSUME Types, TasksAreGood, Control, Ownership, Painting, [Next]_vars
  PROVE  Painting'
<1>0. comp \in Comps /\ hist \in Hists /\ channel \in Channels
  BY DEF Types
<1>1. ASSUME UNCHANGED <<gpu, shown, comp>>, channel'.pc = channel.pc,
             hist'.mistaken = hist.mistaken, hist'.revived = hist.revived
      PROVE  Painting'
  <2>1. Claiming' = Claiming
    BY <1>1 DEF Claiming
  <2>2. QED
    BY <1>1, <2>1, NothingPresented, NothingPainted
<1>2. CASE UiNext
  <2>1. CASE TargetChanged
    <3>1. ~Claiming /\ ~Claiming' /\ UNCHANGED hist
      BY <2>1 DEF TargetChanged, Unlocked, Claiming
    <3>2. CASE DetachOutputActive
      BY <3>1, <3>2, DetachTypes, GivenUp DEF DetachOutputActive
    <3>3. CASE RetargetOutput
      <4>1. comp'.active = comp.active /\ comp'.seed = comp.seed
        BY <1>0, <3>3, RetargetFacts DEF Comps
      <4>2. Claiming' = Claiming
        BY <2>1 DEF TargetChanged, Claiming
      <4>3. QED
        BY <3>1, <3>3, <4>1, <4>2, RetargetFacts, NothingPainted
    <3>4. CASE UNCHANGED <<comp, gpu, shown>>
      BY <1>1, <2>1, <3>4 DEF TargetChanged
    <3>5. QED
      BY <2>1, <3>2, <3>3, <3>4 DEF TargetChanged
  <2>2. CASE SurfaceDestroyedResetsOwner
    <3>1. hist' = [hist EXCEPT !.stolen = @ \/ owner = "avc420"]
          /\ UNCHANGED <<gpu, shown, comp, channel>>
      BY <2>2 DEF SurfaceDestroyedResetsOwner
    <3>2. hist'.mistaken = hist.mistaken /\ hist'.revived = hist.revived
      BY <1>0, <3>1 DEF Hists
    <3>3. QED
      BY <1>1, <3>1, <3>2
  <2>3. QED
    BY <1>1, <1>2, <2>1, <2>2
       DEF UiNext, OnXComponentSurfaceAvailable, OnXComponentSurfaceDestroyed, PrewarmIfReady,
           StartAfterSurfaceDestroyed
<1>3. CASE SessionNext
  <2>1. CASE Configure
    <3>1. /\ gpu' = Destroy /\ shown' = "no" /\ ~comp'.active /\ channel' = channel
          /\ session.pc = "join"
      BY <2>1 DEF Configure
    <3>2. ~Claiming'
      BY <3>1 DEF Control, ChannelIsUp, Claiming
    <3>3. QED
      BY <3>1, <3>2, GivenUp
  <2>2. CASE InstallHooks
    <3>1. channel'.pc = channel.pc
      BY <1>0, <2>2 DEF InstallHooks, Channels
    <3>2. QED
      BY <1>1, <2>2, <3>1 DEF InstallHooks
  <2>3. QED
    BY <1>1, <1>3, <2>1, <2>2
       DEF SessionNext, ConfigureAvc420SurfaceOutput, RestoreHooks, ConfigureStopsWorker,
           PostDisconnect
<1>4. CASE GdiPipelinePaints \/ UNCHANGED vars
  BY <1>1, <1>4 DEF GdiPipelinePaints, vars
<1>5. QED
  BY <1>2, <1>3, <1>4, ChannelPaintingStep, WorkerPaintingStep DEF Next
-----------------------------------------------------------------------------
(* The theorems.                                                           *)

LEMMA InvInit == Init => IInv
<1> SUFFICES ASSUME Init
             PROVE  IInv
  OBVIOUS
<1>1. gpu \in Gpu(Windows) /\ gpu.picture = "none" /\ gpu.pending = 0
  <2>1. gpu = Destroy
    BY DEF Init, Destroy
  <2>2. QED
    BY <2>1, NoWindow, Destroyed
<1>2. NoTask \in Tasks /\ NoCommand \in Commands \cup {NoCommand}
  BY DEF NoTask, PrewarmTask, Tasks, NoCommand
<1>3. workers \in Threads /\ \A w \in WorkerIds : ~Holds(w)
  BY <1>2 DEF Init, Threads, Holds
<1>4. target \in [window : Windows, last : Windows] /\ gdi \in Pipelines /\ owner \in Owners
  <2>1. 0 \in Windows /\ 1 \in Windows
    BY DEF Windows
  <2>2. QED
    BY <2>1 DEF Init, OutputInit, Pipelines, Owners
<1>5. channel \in Channels /\ session \in Sessions /\ ui \in Uis
  BY DEF Init, Channels, Sessions, Uis
<1>6. comp \in Comps /\ hist \in Hists /\ shown \in {"no", "holes", "whole"}
  BY DEF Init, Comps, Hists, NoHist
<1>7. queue = <<>> /\ running = FALSE /\ handle = 0
  BY DEF Init
<1>8. Types
  BY <1>1, <1>3, <1>4, <1>5, <1>6, <1>7, NoQueue DEF Types
<1>9. TasksAreGood
  BY <1>3, <1>7 DEF TasksAreGood
<1>10. Control
  BY DEF Init, Control, ChannelIsUp, UiPhases, ActiveIsOn, PausedIsActive, PausedUntilTold
<1>11. Ownership
  BY DEF Init, OutputInit, Ownership, ClaimIsExclusive, Claiming, OwnerIsActive, ActiveIsOwner,
         OwnerHasTheWindow, StartIsDue
<1>12. Painting
  BY <1>1 DEF Init, Painting, BackgroundIsWhole, Claiming, NoHoles, InactiveIsDark
<1>13. QED
  BY <1>8, <1>9, <1>10, <1>11, <1>12 DEF IInv

LEMMA InvStep == IInv /\ [Next]_vars => IInv'
  BY TypesStep, TasksAreGoodStep, ControlStep, OwnershipStep, PaintingStep DEF IInv

LEMMA Invariant == Spec => []IInv
  BY InvInit, InvStep, PTL DEF Spec

\* Every variable keeps its type: an output that is active has a compositor that is on,
\* the queue never grows beyond kMaxWorkerTasks and the state of the GPU is consistent,
\* whatever fails and whichever threads meet.
THEOREM TypeCorrect == Spec => []TypeOK
<1>1. IInv => TypeOK
  BY TypesFromTypeOK DEF IInv, Control
<1>2. QED
  BY <1>1, Invariant, PTL

\* Once the ui thread's surface callback has returned, an output is paused only while
\* there is no window: no order of the channel's and the worker's steps and of the ui
\* thread's leaves it paused with the window back (PauseOutputForTargetUnavailable,
\* OnSurfaceTargetChanged).
THEOREM NeverStaysPaused == Spec => []PausedOnlyWithoutWindow
<1>1. IInv => PausedOnlyWithoutWindow
  BY DEF IInv, Control, PausedUntilTold, PausedOnlyWithoutWindow
<1>2. QED
  BY <1>1, Invariant, PTL

\* At rest the output has exactly one painter, after any interleaving of takeovers,
\* releases, detached surfaces and resized desktops (the calls of
\* TransitionRenderOutputOwner, StartRenderPipeline and StopRenderPipeline): the
\* compositor alone, or GDI with its pipeline running and an output that is not active
\* unless stale work or a late word of FreeRDP made it so.
THEOREM OnePainter == Spec => []OutputHasOnePainter
<1>1. ASSUME IInv, AtRest, ~hist.stolen
      PROVE  \/ comp.active /\ owner = "avc420" /\ ~gdi.bound
             \/ owner = "gdi" /\ gdi.running /\ (comp.active => hist.revived)
  <2>1. CASE owner = "avc420"
    BY <1>1, <2>1 DEF IInv, Ownership, AtRest, OwnerIsActive, Claiming, OwnerHasTheWindow
  <2>2. CASE owner # "avc420"
    <3>1. owner = "gdi"
      BY <1>1, <2>2 DEF IInv, Ownership, OwnerIsActive, Types, Owners
    <3>2. gdi.running
      BY <1>1, <3>1 DEF IInv, Ownership, AtRest, StartIsDue, Due, Restarts
    <3>3. comp.active => hist.revived
      BY <1>1, <2>2 DEF IInv, Ownership, AtRest, ActiveIsOwner
    <3>4. QED
      BY <3>1, <3>2, <3>3
  <2>3. QED
    BY <2>1, <2>2
<1>2. IInv => OutputHasOnePainter
  BY <1>1 DEF OutputHasOnePainter
<1>3. QED
  BY <1>2, Invariant, PTL

\* What reaches the window has been painted everywhere, through seeds, resizes, lost
\* windows, releases and takeovers, unless the compositor was mistaken about its
\* background (SeedBackgroundBeforeTakeover, ProcessCommand, ProcessGdiFrame,
\* PresentEndFrame).
THEOREM PictureIsWhole == Spec => []PresentsWholePicture
<1>1. IInv => PresentsWholePicture
  BY DEF IInv, Painting, NoHoles, PresentsWholePicture
<1>2. QED
  BY <1>1, Invariant, PTL
=============================================================================
