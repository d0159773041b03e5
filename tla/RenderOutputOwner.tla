------------------------- MODULE RenderOutputOwner -------------------------
(***************************************************************************)
(* Who paints the remote desktop: surface/render_output_owner keeps one    *)
(* atomic value that GDI and the two GPU compositors exchange; the native  *)
(* bridge starts and stops the GDI render pipeline and hands out the       *)
(* window of the XComponent.                                               *)
(*                                                                         *)
(* The frames of the GDI pipeline are the business of GdiFramePipeline;    *)
(* here it runs or not, and may have bound its painter to the window.      *)
(***************************************************************************)
EXTENDS Naturals

CONSTANTS
  MaxTargets   \* bound on the windows that the system creates

ASSUME TargetAssumption == MaxTargets \in Nat \ {0}

VARIABLES
  owner,    \* g_renderOutputOwner
  gdi,      \* the GDI pipeline: is g_frameRenderer running, is a painter bound
  target    \* DecoderSurface(): the window in use, 0 none, and the last number

outputVars == <<owner, gdi, target>>

Owners == {"gdi", "avc420", "avc444"}

OutputTypeOK ==
  /\ owner \in Owners
  /\ gdi \in [running : BOOLEAN, bound : BOOLEAN]
  /\ target \in [window : 0 .. MaxTargets, last : 0 .. MaxTargets]

OutputInit ==
  /\ owner = "gdi"
  /\ gdi = [running |-> FALSE, bound |-> FALSE]
  /\ target \in {[window |-> 0, last |-> 0], [window |-> 1, last |-> 1]}

\* The previous owner is the unprimed one.
TransitionRenderOutputOwner(to) == owner' = to

\* Only GDI's own pipeline may be started.
StartRenderPipeline ==
  gdi' = IF owner = "gdi" THEN [gdi EXCEPT !.running = TRUE] ELSE gdi

\* Stop joins the renderer's thread: nothing is being painted afterwards.
StopRenderPipeline == gdi' = [gdi EXCEPT !.running = FALSE]

ReleaseSurfaceRenderTarget == gdi' = [gdi EXCEPT !.bound = FALSE]

\* RenderSurfaceRgbaFrame: the pipeline paints a frame it has accepted.
GdiPaints ==
  /\ gdi.running
  /\ target.window # 0
  /\ ~gdi.bound
  /\ gdi' = [gdi EXCEPT !.bound = TRUE]
  /\ UNCHANGED <<owner, target>>

\* SurfaceBridge::OnSurfaceCreated and OnSurfaceChanged: another window, or the
\* same one with another size, which the painters have to attach anew.
SurfaceAvailable ==
  /\ target.last < MaxTargets
  /\ target' = [window |-> target.last + 1, last |-> target.last + 1]
  /\ gdi' = [gdi EXCEPT !.bound = FALSE]

\* SurfaceBridge::OnSurfaceDestroyed.
SurfaceGone ==
  /\ target.window # 0
  /\ target' = [target EXCEPT !.window = 0]
  /\ gdi' = [gdi EXCEPT !.bound = FALSE]
=============================================================================
