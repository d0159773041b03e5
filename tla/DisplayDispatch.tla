--------------------------- MODULE DisplayDispatch ---------------------------
(***************************************************************************)
(* How the display components work together (napi/native_bridge_context):  *)
(* the coordinator, the coalescer and the session's display settings are   *)
(* global objects called by four threads,                                  *)
(*   ui         the surface callbacks, the toolbar, connect and disconnect *)
(*   monitor    the native display listeners                               *)
(*   coalescer  the coalescer's worker, while it runs the callback         *)
(*   session    the FreeRDP worker: its states and frames                  *)
(* g_displayDispatchMutex serialises the handlers that decide on a size;   *)
(* session states and the surface itself change without it.                *)
(*                                                                         *)
(* A handler is a list of steps and a thread performs the steps it has to  *)
(* do in order; a step is what one lock, or one atomic, makes atomic.  Of  *)
(* the components, which have modules of their own, this one keeps what    *)
(* the others can see: whether a request is pending in the coalescer's     *)
(* mailbox (its contents are resolved again when it is taken), the wait of *)
(* the coordinator, and the policy of the settings with the pointer hold.  *)
(***************************************************************************)
EXTENDS Naturals, Sequences

CONSTANTS
  Sizes,       \* sizes of the surface and of requests
  FixedSizes,  \* the sizes the toolbar offers
  MaxEvents    \* bound on what the user and the displays do

\* 1 stands for a layout of several monitors, 0 for no size.
ASSUME DispatchAssumption ==
  Sizes \subseteq Nat \ {0, 1} /\ FixedSizes \subseteq Sizes /\ MaxEvents \in Nat

VARIABLES
  waitState,       \* g_resizeCoordinator
  scheduled,       \* g_resizeRequestCoalescer: a request is pending
  requested, settingsConnected, multimon,  \* DisplaySettings(): the policy, fixed iff requested # 0
  blocking,        \* DisplaySettings(): pending, which holds pointer input back
  overtaken,       \* the generation has moved on since the last Begin
  surface,         \* the size g_surface.Snapshot() returns
  multimonActive,  \* g_multimonActive
  dispatch,        \* who holds g_displayDispatchMutex
  snapshot,        \* the size of the request its holder works on
  answer,          \* the status its holder's request got
  running, connected, active,  \* the session: running, connected, activeOhosSession_
  desired,         \* monitorLayout_
  initial,         \* the layout the session worker has read for its attempt
  asked,           \* the size the native session was last given
  reported,        \* the last state emitted to the user interface
  todo,            \* what each thread has yet to do in its handler
  events           \* what the user and the displays have done so far

policyVars == <<requested, settingsConnected, multimon>>
settingsVars == <<policyVars, blocking, overtaken>>
components == <<waitState, scheduled, settingsVars>>
requestVars == <<dispatch, snapshot, answer>>
sessionVars == <<running, connected, active, desired, initial, asked, reported>>
vars == <<components, surface, multimonActive, requestVars, sessionVars, todo, events>>

Threads == {"ui", "monitor", "coalescer", "session"}
SizeOrNone == Sizes \cup {0}
Multi == 1
Layouts == SizeOrNone \cup {Multi}
ResultStatuses == {"Sent", "Deferred", "Unchanged", "Unsupported", "Failed"}
Steps == {"beginSchedule", "resolveSchedule", "schedule", "cache", "beginApply", "resolveApply",
          "begin", "send", "result", "apply", "resolveSelect", "invalidate", "cancel",
          "resetWait", "exchange", "resolveSingle", "setLayout", "join", "reset", "resolved",
          "readLayout", "activate", "connected", "emitConnected", "pump", "ended",
          "emitDisconnected", "emitFailed"}

TypeOK ==
  /\ waitState \in {"Idle", "WaitingForTarget", "Fallback"} /\ scheduled \in BOOLEAN
  /\ requested \in SizeOrNone /\ settingsConnected \in BOOLEAN /\ multimon \in BOOLEAN
  /\ blocking \in BOOLEAN /\ overtaken \in BOOLEAN
  /\ surface \in SizeOrNone /\ multimonActive \in BOOLEAN
  /\ dispatch \in Threads \cup {"free"}
  /\ snapshot \in SizeOrNone /\ answer \in ResultStatuses
  /\ running \in BOOLEAN /\ connected \in BOOLEAN /\ active \in BOOLEAN
  /\ desired \in Layouts /\ initial \in Layouts /\ asked \in Layouts
  /\ reported \in {"Idle", "Connected", "Disconnected", "Failed"}
  /\ todo \in [Threads -> Seq(Steps)]
  /\ events \in 0 .. MaxEvents

Init ==
  /\ waitState = "Idle" /\ scheduled = FALSE
  /\ requested = 0 /\ settingsConnected = FALSE /\ multimon = FALSE
  /\ blocking = FALSE /\ overtaken = FALSE
  /\ surface = 0 /\ multimonActive = FALSE
  /\ dispatch = "free" /\ snapshot = 0 /\ answer = "Unchanged"
  /\ running = FALSE /\ connected = FALSE /\ active = FALSE
  /\ desired = 0 /\ initial = 0 /\ asked = 0 /\ reported = "Idle"
  /\ todo = [t \in Threads |-> <<>>] /\ events = 0
-----------------------------------------------------------------------------
(* A thread's steps.                                                       *)

Idle(t) == todo[t] = <<>>
At(t, step) == ~Idle(t) /\ Head(todo[t]) = step
Goto(t, steps) == todo' = [todo EXCEPT ![t] = steps]
Continue(t) == Goto(t, Tail(todo[t]))
Event == events < MaxEvents /\ events' = events + 1

Lock(t) == dispatch = "free" /\ dispatch' = t

\* The last step of a handler that holds the dispatch lock; its request goes with it.
Return(t) == dispatch' = "free" /\ snapshot' = 0 /\ answer' = "Unchanged" /\ Goto(t, <<>>)
-----------------------------------------------------------------------------
(* ScheduleCurrentSurfaceResize and UpdateDesiredSingleMonitorLayout.      *)

Fixed == requested # 0

\* IsFixed and g_multimonActive.
FollowsSurface == ~Fixed /\ ~multimonActive

BeginSchedule(t) ==
  /\ At(t, "beginSchedule")
  /\ \/ FollowsSurface /\ Lock(t) /\ Goto(t, <<"resolveSchedule">>)
     \/ ~FollowsSurface /\ dispatch = "free" /\ UNCHANGED dispatch /\ Goto(t, <<>>)
  /\ UNCHANGED <<components, surface, multimonActive, snapshot, answer, sessionVars, events>>

\* CurrentSurfaceResizeRequest, then IsConnected.
ResolveSchedule(t) ==
  /\ At(t, "resolveSchedule")
  /\ \/ surface = 0 /\ Return(t)
     \/ /\ surface # 0
        /\ snapshot' = surface
        /\ Goto(t, IF connected THEN <<"schedule">> ELSE <<"cache">>)
        /\ UNCHANGED <<dispatch, answer>>
  /\ UNCHANGED <<components, surface, multimonActive, sessionVars, events>>

ScheduleResize(t) ==
  /\ At(t, "schedule")
  /\ scheduled' = TRUE
  /\ Return(t)
  /\ UNCHANGED <<waitState, settingsVars, surface, multimonActive, sessionVars, events>>

\* RdpSessionChannels::SetMonitorLayout.
SetMonitorLayout(layout) ==
  /\ desired' = layout
  /\ asked' = IF active /\ desired # layout THEN layout ELSE asked

CacheLayout(t) ==
  /\ At(t, "cache")
  /\ SetMonitorLayout(snapshot)
  /\ Return(t)
  /\ UNCHANGED <<components, surface, multimonActive, running, connected, active, initial,
                 reported, events>>
-----------------------------------------------------------------------------
(* ApplyRemoteDesktopResizeLocked, from the coalescer or from the toolbar. *)

ApplySteps == <<"begin", "send", "result", "apply">>

\* The callback of InitializeNativeBridgeContext.
MayResize_NoPolicy == connected
MayResize_NotWhileWaiting == FollowsSurface /\ connected /\ waitState # "WaitingForTarget"
MayResize == FollowsSurface /\ connected

\* The coalescer's worker takes the pending request after its quiet delay.
Dequeue ==
  /\ scheduled /\ Idle("coalescer")
  /\ scheduled' = FALSE
  /\ Goto("coalescer", <<"beginApply">>)
  /\ UNCHANGED <<waitState, settingsVars, surface, multimonActive, requestVars, sessionVars,
                 events>>

BeginApply_KeepsLock(t) ==
  /\ At(t, "beginApply")
  /\ Lock(t)
  /\ Goto(t, IF MayResize THEN <<"resolveApply">> ELSE <<>>)
  /\ UNCHANGED <<components, surface, multimonActive, snapshot, answer, sessionVars, events>>

BeginApply(t) ==
  /\ At(t, "beginApply")
  /\ \/ MayResize /\ Lock(t) /\ Goto(t, <<"resolveApply">>)
     \/ ~MayResize /\ dispatch = "free" /\ UNCHANGED dispatch /\ Goto(t, <<>>)
  /\ UNCHANGED <<components, surface, multimonActive, snapshot, answer, sessionVars, events>>

\* A dequeued request may be stale: the current surface counts.
ResolveApply(t) ==
  /\ At(t, "resolveApply")
  /\ \/ surface = 0 /\ Return(t)
     \/ /\ surface # 0
        /\ snapshot' = surface
        /\ Goto(t, ApplySteps)
        /\ UNCHANGED <<dispatch, answer>>
  /\ UNCHANGED <<components, surface, multimonActive, sessionVars, events>>

Begin(t) ==
  /\ At(t, "begin")
  /\ blocking' = TRUE /\ overtaken' = FALSE
  /\ Continue(t)
  /\ UNCHANGED <<waitState, scheduled, policyVars, surface, multimonActive, requestVars,
                 sessionVars, events>>

\* RequestDynamicDesktopResizeEx.
Send(t) ==
  /\ At(t, "send")
  /\ Continue(t)
  /\ \/ ~connected /\ answer' = "Failed" /\ UNCHANGED asked
     \/ connected /\ ~active /\ answer' = "Unsupported" /\ UNCHANGED asked
     \/ /\ connected /\ active
        /\ answer' \in ResultStatuses
        /\ asked' = snapshot
  /\ UNCHANGED <<components, surface, multimonActive, dispatch, snapshot, running, connected,
                 active, desired, initial, reported, events>>

Rejected == answer \in {"Unsupported", "Failed"}

\* The settings ignore the result of a request that has been overtaken.
Result(t) ==
  /\ At(t, "result")
  /\ blocking' = (blocking /\ (overtaken \/ ~Rejected))
  /\ overtaken' = FALSE
  /\ Continue(t)
  /\ UNCHANGED <<waitState, scheduled, policyVars, surface, multimonActive, requestVars,
                 sessionVars, events>>

ApplyResult_AsStatus(t) ==
  /\ At(t, "apply")
  /\ waitState' = IF answer = "Sent" THEN "WaitingForTarget" ELSE answer
  /\ Return(t)
  /\ UNCHANGED <<scheduled, settingsVars, surface, multimonActive, sessionVars, events>>

\* The coordinator does not ask which request the result belongs to.
ApplyResult(t) ==
  /\ At(t, "apply")
  /\ waitState' = CASE answer = "Sent" -> "WaitingForTarget"
                    [] answer = "Unchanged" -> waitState
                    [] OTHER -> "Fallback"
  /\ Return(t)
  /\ UNCHANGED <<scheduled, settingsVars, surface, multimonActive, sessionVars, events>>

\* SetSessionDisplayResolution.
BeginSelect_WithoutLock ==
  /\ Event /\ Idle("ui")
  /\ connected /\ ~multimonActive /\ UNCHANGED dispatch /\ Goto("ui", <<"resolveSelect">>)
  /\ UNCHANGED <<components, surface, multimonActive, snapshot, answer, sessionVars>>

BeginSelect ==
  /\ Event /\ Idle("ui")
  /\ connected /\ ~multimonActive /\ Lock("ui") /\ Goto("ui", <<"resolveSelect">>)
  /\ UNCHANGED <<components, surface, multimonActive, snapshot, answer, sessionVars>>

\* The surface is the ui thread's own, so its snapshot and Select are one step.
SelectAllowed(size) == surface # 0 /\ settingsConnected /\ ~multimon /\ size \in FixedSizes \cup {0}

\* size 0 is the choice to follow the surface.
Select(size) ==
  /\ At("ui", "resolveSelect")
  /\ \/ /\ SelectAllowed(size)
        /\ requested' = size
        /\ snapshot' = IF size = 0 THEN surface ELSE size
        /\ Goto("ui", <<"cancel">> \o ApplySteps) /\ UNCHANGED <<dispatch, answer>>
     \/ /\ ~SelectAllowed(size)
        /\ UNCHANGED requested
        /\ Return("ui")
  /\ UNCHANGED <<waitState, scheduled, settingsConnected, multimon, blocking, overtaken,
                 surface, multimonActive, sessionVars, events>>
-----------------------------------------------------------------------------
(* The surface callbacks: one event each, on the ui thread.                *)

SurfaceTo(size, steps) ==
  /\ Event /\ Idle("ui")
  /\ surface' = size
  /\ Goto("ui", steps)
  /\ UNCHANGED <<components, multimonActive, requestVars, sessionVars>>

SurfaceCreated(size) == surface = 0 /\ SurfaceTo(size, <<"resetWait", "beginSchedule">>)
SurfaceChanged(size) == surface \notin {0, size} /\ SurfaceTo(size, <<"beginSchedule">>)
SurfaceDestroyed == surface # 0 /\ SurfaceTo(0, <<"invalidate", "cancel", "resetWait">>)

Overtake_KeepsHold ==
  /\ UNCHANGED blocking
  /\ overtaken' = \E t \in Threads : At(t, "send") \/ At(t, "result")

\* A new generation of the settings: nothing is pending, and a request in progress is stale.
Overtake ==
  /\ blocking' = FALSE
  /\ overtaken' = \E t \in Threads : At(t, "send") \/ At(t, "result")

\* InvalidatePresentation keeps the policy.
Invalidate(t) ==
  /\ At(t, "invalidate") /\ Overtake /\ Continue(t)
  /\ UNCHANGED <<waitState, scheduled, policyVars, surface, multimonActive, requestVars,
                 sessionVars, events>>

CancelResize(t) ==
  /\ At(t, "cancel") /\ scheduled' = FALSE /\ Continue(t)
  /\ UNCHANGED <<waitState, settingsVars, surface, multimonActive, requestVars,
                 sessionVars, events>>

ResetWait(t) ==
  /\ At(t, "resetWait") /\ waitState' = "Idle" /\ Continue(t)
  /\ UNCHANGED <<scheduled, settingsVars, surface, multimonActive, requestVars, sessionVars,
                 events>>
-----------------------------------------------------------------------------
(* The layout callback of the display monitor.                             *)

SetMultimon(multi) ==
  /\ multimon' = multi
  /\ IF multi THEN requested' = 0 /\ Overtake
     ELSE UNCHANGED <<requested, blocking, overtaken>>

LayoutChanged(multi) ==
  /\ Event /\ Idle("monitor")
  /\ Lock("monitor")
  /\ SetMultimon(multi)
  /\ Goto("monitor", IF multi THEN <<"exchange", "cancel", "setLayout">> ELSE <<"exchange">>)
  /\ UNCHANGED <<waitState, scheduled, settingsConnected, surface, multimonActive, snapshot,
                 answer, sessionVars>>

\* g_multimonActive.exchange; the recursive dispatch lock is held all along.
Exchange ==
  /\ At("monitor", "exchange")
  /\ multimonActive' = multimon
  /\ \/ multimon /\ Continue("monitor") /\ UNCHANGED requestVars
     \/ /\ ~multimon /\ multimonActive
        /\ Goto("monitor", <<"resolveSingle">>) /\ UNCHANGED requestVars
     \/ /\ ~multimon /\ ~multimonActive /\ ~Fixed
        /\ Goto("monitor", <<"resolveSchedule">>) /\ UNCHANGED requestVars
     \/ ~multimon /\ ~multimonActive /\ Fixed /\ Return("monitor")
  /\ UNCHANGED <<components, surface, sessionVars, events>>

ResolveSingle ==
  /\ At("monitor", "resolveSingle")
  /\ \/ surface = 0 /\ Return("monitor")
     \/ /\ surface # 0
        /\ snapshot' = surface
        /\ Goto("monitor", <<"cache">>)
        /\ UNCHANGED <<dispatch, answer>>
  /\ UNCHANGED <<components, surface, multimonActive, sessionVars, events>>

SetMultimonLayout ==
  /\ At("monitor", "setLayout")
  /\ SetMonitorLayout(Multi)
  /\ Return("monitor")
  /\ UNCHANGED <<components, surface, multimonActive, running, connected, active, initial,
                 reported, events>>
-----------------------------------------------------------------------------
(* The session worker (WorkerMain) and the user's connect and disconnect.  *)

Attempt == <<"readLayout", "activate", "connected", "emitConnected", "pump">>
ReportDisconnected == <<"reset", "cancel", "resetWait", "emitDisconnected">>
ReportFailed == <<"reset", "cancel", "emitFailed">>

RequestDisconnect(steps) ==
  /\ Event /\ Idle("ui") /\ Goto("ui", steps)
  /\ running' = FALSE /\ connected' = FALSE
  /\ UNCHANGED <<components, surface, multimonActive, requestVars, active, desired, initial,
                 asked, reported>>

Disconnect == RequestDisconnect(<<>>)
Connect == RequestDisconnect(<<"join">>)

\* Connect joins the old worker and starts the new one, which reports Resolving.
StartWorker ==
  /\ At("ui", "join") /\ Idle("session")
  /\ running' = TRUE
  /\ todo' = [todo EXCEPT !["ui"] = <<>>, !["session"] = <<"reset", "cancel", "resolved">>]
  /\ UNCHANGED <<components, surface, multimonActive, requestVars, connected, active, desired,
                 initial, asked, reported, events>>

ResetSettings ==
  /\ At("session", "reset")
  /\ requested' = 0 /\ settingsConnected' = FALSE /\ Overtake
  /\ Continue("session")
  /\ UNCHANGED <<waitState, scheduled, multimon, surface, multimonActive, requestVars,
                 sessionVars, events>>

\* The TCP check and the waits before the first attempt.
Resolved ==
  /\ At("session", "resolved")
  /\ \/ ~running /\ Goto("session", ReportDisconnected)
     \/ running /\ Goto("session", ReportFailed)
     \/ running /\ Goto("session", Attempt)
  /\ UNCHANGED <<components, surface, multimonActive, requestVars, sessionVars, events>>

\* channels.MonitorLayout(), an argument of RunFreerdpSession.
ReadLayout ==
  /\ At("session", "readLayout")
  /\ initial' = desired
  /\ Continue("session")
  /\ UNCHANGED <<components, surface, multimonActive, requestVars, running, connected, active,
                 desired, asked, reported, events>>

\* RunFreerdpSession makes the native session; Configure calls SetActive.
Activate ==
  /\ At("session", "activate")
  /\ active' = TRUE /\ asked' = initial /\ initial' = 0
  /\ Continue("session")
  /\ UNCHANGED <<components, surface, multimonActive, requestVars, running, connected, desired,
                 reported, events>>

OnConnected ==
  /\ At("session", "connected")
  /\ connected' = TRUE
  /\ Continue("session")
  /\ UNCHANGED <<components, surface, multimonActive, requestVars, running, active, desired,
                 initial, asked, reported, events>>

EmitConnected ==
  /\ At("session", "emitConnected")
  /\ settingsConnected' = TRUE
  /\ reported' = "Connected"
  /\ Continue("session")
  /\ UNCHANGED <<waitState, scheduled, requested, multimon, blocking, overtaken, surface,
                 multimonActive, requestVars, running, connected, active, desired, initial, asked,
                 events>>

\* The session cannot be made, the server or the network ends it, or ShouldContinue says no.
ClearActive ==
  /\ \E step \in {"activate", "connected", "pump"} : At("session", step)
  /\ active' = FALSE /\ asked' = 0 /\ initial' = 0
  /\ Goto("session", <<"ended">>)
  /\ UNCHANGED <<components, surface, multimonActive, requestVars, running, connected, desired,
                 reported, events>>

\* Cancelled, failed, over, or worth another graphics mode.
Ended ==
  /\ At("session", "ended")
  /\ connected' = FALSE
  /\ \/ Goto("session", ReportDisconnected)
     \/ running /\ Goto("session", ReportFailed)
     \/ running /\ Goto("session", Attempt)
  /\ UNCHANGED <<components, surface, multimonActive, requestVars, running, active, desired,
                 initial, asked, reported, events>>

\* The worker leaves with running cleared.
EmitEnd ==
  /\ \/ At("session", "emitDisconnected") /\ reported' = "Disconnected"
     \/ At("session", "emitFailed") /\ reported' = "Failed"
  /\ running' = FALSE
  /\ Continue("session")
  /\ UNCHANGED <<components, surface, multimonActive, requestVars, connected, active, desired,
                 initial, asked, events>>
-----------------------------------------------------------------------------
(* A frame, or the component's own deadline, ends a wait or a hold.        *)

WaitEnds ==
  /\ waitState = "WaitingForTarget" /\ waitState' \in {"Idle", "Fallback"}
  /\ UNCHANGED <<scheduled, settingsVars, surface, multimonActive, requestVars, sessionVars,
                 todo, events>>

HoldEnds ==
  /\ blocking /\ blocking' = FALSE
  /\ UNCHANGED <<waitState, scheduled, policyVars, overtaken, surface, multimonActive,
                 requestVars, sessionVars, todo, events>>
-----------------------------------------------------------------------------
Step(t) ==
  \/ BeginSchedule(t) \/ ResolveSchedule(t) \/ ScheduleResize(t) \/ CacheLayout(t)
  \/ BeginApply(t) \/ ResolveApply(t) \/ Begin(t) \/ Send(t) \/ Result(t) \/ ApplyResult(t)
  \/ Invalidate(t) \/ CancelResize(t) \/ ResetWait(t)

UiStep ==
  \/ Step("ui")
  \/ \E size \in SizeOrNone : Select(size)
  \/ StartWorker
MonitorStep == Step("monitor") \/ Exchange \/ ResolveSingle \/ SetMultimonLayout
CoalescerStep == Step("coalescer") \/ Dequeue
SessionStep ==
  \/ Step("session")
  \/ ResetSettings \/ Resolved \/ ReadLayout \/ Activate \/ OnConnected \/ EmitConnected
  \/ (~running /\ ClearActive) \/ Ended \/ EmitEnd

Environment ==
  \/ \E size \in Sizes : SurfaceCreated(size) \/ SurfaceChanged(size)
  \/ SurfaceDestroyed \/ BeginSelect \/ Connect \/ Disconnect
  \/ \E multi \in BOOLEAN : LayoutChanged(multi)
  \/ (running /\ ClearActive)
  \/ WaitEnds \/ HoldEnds

Next == UiStep \/ MonitorStep \/ CoalescerStep \/ SessionStep \/ Environment

\* Every thread is scheduled and the locks are fair; the environment owes nothing.
Spec ==
  /\ Init /\ [][Next]_vars
  /\ SF_vars(UiStep) /\ SF_vars(MonitorStep) /\ SF_vars(CoalescerStep) /\ WF_vars(SessionStep)
-----------------------------------------------------------------------------
(* The dispatch lock is what lets the settings and the coordinator assume  *)
(* one resize at a time, in a request and its result.                      *)
Resizing(t) == \E i \in DOMAIN todo[t] : todo[t][i] = "apply"
OneResizeAtATime == \A t, u \in Threads : Resizing(t) /\ Resizing(u) => t = u

(* Input is never held back for a session that is over: whenever its end   *)
(* overtakes a resize, the hold is released with or after it.              *)
NoHoldWithoutSession ==
  (reported \in {"Disconnected", "Failed"} /\ Idle("session") /\ blocking)
    => \E t \in Threads : At(t, "send") \/ At(t, "result")

(* What a running session is asked for is what the policy allows at that   *)
(* moment: several monitors are never squeezed into one, and no request of *)
(* the surface, queued or already taken by the worker, replaces a fixed    *)
(* resolution.                                                             *)
RequestsFollowPolicy ==
  [][(active /\ active' /\ asked' # asked) =>
       /\ multimon <=> asked' = Multi
       /\ Fixed => asked' = requested]_vars

(* A scheduled resize reaches the session with the surface's current size, *)
(* whatever is cancelled, replaced or reconnected on the way, unless the   *)
(* policy has changed or the session is over.                              *)
ScheduledReachesSession ==
  scheduled ~> (asked = surface \/ surface = 0 \/ ~FollowsSurface \/ ~connected \/ ~active)

(* The ui thread never hangs: not on the dispatch lock, and not in the join*)
(* of a session whose last states are still being reported.                *)
UiReturns == ~Idle("ui") ~> Idle("ui")

(* Disagreements with the documentation: see the findings in the README.   *)

(* A failed connection clears the wait for a target frame.                 *)
FailureClearsWait == [][reported' = "Failed" => waitState' # "WaitingForTarget"]_reported

(* A session starts with the layout that was saved for it.                 *)
SavedLayoutIsUsed == [][(~active /\ active') => asked' = desired]_vars
=============================================================================
