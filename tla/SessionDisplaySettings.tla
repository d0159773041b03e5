----------------------- MODULE SessionDisplaySettings -----------------------
(***************************************************************************)
(* SessionDisplaySettings (session/session_display_settings): the policy   *)
(* and status of the session's resolution.  It says whether the resolution *)
(* follows the window or is fixed, whether a resize is pending (pointer    *)
(* input is held back while it is), and when a requested size counts as    *)
(* applied: the request was accepted and a frame of about that size has    *)
(* been presented since the request began.                                 *)
(*                                                                         *)
(* Two kinds of caller act in two steps with the mutex free in between: a  *)
(* resize is begun, sent to the server and its result reported; a painter  *)
(* reads the generation, paints, and reports the presentation.             *)
(* A size stands for (width, height); 0 is the absent one.                 *)
(***************************************************************************)
EXTENDS Naturals

CONSTANTS
  Sizes,          \* sizes of surfaces, requests and frames
  Painters,       \* output paths that present frames
  Tolerance,      \* 16 in Near
  MinFixed, MaxFixed,  \* the sizes Select accepts
  Timeout,        \* timeout_, in ticks
  MaxGeneration   \* bound on the number of resizes, resets and invalidations

ASSUME SettingsAssumption ==
  /\ Sizes \subseteq Nat \ {0}
  /\ Tolerance \in Nat /\ MinFixed \in Nat \ {0} /\ MaxFixed \in Nat
  /\ Timeout \in Nat /\ MaxGeneration \in Nat

VARIABLES
  fixed, connected, multimon,  \* state_: the policy
  requested,                   \* requestedWidth x requestedHeight
  actual,                      \* actualWidth x actualHeight
  generation, pending, status, \* state_: the resize in progress
  target,                      \* targetWidth_ x targetHeight_
  resultAccepted,              \* resultAccepted_
  presentedSinceBegin,         \* presentedSinceBegin_
  timeLeft,                    \* ticks left until deadline_
  resize,    \* the dispatcher between Begin and Result
  painting   \* each painter between Generation and Presented

policy   == <<fixed, connected, multimon, requested>>
progress == <<generation, pending, status, resultAccepted, presentedSinceBegin>>
callers  == <<resize, painting>>
vars == <<policy, actual, progress, target, timeLeft, callers>>

Statuses == {"Idle", "Applying", "Deferred", "WaitingFrame", "Applied", "Timeout",
             "Multimon", "Failed", "Unsupported"}
ResultStatuses == {"Sent", "Deferred", "Unchanged", "Unsupported", "Failed"}
SizeOrNone == Sizes \cup {0}

\* A caller's token; overtaken records that the generation has moved on since.
Token == [active : BOOLEAN, generation : 0 .. MaxGeneration, overtaken : BOOLEAN]
NoToken == [active |-> FALSE, generation |-> 0, overtaken |-> FALSE]
TokenOf(g) == [active |-> TRUE, generation |-> g, overtaken |-> FALSE]

TypeOK ==
  /\ fixed \in BOOLEAN /\ connected \in BOOLEAN /\ multimon \in BOOLEAN
  /\ requested \in SizeOrNone /\ actual \in SizeOrNone /\ target \in SizeOrNone
  /\ generation \in 0 .. MaxGeneration /\ pending \in BOOLEAN /\ status \in Statuses
  /\ resultAccepted \in BOOLEAN /\ presentedSinceBegin \in BOOLEAN
  /\ timeLeft \in 0 .. Timeout
  /\ resize \in Token /\ painting \in [Painters -> Token]

Init ==
  /\ fixed = FALSE /\ connected = FALSE /\ multimon = FALSE /\ requested = 0
  /\ actual = 0 /\ target = 0
  /\ generation = 0 /\ pending = FALSE /\ status = "Idle"
  /\ resultAccepted = FALSE /\ presentedSinceBegin = FALSE
  /\ timeLeft = 0
  /\ resize = NoToken /\ painting = [p \in Painters |-> NoToken]
-----------------------------------------------------------------------------
Near(a, b) == a < b + Tolerance /\ b < a + Tolerance

\* A new generation: what was begun before can no longer complete.
Advance ==
  /\ generation < MaxGeneration
  /\ generation' = generation + 1
  /\ resultAccepted' = FALSE /\ presentedSinceBegin' = FALSE
  /\ resize' = [resize EXCEPT !.overtaken = TRUE]
  /\ painting' = [p \in Painters |-> [painting[p] EXCEPT !.overtaken = TRUE]]

\* The session callbacks pass connected = FALSE.
Reset ==
  /\ Advance
  /\ fixed' = FALSE /\ connected' = FALSE /\ requested' = 0 /\ UNCHANGED multimon
  /\ actual' = 0 /\ target' = 0 /\ pending' = FALSE /\ status' = "Idle"
  /\ UNCHANGED timeLeft

InvalidatePresentation ==
  /\ Advance
  /\ actual' = 0 /\ pending' = FALSE /\ status' = "Idle"
  /\ UNCHANGED <<policy, target, timeLeft>>

SetConnected ==
  /\ connected' = TRUE
  /\ UNCHANGED <<fixed, multimon, requested, actual, progress, target, timeLeft, callers>>

SetMultimon(on) ==
  /\ multimon' = on
  /\ UNCHANGED <<connected, actual, target, timeLeft>>
  /\ IF on
     THEN /\ Advance
          /\ fixed' = FALSE /\ requested' = 0 /\ pending' = FALSE /\ status' = "Multimon"
     ELSE UNCHANGED <<fixed, requested, progress, callers>>

SelectAllowed_InMultimonToo(wantFixed, size) ==
  connected /\ (wantFixed => size \in MinFixed .. MaxFixed)

SelectAllowed(wantFixed, size) ==
  /\ connected /\ ~multimon
  /\ wantFixed => size \in MinFixed .. MaxFixed

Select(wantFixed, size) ==
  /\ SelectAllowed(wantFixed, size)
  /\ fixed' = wantFixed
  /\ requested' = IF wantFixed THEN size ELSE 0
  /\ UNCHANGED <<connected, multimon, actual, progress, target, timeLeft, callers>>

\* The dispatch lock admits one resize at a time.
Begin(size) ==
  /\ ~resize.active
  /\ generation < MaxGeneration
  /\ generation' = generation + 1
  /\ target' = size /\ status' = "Applying" /\ pending' = TRUE
  /\ resultAccepted' = FALSE /\ presentedSinceBegin' = FALSE
  /\ timeLeft' = Timeout
  /\ resize' = TokenOf(generation + 1)
  /\ painting' = [p \in Painters |-> [painting[p] EXCEPT !.overtaken = TRUE]]
  /\ UNCHANGED <<policy, actual>>
-----------------------------------------------------------------------------
Confirm_WithoutResult(accepted, presented, tgt, act, otherwisePending, otherwiseStatus) ==
  IF presented /\ Near(tgt, act)
  THEN pending' = FALSE /\ status' = "Applied"
  ELSE pending' = otherwisePending /\ status' = otherwiseStatus

\* ConfirmLocked, on the values the caller has just written.
Confirm(accepted, presented, tgt, act, otherwisePending, otherwiseStatus) ==
  IF accepted /\ presented /\ Near(tgt, act)
  THEN pending' = FALSE /\ status' = "Applied"
  ELSE pending' = otherwisePending /\ status' = otherwiseStatus

Rejected_UnchangedToo(result) == result \in {"Failed", "Unsupported", "Unchanged"}

Rejected(result) == result \in {"Failed", "Unsupported"}

\* The result of another generation's request is ignored.
Result(result, size) ==
  /\ resize.active
  /\ resize' = NoToken
  /\ UNCHANGED <<policy, actual, generation, timeLeft, painting>>
  /\ \/ /\ resize.generation # generation
        /\ UNCHANGED <<pending, status, resultAccepted, presentedSinceBegin, target>>
     \/ /\ resize.generation = generation /\ Rejected(result)
        /\ pending' = FALSE /\ status' = result
        /\ UNCHANGED <<resultAccepted, presentedSinceBegin, target>>
     \/ /\ resize.generation = generation /\ ~Rejected(result)
        /\ target' = IF size # 0 THEN size ELSE target
        /\ resultAccepted' = TRUE
        /\ presentedSinceBegin' =
             (presentedSinceBegin \/ (result = "Unchanged" /\ actual # 0))
        /\ Confirm(TRUE, presentedSinceBegin', target', actual, pending,
                   IF result = "Deferred" THEN "Deferred" ELSE "WaitingFrame")

\* RenderSurfaceRgbaFrame reads the generation before it paints.
StartPaint(p) ==
  /\ ~painting[p].active
  /\ painting' = [painting EXCEPT ![p] = TokenOf(generation)]
  /\ UNCHANGED <<policy, actual, progress, target, timeLeft, resize>>

Current_Unchecked(p) == TRUE

Current(p) == painting[p].generation = generation

Presented(p, size) ==
  /\ painting[p].active
  /\ painting' = [painting EXCEPT ![p] = NoToken]
  /\ UNCHANGED <<policy, generation, target, timeLeft, resultAccepted, resize>>
  /\ \/ /\ ~Current(p)
        /\ UNCHANGED <<actual, presentedSinceBegin, pending, status>>
     \/ /\ Current(p)
        /\ actual' = size /\ presentedSinceBegin' = TRUE
        /\ Confirm(resultAccepted, TRUE, target, size, pending, status)

\* A paint that failed reports nothing.
PaintFails(p) ==
  /\ painting[p].active
  /\ painting' = [painting EXCEPT ![p] = NoToken]
  /\ UNCHANGED <<policy, actual, progress, target, timeLeft, resize>>

\* Snapshot and BlocksPointer first expire an overdue resize.
Snapshot_NeverExpires == UNCHANGED vars

Snapshot ==
  /\ pending /\ timeLeft = 0
  /\ pending' = FALSE /\ status' = "Timeout"
  /\ UNCHANGED <<policy, actual, generation, target, timeLeft, resultAccepted,
                 presentedSinceBegin, callers>>

Tick ==
  /\ timeLeft > 0
  /\ timeLeft' = timeLeft - 1
  /\ UNCHANGED <<policy, actual, progress, target, callers>>

Next ==
  \/ Reset \/ InvalidatePresentation \/ SetConnected
  \/ \E on \in BOOLEAN : SetMultimon(on)
  \/ \E wantFixed \in BOOLEAN, size \in Sizes : Select(wantFixed, size)
  \/ \E size \in Sizes : Begin(size)
  \/ \E result \in ResultStatuses, size \in SizeOrNone : Result(result, size)
  \/ \E p \in Painters : StartPaint(p) \/ PaintFails(p)
  \/ \E p \in Painters, size \in Sizes : Presented(p, size)
  \/ Snapshot \/ Tick

\* Time passes, and every pointer event takes a snapshot (BlocksPointer).
Spec == Init /\ [][Next]_vars /\ WF_vars(Snapshot) /\ WF_vars(Tick)
-----------------------------------------------------------------------------
(* The fixed resolution belongs to one session on one monitor: it never    *)
(* outlives a disconnect or a failure, and never coexists with several     *)
(* monitors, in whatever order display and session events arrive.          *)
FixedOnlyInSingleMonitorSession ==
  /\ fixed => connected /\ ~multimon
  /\ fixed <=> requested # 0

(* Input is held back only for a resize that is still open, and an applied *)
(* or refused one has released it.                                         *)
StatusMatchesProgress ==
  /\ pending => status \in {"Applying", "Deferred", "WaitingFrame"}
  /\ status = "Applied" => resultAccepted /\ presentedSinceBegin /\ ~pending
  /\ Rejected(status) => ~resultAccepted /\ ~pending

(* A size is reported as applied only by an event of the current request:  *)
(* its own result, or a paint that started after it began.  A result or a  *)
(* frame that was overtaken by a newer request, a reset or a lost surface  *)
(* never completes anything.                                               *)
AppliedByCurrentEvent ==
  [][(status # "Applied" /\ status' = "Applied") =>
       /\ Near(target', actual') /\ actual' # 0
       /\ \/ resize.active /\ ~resize.overtaken /\ ~resize'.active
          \/ \E p \in Painters :
               painting[p].active /\ ~painting[p].overtaken /\ ~painting'[p].active]_vars

(* Pointer input is held back for the timeout at most.                     *)
InputIsReleased ==
  \A g \in 0 .. MaxGeneration :
    (pending /\ generation = g) ~> (~pending \/ generation # g)
=============================================================================
