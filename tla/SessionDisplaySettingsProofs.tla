-------------------- MODULE SessionDisplaySettingsProofs --------------------
(***************************************************************************)
(* Proofs about SessionDisplaySettings, for every set of sizes, number of  *)
(* painters, tolerance, timeout and bound.                                 *)
(***************************************************************************)
EXTENDS SessionDisplaySettings, TLAPS

\* The initial settings have the types of the state.
LEMMA TypeInit == Init => TypeOK
<1> SUFFICES ASSUME Init PROVE TypeOK
  OBVIOUS
<1>1. 0 \in 0 .. Timeout /\ 0 \in 0 .. MaxGeneration
  BY SettingsAssumption DEF SettingsAssumption
<1>2. NoToken \in Token
  BY <1>1 DEF NoToken, Token
<1>3. QED
  BY <1>1, <1>2, Zenon DEF Init, TypeOK, Statuses, SizeOrNone

\* Moving the generation on keeps the types of everything it changes.
LEMMA AdvanceTypes ==
  ASSUME TypeOK, Advance
  PROVE  /\ generation' \in 0 .. MaxGeneration /\ generation' = generation + 1
         /\ resultAccepted' = FALSE /\ presentedSinceBegin' = FALSE
         /\ resize' \in Token /\ painting' \in [Painters -> Token]
<1>1. resize' \in Token
  BY DEF Advance, TypeOK, Token
<1>2. painting' \in [Painters -> Token]
  BY DEF Advance, TypeOK, Token
<1>3. QED
  BY <1>1, <1>2, SettingsAssumption DEF Advance, TypeOK, SettingsAssumption

\* What every step keeps: the types of the state.
LEMMA TypeStep == TypeOK /\ [Next]_vars => TypeOK'
<1> SUFFICES ASSUME TypeOK, [Next]_vars PROVE TypeOK'
  OBVIOUS
<1> USE SettingsAssumption DEF SettingsAssumption, SizeOrNone, Statuses
<1>1. CASE Reset
  BY <1>1, AdvanceTypes DEF Reset, TypeOK
<1>2. CASE InvalidatePresentation
  BY <1>2, AdvanceTypes DEF InvalidatePresentation, TypeOK, policy
<1>3. CASE SetConnected
  BY <1>3 DEF SetConnected, TypeOK, progress, callers
<1>4. ASSUME NEW on \in BOOLEAN, SetMultimon(on)
      PROVE  TypeOK'
  BY <1>4, AdvanceTypes DEF SetMultimon, TypeOK, progress, callers
<1>5. ASSUME NEW wantFixed \in BOOLEAN, NEW size \in Sizes, Select(wantFixed, size)
      PROVE  TypeOK'
  BY <1>5 DEF Select, TypeOK, progress, callers
<1>6. ASSUME NEW size \in Sizes, Begin(size)
      PROVE  TypeOK'
  <2>1. generation' \in 0 .. MaxGeneration /\ timeLeft' \in 0 .. Timeout
    BY <1>6 DEF Begin, TypeOK
  <2>2. resize' \in Token /\ painting' \in [Painters -> Token]
    BY <1>6, <2>1 DEF Begin, TypeOK, Token, TokenOf
  <2>3. QED
    BY <1>6, <2>1, <2>2 DEF Begin, TypeOK, policy
<1>7. ASSUME NEW result \in ResultStatuses, NEW size \in SizeOrNone, Result(result, size)
      PROVE  TypeOK'
  <2>1. NoToken \in Token
    BY DEF NoToken, Token
  <2>2. QED
    BY <1>7, <2>1 DEF Result, TypeOK, Rejected, Confirm, policy, ResultStatuses
<1>8. ASSUME NEW p \in Painters, StartPaint(p)
      PROVE  TypeOK'
  BY <1>8 DEF StartPaint, TypeOK, Token, TokenOf, policy, progress
<1>9. ASSUME NEW p \in Painters, NEW size \in Sizes, Presented(p, size)
      PROVE  TypeOK'
  <2>1. painting' \in [Painters -> Token]
    BY <1>9 DEF Presented, TypeOK, Token, NoToken
  <2>2. QED
    BY <1>9, <2>1 DEF Presented, TypeOK, Confirm, policy
<1>10. ASSUME NEW p \in Painters, PaintFails(p)
       PROVE  TypeOK'
  BY <1>10 DEF PaintFails, TypeOK, Token, NoToken, policy, progress
<1>11. CASE Snapshot
  BY <1>11 DEF Snapshot, TypeOK, policy, callers
<1>12. CASE Tick
  BY <1>12 DEF Tick, TypeOK, policy, progress, callers
<1>13. CASE UNCHANGED vars
  BY <1>13 DEF vars, TypeOK, policy, progress, callers
<1>14. QED
  BY <1>1, <1>2, <1>3, <1>4, <1>5, <1>6, <1>7, <1>8, <1>9, <1>10, <1>11, <1>12, <1>13 DEF Next

(* The settings keep their types; in particular the status is always one   *)
(* of the nine the user interface knows.                                   *)
THEOREM TypeCorrect == Spec => []TypeOK
BY TypeInit, TypeStep, PTL DEF Spec

-----------------------------------------------------------------------------
(* The inductive invariant: what the policy and the status promise, and    *)
(* that the callers' generations never run ahead, so that a caller whose   *)
(* generation is still the current one has not been overtaken; a resize    *)
(* awaiting its result has none yet, and what was presented has a size.    *)
UpToDate(token) ==
  token.active => /\ token.generation <= generation
                  /\ token.generation = generation => ~token.overtaken
CallersUpToDate == UpToDate(resize) /\ \A p \in Painters : UpToDate(painting[p])
OpenHasNoResult == (resize.active /\ resize.generation = generation) => ~resultAccepted
PresentedHasSize == presentedSinceBegin => actual # 0
IInv ==
  /\ TypeOK /\ FixedOnlyInSingleMonitorSession /\ StatusMatchesProgress
  /\ CallersUpToDate /\ OpenHasNoResult /\ PresentedHasSize

\* Every step keeps the fixed resolution in one session on one monitor.
LEMMA FixedStep == IInv /\ [Next]_vars => FixedOnlyInSingleMonitorSession'
<1> SUFFICES ASSUME IInv, [Next]_vars PROVE FixedOnlyInSingleMonitorSession'
  OBVIOUS
<1> USE SettingsAssumption
    DEF SettingsAssumption, FixedOnlyInSingleMonitorSession, IInv, TypeOK, SizeOrNone
<1>1. CASE Reset
  BY <1>1 DEF Reset
<1>2. ASSUME NEW on \in BOOLEAN, SetMultimon(on)
      PROVE  FixedOnlyInSingleMonitorSession'
  BY <1>2 DEF SetMultimon
<1>3. ASSUME NEW wantFixed \in BOOLEAN, NEW size \in Sizes, Select(wantFixed, size)
      PROVE  FixedOnlyInSingleMonitorSession'
  BY <1>3 DEF Select, SelectAllowed
<1>4. CASE SetConnected
  BY <1>4 DEF SetConnected
<1>5. CASE UNCHANGED policy
  BY <1>5 DEF policy
<1>6. QED
  BY <1>1, <1>2, <1>3, <1>4, <1>5
     DEF Next, InvalidatePresentation, Begin, Result, StartPaint, Presented, PaintFails,
         Snapshot, Tick, vars

\* Every step keeps the status in accord with what has happened.
LEMMA StatusStep == IInv /\ [Next]_vars => StatusMatchesProgress'
<1> SUFFICES ASSUME IInv, [Next]_vars PROVE StatusMatchesProgress'
  OBVIOUS
<1> USE DEF StatusMatchesProgress, IInv, Rejected
<1>1. CASE Reset \/ InvalidatePresentation
  BY <1>1 DEF Reset, InvalidatePresentation, Advance
<1>2. ASSUME NEW on \in BOOLEAN, SetMultimon(on)
      PROVE  StatusMatchesProgress'
  BY <1>2 DEF SetMultimon, Advance, progress
<1>3. ASSUME NEW size \in Sizes, Begin(size)
      PROVE  StatusMatchesProgress'
  BY <1>3 DEF Begin
<1>4. ASSUME NEW result \in ResultStatuses, NEW size \in SizeOrNone, Result(result, size)
      PROVE  StatusMatchesProgress'
  <2>1. CASE UNCHANGED <<pending, status, resultAccepted, presentedSinceBegin>>
    BY <2>1
  <2>2. CASE resize.generation = generation /\ Rejected(result)
    <3>1. pending' = FALSE /\ status' = result /\ ~resultAccepted'
      BY <1>4, <2>2 DEF Result, OpenHasNoResult, Confirm
    <3>2. QED
      BY <2>2, <3>1
  <2>3. CASE resize.generation = generation /\ ~Rejected(result)
    <3>1. /\ resultAccepted' = TRUE
          /\ \/ pending' = FALSE /\ status' = "Applied" /\ presentedSinceBegin'
             \/ pending' = pending /\ status' \in {"Deferred", "WaitingFrame"}
      BY <1>4, <2>3, Zenon DEF Result, Confirm
    <3>2. QED
      BY <3>1
  <2>4. QED
    BY <1>4, <2>1, <2>2, <2>3, Zenon DEF Result
<1>5. ASSUME NEW p \in Painters, NEW size \in Sizes, Presented(p, size)
      PROVE  StatusMatchesProgress'
  BY <1>5 DEF Presented, Confirm
<1>6. CASE Snapshot
  BY <1>6 DEF Snapshot
<1>7. CASE UNCHANGED progress
  BY <1>7 DEF progress
<1>8. QED
  BY <1>1, <1>2, <1>3, <1>4, <1>5, <1>6, <1>7
     DEF Next, SetConnected, Select, StartPaint, PaintFails, Tick, vars

\* A new generation overtakes every caller.
LEMMA AdvanceOvertakes == IInv /\ Advance => CallersUpToDate'
<1> SUFFICES ASSUME IInv, Advance PROVE CallersUpToDate'
  OBVIOUS
<1> USE SettingsAssumption DEF SettingsAssumption, IInv, TypeOK, Token, CallersUpToDate, UpToDate
<1>1. UpToDate(resize)'
  BY DEF Advance
<1>2. ASSUME NEW p \in Painters PROVE UpToDate(painting[p])'
  BY <1>2 DEF Advance
<1>3. QED
  BY <1>1, <1>2

\* Every step keeps the callers' generations behind or up to date.
LEMMA CallersStep == IInv /\ [Next]_vars => CallersUpToDate'
<1> SUFFICES ASSUME IInv, [Next]_vars PROVE CallersUpToDate'
  OBVIOUS
<1> USE SettingsAssumption DEF SettingsAssumption, IInv, TypeOK, Token, CallersUpToDate, UpToDate
<1>1. CASE Advance
  BY <1>1, AdvanceOvertakes
<1>2. ASSUME NEW size \in Sizes, Begin(size)
      PROVE  CallersUpToDate'
  <2>1. UpToDate(resize)'
    BY <1>2 DEF Begin, TokenOf
  <2>2. ASSUME NEW p \in Painters PROVE UpToDate(painting[p])'
    BY <1>2, <2>2 DEF Begin
  <2>3. QED
    BY <2>1, <2>2
<1>3. ASSUME NEW result \in ResultStatuses, NEW size \in SizeOrNone, Result(result, size)
      PROVE  CallersUpToDate'
  BY <1>3 DEF Result, NoToken
<1>4. ASSUME NEW p \in Painters, StartPaint(p)
      PROVE  CallersUpToDate'
  BY <1>4 DEF StartPaint, TokenOf, progress
<1>5. ASSUME NEW p \in Painters, painting' = [painting EXCEPT ![p] = NoToken],
             UNCHANGED <<generation, resize>>
      PROVE  CallersUpToDate'
  BY <1>5 DEF NoToken
<1>6. CASE UNCHANGED <<generation, callers>>
  BY <1>6 DEF callers
<1>7. QED
  BY <1>1, <1>2, <1>3, <1>4, <1>5, <1>6
     DEF Next, Reset, InvalidatePresentation, SetConnected, SetMultimon, Select, Presented,
         PaintFails, Snapshot, Tick, vars, progress, callers

\* Every step keeps the result of an open resize unaccepted.
LEMMA OpenStep == IInv /\ [Next]_vars => OpenHasNoResult'
<1> SUFFICES ASSUME IInv, [Next]_vars PROVE OpenHasNoResult'
  OBVIOUS
<1> USE DEF IInv, OpenHasNoResult
<1>1. CASE Advance
  BY <1>1 DEF Advance
<1>2. ASSUME NEW size \in Sizes, Begin(size)
      PROVE  OpenHasNoResult'
  BY <1>2 DEF Begin
<1>3. ASSUME NEW result \in ResultStatuses, NEW size \in SizeOrNone, Result(result, size)
      PROVE  OpenHasNoResult'
  BY <1>3 DEF Result, NoToken
<1>4. CASE UNCHANGED <<generation, resultAccepted, resize>>
  BY <1>4
<1>5. QED
  BY <1>1, <1>2, <1>3, <1>4
     DEF Next, Reset, InvalidatePresentation, SetConnected, SetMultimon, Select, StartPaint,
         Presented, PaintFails, Snapshot, Tick, vars, progress, callers

\* Every step keeps what was presented with its size.
LEMMA PresentedStep == IInv /\ [Next]_vars => PresentedHasSize'
<1> SUFFICES ASSUME IInv, [Next]_vars PROVE PresentedHasSize'
  OBVIOUS
<1> USE DEF IInv, PresentedHasSize
<1>1. CASE Advance
  BY <1>1 DEF Advance
<1>2. ASSUME NEW result \in ResultStatuses, NEW size \in SizeOrNone, Result(result, size)
      PROVE  PresentedHasSize'
  BY <1>2 DEF Result
<1>3. ASSUME NEW p \in Painters, NEW size \in Sizes, Presented(p, size)
      PROVE  PresentedHasSize'
  BY <1>3, SettingsAssumption DEF Presented, SettingsAssumption
<1>4. ASSUME NEW size \in Sizes, Begin(size)
      PROVE  PresentedHasSize'
  BY <1>4 DEF Begin
<1>5. CASE UNCHANGED <<presentedSinceBegin, actual>>
  BY <1>5
<1>6. QED
  BY <1>1, <1>2, <1>3, <1>4, <1>5
     DEF Next, Reset, InvalidatePresentation, SetConnected, SetMultimon, Select, StartPaint,
         PaintFails, Snapshot, Tick, vars, progress, callers

\* IInv holds in every reachable state.
LEMMA Invariance == Spec => []IInv
<1>1. Init => IInv
  BY TypeInit DEF Init, IInv, FixedOnlyInSingleMonitorSession, StatusMatchesProgress,
                  CallersUpToDate, UpToDate, OpenHasNoResult, PresentedHasSize, NoToken, Rejected
<1>2. IInv /\ [Next]_vars => IInv'
  BY TypeStep, FixedStep, StatusStep, CallersStep, OpenStep, PresentedStep DEF IInv
<1>3. QED
  BY <1>1, <1>2, PTL DEF Spec

(* A fixed resolution never survives its session nor enters a session that *)
(* spans several monitors.                                                 *)
THEOREM FixedIsPerSession == Spec => []FixedOnlyInSingleMonitorSession
<1>1. IInv => FixedOnlyInSingleMonitorSession
  BY DEF IInv
<1>2. QED
  BY <1>1, Invariance, PTL

(* The status never claims more than what has happened to the request.     *)
THEOREM StatusIsHonest == Spec => []StatusMatchesProgress
<1>1. IInv => StatusMatchesProgress
  BY DEF IInv
<1>2. QED
  BY <1>1, Invariance, PTL

(* Only the result of the current request, or a paint begun after it, ever *)
(* turns the status to Applied, and only for a frame of about that size.   *)
THEOREM AppliedIsCurrent == Spec => AppliedByCurrentEvent
<1> DEFINE Applied == status # "Applied" /\ status' = "Applied"
           Current_ == /\ Near(target', actual') /\ actual' # 0
                       /\ \/ resize.active /\ ~resize.overtaken /\ ~resize'.active
                          \/ \E p \in Painters : painting[p].active /\ ~painting[p].overtaken
                                                 /\ ~painting'[p].active
<1>1. IInv /\ [Next]_vars => [Applied => Current_]_vars
  <2> SUFFICES ASSUME IInv, Next, Applied PROVE Current_
    BY DEF vars
  <2> USE SettingsAssumption DEF SettingsAssumption, IInv, CallersUpToDate, UpToDate
  <2>1. ASSUME NEW result \in ResultStatuses, NEW size \in SizeOrNone, Result(result, size)
        PROVE  Current_
    <3>1. resize.active /\ ~resize.overtaken /\ ~resize'.active
      BY <2>1 DEF Result, Rejected, NoToken
    <3>2. Near(target', actual') /\ presentedSinceBegin' /\ actual' = actual
      BY <2>1 DEF Result, Rejected, Confirm
    <3>3. actual # 0
      BY <2>1, <3>2 DEF Result, PresentedHasSize
    <3>4. QED
      BY <3>1, <3>2, <3>3
  <2>2. ASSUME NEW p \in Painters, NEW size \in Sizes, Presented(p, size)
        PROVE  Current_
    <3>1. size # 0 /\ Near(target, size) /\ actual' = size /\ target' = target
      BY <2>2 DEF Presented, Confirm
    <3>2. painting[p].active /\ ~painting[p].overtaken
      BY <2>2 DEF Presented, Current
    <3>3. ~painting'[p].active
      BY <2>2 DEF Presented, NoToken, TypeOK
    <3>4. QED
      BY <3>1, <3>2, <3>3 DEF Near
  <2>3. QED
    BY <2>1, <2>2
       DEF Next, Reset, InvalidatePresentation, SetConnected, SetMultimon, Select, Begin,
           StartPaint, PaintFails, Snapshot, Tick, progress
<1>2. QED
  BY <1>1, Invariance, PTL DEF Spec, AppliedByCurrentEvent
=============================================================================
