----------------------- MODULE PermissionRequestsProofs -----------------------
(***************************************************************************)
(* A permission's request has one owner, and its answer is its own: for    *)
(* every set of threads and pages, every bound on the requests and every   *)
(* width of their numbers.                                                 *)
(***************************************************************************)
EXTENDS PermissionRequests, TLAPS

\* Requests are numbered from 1, and the next number has not been used.
NextIsFresh == nextRequestId = IF begun = MaxRequestId THEN 1 ELSE begun + 1

\* Only requests that have begun are on their way up or down, or answered.
OnlyBegunTravel ==
  /\ \A r \in queued : r <= begun
  /\ \A d \in deferred : d.id <= begun
  /\ \A p \in Pages : \A r \in prompted[p] : r <= begun
  /\ \A a \in answers : a.id <= begun
  /\ \A r \in RequestIds : said[r] # "nothing" => r <= begun

\* Calls are queued for a page that has registered.
CalledByAPage == page = 0 => ~registered /\ queued = {}

\* The bridge holds a yes exactly if the last word on the pending request was yes.
HoldsTheLastWord ==
  pending => /\ pendingRequestId \in 1 .. begun
             /\ (completed /\ granted <=> said[pendingRequestId] = "yes")

\* The two outcomes of ensurePermission.
AnsweredAtOnce(request) ==
  /\ \E yes \in BOOLEAN : answers' = answers \union {[id |-> request.id, granted |-> yes]}
  /\ UNCHANGED <<prompted, requested>>

Prompted(request) ==
  /\ prompted' = [prompted EXCEPT ![request.page] = @ \union {request.id}]
  /\ requested' = [requested EXCEPT ![request.page] = TRUE]
  /\ UNCHANGED answers

IInv ==
  /\ TypeOK /\ NextIsFresh /\ OnlyBegunTravel /\ CalledByAPage /\ HoldsTheLastWord
  /\ PendingHasOneOwner
-----------------------------------------------------------------------------
LEMMA NumbersAreNaturals ==
  /\ MaxRequestId \in Nat \ {0} /\ MaxRequests \in Nat /\ MaxPages \in Nat
  /\ MaxRequests <= MaxRequestId
BY RequestAssumption DEF RequestAssumption

LEMMA InvInit == Init => IInv
<1> SUFFICES ASSUME Init PROVE IInv
  OBVIOUS
<1>1. /\ 0 \in 0 .. MaxRequestId /\ 0 \in 0 .. MaxPages /\ 0 \in 0 .. MaxRequests
      /\ 1 \in RequestIds
  BY NumbersAreNaturals DEF RequestIds
<1>2. TypeOK
  BY <1>1, Zenon DEF Init, TypeOK
<1>3. NextIsFresh /\ OnlyBegunTravel /\ CalledByAPage /\ HoldsTheLastWord
  BY NumbersAreNaturals
     DEF Init, NextIsFresh, OnlyBegunTravel, CalledByAPage, HoldsTheLastWord, Pages
<1>4. PendingHasOneOwner
  BY DEF Init, PendingHasOneOwner, Owns
<1>5. QED
  BY <1>2, <1>3, <1>4 DEF IInv
-----------------------------------------------------------------------------
LEMMA EnsureEffect ==
  ASSUME NEW request, EnsurePermission(request)
  PROVE  AnsweredAtOnce(request) \/ Prompted(request)
BY DEF EnsurePermission, AnsweredAtOnce, Prompted
-----------------------------------------------------------------------------
(* What the steps do to the types.                                         *)

LEMMA CallerTypes ==
  ASSUME IInv, NEW c \in Callers, CallerNext(c)
  PROVE  TypeOK'
<1> USE NumbersAreNaturals DEF IInv
<1>1. CASE Skipped(c)
  BY <1>1 DEF TypeOK, Skipped, bridgeVars, sinkVars, uiVars, systemVars, sessionVars, histVars
<1>2. CASE Joins(c)
  BY <1>2 DEF TypeOK, Joins, bridgeVars, sinkVars, uiVars, systemVars, sessionVars, histVars
<1>3. CASE Begins(c)
  <2>1. nextRequestId' \in RequestIds /\ begun' \in 0 .. MaxRequests
        /\ nextRequestId \in 0 .. MaxRequestId
    BY <1>3 DEF TypeOK, Begins, NextRequestId, RequestIds
  <2>2. QED
    BY <1>3, <2>1
       DEF TypeOK, Begins, sinkVars, uiVars, systemVars, sessionVars
<1>4. CASE Emit(c)
  <2>1. requestId[c] = pendingRequestId /\ pendingRequestId \in 1 .. begun
    BY <1>4 DEF Emit, PendingHasOneOwner, Owns, HoldsTheLastWord
  <2>2. requestId[c] \in RequestIds
    BY <2>1 DEF TypeOK, RequestIds
  <2>3. QED
    BY <1>4, <2>2 DEF TypeOK, Emit, bridgeVars, uiVars, systemVars, sessionVars, histVars
<1>5. CASE OwnerReturns(c)
  BY <1>5 DEF TypeOK, OwnerReturns, EndsRequest, sinkVars, uiVars, systemVars, sessionVars,
              histVars
<1>6. CASE WaiterReturns(c)
  BY <1>6 DEF TypeOK, WaiterReturns, bridgeVars, sinkVars, uiVars, systemVars, sessionVars,
              histVars
<1>7. QED
  BY <1>1, <1>2, <1>3, <1>4, <1>5, <1>6 DEF CallerNext

LEMMA UiTypes ==
  ASSUME TypeOK, CalledByAPage, UiNext
  PROVE  TypeOK'
<1> USE NumbersAreNaturals
<1>1. ASSUME NEW answer \in answers, CompletePermissionRequest(answer) PROVE TypeOK'
  <2>1. answer \in Answers
    BY DEF TypeOK
  <2>2. granted' \in BOOLEAN /\ completed' \in BOOLEAN
    BY <1>1, <2>1, Zenon DEF TypeOK, CompletePermissionRequest, CompleteFromUi, Answers, bridgeVars
  <2>3. UNCHANGED <<pending, pendingRequestId, nextRequestId>>
    BY <1>1 DEF CompletePermissionRequest, CompleteFromUi, bridgeVars
  <2>4. said' \in [RequestIds -> {"nothing", "yes", "no"}]
    BY <1>1, <2>1 DEF TypeOK, CompletePermissionRequest, Answers
  <2>5. QED
    BY <1>1, <2>2, <2>3, <2>4
       DEF TypeOK, CompletePermissionRequest, callerVars, sinkVars, systemVars, sessionVars
<1>2. ASSUME NEW id \in queued, CallStringCallback(id) PROVE TypeOK'
  <2>1. page \in Pages
    BY DEF TypeOK, CalledByAPage, Pages
  <2>2. QED
    BY <1>2, <2>1 DEF TypeOK, CallStringCallback, Deferred, bridgeVars, callerVars, systemVars,
                      sessionVars, histVars
<1>3. ASSUME NEW request \in deferred, HandleRequest(request) PROVE TypeOK'
  <2>1. request \in Deferred
    BY DEF TypeOK
  <2>2. answers' \in SUBSET Answers /\ prompted' \in [Pages -> SUBSET RequestIds]
        /\ requested' \in [Pages -> BOOLEAN]
    <3>1. request.id \in RequestIds /\ request.page \in Pages
      BY <2>1 DEF Deferred
    <3>2. \A yes \in BOOLEAN : [id |-> request.id, granted |-> yes] \in Answers
      BY <3>1 DEF Answers
    <3>3. CASE AnsweredAtOnce(request)
      BY <3>2, <3>3 DEF TypeOK, AnsweredAtOnce
    <3>4. CASE Prompted(request)
      BY <3>1, <3>4 DEF TypeOK, Prompted
    <3>5. QED
      BY <1>3, <3>3, <3>4, EnsureEffect DEF HandleRequest
  <2>3. QED
    BY <1>3, <2>2 DEF TypeOK, HandleRequest, bridgeVars, callerVars, sinkVars, systemVars,
                      sessionVars, histVars
<1>4. ASSUME NEW p \in Pages, NEW reply \in Replies, RequestRuntimePermissions(p, reply)
      PROVE TypeOK'
  <2>1. permitted' \in BOOLEAN
    BY <1>4 DEF TypeOK, RequestRuntimePermissions
  <2>2. answers' \in SUBSET Answers /\ prompted' \in [Pages -> SUBSET RequestIds]
    BY <1>4, <2>1 DEF TypeOK, RequestRuntimePermissions, Answers
  <2>3. QED
    BY <1>4, <2>1, <2>2 DEF TypeOK, RequestRuntimePermissions, bridgeVars, callerVars, sinkVars,
                            sessionVars, histVars
<1>5. ASSUME NEW ok \in BOOLEAN, OnPermissionRequest(ok) PROVE TypeOK'
  <2>1. page' \in 0 .. MaxPages
    BY <1>5 DEF TypeOK, OnPermissionRequest
  <2>2. QED
    BY <1>5, <2>1 DEF TypeOK, OnPermissionRequest, bridgeVars, callerVars, uiVars, systemVars,
                      sessionVars, histVars
<1>6. CASE GrantInSettings
  BY <1>6 DEF TypeOK, GrantInSettings, bridgeVars, callerVars, sinkVars, uiVars, sessionVars,
              histVars
<1>7. CASE Disconnect \/ Connect \/ WorkerJoined
  BY <1>7 DEF TypeOK, Disconnect, Connect, WorkerJoined, bridgeVars, callerVars, sinkVars,
              uiVars, systemVars, histVars
<1>8. QED
  BY <1>1, <1>2, <1>3, <1>4, <1>5, <1>6, <1>7 DEF UiNext
-----------------------------------------------------------------------------
(* Numbers, and what travels under them.                                   *)

LEMMA NumbersStep ==
  ASSUME IInv, [Next]_vars
  PROVE  NextIsFresh'
<1> USE NumbersAreNaturals DEF IInv
<1>1. ASSUME NEW c \in Callers, Begins(c) PROVE NextIsFresh'
  BY <1>1 DEF TypeOK, NextIsFresh, Begins, NextRequestId
<1>2. CASE UNCHANGED <<nextRequestId, begun>>
  BY <1>2 DEF NextIsFresh
<1>3. QED
  BY <1>1, <1>2
     DEF Next, CallerNext, UiNext, Skipped, Joins, Emit, OwnerReturns, WaiterReturns,
         CompletePermissionRequest, CompleteFromUi, CallStringCallback, HandleRequest,
         RequestRuntimePermissions, GrantInSettings, OnPermissionRequest, Disconnect, Connect,
         WorkerJoined, vars, bridgeVars, histVars

LEMMA PageStep ==
  ASSUME IInv, [Next]_vars
  PROVE  CalledByAPage'
<1> USE NumbersAreNaturals DEF IInv, CalledByAPage
<1>1. ASSUME NEW c \in Callers, Emit(c) PROVE CalledByAPage'
  BY <1>1 DEF Emit
<1>2. ASSUME NEW id \in queued, CallStringCallback(id) PROVE CalledByAPage'
  BY <1>2 DEF CallStringCallback
<1>3. ASSUME NEW ok \in BOOLEAN, OnPermissionRequest(ok) PROVE CalledByAPage'
  BY <1>3 DEF OnPermissionRequest, TypeOK
<1>4. CASE UNCHANGED sinkVars
  BY <1>4 DEF sinkVars
<1>5. QED
  BY <1>1, <1>2, <1>3, <1>4
     DEF Next, CallerNext, UiNext, Skipped, Joins, Begins, OwnerReturns, WaiterReturns,
         CompletePermissionRequest, HandleRequest, RequestRuntimePermissions, GrantInSettings,
         Disconnect, Connect, WorkerJoined, vars

LEMMA TravelStep ==
  ASSUME IInv, [Next]_vars
  PROVE  OnlyBegunTravel'
<1> USE NumbersAreNaturals DEF IInv
<1>1. ASSUME NEW c \in Callers, Begins(c) PROVE OnlyBegunTravel'
  <2>1. begun' = begun + 1 /\ begun \in Nat
    BY <1>1 DEF Begins, TypeOK
  <2>2. \A r \in RequestIds : r <= begun => r <= begun'
    BY <2>1 DEF RequestIds
  <2>3. UNCHANGED <<queued, deferred, prompted, answers, said>>
    BY <1>1 DEF Begins, sinkVars, uiVars
  <2>4. QED
    BY <2>2, <2>3 DEF OnlyBegunTravel, TypeOK, Deferred, Answers
<1>2. ASSUME NEW c \in Callers, Emit(c) PROVE OnlyBegunTravel'
  <2>1. requestId[c] <= begun
    BY <1>2 DEF Emit, PendingHasOneOwner, Owns, HoldsTheLastWord
  <2>2. QED
    BY <1>2, <2>1 DEF OnlyBegunTravel, Emit, uiVars, histVars
<1>3. ASSUME NEW answer \in answers, CompletePermissionRequest(answer) PROVE OnlyBegunTravel'
  <2>1. answer.id <= begun /\ UNCHANGED <<queued, deferred, prompted, begun>>
        /\ answers' = answers \ {answer}
    BY <1>3 DEF OnlyBegunTravel, CompletePermissionRequest, sinkVars
  <2>2. \A r \in RequestIds : said'[r] # "nothing" => r = answer.id \/ said[r] # "nothing"
    BY <1>3 DEF CompletePermissionRequest, TypeOK
  <2>3. QED
    BY <2>1, <2>2 DEF OnlyBegunTravel
<1>4. ASSUME NEW id \in queued, CallStringCallback(id) PROVE OnlyBegunTravel'
  BY <1>4 DEF OnlyBegunTravel, CallStringCallback, histVars
<1>5. ASSUME NEW request \in deferred, HandleRequest(request) PROVE OnlyBegunTravel'
  <2>1. request.id <= begun /\ deferred' = deferred \ {request}
        /\ UNCHANGED <<queued, begun, said>>
    BY <1>5 DEF OnlyBegunTravel, HandleRequest, sinkVars, histVars
  <2>2. CASE AnsweredAtOnce(request)
    BY <2>1, <2>2 DEF OnlyBegunTravel, AnsweredAtOnce
  <2>3. CASE Prompted(request)
    BY <2>1, <2>3 DEF OnlyBegunTravel, Prompted, TypeOK
  <2>4. QED
    BY <1>5, <2>2, <2>3, EnsureEffect DEF HandleRequest
<1>6. ASSUME NEW p \in Pages, NEW reply \in Replies, RequestRuntimePermissions(p, reply)
      PROVE OnlyBegunTravel'
  <2>1. \A a \in answers' : a.id \in prompted[p]
    BY <1>6 DEF RequestRuntimePermissions
  <2>2. UNCHANGED <<queued, deferred, begun, said>>
        /\ \A q \in Pages : \A r \in prompted'[q] : r \in prompted[q]
    BY <1>6 DEF RequestRuntimePermissions, TypeOK, sinkVars, histVars
  <2>3. QED
    BY <2>1, <2>2 DEF OnlyBegunTravel
<1>7. ASSUME NEW ok \in BOOLEAN, OnPermissionRequest(ok) PROVE OnlyBegunTravel'
  BY <1>7 DEF OnlyBegunTravel, OnPermissionRequest, uiVars, histVars
<1>8. CASE UNCHANGED <<sinkVars, uiVars, histVars>>
  BY <1>8 DEF OnlyBegunTravel, sinkVars, uiVars, histVars
<1>9. QED
  BY <1>1, <1>2, <1>3, <1>4, <1>5, <1>6, <1>7, <1>8
     DEF Next, CallerNext, UiNext, Skipped, Joins, OwnerReturns, WaiterReturns, GrantInSettings,
         Disconnect, Connect, WorkerJoined, vars
-----------------------------------------------------------------------------
(* The pending request.                                                    *)

LEMMA LastWordStep ==
  ASSUME IInv, [Next]_vars
  PROVE  HoldsTheLastWord'
<1> USE NumbersAreNaturals DEF IInv
<1>1. ASSUME NEW c \in Callers, Begins(c) PROVE HoldsTheLastWord'
  <2>1. pendingRequestId' = begun + 1 /\ begun' = begun + 1 /\ begun + 1 \in RequestIds
        /\ begun \in Nat
    BY <1>1 DEF Begins, NextIsFresh, TypeOK, RequestIds
  <2>2. said'[begun + 1] = "nothing" /\ completed' = FALSE
    BY <1>1, <2>1 DEF Begins, OnlyBegunTravel
  <2>3. QED
    BY <2>1, <2>2 DEF HoldsTheLastWord
<1>2. ASSUME NEW c \in Callers, OwnerReturns(c) PROVE HoldsTheLastWord'
  <2>1. ~pending'
    BY <1>2 DEF OwnerReturns, EndsRequest, PendingHasOneOwner, Owns
  <2>2. QED
    BY <2>1 DEF HoldsTheLastWord
<1>3. ASSUME NEW answer \in answers, CompletePermissionRequest(answer) PROVE HoldsTheLastWord'
  <2>1. answer.id \in RequestIds /\ answer.granted \in BOOLEAN
    BY DEF TypeOK, Answers
  <2>2. UNCHANGED <<pending, pendingRequestId, begun>>
    BY <1>3 DEF CompletePermissionRequest, CompleteFromUi, bridgeVars
  <2>3. CASE pending /\ pendingRequestId = answer.id
    <3>1. completed' = TRUE /\ granted' = answer.granted
      BY <1>3, <2>3 DEF CompletePermissionRequest, CompleteFromUi
    <3>2. said'[pendingRequestId] = IF answer.granted THEN "yes" ELSE "no"
      BY <1>3, <2>1, <2>3 DEF CompletePermissionRequest, TypeOK
    <3>3. (completed' /\ granted') <=> said'[pendingRequestId] = "yes"
      BY <3>1, <3>2, <2>1
    <3>4. QED
      BY <3>3, <2>2, <2>3 DEF HoldsTheLastWord
  <2>4. CASE ~(pending /\ pendingRequestId = answer.id)
    <3>1. UNCHANGED <<completed, granted>>
      BY <1>3, <2>4 DEF CompletePermissionRequest, CompleteFromUi, bridgeVars
    <3>2. pending => said'[pendingRequestId] = said[pendingRequestId]
      BY <1>3, <2>1, <2>4 DEF CompletePermissionRequest, TypeOK
    <3>3. QED
      BY <3>1, <3>2, <2>2 DEF HoldsTheLastWord
  <2>5. QED
    BY <2>3, <2>4
<1>4. CASE UNCHANGED <<bridgeVars, histVars>>
  BY <1>4 DEF HoldsTheLastWord, bridgeVars, histVars
<1>5. QED
  BY <1>1, <1>2, <1>3, <1>4
     DEF Next, CallerNext, UiNext, Skipped, Joins, Emit, WaiterReturns, CallStringCallback,
         HandleRequest, RequestRuntimePermissions, GrantInSettings, OnPermissionRequest,
         Disconnect, Connect, WorkerJoined, vars

LEMMA OwnerStep ==
  ASSUME IInv, [Next]_vars
  PROVE  PendingHasOneOwner'
<1> USE DEF IInv
<1>1. ASSUME NEW c \in Callers, Begins(c) PROVE PendingHasOneOwner'
  <2>1. \A d \in Callers : ~Owns(d)
    BY <1>1 DEF Begins, PendingHasOneOwner
  <2>2. \A d \in Callers : Owns(d)' <=> d = c
    BY <1>1, <2>1 DEF Begins, Owns, TypeOK
  <2>3. pending' /\ requestId'[c] = pendingRequestId'
    BY <1>1 DEF Begins, TypeOK
  <2>4. QED
    BY <2>2, <2>3 DEF PendingHasOneOwner
<1>2. ASSUME NEW c \in Callers, OwnerReturns(c) PROVE PendingHasOneOwner'
  <2>1. Owns(c) /\ pendingRequestId = requestId[c]
    BY <1>2 DEF OwnerReturns, Owns, PendingHasOneOwner
  <2>2. ~pending' /\ ~completed'
    BY <1>2, <2>1 DEF OwnerReturns, EndsRequest
  <2>3. \A d \in Callers : ~Owns(d)'
    BY <1>2, <2>1 DEF OwnerReturns, Owns, PendingHasOneOwner, TypeOK
  <2>4. QED
    BY <2>2, <2>3 DEF PendingHasOneOwner
<1>3. ASSUME NEW answer \in answers, CompletePermissionRequest(answer)
      PROVE PendingHasOneOwner'
  <2>1. UNCHANGED <<pending, pendingRequestId, caller, requestId>>
        /\ (~pending => UNCHANGED completed)
    BY <1>3 DEF CompletePermissionRequest, CompleteFromUi, bridgeVars, callerVars
  <2>2. QED
    BY <2>1 DEF PendingHasOneOwner, Owns
<1>4. ASSUME UNCHANGED <<bridgeVars, requestId>>, \A d \in Callers : Owns(d)' <=> Owns(d)
      PROVE PendingHasOneOwner'
  BY <1>4 DEF PendingHasOneOwner, bridgeVars
<1>5. ASSUME NEW c \in Callers, Skipped(c) \/ Joins(c) \/ Emit(c) \/ WaiterReturns(c)
      PROVE PendingHasOneOwner'
  BY <1>4, <1>5 DEF Skipped, Joins, Emit, WaiterReturns, Owns, TypeOK
<1>6. CASE UNCHANGED <<bridgeVars, callerVars>>
  BY <1>4, <1>6 DEF Owns, callerVars
<1>7. QED
  BY <1>1, <1>2, <1>3, <1>5, <1>6
     DEF Next, CallerNext, UiNext, CallStringCallback, HandleRequest, RequestRuntimePermissions,
         GrantInSettings, OnPermissionRequest, Disconnect, Connect, WorkerJoined, vars
-----------------------------------------------------------------------------
LEMMA Invariance == Spec => []IInv
<1>1. IInv /\ [Next]_vars => IInv'
  <2> SUFFICES ASSUME IInv, [Next]_vars PROVE IInv'
    OBVIOUS
  <2>1. TypeOK'
    <3>1. CASE UNCHANGED vars
      BY <3>1 DEF IInv, TypeOK, vars, bridgeVars, callerVars, sinkVars, uiVars, systemVars,
                  sessionVars, histVars
    <3>2. QED
      BY <3>1, CallerTypes, UiTypes DEF IInv, Next
  <2>2. QED
    BY <2>1, NumbersStep, PageStep, TravelStep, LastWordStep, OwnerStep DEF IInv
<1>2. QED
  BY <1>1, InvInit, PTL DEF Spec

(* Every variable keeps to its type: the bridge's numbers are uint32_t that *)
(* skip 0, and no call, prompt or answer carries the number 0.             *)
THEOREM TypeCorrect == Spec => []TypeOK
<1>1. IInv => TypeOK
  BY DEF IInv
<1>2. QED
  BY <1>1, Invariance, PTL

(* A pending request has one thread in it, the one it is numbered for, and *)
(* nothing is left pending once that thread has returned.                  *)
THEOREM OneOwner == Spec => []PendingHasOneOwner
<1>1. IInv => PendingHasOneOwner
  BY DEF IInv
<1>2. QED
  BY <1>1, Invariance, PTL

(* What Request returns is the user interface's last word on that request, *)
(* however late other answers come and whoever joined in the meantime.     *)
THEOREM AnswerIsOwn == Spec => AnswersAreTheUsers
<1> DEFINE Returns(c) == caller[c] # "idle" /\ caller'[c] = "idle"
           Told(c) == IF caller[c] = "waitsForOwn"
                      THEN result'[c] <=> said[requestId[c]] = "yes"
                      ELSE result'[c] => pending /\ said[pendingRequestId] = "yes"
<1>1. IInv /\ [Next]_vars => [\A c \in Callers : Returns(c) => Told(c)]_vars
  <2> SUFFICES ASSUME IInv, Next, NEW c \in Callers, Returns(c) PROVE Told(c)
    OBVIOUS
  <2> USE DEF IInv
  <2>1. OwnerReturns(c) \/ WaiterReturns(c)
    <3>1. \E d \in Callers : CallerNext(d)
      BY DEF Next, UiNext, CompletePermissionRequest, CallStringCallback, HandleRequest,
             RequestRuntimePermissions, GrantInSettings, OnPermissionRequest, Disconnect,
             Connect, WorkerJoined, callerVars
    <3>2. PICK d \in Callers : CallerNext(d)
      BY <3>1
    <3>3. OwnerReturns(d) \/ WaiterReturns(d)
      BY <3>2 DEF CallerNext, Skipped, Joins, Begins, Emit, TypeOK
    <3>4. d = c
      BY <3>3 DEF OwnerReturns, WaiterReturns, TypeOK
    <3>5. QED
      BY <3>3, <3>4
  <2>2. CASE OwnerReturns(c)
    <3>1. caller[c] = "waitsForOwn" /\ pending /\ pendingRequestId = requestId[c]
      BY <2>2 DEF OwnerReturns, PendingHasOneOwner, Owns
    <3>2. result'[c] <=> completed /\ granted
      BY <2>2, <3>1 DEF OwnerReturns, TypeOK
    <3>3. QED
      BY <3>1, <3>2 DEF HoldsTheLastWord
  <2>3. CASE WaiterReturns(c)
    <3>1. caller[c] = "waitsForOther" /\ (result'[c] <=> completed /\ granted)
      BY <2>3 DEF WaiterReturns, TypeOK
    <3>2. QED
      BY <3>1 DEF HoldsTheLastWord, PendingHasOneOwner
  <2>4. QED
    BY <2>1, <2>2, <2>3
<1>2. QED
  BY <1>1, Invariance, PTL DEF Spec, AnswersAreTheUsers
=============================================================================
