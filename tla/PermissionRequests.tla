------------------------- MODULE PermissionRequests -------------------------
(***************************************************************************)
(* One of the four permission routes (microphone, camera, clipboard,       *)
(* location): the threads of FreeRDP's channels block in                   *)
(* napi/permission_request_bridge until the JavaScript thread has asked    *)
(* the user, or until they have waited long enough.                        *)
(*                                                                         *)
(* Waits have no clock here: a wait_for may time out at any moment.  The   *)
(* queues of the JavaScript thread are sets: nothing depends on the order  *)
(* in which requests with different numbers are handled.                   *)
(***************************************************************************)
EXTENDS Naturals

CONSTANTS
  Callers,        \* threads of FreeRDP that ask for this permission
  MaxRequestId,   \* the largest uint32_t
  MaxRequests,    \* bound on the requests that are given a number
  MaxPages        \* bound on the pages that register for the requests

\* Numbers are not used up: 2^32 requests are out of a process's reach.
ASSUME RequestAssumption ==
  /\ MaxRequestId \in Nat \ {0} /\ MaxPages \in Nat
  /\ MaxRequests \in Nat /\ MaxRequests <= MaxRequestId

VARIABLES
  \* PermissionRequestBridge, all of it under mutex_
  pending, pendingRequestId, completed, granted, nextRequestId,
  \* the native callers: where they are in Request, requestId, what it returned
  caller, requestId, result,
  \* EventSink: is function_ set, the calls it holds; and whose callback it is
  registered, queued, page,
  \* JavaScript: handleRequest calls put off, those that wait for a page's
  \* prompt, PermissionRequestState.requested, and results to be passed down
  deferred, prompted, requested, answers,
  \* the system's permission, and ensurePermission's requestOnce on this route
  permitted, requestOnce,
  \* the session these threads belong to, and Connect in Disconnect's join
  sessionUp, joining,
  \* history: requests numbered, and what the UI last said of each
  begun, said

bridgeVars == <<pending, pendingRequestId, completed, granted, nextRequestId>>
callerVars == <<caller, requestId, result>>
sinkVars == <<registered, queued, page>>
uiVars == <<deferred, prompted, requested, answers>>
systemVars == <<permitted, requestOnce>>
sessionVars == <<sessionUp, joining>>
histVars == <<begun, said>>
vars == <<bridgeVars, callerVars, sinkVars, uiVars, systemVars, sessionVars, histVars>>

RequestIds == 1 .. MaxRequestId
Pages == 1 .. MaxPages
Deferred == [id : RequestIds, page : Pages]
Answers == [id : RequestIds, granted : BOOLEAN]
Replies == {"granted", "denied", "error"}

TypeOK ==
  /\ pending \in BOOLEAN /\ completed \in BOOLEAN /\ granted \in BOOLEAN
  /\ pendingRequestId \in 0 .. MaxRequestId /\ nextRequestId \in RequestIds
  /\ caller \in [Callers -> {"idle", "waitsForOther", "emits", "waitsForOwn"}]
  /\ requestId \in [Callers -> 0 .. MaxRequestId] /\ result \in [Callers -> BOOLEAN]
  /\ registered \in BOOLEAN /\ queued \in SUBSET RequestIds /\ page \in 0 .. MaxPages
  /\ deferred \in SUBSET Deferred /\ prompted \in [Pages -> SUBSET RequestIds]
  /\ requested \in [Pages -> BOOLEAN] /\ answers \in SUBSET Answers
  /\ permitted \in BOOLEAN /\ requestOnce \in BOOLEAN
  /\ sessionUp \in BOOLEAN /\ joining \in BOOLEAN
  /\ begun \in 0 .. MaxRequests /\ said \in [RequestIds -> {"nothing", "yes", "no"}]

Init ==
  /\ pending = FALSE /\ completed = FALSE /\ granted = FALSE
  /\ pendingRequestId = 0 /\ nextRequestId = 1
  /\ caller = [c \in Callers |-> "idle"]
  /\ requestId = [c \in Callers |-> 0] /\ result = [c \in Callers |-> FALSE]
  /\ registered = FALSE /\ queued = {} /\ page = 0
  /\ deferred = {} /\ prompted = [p \in Pages |-> {}]
  /\ requested = [p \in Pages |-> FALSE] /\ answers = {}
  /\ permitted \in BOOLEAN /\ requestOnce \in BOOLEAN
  /\ sessionUp = FALSE /\ joining = FALSE
  /\ begun = 0 /\ said = [r \in RequestIds |-> "nothing"]
-----------------------------------------------------------------------------
(* PermissionRequestBridge, in the threads that call Request               *)

\* No callback is registered: Request gives up at once.
Skipped(c) ==
  /\ caller[c] = "idle" /\ sessionUp /\ ~registered
  /\ result' = [result EXCEPT ![c] = FALSE]
  /\ UNCHANGED <<bridgeVars, caller, requestId, sinkVars, uiVars, systemVars, sessionVars,
                 histVars>>

\* Another thread's request is pending: wait for the answer to that one.
Joins(c) ==
  /\ caller[c] = "idle" /\ sessionUp /\ registered /\ pending
  /\ caller' = [caller EXCEPT ![c] = "waitsForOther"]
  /\ UNCHANGED <<bridgeVars, requestId, result, sinkVars, uiVars, systemVars, sessionVars,
                 histVars>>

\* A plausible slip: the counter just wraps, as unsigned integers do.
NextRequestIdThroughZero == nextRequestId' = (nextRequestId + 1) % (MaxRequestId + 1)

\* Numbers start again at 1: 0 is the bridge's "none".
NextRequestId == nextRequestId' = IF nextRequestId = MaxRequestId THEN 1 ELSE nextRequestId + 1

Begins(c) ==
  /\ caller[c] = "idle" /\ sessionUp /\ registered /\ ~pending
  /\ begun < MaxRequests
  /\ NextRequestId
  /\ pendingRequestId' = nextRequestId
  /\ pending' = TRUE /\ completed' = FALSE /\ granted' = FALSE
  /\ requestId' = [requestId EXCEPT ![c] = nextRequestId]
  /\ caller' = [caller EXCEPT ![c] = "emits"]
  /\ begun' = begun + 1
  /\ UNCHANGED <<result, sinkVars, uiVars, systemVars, sessionVars, said>>

\* The call is queued for the JavaScript thread, or lost if nobody listens by now.
Emit(c) ==
  /\ caller[c] = "emits"
  /\ queued' = IF registered THEN queued \union {requestId[c]} ELSE queued
  /\ caller' = [caller EXCEPT ![c] = "waitsForOwn"]
  /\ UNCHANGED <<bridgeVars, requestId, result, registered, page, uiVars, systemVars,
                 sessionVars, histVars>>

\* A plausible slip: the request is cleared only where its answer has come.
EndsAnsweredRequest(c) == completed /\ pendingRequestId = requestId[c]

EndsRequest(c) == pendingRequestId = requestId[c]

\* The request's owner has its answer, or has waited long enough.
OwnerReturns(c) ==
  LET ends == EndsRequest(c)
  IN /\ caller[c] = "waitsForOwn"
     /\ result' = [result EXCEPT ![c] = completed /\ pendingRequestId = requestId[c] /\ granted]
     /\ caller' = [caller EXCEPT ![c] = "idle"]
     /\ pendingRequestId' = IF ends THEN 0 ELSE pendingRequestId
     /\ pending' = (pending /\ ~ends)
     /\ completed' = (completed /\ ~ends)
     /\ granted' = (granted /\ ~ends)
     /\ UNCHANGED <<nextRequestId, requestId, sinkVars, uiVars, systemVars, sessionVars,
                    histVars>>

\* A thread that joined a request wakes with whatever is answered by then (that
\* request, none any more, or one that began in the meantime), or has waited long
\* enough.
WaiterReturns(c) ==
  /\ caller[c] = "waitsForOther"
  /\ result' = [result EXCEPT ![c] = completed /\ granted]
  /\ caller' = [caller EXCEPT ![c] = "idle"]
  /\ UNCHANGED <<bridgeVars, requestId, sinkVars, uiVars, systemVars, sessionVars, histVars>>
-----------------------------------------------------------------------------
(* The JavaScript thread.  Promise callbacks run before its next task, and *)
(* it runs nothing while Connect joins the old session's worker.           *)

JsFree == answers = {} /\ ~joining

\* A plausible slip: an answer completes whatever is pending.
CompleteFromUiUnchecked(id, yes) ==
  IF pending
  THEN /\ granted' = yes /\ completed' = TRUE
       /\ UNCHANGED <<pending, pendingRequestId, nextRequestId>>
  ELSE UNCHANGED bridgeVars

CompleteFromUi(id, yes) ==
  IF pending /\ pendingRequestId = id
  THEN /\ granted' = yes /\ completed' = TRUE
       /\ UNCHANGED <<pending, pendingRequestId, nextRequestId>>
  ELSE UNCHANGED bridgeVars

CompletePermissionRequest(answer) ==
  /\ answer \in answers
  /\ answers' = answers \ {answer}
  /\ CompleteFromUi(answer.id, answer.granted)
  /\ said' = [said EXCEPT ![answer.id] = IF answer.granted THEN "yes" ELSE "no"]
  /\ UNCHANGED <<callerVars, sinkVars, deferred, prompted, requested, systemVars, sessionVars,
                 begun>>

\* The page's callback puts handleRequest off with setTimeout.
CallStringCallback(id) ==
  /\ JsFree /\ id \in queued
  /\ queued' = queued \ {id}
  /\ deferred' = deferred \union {[id |-> id, page |-> page]}
  /\ UNCHANGED <<bridgeVars, callerVars, registered, page, prompted, requested, answers,
                 systemVars, sessionVars, histVars>>

\* ensurePermission: answered already, joined to the page's open prompt, refused
\* (asked once before, or no context to ask in), or a prompt is opened.
EnsurePermission(request) ==
  LET AnswerWith(yes) ==
        /\ answers' = answers \union {[id |-> request.id, granted |-> yes]}
        /\ UNCHANGED <<prompted, requested>>
      Prompt ==
        /\ prompted' = [prompted EXCEPT ![request.page] = @ \union {request.id}]
        /\ requested' = [requested EXCEPT ![request.page] = TRUE]
        /\ UNCHANGED answers
      open == prompted[request.page] # {}
  IN \/ permitted /\ AnswerWith(TRUE)
     \/ ~permitted /\ open /\ Prompt
     \/ ~permitted /\ ~open /\ requestOnce /\ requested[request.page] /\ AnswerWith(FALSE)
     \/ ~permitted /\ ~open /\ ~(requestOnce /\ requested[request.page])
        /\ (AnswerWith(FALSE) \/ Prompt)

HandleRequest(request) ==
  /\ JsFree /\ request \in deferred
  /\ deferred' = deferred \ {request}
  /\ EnsurePermission(request)
  /\ UNCHANGED <<bridgeVars, callerVars, sinkVars, systemVars, sessionVars, histVars>>

\* The user answers a page's prompt; every request that waits for it hears.
\* Refused, a permission that is there by now counts as a yes; an error of the
\* system counts as a no all the same.
RequestRuntimePermissions(p, reply) ==
  /\ JsFree /\ prompted[p] # {}
  /\ permitted' = (permitted \/ reply = "granted")
  /\ answers' = [id : prompted[p], granted : {reply # "error" /\ permitted'}]
  /\ prompted' = [prompted EXCEPT ![p] = {}]
  /\ UNCHANGED <<bridgeVars, callerVars, sinkVars, deferred, requested, requestOnce,
                 sessionVars, histVars>>

\* The user grants the permission in the system's settings.
GrantInSettings ==
  /\ ~permitted /\ permitted' = TRUE
  /\ UNCHANGED <<bridgeVars, callerVars, sinkVars, uiVars, requestOnce, sessionVars, histVars>>

\* A page appears and registers: the calls that the old function_ still holds are
\* aborted with it.  If one route fails, all are reset.
OnPermissionRequest(ok) ==
  /\ JsFree /\ page < MaxPages
  /\ page' = page + 1 /\ registered' = ok /\ queued' = {}
  /\ UNCHANGED <<bridgeVars, callerVars, uiVars, systemVars, sessionVars, histVars>>
-----------------------------------------------------------------------------
(* The session, whose threads ask for nothing more once it is ended.       *)

Disconnect ==
  /\ JsFree /\ sessionUp /\ sessionUp' = FALSE
  /\ UNCHANGED <<bridgeVars, callerVars, sinkVars, uiVars, systemVars, joining, histVars>>

\* Connect ends the old session first, and joins its worker ...
Connect ==
  /\ JsFree /\ sessionUp' = FALSE /\ joining' = TRUE
  /\ UNCHANGED <<bridgeVars, callerVars, sinkVars, uiVars, systemVars, histVars>>

\* ... which ends when the channels' threads have.
WorkerJoined ==
  /\ joining /\ \A c \in Callers : caller[c] = "idle"
  /\ joining' = FALSE /\ sessionUp' = TRUE
  /\ UNCHANGED <<bridgeVars, callerVars, sinkVars, uiVars, systemVars, histVars>>

CallerNext(c) ==
  \/ Skipped(c) \/ Joins(c) \/ Begins(c) \/ Emit(c) \/ OwnerReturns(c) \/ WaiterReturns(c)

UiNext ==
  \/ \E answer \in answers : CompletePermissionRequest(answer)
  \/ \E id \in queued : CallStringCallback(id)
  \/ \E request \in deferred : HandleRequest(request)
  \/ \E p \in Pages, reply \in Replies : RequestRuntimePermissions(p, reply)
  \/ GrantInSettings
  \/ \E ok \in BOOLEAN : OnPermissionRequest(ok)
  \/ Disconnect \/ Connect \/ WorkerJoined

Next == (\E c \in Callers : CallerNext(c)) \/ UiNext

\* Native threads run and their waits time out; the worker's end wakes the join.
\* Nothing is assumed of the user, nor of the JavaScript thread's tasks.
Fairness ==
  /\ \A c \in Callers : WF_vars(Emit(c) \/ OwnerReturns(c) \/ WaiterReturns(c))
  /\ WF_vars(WorkerJoined)

Spec == Init /\ [][Next]_vars /\ Fairness
-----------------------------------------------------------------------------
Owns(c) == caller[c] \in {"emits", "waitsForOwn"}

\* While a request is pending exactly one thread is in it, under the request's
\* own number; without a request no answer is kept for the next one.
PendingHasOneOwner ==
  /\ pending => \E c \in Callers : Owns(c)
  /\ \A c \in Callers : Owns(c) => pending /\ requestId[c] = pendingRequestId
  /\ \A c, d \in Callers : Owns(c) /\ Owns(d) => c = d
  /\ ~pending => ~completed

\* A thread that asked is told yes exactly if the user interface last said yes to
\* its own request, by number, before it returned: a late answer to an earlier
\* request, one that the prompt gives to several requests at once, or one that
\* comes after the timeout never counts for another.  A thread that joined is
\* told yes only if the request pending when it wakes has been granted
\* (permission_request_bridge: CompleteFromUi and the two waits of Request).
AnswersAreTheUsers ==
  [][\A c \in Callers : caller[c] # "idle" /\ caller'[c] = "idle" =>
       IF caller[c] = "waitsForOwn"
       THEN result'[c] <=> said[requestId[c]] = "yes"
       ELSE result'[c] => pending /\ said[pendingRequestId] = "yes"]_vars

\* Whatever is lost (a prompt nobody answers, a call aborted by the next page's
\* registration, a JavaScript thread that itself waits in Connect for the threads
\* that wait for it), no thread waits for ever, no request stays pending to hold
\* up the next, and Connect returns.
EveryRequestEnds ==
  /\ \A c \in Callers : caller[c] # "idle" ~> caller[c] = "idle"
  /\ pending ~> ~pending
  /\ joining ~> ~joining
=============================================================================
