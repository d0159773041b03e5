----------------------- MODULE DisplayRequestCoalescer -----------------------
(***************************************************************************)
(* RdpDisplayRequestCoalescer (session/rdp_display_request_coalescer):     *)
(* a drag of the window produces a burst of resize requests; only the last *)
(* one, after a quiet delay, is handed to the callback by a worker thread. *)
(* Flush hands a request over on the caller's own thread, Cancel withdraws *)
(* the pending one.                                                        *)
(*                                                                         *)
(* Method bodies run under the mutex and are actions; the callback runs    *)
(* outside it.  A request is named by the generation it was submitted with.*)
(***************************************************************************)
EXTENDS Naturals

CONSTANTS
  Delay,         \* delay_, in ticks
  MaxGeneration  \* bound on the number of submissions and cancellations

ASSUME CoalescerAssumption == Delay \in Nat /\ MaxGeneration \in Nat

VARIABLES
  request,     \* request_: the generation it was submitted with
  pending,     \* pending_
  generation,  \* generation_
  stopping,    \* stopping_
  worker,      \* the worker thread: what it captured, and the request it took
  flusher,     \* a request Flush is handing over on its caller's thread, or 0
  quiet        \* ticks since the last submission, up to Delay

coalescerVars == <<request, pending, generation, stopping, worker, flusher, quiet>>

Generations == 0 .. MaxGeneration + 1
Countdown(t) == IF t > 0 THEN t - 1 ELSE 0

CoalescerTypeOK ==
  /\ request \in Generations /\ generation \in Generations
  /\ stopping \/ generation <= MaxGeneration
  /\ pending \in BOOLEAN /\ stopping \in BOOLEAN
  /\ worker \in [pc : {"parked", "armed", "callback", "exited"},
                 generation : Generations, timeLeft : 0 .. Delay, request : Generations]
  /\ flusher \in Generations
  /\ quiet \in 0 .. Delay

CoalescerInit ==
  /\ request = 0 /\ generation = 0 /\ pending = FALSE /\ stopping = FALSE
  /\ worker = [pc |-> "parked", generation |-> 0, timeLeft |-> 0, request |-> 0]
  /\ flusher = 0
  /\ quiet = 0
-----------------------------------------------------------------------------
NextGeneration ==
  ~stopping /\ generation < MaxGeneration /\ generation' = generation + 1

Schedule ==
  /\ NextGeneration
  /\ request' = generation'
  /\ pending' = TRUE
  /\ quiet' = 0
  /\ UNCHANGED <<stopping, worker, flusher>>

\* The caller holds the display dispatch lock: one Flush at a time.
Flush ==
  /\ NextGeneration
  /\ flusher = 0
  /\ request' = generation'
  /\ flusher' = generation'
  /\ pending' = FALSE
  /\ quiet' = 0
  /\ UNCHANGED <<stopping, worker>>

FlushCallback ==
  /\ flusher # 0
  /\ flusher' = 0
  /\ UNCHANGED <<request, pending, generation, stopping, worker, quiet>>

Cancel ==
  /\ NextGeneration
  /\ pending' = FALSE
  /\ UNCHANGED <<request, stopping, worker, flusher, quiet>>

Stop_Again ==
  /\ generation <= MaxGeneration + 1
  /\ stopping' = TRUE
  /\ pending' = FALSE
  /\ generation' = generation + 1
  /\ UNCHANGED <<request, worker, flusher, quiet>>

\* ~RdpDisplayRequestCoalescer, up to its join of the worker.
Stop ==
  /\ ~stopping
  /\ stopping' = TRUE
  /\ pending' = FALSE
  /\ generation' = generation + 1
  /\ UNCHANGED <<request, worker, flusher, quiet>>
-----------------------------------------------------------------------------
(* WorkerMain.                                                             *)

\* The delay starts when the worker sees the request, not when it was submitted.
WorkerArm ==
  /\ worker.pc = "parked" /\ ~stopping /\ pending
  /\ worker' = [worker EXCEPT !.pc = "armed", !.generation = generation, !.timeLeft = Delay]
  /\ UNCHANGED <<request, pending, generation, stopping, flusher, quiet>>

Interrupted_NotBySchedule == stopping \/ ~pending

\* The predicate of wait_until.
Interrupted == stopping \/ ~pending \/ generation # worker.generation

WorkerInterrupted ==
  /\ worker.pc = "armed" /\ Interrupted
  /\ worker' = [worker EXCEPT !.pc = "parked"]
  /\ UNCHANGED <<request, pending, generation, stopping, flusher, quiet>>

WorkerDequeue_LeavesPending ==
  /\ worker.pc = "armed" /\ ~Interrupted /\ worker.timeLeft = 0
  /\ worker' = [worker EXCEPT !.pc = "callback", !.request = request]
  /\ UNCHANGED <<request, pending, generation, stopping, flusher, quiet>>

WorkerDequeue ==
  /\ worker.pc = "armed" /\ ~Interrupted /\ worker.timeLeft = 0
  /\ worker' = [worker EXCEPT !.pc = "callback", !.request = request]
  /\ pending' = FALSE
  /\ UNCHANGED <<request, generation, stopping, flusher, quiet>>

WorkerCallback_ThreadReturns ==
  /\ worker.pc = "callback"
  /\ worker' = [worker EXCEPT !.pc = "exited"]
  /\ UNCHANGED <<request, pending, generation, stopping, flusher, quiet>>

WorkerCallback ==
  /\ worker.pc = "callback"
  /\ worker' = [worker EXCEPT !.pc = "parked"]
  /\ UNCHANGED <<request, pending, generation, stopping, flusher, quiet>>

WorkerExit_NotWokenByStop ==
  /\ worker.pc = "parked" /\ stopping /\ pending
  /\ worker' = [worker EXCEPT !.pc = "exited"]
  /\ UNCHANGED <<request, pending, generation, stopping, flusher, quiet>>

WorkerExit ==
  /\ worker.pc = "parked" /\ stopping
  /\ worker' = [worker EXCEPT !.pc = "exited"]
  /\ UNCHANGED <<request, pending, generation, stopping, flusher, quiet>>

WorkerMain ==
  WorkerArm \/ WorkerInterrupted \/ WorkerDequeue \/ WorkerCallback \/ WorkerExit

Tick ==
  /\ worker.timeLeft > 0 \/ quiet < Delay
  /\ worker' = [worker EXCEPT !.timeLeft = Countdown(@)]
  /\ quiet' = IF quiet < Delay THEN quiet + 1 ELSE quiet
  /\ UNCHANGED <<request, pending, generation, stopping, flusher>>

CoalescerNext ==
  \/ Schedule \/ Flush \/ FlushCallback \/ Cancel \/ Stop
  \/ WorkerMain
  \/ Tick

\* Time passes and the worker thread is scheduled; the callers owe nothing.
CoalescerSpec ==
  /\ CoalescerInit /\ [][CoalescerNext]_coalescerVars
  /\ WF_coalescerVars(WorkerMain) /\ WF_coalescerVars(Tick)
-----------------------------------------------------------------------------
(* The coalescer is a mailbox of one slot: the newest request replaces the *)
(* pending one, Flush and Cancel withdraw it, and the worker takes each at *)
(* most once and in order, however its wait is interrupted.                *)
Mailbox == INSTANCE LatestMailbox WITH
  sequence <- generation, slot <- IF pending THEN request ELSE 0, taken <- worker.request

ImplementsMailbox == Mailbox!MailboxSpec

(* A burst is coalesced: the worker takes a request only when nothing has  *)
(* been submitted for the whole delay.                                     *)
TakenAfterQuiet ==
  [][(worker.pc = "armed" /\ worker'.pc = "callback") => quiet = Delay]_coalescerVars

(* A submitted request is not forgotten: the worker takes it, unless a     *)
(* later call replaces or cancels it.                                      *)
ScheduledIsTaken ==
  \A g \in 1 .. MaxGeneration :
    (pending /\ generation = g) ~> (worker.request = g \/ generation # g)

(* The destructor's join returns, wherever the stop met the worker.        *)
StopEnds == stopping ~> worker.pc = "exited"
=============================================================================
