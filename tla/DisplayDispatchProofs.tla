----------------------- MODULE DisplayDispatchProofs -----------------------
(***************************************************************************)
(* Theorems about the display dispatch: type correctness, one resize at a  *)
(* time, no hold without a session, and requests that follow the policy.   *)
(*                                                                         *)
(* The steps that a thread has yet to do are one of a few scripts; which   *)
(* of them need the dispatch lock, and what is known of the policy while a *)
(* thread holds it, is the inductive invariant.                            *)
(*                                                                         *)
(* Then, about the request coalescer the dispatch schedules its resizes    *)
(* with: it implements LatestMailbox and coalesces bursts.                 *)
(***************************************************************************)
EXTENDS DisplayDispatch, DisplayRequestCoalescer, TLAPS

USE DispatchAssumption

ApplyScripts == {<<"begin", "send", "result", "apply">>, <<"send", "result", "apply">>,
                 <<"result", "apply">>, <<"apply">>}
ResizeScripts == ApplyScripts \cup {<<"cancel", "begin", "send", "result", "apply">>}
SurfaceScripts == {<<"resolveSchedule">>, <<"schedule">>, <<"cache">>, <<"resolveApply">>,
                   <<"resolveSingle">>}
MultiScripts == {<<"cancel", "setLayout">>, <<"setLayout">>}
ExchangeScripts == {<<"exchange", "cancel", "setLayout">>, <<"exchange">>}

\* What is done with the dispatch lock held, and without it.
LockedScripts == ResizeScripts \cup SurfaceScripts \cup MultiScripts \cup ExchangeScripts
                   \cup {<<"resolveSelect">>}
FreeScripts == {<<>>, <<"resetWait", "beginSchedule">>, <<"beginSchedule">>, <<"beginApply">>,
                <<"invalidate", "cancel", "resetWait">>, <<"cancel", "resetWait">>,
                <<"resetWait">>, <<"join">>}

\* The session worker after the settings' reset, in an attempt, and connected.
QuietScripts == {<<>>, <<"cancel", "resolved">>, <<"resolved">>,
                 <<"cancel", "resetWait", "emitDisconnected">>,
                 <<"resetWait", "emitDisconnected">>, <<"emitDisconnected">>,
                 <<"cancel", "emitFailed">>, <<"emitFailed">>}
ResetScripts == {<<"reset", "cancel", "resolved">>, ReportDisconnected, ReportFailed}
AttemptScripts == {Attempt, <<"activate", "connected", "emitConnected", "pump">>}
ConnectedScripts == {<<"emitConnected", "pump">>, <<"pump">>}
Connecting == <<"connected", "emitConnected", "pump">>
SessionScripts == QuietScripts \cup ResetScripts \cup AttemptScripts \cup ConnectedScripts
                    \cup {Connecting, <<"ended">>}

Scripts(t) == IF t = "session" THEN SessionScripts ELSE LockedScripts \cup FreeScripts

\* Every thread is somewhere in a script.
Scripted == \A t \in Threads : todo[t] \in Scripts(t)

LockHeld == \A t \in Threads : todo[t] \in LockedScripts => dispatch = t

\* Connected and active belong to parts of the session worker's script.
SessionPhases ==
  /\ connected => todo["session"] \in ConnectedScripts \cup {<<"ended">>}
  /\ active => todo["session"] \in ConnectedScripts \cup {Connecting}

\* Between the settings' reset and the next attempt input is held only by a request that
\* has not been sent, or has been refused.
HeldByRequest ==
  /\ blocking => ~overtaken
  /\ todo["session"] \in QuietScripts /\ blocking =>
       \E t \in Threads : At(t, "send") \/ (At(t, "result") /\ Rejected)

\* What the holder of the dispatch lock may rely on.
PolicyHeld ==
  /\ multimonActive # multimon => todo["monitor"] \in ExchangeScripts
  /\ multimon \/ multimonActive => requested = 0
  /\ \A t \in Threads :
       /\ todo[t] \in SurfaceScripts => ~multimon /\ requested = 0
       /\ todo[t] \in ResizeScripts => ~multimon /\ requested \in {0, snapshot}
       /\ todo[t] \in MultiScripts => multimon

IInv == TypeOK /\ Scripted /\ LockHeld /\ SessionPhases /\ HeldByRequest /\ PolicyHeld
-----------------------------------------------------------------------------
(* What the scripts begin with, and what is left of them after a step.     *)

LEMMA ResizeShape ==
  ASSUME NEW s \in ResizeScripts
  PROVE  /\ s # <<>>
         /\ \/ Head(s) \in {"begin", "send", "result", "apply"}
            \/ Head(s) = "cancel" /\ s[2] = "begin"
         /\ Head(s) # "apply" => Tail(s) \in ResizeScripts
         /\ Head(s) = "begin" => Tail(s) # <<>> /\ Head(Tail(s)) = "send"
         /\ Head(s) = "send" => Tail(s) # <<>> /\ Head(Tail(s)) = "result"
         /\ Head(s) = "result" => Tail(s) # <<>> /\ Head(Tail(s)) = "apply"
<1>1. CASE s = <<"apply">>
  BY <1>1
<1>2. CASE s = <<"result", "apply">>
  BY <1>2 DEF ResizeScripts, ApplyScripts
<1>3. CASE s = <<"send", "result", "apply">>
  BY <1>3 DEF ResizeScripts, ApplyScripts
<1>4. CASE s = <<"begin", "send", "result", "apply">>
  BY <1>4 DEF ResizeScripts, ApplyScripts
<1>5. CASE s = <<"cancel", "begin", "send", "result", "apply">>
  BY <1>5 DEF ResizeScripts, ApplyScripts
<1>6. QED
  BY <1>1, <1>2, <1>3, <1>4, <1>5 DEF ResizeScripts, ApplyScripts

SurfaceHeads == {"resolveSchedule", "schedule", "cache", "resolveApply", "resolveSingle"}

LEMMA SurfaceShape ==
  ASSUME NEW s \in SurfaceScripts
  PROVE  s # <<>> /\ Head(s) \in SurfaceHeads
  BY DEF SurfaceScripts, SurfaceHeads

LEMMA MultiShape ==
  ASSUME NEW s \in MultiScripts
  PROVE  /\ s # <<>>
         /\ Head(s) = "setLayout" \/ (Head(s) = "cancel" /\ s[2] = "setLayout")
         /\ Tail(s) \in MultiScripts \cup {<<>>}
         /\ Head(s) = "cancel" => Tail(s) \in MultiScripts
<1>1. CASE s = <<"setLayout">>
  BY <1>1
<1>2. CASE s = <<"cancel", "setLayout">>
  BY <1>2 DEF MultiScripts
<1>3. QED
  BY <1>1, <1>2 DEF MultiScripts

LEMMA ExchangeShape ==
  ASSUME NEW s \in ExchangeScripts
  PROVE  s # <<>> /\ Head(s) = "exchange" /\ Tail(s) \in MultiScripts \cup {<<>>}
<1>1. CASE s = <<"exchange">>
  BY <1>1
<1>2. CASE s = <<"exchange", "cancel", "setLayout">>
  BY <1>2 DEF MultiScripts
<1>3. QED
  BY <1>1, <1>2 DEF ExchangeScripts

FreeHeads == {"resetWait", "beginSchedule", "beginApply", "invalidate", "join"}

LEMMA FreeShape ==
  ASSUME NEW s \in FreeScripts, s # <<>>
  PROVE  /\ Head(s) \in FreeHeads \/ (Head(s) = "cancel" /\ s[2] = "resetWait")
         /\ Tail(s) \in FreeScripts
<1>1. CASE s = <<"beginSchedule">>
  BY <1>1 DEF FreeScripts, FreeHeads
<1>2. CASE s = <<"beginApply">>
  BY <1>2 DEF FreeScripts, FreeHeads
<1>3. CASE s = <<"resetWait">>
  BY <1>3 DEF FreeScripts, FreeHeads
<1>4. CASE s = <<"join">>
  BY <1>4 DEF FreeScripts, FreeHeads
<1>5. CASE s = <<"resetWait", "beginSchedule">>
  BY <1>5 DEF FreeScripts, FreeHeads
<1>6. CASE s = <<"cancel", "resetWait">>
  BY <1>6 DEF FreeScripts, FreeHeads
<1>7. CASE s = <<"invalidate", "cancel", "resetWait">>
  BY <1>7 DEF FreeScripts, FreeHeads
<1>8. QED
  BY <1>1, <1>2, <1>3, <1>4, <1>5, <1>6, <1>7 DEF FreeScripts

QuietHeads == {"resolved", "resetWait", "emitDisconnected", "emitFailed"}

LEMMA QuietShape ==
  ASSUME NEW s \in QuietScripts, s # <<>>
  PROVE  /\ \/ Head(s) \in QuietHeads
            \/ Head(s) = "cancel" /\ s[2] \in QuietHeads
         /\ Tail(s) \in QuietScripts
<1>1. CASE s = <<"resolved">>
  BY <1>1 DEF QuietScripts, QuietHeads
<1>2. CASE s = <<"emitDisconnected">>
  BY <1>2 DEF QuietScripts, QuietHeads
<1>3. CASE s = <<"emitFailed">>
  BY <1>3 DEF QuietScripts, QuietHeads
<1>4. CASE s = <<"cancel", "resolved">>
  BY <1>4 DEF QuietScripts, QuietHeads
<1>5. CASE s = <<"cancel", "emitFailed">>
  BY <1>5 DEF QuietScripts, QuietHeads
<1>6. CASE s = <<"resetWait", "emitDisconnected">>
  BY <1>6 DEF QuietScripts, QuietHeads
<1>7. CASE s = <<"cancel", "resetWait", "emitDisconnected">>
  BY <1>7 DEF QuietScripts, QuietHeads
<1>8. QED
  BY <1>1, <1>2, <1>3, <1>4, <1>5, <1>6, <1>7 DEF QuietScripts

LEMMA ResetShape ==
  ASSUME NEW s \in ResetScripts
  PROVE  s # <<>> /\ Head(s) = "reset" /\ Tail(s) \in QuietScripts
<1>1. CASE s = <<"reset", "cancel", "resolved">>
  BY <1>1 DEF QuietScripts
<1>2. CASE s = ReportDisconnected
  BY <1>2 DEF QuietScripts, ReportDisconnected
<1>3. CASE s = ReportFailed
  BY <1>3 DEF QuietScripts, ReportFailed
<1>4. QED
  BY <1>1, <1>2, <1>3 DEF ResetScripts

LEMMA AttemptShape ==
  ASSUME NEW s \in AttemptScripts
  PROVE  /\ s # <<>>
         /\ \/ Head(s) = "readLayout" /\ Tail(s) \in AttemptScripts
            \/ Head(s) = "activate" /\ Tail(s) = Connecting
<1>1. CASE s = Attempt
  BY <1>1 DEF AttemptScripts, Attempt
<1>2. CASE s = <<"activate", "connected", "emitConnected", "pump">>
  BY <1>2 DEF Connecting
<1>3. QED
  BY <1>1, <1>2 DEF AttemptScripts

LEMMA ConnectedShape ==
  /\ Connecting # <<>> /\ Head(Connecting) = "connected"
  /\ Tail(Connecting) \in ConnectedScripts
  /\ \A s \in ConnectedScripts :
       /\ s # <<>> /\ Head(s) \in {"emitConnected", "pump"}
       /\ Head(s) = "emitConnected" => Tail(s) \in ConnectedScripts
<1>1. Connecting # <<>> /\ Head(Connecting) = "connected" /\ Tail(Connecting) \in ConnectedScripts
  BY DEF Connecting, ConnectedScripts
<1>2. ASSUME NEW s \in ConnectedScripts
      PROVE  /\ s # <<>> /\ Head(s) \in {"emitConnected", "pump"}
             /\ Head(s) = "emitConnected" => Tail(s) \in ConnectedScripts
  <2>1. CASE s = <<"pump">>
    BY <2>1
  <2>2. CASE s = <<"emitConnected", "pump">>
    BY <2>2 DEF ConnectedScripts
  <2>3. QED
    BY <2>1, <2>2 DEF ConnectedScripts
<1>3. QED
  BY <1>1, <1>2

LEMMA SelectSteps ==
  <<"cancel">> \o ApplySteps = <<"cancel", "begin", "send", "result", "apply">>
<1> DEFINE s == <<"cancel">> \o <<"begin", "send", "result", "apply">>
<1>1. s \in Seq(Steps) /\ Len(s) = 5
  BY DEF Steps
<1>2. s[1] = "cancel" /\ s[2] = "begin" /\ s[3] = "send" /\ s[4] = "result" /\ s[5] = "apply"
  OBVIOUS
<1> HIDE DEF s
<1>3. s = <<"cancel", "begin", "send", "result", "apply">>
  BY <1>1, <1>2
<1>4. QED
  BY <1>3 DEF ApplySteps, s

\* A script tells by its first steps which kind it is.
LEMMA Apart ==
  ASSUME NEW s
  PROVE  /\ s \in ResizeScripts =>
              s \notin SurfaceScripts \cup MultiScripts \cup ExchangeScripts \cup FreeScripts
         /\ s \in SurfaceScripts =>
              s \notin ResizeScripts \cup MultiScripts \cup ExchangeScripts \cup FreeScripts
         /\ s \in MultiScripts =>
              s \notin ResizeScripts \cup SurfaceScripts \cup ExchangeScripts \cup FreeScripts
         /\ s \in ExchangeScripts =>
              s \notin ResizeScripts \cup SurfaceScripts \cup MultiScripts \cup FreeScripts
         /\ s = <<"resolveSelect">> =>
              s \notin ResizeScripts \cup SurfaceScripts \cup MultiScripts \cup ExchangeScripts
                       \cup FreeScripts
  BY ResizeShape, SurfaceShape, MultiShape, ExchangeShape, FreeShape DEF SurfaceHeads, FreeHeads

LEMMA SessionApart ==
  ASSUME NEW s \in SessionScripts
  PROVE  /\ s \notin LockedScripts
         /\ s \in QuietScripts => s \notin ResetScripts \cup AttemptScripts \cup ConnectedScripts
                                             \cup {Connecting, <<"ended">>}
         /\ s \in ResetScripts => s \notin AttemptScripts \cup ConnectedScripts
                                             \cup {Connecting, <<"ended">>}
         /\ s \in AttemptScripts => s \notin ConnectedScripts \cup {Connecting, <<"ended">>}
         /\ s \in ConnectedScripts => s \notin {Connecting, <<"ended">>}
         /\ Connecting # <<"ended">>
<1>1. s # <<>> => Head(s) \notin SurfaceHeads \cup {"begin", "send", "result", "apply", "exchange",
                                                  "setLayout", "resolveSelect"}
                 /\ (Head(s) = "cancel" => s[2] \in QuietHeads)
  BY QuietShape, ResetShape, AttemptShape, ConnectedShape DEF SessionScripts, SurfaceHeads, QuietHeads
<1>2. s \notin LockedScripts
  BY <1>1, ResizeShape, SurfaceShape, MultiShape, ExchangeShape DEF LockedScripts, QuietHeads
<1>3. QED
  BY <1>2, QuietShape, ResetShape, AttemptShape, ConnectedShape DEF QuietHeads

\* Where a thread is that is about to do a step.
LEMMA Where ==
  ASSUME Scripted, NEW t \in Threads, NEW x, At(t, x)
  PROVE  /\ x \in {"begin", "send", "result", "apply"} => todo[t] \in ResizeScripts
         /\ x \in SurfaceHeads => todo[t] \in SurfaceScripts
         /\ x = "setLayout" => todo[t] \in MultiScripts
         /\ x = "exchange" => todo[t] \in ExchangeScripts
         /\ x = "resolveSelect" => todo[t] = <<"resolveSelect">>
         /\ x \in FreeHeads \ {"resetWait"} => t # "session" /\ todo[t] \in FreeScripts
         /\ x \in SurfaceHeads \cup {"begin", "send", "result", "apply", "setLayout", "exchange",
                                     "resolveSelect"} => t # "session"
         /\ x \in {"resetWait", "invalidate"} => todo[t] \notin LockedScripts
<1>1. CASE t = "session"
  <2>1. todo[t] \in SessionScripts /\ todo[t] # <<>> /\ Head(todo[t]) = x
    BY <1>1 DEF Scripted, Scripts, At, Idle
  <2>2. x \notin SurfaceHeads \cup {"begin", "send", "result", "apply", "exchange", "setLayout",
                                  "resolveSelect"} \cup (FreeHeads \ {"resetWait"})
    BY <2>1, QuietShape, ResetShape, AttemptShape, ConnectedShape
       DEF SessionScripts, SurfaceHeads, QuietHeads, FreeHeads
  <2>3. QED
    BY <2>1, <2>2, SessionApart
<1>2. CASE t # "session"
  <2>1. todo[t] \in LockedScripts \cup FreeScripts /\ todo[t] # <<>> /\ Head(todo[t]) = x
    BY <1>2 DEF Scripted, Scripts, At, Idle
  <2>2. QED
    BY <1>2, <2>1, ResizeShape, SurfaceShape, MultiShape, ExchangeShape, FreeShape
       DEF LockedScripts, SurfaceHeads, FreeHeads
<1>3. QED
  BY <1>1, <1>2
-----------------------------------------------------------------------------
(* Every step leaves every thread in a script.                             *)

LEMMA ContinueScript ==
  ASSUME Scripted, NEW t \in Threads, NEW x, At(t, x),
         x \in {"begin", "send", "result", "cancel", "resetWait", "invalidate", "exchange", "reset",
                "readLayout", "activate", "connected", "emitConnected", "emitDisconnected",
                "emitFailed"}
  PROVE  Tail(todo[t]) \in Scripts(t)
<1>1. CASE t = "session"
  <2>1. todo[t] \in SessionScripts /\ todo[t] # <<>> /\ Head(todo[t]) = x
    BY <1>1 DEF Scripted, Scripts, At, Idle
  <2>2. todo[t] # <<"ended">>
    BY <2>1
  <2>3. QED
    BY <1>1, <2>1, <2>2, QuietShape, ResetShape, AttemptShape, ConnectedShape
       DEF SessionScripts, Scripts
<1>2. CASE t # "session"
  <2>1. todo[t] \in LockedScripts \cup FreeScripts /\ todo[t] # <<>> /\ Head(todo[t]) = x
    BY <1>2 DEF Scripted, Scripts, At, Idle
  <2>2. todo[t] # <<"resolveSelect">> /\ todo[t] \notin SurfaceScripts
    BY <2>1, SurfaceShape DEF SurfaceHeads
  <2>3. <<>> \in FreeScripts
    BY DEF FreeScripts
  <2>4. todo[t] \in ResizeScripts \cup MultiScripts \cup ExchangeScripts \cup FreeScripts
    BY <2>1, <2>2 DEF LockedScripts
  <2>5. Tail(todo[t]) \in ResizeScripts \cup MultiScripts \cup FreeScripts
    BY <2>1, <2>3, <2>4, ResizeShape, MultiShape, ExchangeShape, FreeShape
  <2>6. QED
    BY <1>2, <2>5 DEF LockedScripts, Scripts
<1>3. QED
  BY <1>1, <1>2

\* What handlers are given to do.
LEMMA GivenScripts ==
  /\ \A t \in Threads : <<>> \in Scripts(t)
  /\ \A t \in Threads \ {"session"} : LockedScripts \cup FreeScripts = Scripts(t)
  /\ SessionScripts = Scripts("session")
  /\ ApplySteps \in ResizeScripts /\ <<"cancel">> \o ApplySteps \in ResizeScripts
  /\ Attempt \in AttemptScripts
  /\ ReportDisconnected \in ResetScripts /\ ReportFailed \in ResetScripts
<1>1. \A t \in Threads : <<>> \in Scripts(t)
  BY DEF Scripts, FreeScripts, SessionScripts, QuietScripts
<1>2. <<"cancel">> \o ApplySteps \in ResizeScripts
  BY SelectSteps DEF ResizeScripts
<1>3. QED
  BY <1>1, <1>2 DEF Scripts, Threads, ResizeScripts, ApplyScripts, ApplySteps, AttemptScripts, ResetScripts

LEMMA ScriptsAreSteps ==
  ASSUME NEW t \in Threads
  PROVE  Scripts(t) \subseteq Seq(Steps)
<1>1. LockedScripts \subseteq Seq(Steps)
  BY DEF LockedScripts, ResizeScripts, ApplyScripts, SurfaceScripts, MultiScripts, ExchangeScripts,
         Steps
<1>2. FreeScripts \subseteq Seq(Steps)
  BY DEF FreeScripts, Steps
<1>3. QuietScripts \subseteq Seq(Steps)
  BY DEF QuietScripts, Steps
<1>4. ResetScripts \subseteq Seq(Steps)
  BY DEF ResetScripts, ReportDisconnected, ReportFailed, Steps
<1>5. AttemptScripts \cup ConnectedScripts \cup {Connecting, <<"ended">>} \subseteq Seq(Steps)
  BY DEF AttemptScripts, Attempt, ConnectedScripts, Connecting, Steps
<1>6. QED
  BY <1>1, <1>2, <1>3, <1>4, <1>5 DEF Scripts, SessionScripts

Control == Scripted /\ LockHeld /\ todo \in [Threads -> Seq(Steps)]

LEMMA GotoControl ==
  ASSUME Control, NEW t \in Threads, NEW s \in Scripts(t), Goto(t, s),
         s \in LockedScripts => dispatch' = t,
         dispatch' = dispatch \/ dispatch \in {"free", t}
  PROVE  Control'
<1>1. todo' \in [Threads -> Seq(Steps)] /\ todo' = [todo EXCEPT ![t] = s]
  BY ScriptsAreSteps DEF Control, Goto
<1>2. Scripted'
  BY <1>1 DEF Control, Scripted, Scripts
<1>3. ASSUME NEW u \in Threads, todo'[u] \in LockedScripts
      PROVE  dispatch' = u
  <2>1. CASE u = t
    BY <1>1, <1>3, <2>1 DEF Control
  <2>2. CASE u # t
    BY <1>1, <1>3, <2>2 DEF Control, LockHeld, Threads
  <2>3. QED
    BY <2>1, <2>2
<1>4. QED
  BY <1>1, <1>2, <1>3 DEF Control, LockHeld

\* A step within a script neither takes nor leaves the lock.
LEMMA ContinueControl ==
  ASSUME Control, NEW t \in Threads, NEW x, At(t, x), Continue(t), UNCHANGED dispatch,
         x \in {"begin", "send", "result", "cancel", "resetWait", "invalidate", "exchange", "reset",
                "readLayout", "activate", "connected", "emitConnected", "emitDisconnected",
                "emitFailed"}
  PROVE  Control'
<1>1. Tail(todo[t]) \in Scripts(t)
  BY ContinueScript DEF Control
<1>2. Tail(todo[t]) \in LockedScripts => todo[t] \in LockedScripts
  <2>1. CASE t = "session"
    BY <1>1, <2>1, SessionApart, GivenScripts
  <2>2. CASE t # "session"
    <3>1. todo[t] \in LockedScripts \cup FreeScripts /\ todo[t] # <<>>
      BY <2>2 DEF Control, Scripted, Scripts, At, Idle
    <3>2. todo[t] \in FreeScripts => Tail(todo[t]) \in FreeScripts
      BY <3>1, FreeShape
    <3>3. QED
      BY <3>1, <3>2, Apart DEF LockedScripts
  <2>3. QED
    BY <2>1, <2>2
<1>3. QED
  BY <1>1, <1>2, GotoControl DEF Control, LockHeld, Continue

\* A handler ends.
LEMMA ReturnControl ==
  ASSUME Control, NEW t \in Threads, Goto(t, <<>>), dispatch' = dispatch \/ dispatch \in {"free", t}
  PROVE  Control'
<1>1. <<>> \in FreeScripts
  BY DEF FreeScripts
<1>2. <<>> \notin LockedScripts
  BY <1>1, Apart DEF LockedScripts
<1>3. QED
  BY <1>2, GotoControl, GivenScripts

\* A handler takes the lock, or goes on with it.
LEMMA LockedControl ==
  ASSUME Control, NEW t \in Threads \ {"session"}, NEW s \in LockedScripts, Goto(t, s),
         \/ Lock(t)
         \/ todo[t] \in LockedScripts /\ UNCHANGED dispatch
  PROVE  Control'
<1>1. s \in Scripts(t)
  BY GivenScripts
<1>2. dispatch' = t /\ (dispatch' = dispatch \/ dispatch = "free")
  BY DEF Lock, Control, LockHeld
<1>3. QED
  BY <1>1, <1>2, GotoControl

\* The session worker never has the lock.
LEMMA SessionControl ==
  ASSUME Control, NEW s \in SessionScripts, Goto("session", s), UNCHANGED dispatch
  PROVE  Control'
<1>1. s \in Scripts("session") /\ s \notin LockedScripts /\ "session" \in Threads
  BY GivenScripts, SessionApart DEF Threads
<1>2. QED
  BY <1>1, GotoControl

LEMMA StepControl ==
  ASSUME Control, NEW t \in Threads, Step(t)
  PROVE  Control'
<1> USE DEF Control
<1>1. CASE BeginSchedule(t)
  <2>1. t # "session" /\ <<"resolveSchedule">> \in LockedScripts
    BY <1>1, Where DEF BeginSchedule, FreeHeads, LockedScripts, SurfaceScripts
  <2>2. QED
    BY <1>1, <2>1, LockedControl, ReturnControl DEF BeginSchedule
<1>2. CASE ResolveSchedule(t)
  <2>1. t # "session" /\ todo[t] \in SurfaceScripts
    BY <1>2, Where DEF ResolveSchedule, SurfaceHeads
  <2>2. <<"schedule">> \in LockedScripts /\ <<"cache">> \in LockedScripts
        /\ todo[t] \in LockedScripts /\ dispatch = t
    BY <2>1 DEF LockedScripts, SurfaceScripts, LockHeld
  <2>3. QED
    BY <1>2, <2>1, <2>2, LockedControl, ReturnControl DEF ResolveSchedule, Return
<1>3. CASE ScheduleResize(t) \/ CacheLayout(t)
  <2>1. todo[t] \in SurfaceScripts
    BY <1>3, Where DEF ScheduleResize, CacheLayout, SurfaceHeads
  <2>2. dispatch = t
    BY <2>1 DEF LockedScripts, LockHeld
  <2>3. QED
    BY <1>3, <2>2, ReturnControl DEF ScheduleResize, CacheLayout, Return
<1>4. CASE BeginApply(t)
  <2>1. t # "session" /\ <<"resolveApply">> \in LockedScripts
    BY <1>4, Where DEF BeginApply, FreeHeads, LockedScripts, SurfaceScripts
  <2>2. QED
    BY <1>4, <2>1, LockedControl, ReturnControl DEF BeginApply
<1>5. CASE ResolveApply(t)
  <2>1. t # "session" /\ todo[t] \in SurfaceScripts
    BY <1>5, Where DEF ResolveApply, SurfaceHeads
  <2>2. ApplySteps \in LockedScripts /\ todo[t] \in LockedScripts /\ dispatch = t
    BY <2>1, GivenScripts DEF LockedScripts, LockHeld
  <2>3. QED
    BY <1>5, <2>1, <2>2, LockedControl, ReturnControl DEF ResolveApply, Return
<1>6. CASE Begin(t) \/ Send(t) \/ Result(t)
  BY <1>6, ContinueControl DEF Begin, Send, Result, requestVars
<1>7. CASE ApplyResult(t)
  <2>1. todo[t] \in ResizeScripts
    BY <1>7, Where DEF ApplyResult
  <2>2. dispatch = t
    BY <2>1 DEF LockedScripts, LockHeld
  <2>3. QED
    BY <1>7, <2>2, ReturnControl DEF ApplyResult, Return
<1>8. CASE Invalidate(t) \/ CancelResize(t) \/ ResetWait(t)
  BY <1>8, ContinueControl DEF Invalidate, CancelResize, ResetWait, requestVars
<1>9. QED
  BY <1>1, <1>2, <1>3, <1>4, <1>5, <1>6, <1>7, <1>8 DEF Step

LEMMA UiControl ==
  ASSUME Control, (\E size \in SizeOrNone : Select(size)) \/ StartWorker
  PROVE  Control'
<1> USE DEF Control
<1>0. "ui" \in Threads /\ "session" \in Threads /\ "ui" # "session"
  BY DEF Threads
<1>1. ASSUME NEW size \in SizeOrNone, Select(size)
      PROVE  Control'
  <2>1. todo["ui"] = <<"resolveSelect">>
    BY <1>0, <1>1, Where DEF Select
  <2>2. todo["ui"] \in LockedScripts /\ <<"cancel">> \o ApplySteps \in LockedScripts
    BY <2>1, GivenScripts DEF LockedScripts
  <2>3. dispatch = "ui"
    BY <1>0, <2>2 DEF LockHeld
  <2>4. QED
    BY <1>0, <1>1, <2>2, <2>3, LockedControl, ReturnControl DEF Select, Return
<1>2. CASE StartWorker
  <2> DEFINE s == <<"reset", "cancel", "resolved">>
  <2>1. s \in SessionScripts /\ <<>> \in FreeScripts
    BY DEF SessionScripts, ResetScripts, FreeScripts
  <2>2. s \notin LockedScripts /\ <<>> \notin LockedScripts
    BY <2>1, SessionApart, Apart DEF LockedScripts
  <2>3. s \in Seq(Steps) /\ <<>> \in Seq(Steps)
    BY DEF Steps
  <2> HIDE DEF s
  <2>4. todo' = [todo EXCEPT !["ui"] = <<>>, !["session"] = s] /\ dispatch' = dispatch
    BY <1>2 DEF StartWorker, s, requestVars
  <2>5. todo' \in [Threads -> Seq(Steps)]
    BY <2>3, <2>4
  <2>6. Scripted'
    BY <1>0, <2>1, <2>4 DEF Scripted, Scripts
  <2>7. LockHeld'
    BY <1>0, <2>2, <2>4 DEF LockHeld
  <2>8. QED
    BY <2>5, <2>6, <2>7
<1>3. QED
  BY <1>1, <1>2

LEMMA MonitorControl ==
  ASSUME Control, Exchange \/ ResolveSingle \/ SetMultimonLayout
  PROVE  Control'
<1> USE DEF Control
<1>0. "monitor" \in Threads /\ "monitor" # "session"
  BY DEF Threads
<1>1. dispatch = "monitor" /\ todo["monitor"] \in LockedScripts
  BY <1>0, Where DEF Exchange, ResolveSingle, SetMultimonLayout, SurfaceHeads, LockHeld, LockedScripts
<1>2. <<"resolveSingle">> \in LockedScripts /\ <<"resolveSchedule">> \in LockedScripts
      /\ <<"cache">> \in LockedScripts
  BY DEF LockedScripts, SurfaceScripts
<1>3. CASE Exchange
  <2>1. CASE Continue("monitor") /\ UNCHANGED requestVars
    BY <1>0, <1>3, <2>1, ContinueControl DEF Exchange, requestVars
  <2>2. CASE ~(Continue("monitor") /\ UNCHANGED requestVars)
    BY <1>0, <1>1, <1>2, <1>3, <2>2, LockedControl, ReturnControl DEF Exchange, requestVars, Return
  <2>3. QED
    BY <2>1, <2>2
<1>4. CASE ResolveSingle
  BY <1>0, <1>1, <1>2, <1>4, LockedControl, ReturnControl DEF ResolveSingle, Return
<1>5. CASE SetMultimonLayout
  BY <1>0, <1>1, <1>5, ReturnControl DEF SetMultimonLayout, Return
<1>6. QED
  BY <1>3, <1>4, <1>5

SessionAction ==
  \/ ResetSettings \/ Resolved \/ ReadLayout \/ Activate \/ OnConnected \/ EmitConnected
  \/ ClearActive \/ Ended \/ EmitEnd

LEMMA SessionActionControl ==
  ASSUME Control, SessionAction
  PROVE  Control'
<1> USE DEF Control
<1>0. "session" \in Threads
  BY DEF Threads
<1>1. CASE ResetSettings \/ ReadLayout \/ Activate \/ OnConnected \/ EmitConnected \/ EmitEnd
  BY <1>0, <1>1, ContinueControl
     DEF ResetSettings, ReadLayout, Activate, OnConnected, EmitConnected, EmitEnd, requestVars
<1>2. CASE Resolved \/ Ended
  <2>1. ReportDisconnected \in SessionScripts /\ ReportFailed \in SessionScripts
        /\ Attempt \in SessionScripts
    BY GivenScripts DEF SessionScripts
  <2>2. QED
    BY <1>2, <2>1, SessionControl DEF Resolved, Ended, requestVars
<1>3. CASE ClearActive
  BY <1>3, SessionControl DEF ClearActive, requestVars, SessionScripts
<1>4. QED
  BY <1>1, <1>2, <1>3 DEF SessionAction

LEMMA EnvironmentControl ==
  ASSUME Control,
         \/ Dequeue \/ SurfaceDestroyed \/ BeginSelect \/ Connect \/ Disconnect
         \/ \E size \in Sizes : SurfaceCreated(size) \/ SurfaceChanged(size)
         \/ \E multi \in BOOLEAN : LayoutChanged(multi)
         \/ WaitEnds \/ HoldEnds
  PROVE  Control'
<1> USE DEF Control
<1>0. {"ui", "monitor", "coalescer"} \subseteq Threads \ {"session"}
  BY DEF Threads
<1>1. ASSUME NEW t \in {"ui", "coalescer"}, NEW s \in FreeScripts, Goto(t, s), UNCHANGED dispatch
      PROVE  Control'
  BY <1>0, <1>1, GotoControl, GivenScripts, Apart DEF LockedScripts
<1>2. /\ <<"beginApply">> \in FreeScripts /\ <<"invalidate", "cancel", "resetWait">> \in FreeScripts
      /\ <<"resetWait", "beginSchedule">> \in FreeScripts /\ <<"beginSchedule">> \in FreeScripts
      /\ <<"join">> \in FreeScripts /\ <<>> \in FreeScripts
  BY DEF FreeScripts
<1>3. CASE Dequeue
  BY <1>1, <1>2, <1>3 DEF Dequeue, requestVars
<1>4. CASE SurfaceDestroyed \/ \E size \in Sizes : SurfaceCreated(size) \/ SurfaceChanged(size)
  BY <1>1, <1>2, <1>4 DEF SurfaceDestroyed, SurfaceCreated, SurfaceChanged, SurfaceTo, requestVars
<1>5. CASE Connect \/ Disconnect
  BY <1>1, <1>2, <1>5 DEF Connect, Disconnect, RequestDisconnect, requestVars
<1>6. CASE BeginSelect
  BY <1>0, <1>6, LockedControl DEF BeginSelect, LockedScripts
<1>7. ASSUME NEW multi \in BOOLEAN, LayoutChanged(multi)
      PROVE  Control'
  <2>1. <<"exchange", "cancel", "setLayout">> \in LockedScripts /\ <<"exchange">> \in LockedScripts
    BY DEF LockedScripts, ExchangeScripts
  <2>2. QED
    BY <1>0, <1>7, <2>1, LockedControl DEF LayoutChanged
<1>8. CASE WaitEnds \/ HoldEnds
  BY <1>8 DEF WaitEnds, HoldEnds, requestVars, Scripted, LockHeld
<1>9. QED
  BY <1>3, <1>4, <1>5, <1>6, <1>7, <1>8

LEMMA NextControl ==
  ASSUME Control, [Next]_vars
  PROVE  Control'
<1>1. \A t \in {"ui", "monitor", "coalescer", "session"} : t \in Threads
  BY DEF Threads
<1>2. CASE Next
  BY <1>1, <1>2, StepControl, UiControl, MonitorControl, SessionActionControl, EnvironmentControl
     DEF Next, UiStep, MonitorStep, CoalescerStep, SessionStep, Environment, SessionAction
<1>3. CASE UNCHANGED vars
  BY <1>3 DEF vars, requestVars, Control, Scripted, LockHeld
<1>4. QED
  BY <1>2, <1>3
-----------------------------------------------------------------------------
(* Type correctness: the flags first, then the rest.                       *)


Flags ==
  /\ scheduled \in BOOLEAN /\ settingsConnected \in BOOLEAN /\ multimon \in BOOLEAN
  /\ blocking \in BOOLEAN /\ overtaken \in BOOLEAN /\ multimonActive \in BOOLEAN
  /\ running \in BOOLEAN /\ connected \in BOOLEAN /\ active \in BOOLEAN

LEMMA TypeStepOfThread ==
  ASSUME TypeOK, todo' \in [Threads -> Seq(Steps)], NEW t \in Threads, Step(t)
  PROVE  TypeOK'
<1> USE DEF TypeOK, components, settingsVars, policyVars, requestVars, sessionVars, SizeOrNone, Layouts
<1>1. CASE BeginSchedule(t)
  BY <1>1 DEF BeginSchedule, Lock
<1>2. CASE BeginApply(t)
  BY <1>2 DEF BeginApply, Lock
<1>3. CASE ResolveSchedule(t)
  BY <1>3 DEF ResolveSchedule, Return, ResultStatuses
<1>4. CASE ResolveApply(t)
  BY <1>4 DEF ResolveApply, Return, ResultStatuses
<1>5. CASE ScheduleResize(t)
  BY <1>5 DEF ScheduleResize, Return, ResultStatuses
<1>6. CASE CacheLayout(t)
  BY <1>6 DEF CacheLayout, SetMonitorLayout, Return, ResultStatuses
<1>7. CASE Send(t)
  BY <1>7 DEF Send, ResultStatuses
<1>8. CASE ApplyResult(t)
  BY <1>8 DEF ApplyResult, Return, ResultStatuses
<1>9. CASE ResetWait(t)
  BY <1>9 DEF ResetWait
<1>10. CASE Begin(t)
  <2>1. Flags'
    BY <1>10, Zenon DEF Flags, Begin
  <2>2. QED
    BY <1>10, <2>1 DEF Flags, Begin
<1>11. CASE Result(t)
  <2>1. Flags'
    BY <1>11, Zenon DEF Flags, Result
  <2>2. QED
    BY <1>11, <2>1 DEF Flags, Result
<1>12. CASE Invalidate(t)
  <2>1. Flags'
    BY <1>12, Zenon DEF Flags, Invalidate, Overtake
  <2>2. QED
    BY <1>12, <2>1 DEF Flags, Invalidate, Overtake
<1>13. CASE CancelResize(t)
  <2>1. Flags'
    BY <1>13, Zenon DEF Flags, CancelResize
  <2>2. QED
    BY <1>13, <2>1 DEF Flags, CancelResize
<1>14. QED
  BY <1>1, <1>2, <1>3, <1>4, <1>5, <1>6, <1>7, <1>8, <1>9, <1>10, <1>11, <1>12, <1>13 DEF Step

LEMMA TypeStepOfSession ==
  ASSUME TypeOK, todo' \in [Threads -> Seq(Steps)], SessionAction
  PROVE  TypeOK'
<1> USE DEF TypeOK, components, settingsVars, policyVars, requestVars, sessionVars, SizeOrNone, Layouts
<1>1. CASE Resolved
  BY <1>1 DEF Resolved
<1>2. CASE ReadLayout
  BY <1>2 DEF ReadLayout
<1>3. CASE Activate
  BY <1>3 DEF Activate
<1>4. CASE OnConnected
  BY <1>4 DEF OnConnected
<1>5. CASE EmitConnected
  BY <1>5 DEF EmitConnected
<1>6. CASE ResetSettings
  <2>1. Flags'
    BY <1>6, Zenon DEF Flags, ResetSettings, Overtake
  <2>2. QED
    BY <1>6, <2>1 DEF Flags, ResetSettings, Overtake
<1>7. CASE ClearActive
  <2>1. Flags'
    BY <1>7, Zenon DEF Flags, ClearActive
  <2>2. QED
    BY <1>7, <2>1 DEF Flags, ClearActive
<1>8. CASE Ended
  <2>1. Flags'
    BY <1>8, Zenon DEF Flags, Ended
  <2>2. QED
    BY <1>8, <2>1 DEF Flags, Ended
<1>9. CASE EmitEnd
  <2>1. Flags'
    BY <1>9, Zenon DEF Flags, EmitEnd
  <2>2. QED
    BY <1>9, <2>1 DEF Flags, EmitEnd
<1>10. QED
  BY <1>1, <1>2, <1>3, <1>4, <1>5, <1>6, <1>7, <1>8, <1>9 DEF SessionAction

LEMMA TypeStep ==
  ASSUME TypeOK, todo' \in [Threads -> Seq(Steps)], [Next]_vars
  PROVE  TypeOK'
<1> USE DEF TypeOK, components, settingsVars, policyVars, requestVars, sessionVars, SizeOrNone, Layouts
<1>1. CASE WaitEnds
  BY <1>1 DEF WaitEnds
<1>2. CASE BeginSelect
  BY <1>2 DEF BeginSelect, Event, Lock, Threads
<1>3. CASE Dequeue
  <2>1. Flags'
    BY <1>3, Zenon DEF Flags, Dequeue
  <2>2. QED
    BY <1>3, <2>1 DEF Flags, Dequeue
<1>4. CASE HoldEnds
  <2>1. Flags'
    BY <1>4, Zenon DEF Flags, HoldEnds
  <2>2. QED
    BY <1>4, <2>1 DEF Flags, HoldEnds
<1>5. CASE Connect \/ Disconnect
  <2>1. Flags'
    BY <1>5, Zenon DEF Flags, Connect, Disconnect, RequestDisconnect
  <2>2. QED
    BY <1>5, <2>1 DEF Flags, Connect, Disconnect, RequestDisconnect, Event
<1>6. CASE SurfaceDestroyed \/ \E size \in Sizes : SurfaceCreated(size) \/ SurfaceChanged(size)
  <2>1. PICK size \in SizeOrNone : \E steps : SurfaceTo(size, steps)
    BY <1>6 DEF SurfaceDestroyed, SurfaceCreated, SurfaceChanged
  <2>2. QED
    BY <2>1 DEF SurfaceTo, Event
<1>7. ASSUME NEW size \in SizeOrNone, Select(size)
      PROVE  TypeOK'
  BY <1>7 DEF Select, Return, ResultStatuses
<1>8. CASE StartWorker
  <2>1. /\ running' = TRUE
        /\ UNCHANGED <<components, surface, multimonActive, requestVars, connected, active, desired,
                       initial, asked, reported, events>>
    BY <1>8 DEF StartWorker
  <2>2. Flags'
    BY <2>1, Zenon DEF Flags
  <2>3. QED
    BY <2>1, <2>2 DEF Flags
<1>9. CASE Exchange \/ ResolveSingle \/ SetMultimonLayout
  BY <1>9 DEF Exchange, ResolveSingle, SetMultimonLayout, SetMonitorLayout, Return, ResultStatuses
<1>10. ASSUME NEW multi \in BOOLEAN, LayoutChanged(multi)
       PROVE  TypeOK'
  <2>1. /\ multimon' = multi /\ blocking' \in {blocking, FALSE}
        /\ overtaken' \in {overtaken, \E t \in Threads : At(t, "send") \/ At(t, "result")}
    BY <1>10 DEF LayoutChanged, SetMultimon, Overtake
  <2>2. UNCHANGED <<waitState, scheduled, settingsConnected, surface, multimonActive, snapshot,
                    answer, sessionVars>>
    BY <1>10 DEF LayoutChanged
  <2>3. Flags'
    BY <2>1, <2>2, Zenon DEF Flags
  <2>4. requested' \in {requested, 0} /\ events' \in 0 .. MaxEvents /\ dispatch' = "monitor"
    BY <1>10 DEF LayoutChanged, SetMultimon, Event, Lock
  <2>5. dispatch' \in Threads
    BY <2>4 DEF Threads
  <2>6. QED
    BY <2>2, <2>3, <2>4, <2>5 DEF Flags
<1>11. CASE UNCHANGED vars
  BY <1>11 DEF vars
<1>12. \A t \in {"ui", "monitor", "coalescer", "session"} : t \in Threads
  BY DEF Threads
<1>13. QED
  BY <1>1, <1>2, <1>3, <1>4, <1>5, <1>6, <1>7, <1>8, <1>9, <1>10, <1>11, <1>12, TypeStepOfThread,
     TypeStepOfSession
     DEF Next, UiStep, MonitorStep, CoalescerStep, SessionStep, Environment, SessionAction
-----------------------------------------------------------------------------
(* The phases of the session worker.                                       *)

\* The steps that every thread has leave the session worker in its phase.
LEMMA StepKeepsPhase ==
  ASSUME Control, NEW t \in Threads, Step(t)
  PROVE  /\ connected' = connected /\ active' = active
         /\ \/ todo'["session"] = todo["session"]
            \/ todo["session"] \in QuietScripts /\ todo'["session"] \in QuietScripts
<1> USE DEF Control
<1>1. connected' = connected /\ active' = active
  BY DEF Step, BeginSchedule, ResolveSchedule, ScheduleResize, CacheLayout, BeginApply, ResolveApply, Begin,
         Send, Result, ApplyResult, Invalidate, CancelResize, ResetWait, sessionVars
<1>2. \E s : Goto(t, s)
  BY DEF Step, BeginSchedule, ResolveSchedule, ScheduleResize, CacheLayout, BeginApply, ResolveApply, Begin,
         Send, Result, ApplyResult, Invalidate, CancelResize, ResetWait, Continue, Return
<1>3. CASE t # "session"
  BY <1>1, <1>2, <1>3 DEF Goto, Threads
<1>4. CASE t = "session"
  <2>1. CancelResize(t) \/ ResetWait(t)
    BY <1>4, Where DEF Step, BeginSchedule, ResolveSchedule, ScheduleResize, CacheLayout, BeginApply,
       ResolveApply, Begin, Send, Result, ApplyResult, Invalidate, SurfaceHeads, FreeHeads
  <2>2. /\ todo["session"] \in SessionScripts /\ todo["session"] # <<>>
        /\ Head(todo["session"]) \in {"cancel", "resetWait"}
        /\ todo'["session"] = Tail(todo["session"])
    BY <1>4, <2>1 DEF CancelResize, ResetWait, At, Idle, Continue, Goto, Scripted, Scripts, Threads
  <2>3. todo["session"] \in QuietScripts
    BY <2>2, ResetShape, AttemptShape, ConnectedShape DEF SessionScripts
  <2>4. QED
    BY <1>1, <2>2, <2>3, QuietShape
<1>5. QED
  BY <1>3, <1>4

LEMMA PhaseStep ==
  ASSUME Control, SessionPhases, [Next]_vars
  PROVE  SessionPhases'
<1> USE DEF Control, SessionPhases
<1>0. "session" \in Threads /\ "ui" \in Threads /\ "monitor" \in Threads /\ "coalescer" \in Threads
  BY DEF Threads
<1>1. ASSUME NEW t \in Threads, Step(t)
      PROVE  SessionPhases'
  <2>1. todo["session"] \in QuietScripts => ~connected /\ ~active
    BY <1>0, SessionApart DEF Scripted, Scripts
  <2>2. QED
    BY <1>1, <2>1, StepKeepsPhase
<1>2. ASSUME UNCHANGED <<connected, active>>, todo'["session"] = todo["session"]
      PROVE  SessionPhases'
  BY <1>2
<1>3. ASSUME NEW t \in Threads \ {"session"}, NEW s, Goto(t, s)
      PROVE  todo'["session"] = todo["session"]
  BY <1>3 DEF Goto, Threads
<1>4. ASSUME NEW size \in SizeOrNone, Select(size)
      PROVE  SessionPhases'
  BY <1>0, <1>2, <1>3, <1>4 DEF Select, Return, sessionVars
<1>5. CASE Exchange \/ ResolveSingle \/ SetMultimonLayout
  BY <1>0, <1>2, <1>3, <1>5 DEF Exchange, ResolveSingle, SetMultimonLayout, Return, Continue, sessionVars
<1>6. CASE StartWorker
  <2>1. todo["session"] = <<>> /\ UNCHANGED <<connected, active>>
    BY <1>6 DEF StartWorker, Idle
  <2>2. <<>> # <<"ended">>
    OBVIOUS
  <2>3. ~connected /\ ~active
    BY <2>1, <2>2, ConnectedShape
  <2>4. QED
    BY <2>1, <2>3
<1>7. CASE Connect \/ Disconnect
  <2>1. connected' = FALSE /\ active' = active
    BY <1>7 DEF Connect, Disconnect, RequestDisconnect
  <2>2. todo'["session"] = todo["session"]
    BY <1>0, <1>3, <1>7 DEF Connect, Disconnect, RequestDisconnect
  <2>3. QED
    BY <2>1, <2>2
<1>8. CASE Dequeue \/ BeginSelect
  BY <1>0, <1>2, <1>3, <1>8 DEF Dequeue, BeginSelect, sessionVars
<1>9. CASE SurfaceDestroyed \/ \E size \in Sizes : SurfaceCreated(size) \/ SurfaceChanged(size)
  BY <1>0, <1>2, <1>3, <1>9 DEF SurfaceDestroyed, SurfaceCreated, SurfaceChanged, SurfaceTo, sessionVars
<1>10. ASSUME NEW multi \in BOOLEAN, LayoutChanged(multi)
       PROVE  SessionPhases'
  BY <1>0, <1>2, <1>3, <1>10 DEF LayoutChanged, sessionVars
<1>11. CASE WaitEnds \/ HoldEnds \/ UNCHANGED vars
  BY <1>2, <1>11 DEF WaitEnds, HoldEnds, sessionVars, vars
<1>12. CASE SessionAction
  <2>1. todo["session"] \in SessionScripts
    BY <1>0 DEF Scripted, Scripts
  <2>2. CASE ResetSettings \/ Resolved \/ ReadLayout \/ EmitEnd
    <3>1. \E x \in {"reset", "resolved", "readLayout", "emitDisconnected", "emitFailed"} :
             At("session", x)
      BY <2>2 DEF ResetSettings, Resolved, ReadLayout, EmitEnd
    <3>2. todo["session"] \notin ConnectedScripts \cup {Connecting, <<"ended">>}
      BY <3>1, ConnectedShape DEF At
    <3>3. UNCHANGED <<connected, active>>
      BY <2>2 DEF ResetSettings, Resolved, ReadLayout, EmitEnd, sessionVars
    <3>4. QED
      BY <3>2, <3>3
  <2>3. CASE Activate
    <3>1. At("session", "activate") /\ todo'["session"] = Tail(todo["session"]) /\ connected' = connected
      BY <1>0, <2>3 DEF Activate, Continue, Goto
    <3>2. todo["session"] \in AttemptScripts /\ todo'["session"] = Connecting
      BY <2>1, <3>1, QuietShape, ResetShape, AttemptShape, ConnectedShape
         DEF At, Idle, SessionScripts, QuietHeads
    <3>3. QED
      BY <2>1, <3>1, <3>2, SessionApart
  <2>4. CASE OnConnected \/ EmitConnected
    <3>1. CASE OnConnected
      <4>1. /\ At("session", "connected") /\ todo'["session"] = Tail(todo["session"])
            /\ active' = active
        BY <1>0, <3>1 DEF OnConnected, Continue, Goto
      <4>2. todo["session"] = Connecting
        BY <2>1, <4>1, QuietShape, ResetShape, AttemptShape, ConnectedShape
           DEF At, Idle, SessionScripts, QuietHeads
      <4>3. QED
        BY <4>1, <4>2, ConnectedShape
    <3>2. CASE EmitConnected
      <4>1. /\ At("session", "emitConnected") /\ todo'["session"] = Tail(todo["session"])
            /\ UNCHANGED <<connected, active>>
        BY <1>0, <3>2 DEF EmitConnected, Continue, Goto
      <4>2. todo["session"] \in ConnectedScripts
        BY <2>1, <4>1, QuietShape, ResetShape, AttemptShape, ConnectedShape
           DEF At, Idle, SessionScripts, QuietHeads
      <4>3. QED
        BY <4>1, <4>2, ConnectedShape DEF At, Idle
    <3>3. QED
      BY <2>4, <3>1, <3>2
  <2>5. CASE ClearActive
    BY <1>0, <2>5 DEF ClearActive, Goto
  <2>6. CASE Ended
    <3>1. At("session", "ended") /\ connected' = FALSE /\ active' = active
      BY <2>6 DEF Ended
    <3>2. todo["session"] \notin ConnectedScripts \cup {Connecting}
      BY <3>1, ConnectedShape DEF At
    <3>3. QED
      BY <3>1, <3>2
  <2>7. QED
    BY <1>12, <2>2, <2>3, <2>4, <2>5, <2>6 DEF SessionAction
<1>13. QED
  BY <1>0, <1>1, <1>4, <1>5, <1>6, <1>7, <1>8, <1>9, <1>10, <1>11, <1>12
     DEF Next, UiStep, MonitorStep, CoalescerStep, SessionStep, Environment, SessionAction
-----------------------------------------------------------------------------
(* Who holds input back.                                                   *)

Sending(t) == At(t, "send") \/ At(t, "result")

\* Only the holder of the lock is at these steps.
LEMMA SenderHolds ==
  ASSUME Control, NEW t \in Threads, Sending(t)
  PROVE  dispatch = t /\ todo[t] \in ResizeScripts /\ t # "session"
<1>1. todo[t] \in ResizeScripts /\ t # "session"
  BY Where DEF Control, Sending
<1>2. QED
  BY <1>1 DEF Control, LockHeld, LockedScripts

\* A thread that is not sending leaves the request of another as it is.
LEMMA GotoHold ==
  ASSUME Control, HeldByRequest, NEW t \in Threads, NEW s, Goto(t, s), ~Sending(t),
         answer' = answer \/ dispatch = t,
         blocking' => blocking /\ overtaken' = overtaken,
         todo'["session"] \in QuietScripts => todo["session"] \in QuietScripts
  PROVE  HeldByRequest'
<1>1. ASSUME NEW u \in Threads, Sending(u)
      PROVE  todo'[u] = todo[u] /\ answer' = answer
  BY <1>1, SenderHolds DEF Goto, Control
<1>2. blocking' => ~overtaken'
  BY DEF HeldByRequest
<1>3. ASSUME todo'["session"] \in QuietScripts, blocking'
      PROVE  (\E u \in Threads : At(u, "send") \/ (At(u, "result") /\ Rejected))'
  <2>1. PICK u \in Threads : At(u, "send") \/ (At(u, "result") /\ Rejected)
    BY <1>3 DEF HeldByRequest
  <2>2. todo'[u] = todo[u] /\ answer' = answer
    BY <1>1, <2>1 DEF Sending
  <2>3. QED
    BY <2>1, <2>2 DEF At, Idle, Rejected
<1>4. QED
  BY <1>2, <1>3 DEF HeldByRequest

LEMMA StepHold ==
  ASSUME Control, SessionPhases, HeldByRequest, NEW t \in Threads, Step(t)
  PROVE  HeldByRequest'
<1>1. todo'["session"] \in QuietScripts => todo["session"] \in QuietScripts
  BY StepKeepsPhase
<1>2. CASE BeginSchedule(t) \/ BeginApply(t)
  BY <1>1, <1>2, GotoHold DEF BeginSchedule, BeginApply, Sending, At, components, settingsVars
<1>3. CASE ResolveSchedule(t) \/ ResolveApply(t) \/ ScheduleResize(t) \/ CacheLayout(t)
  <2>1. todo[t] \in SurfaceScripts
    BY <1>3, Where DEF ResolveSchedule, ResolveApply, ScheduleResize, CacheLayout, SurfaceHeads, Control
  <2>2. dispatch = t
    BY <2>1 DEF Control, LockHeld, LockedScripts
  <2>3. ~Sending(t) /\ UNCHANGED <<blocking, overtaken>>
    BY <1>3 DEF ResolveSchedule, ResolveApply, ScheduleResize, CacheLayout, Sending, At, components, settingsVars
  <2>4. \E s : Goto(t, s)
    BY <1>3 DEF ResolveSchedule, ResolveApply, ScheduleResize, CacheLayout, Return
  <2>5. QED
    BY <1>1, <2>2, <2>3, <2>4, GotoHold
<1>4. CASE Begin(t)
  <2>1. todo[t] \in ResizeScripts /\ Head(todo[t]) = "begin" /\ todo'[t] = Tail(todo[t])
    BY <1>4, Where DEF Begin, At, Continue, Goto, Control
  <2>2. (At(t, "send"))'
    BY <2>1, ResizeShape DEF At, Idle
  <2>3. QED
    BY <1>4, <2>2 DEF Begin, HeldByRequest
<1>5. CASE Send(t)
  <2>1. todo[t] \in ResizeScripts /\ Head(todo[t]) = "send" /\ todo'[t] = Tail(todo[t])
    BY <1>5, Where DEF Send, At, Continue, Goto, Control
  <2>2. (At(t, "result"))'
    BY <2>1, ResizeShape DEF At, Idle
  <2>3. todo["session"] \in QuietScripts => ~connected
    <3>1. todo["session"] \in SessionScripts
      BY DEF Control, Scripted, Scripts, Threads
    <3>2. QED
      BY <3>1, SessionApart DEF SessionPhases
  <2>4. todo'["session"] \in QuietScripts => Rejected'
    BY <1>1, <1>5, <2>3 DEF Send, Rejected
  <2>5. UNCHANGED <<blocking, overtaken>>
    BY <1>5 DEF Send, components, settingsVars
  <2>6. QED
    BY <2>2, <2>4, <2>5 DEF HeldByRequest
<1>6. CASE Result(t)
  <2>1. At(t, "result") /\ blocking' = (blocking /\ (overtaken \/ ~Rejected)) /\ overtaken' = FALSE
    BY <1>6 DEF Result
  <2>2. ASSUME blocking', todo["session"] \in QuietScripts
        PROVE  FALSE
    <3>1. blocking /\ ~Rejected
      BY <2>1, <2>2 DEF HeldByRequest
    <3>2. PICK u \in Threads : At(u, "send")
      BY <2>2, <3>1 DEF HeldByRequest
    <3>3. u = t
      BY <2>1, <3>2, SenderHolds DEF Sending
    <3>4. QED
      BY <2>1, <3>2, <3>3 DEF At
  <2>3. QED
    BY <1>1, <2>1, <2>2 DEF HeldByRequest
<1>7. CASE ApplyResult(t)
  <2>1. todo[t] \in ResizeScripts
    BY <1>7, Where DEF ApplyResult, Control
  <2>2. dispatch = t
    BY <2>1 DEF Control, LockHeld, LockedScripts
  <2>3. QED
    BY <1>1, <1>7, <2>2, GotoHold DEF ApplyResult, Return, Sending, At, settingsVars
<1>8. CASE Invalidate(t)
  BY <1>1, <1>8, GotoHold DEF Invalidate, Overtake, Continue, Sending, At, requestVars
<1>9. CASE CancelResize(t) \/ ResetWait(t)
  BY <1>1, <1>9, GotoHold DEF CancelResize, ResetWait, Continue, Sending, At, requestVars, settingsVars
<1>10. QED
  BY <1>2, <1>3, <1>4, <1>5, <1>6, <1>7, <1>8, <1>9 DEF Step

LEMMA SessionHold ==
  ASSUME Control, HeldByRequest, SessionAction
  PROVE  HeldByRequest'
<1>0. "session" \in Threads /\ todo["session"] \in SessionScripts /\ ~Sending("session")
  BY SenderHolds DEF Control, Scripted, Scripts, Threads
<1>1. ASSUME NEW s, Goto("session", s)
      PROVE  todo'["session"] = s
  BY <1>0, <1>1 DEF Goto, Control
<1>2. CASE ResetSettings
  BY <1>2 DEF ResetSettings, Overtake, HeldByRequest
<1>3. CASE Resolved \/ Ended
  <2>1. PICK s \in {ReportDisconnected, ReportFailed, Attempt} : Goto("session", s)
    BY <1>3 DEF Resolved, Ended
  <2>2. s \in SessionScripts /\ s \notin QuietScripts
    BY <2>1, GivenScripts, SessionApart DEF SessionScripts
  <2>3. UNCHANGED <<blocking, overtaken, answer>>
    BY <1>3 DEF Resolved, Ended, components, settingsVars, requestVars
  <2>4. QED
    BY <1>0, <1>1, <2>1, <2>2, <2>3, GotoHold
<1>4. CASE ReadLayout \/ Activate \/ OnConnected \/ EmitConnected
  <2>1. /\ \E x \in {"readLayout", "activate", "connected", "emitConnected"} : At("session", x)
        /\ Goto("session", Tail(todo["session"]))
        /\ UNCHANGED <<blocking, overtaken, answer>>
    BY <1>4 DEF ReadLayout, Activate, OnConnected, EmitConnected, Continue, components, settingsVars, requestVars
  <2>2. todo["session"] \in AttemptScripts \cup ConnectedScripts \cup {Connecting}
    BY <1>0, <2>1, QuietShape, ResetShape DEF At, Idle, SessionScripts, QuietHeads
  <2>3. Tail(todo["session"]) \in AttemptScripts \cup ConnectedScripts \cup {Connecting}
    BY <2>1, <2>2, AttemptShape, ConnectedShape DEF At
  <2>4. Tail(todo["session"]) \notin QuietScripts
    BY <2>3, SessionApart DEF SessionScripts
  <2>5. QED
    BY <1>0, <1>1, <2>1, <2>4, GotoHold
<1>5. CASE ClearActive
  <2>1. Goto("session", <<"ended">>) /\ UNCHANGED <<blocking, overtaken, answer>>
    BY <1>5 DEF ClearActive, components, settingsVars, requestVars
  <2>2. <<"ended">> \notin QuietScripts
    BY SessionApart DEF SessionScripts
  <2>3. QED
    BY <1>0, <1>1, <2>1, <2>2, GotoHold
<1>6. CASE EmitEnd
  <2>1. /\ \E x \in {"emitDisconnected", "emitFailed"} : At("session", x)
        /\ Goto("session", Tail(todo["session"]))
        /\ UNCHANGED <<blocking, overtaken, answer>>
    BY <1>6 DEF EmitEnd, Continue, components, settingsVars, requestVars
  <2>2. todo["session"] \in QuietScripts
    BY <1>0, <2>1, ResetShape, AttemptShape, ConnectedShape DEF At, Idle, SessionScripts
  <2>3. QED
    BY <1>0, <2>1, <2>2, GotoHold
<1>7. QED
  BY <1>2, <1>3, <1>4, <1>5, <1>6 DEF SessionAction

LEMMA HoldStep ==
  ASSUME Control, SessionPhases, HeldByRequest, [Next]_vars
  PROVE  HeldByRequest'
<1>0. "session" \in Threads /\ "ui" \in Threads /\ "monitor" \in Threads /\ "coalescer" \in Threads
  BY DEF Threads
\* The threads but the session worker, at a step or idle.
<1>1. ASSUME NEW t \in Threads \ {"session"}, NEW s, Goto(t, s), ~Sending(t), answer' = answer \/ dispatch = t,
             blocking' => blocking /\ overtaken' = overtaken
      PROVE  HeldByRequest'
  <2>1. todo'["session"] = todo["session"]
    BY <1>1 DEF Goto, Threads
  <2>2. QED
    BY <1>1, <2>1, GotoHold
<1>2. ASSUME NEW size \in SizeOrNone, Select(size)
      PROVE  HeldByRequest'
  <2>1. todo["ui"] = <<"resolveSelect">>
    BY <1>0, <1>2, Where DEF Select, Control
  <2>2. dispatch = "ui"
    BY <1>0, <2>1 DEF Control, LockHeld, LockedScripts
  <2>3. QED
    BY <1>0, <1>1, <1>2, <2>2 DEF Select, Return, Sending, At, Threads
<1>3. CASE Exchange \/ ResolveSingle \/ SetMultimonLayout
  <2>1. dispatch = "monitor"
    BY <1>0, <1>3, Where
       DEF Exchange, ResolveSingle, SetMultimonLayout, SurfaceHeads, Control, LockHeld, LockedScripts
  <2>2. /\ \E s : Goto("monitor", s)
        /\ UNCHANGED <<blocking, overtaken>> /\ ~Sending("monitor")
    BY <1>3 DEF Exchange, ResolveSingle, SetMultimonLayout, Return, Continue, components, settingsVars,
       Sending, At
  <2>3. QED
    BY <1>0, <1>1, <2>1, <2>2
<1>4. CASE StartWorker
  <2> DEFINE s == <<"reset", "cancel", "resolved">>
  <2>1. s \notin QuietScripts
    BY SessionApart DEF SessionScripts, ResetScripts
  <2>2. todo'["session"] = s
    BY <1>0, <1>4 DEF StartWorker, Control
  <2>3. UNCHANGED <<blocking, overtaken>>
    BY <1>4 DEF StartWorker, components, settingsVars
  <2>4. QED
    BY <2>1, <2>2, <2>3 DEF HeldByRequest
<1>5. CASE Connect \/ Disconnect \/ BeginSelect \/ Dequeue
  <2>1. \E t \in {"ui", "coalescer"} : \E s : Idle(t) /\ Goto(t, s) /\ UNCHANGED <<blocking, overtaken, answer>>
    BY <1>5 DEF Connect, Disconnect, RequestDisconnect, BeginSelect, Dequeue, components, settingsVars,
       requestVars
  <2>2. QED
    BY <1>0, <1>1, <2>1 DEF Sending, At
<1>6. CASE SurfaceDestroyed \/ \E size \in Sizes : SurfaceCreated(size) \/ SurfaceChanged(size)
  BY <1>0, <1>1, <1>6 DEF SurfaceDestroyed, SurfaceCreated, SurfaceChanged, SurfaceTo, components,
     settingsVars, requestVars, Sending, At
<1>7. ASSUME NEW multi \in BOOLEAN, LayoutChanged(multi)
      PROVE  HeldByRequest'
  <2>1. Idle("monitor") /\ (\E s : Goto("monitor", s)) /\ answer' = answer
    BY <1>7 DEF LayoutChanged
  <2>2. blocking' => blocking /\ overtaken' = overtaken
    BY <1>7 DEF LayoutChanged, SetMultimon, Overtake
  <2>3. QED
    BY <1>0, <1>1, <2>1, <2>2 DEF Sending, At
<1>8. CASE WaitEnds \/ UNCHANGED vars
  BY <1>8 DEF WaitEnds, vars, components, settingsVars, requestVars, HeldByRequest, At, Idle, Rejected
<1>9. CASE HoldEnds
  BY <1>9 DEF HoldEnds, HeldByRequest
<1>10. QED
  BY <1>0, <1>2, <1>3, <1>4, <1>5, <1>6, <1>7, <1>8, <1>9, StepHold, SessionHold
     DEF Next, UiStep, MonitorStep, CoalescerStep, SessionStep, Environment, SessionAction
-----------------------------------------------------------------------------
(* What the policy is while the lock is held.                              *)

\* A step that leaves the policy, and takes its thread to a script the policy allows.
LEMMA GotoPolicy ==
  ASSUME Control, PolicyHeld, NEW t \in Threads, NEW s, Goto(t, s),
         UNCHANGED <<requested, multimon, multimonActive>>,
         todo[t] \notin ExchangeScripts,
         snapshot' = snapshot \/ dispatch = t,
         s \in SurfaceScripts => ~multimon /\ requested = 0,
         s \in ResizeScripts => ~multimon /\ requested \in {0, snapshot'},
         s \in MultiScripts => multimon
  PROVE  PolicyHeld'
<1>1. todo'[t] = s /\ \A u \in Threads \ {t} : todo'[u] = todo[u]
  BY DEF Goto, Control
<1>2. \A u \in Threads \ {t} : todo[u] \in ResizeScripts => snapshot' = snapshot
  BY DEF Control, LockHeld, LockedScripts
<1>3. multimonActive' # multimon' => todo'["monitor"] \in ExchangeScripts
  BY <1>1 DEF PolicyHeld, Threads
<1>4. ASSUME NEW u \in Threads
      PROVE  /\ todo'[u] \in SurfaceScripts => ~multimon' /\ requested' = 0
             /\ todo'[u] \in ResizeScripts => ~multimon' /\ requested' \in {0, snapshot'}
             /\ todo'[u] \in MultiScripts => multimon'
  BY <1>1, <1>2 DEF PolicyHeld
<1>5. QED
  BY <1>3, <1>4 DEF PolicyHeld

\* Without the lock nothing is claimed.
LEMMA FreePolicy ==
  ASSUME Control, PolicyHeld, NEW t \in Threads, NEW s \in FreeScripts \cup SessionScripts, Goto(t, s),
         UNCHANGED <<requested, multimon, multimonActive>>,
         todo[t] \notin ExchangeScripts, snapshot' = snapshot \/ dispatch = t
  PROVE  PolicyHeld'
<1>1. s \notin SurfaceScripts \cup ResizeScripts \cup MultiScripts
  BY Apart, SessionApart DEF LockedScripts
<1>2. QED
  BY <1>1, GotoPolicy

LEMMA StepPolicy ==
  ASSUME Control, PolicyHeld, NEW t \in Threads, Step(t)
  PROVE  PolicyHeld'
<1> USE DEF Control
<1>0. UNCHANGED <<requested, multimon, multimonActive>>
  BY DEF Step, BeginSchedule, ResolveSchedule, ScheduleResize, CacheLayout, BeginApply, ResolveApply, Begin,
     Send, Result, ApplyResult, Invalidate, CancelResize, ResetWait, components, settingsVars, policyVars
<1>1. todo[t] \notin ExchangeScripts
  BY ExchangeShape
     DEF Step, BeginSchedule, ResolveSchedule, ScheduleResize, CacheLayout, BeginApply, ResolveApply, Begin,
         Send, Result, ApplyResult, Invalidate, CancelResize, ResetWait, At
<1>2. <<>> \in FreeScripts
  BY DEF FreeScripts
<1>3. /\ <<"resolveSchedule">> \in SurfaceScripts /\ <<"resolveApply">> \in SurfaceScripts
      /\ <<"schedule">> \in SurfaceScripts /\ <<"cache">> \in SurfaceScripts
  BY DEF SurfaceScripts
<1>4. CASE BeginSchedule(t) \/ BeginApply(t)
  <2>1. CASE Goto(t, <<>>)
    BY <1>0, <1>1, <1>2, <1>4, <2>1, FreePolicy DEF BeginSchedule, BeginApply
  <2>2. CASE ~Goto(t, <<>>)
    <3>1. /\ FollowsSurface /\ dispatch = "free" /\ snapshot' = snapshot
          /\ \E s \in {<<"resolveSchedule">>, <<"resolveApply">>} : Goto(t, s)
      BY <1>4, <2>2 DEF BeginSchedule, BeginApply, MayResize, Lock
    <3>2. requested = 0 /\ ~multimonActive
      BY <3>1 DEF FollowsSurface, Fixed
    <3>3. todo["monitor"] \notin ExchangeScripts
      BY <3>1 DEF LockHeld, LockedScripts, Threads
    <3>4. ~multimon
      BY <3>2, <3>3 DEF PolicyHeld
    <3>5. PICK s \in SurfaceScripts : Goto(t, s)
      BY <1>3, <3>1
    <3>6. s \notin ResizeScripts \cup MultiScripts
      BY Apart
    <3>7. QED
      BY <1>0, <1>1, <3>1, <3>2, <3>4, <3>5, <3>6, GotoPolicy
  <2>3. QED
    BY <2>1, <2>2
<1>5. CASE ResolveSchedule(t) \/ ResolveApply(t) \/ ScheduleResize(t) \/ CacheLayout(t)
  <2>1. todo[t] \in SurfaceScripts
    BY <1>5, Where DEF ResolveSchedule, ResolveApply, ScheduleResize, CacheLayout, SurfaceHeads
  <2>2. dispatch = t /\ ~multimon /\ requested = 0
    BY <2>1 DEF LockHeld, LockedScripts, PolicyHeld
  <2>3. \E s \in {<<>>, <<"schedule">>, <<"cache">>, ApplySteps} : Goto(t, s)
    BY <1>5 DEF ResolveSchedule, ResolveApply, ScheduleResize, CacheLayout, Return
  <2>4. PICK s \in FreeScripts \cup SurfaceScripts \cup ResizeScripts : Goto(t, s)
    BY <1>2, <1>3, <2>3, GivenScripts
  <2>5. s \notin MultiScripts
    BY <2>4, Apart
  <2>6. QED
    BY <1>0, <1>1, <2>2, <2>4, <2>5, GotoPolicy
<1>6. CASE Begin(t) \/ Send(t) \/ Result(t)
  <2>1. /\ \E x \in {"begin", "send", "result"} : At(t, x)
        /\ Goto(t, Tail(todo[t])) /\ snapshot' = snapshot
    BY <1>6 DEF Begin, Send, Result, Continue, requestVars
  <2>2. todo[t] \in ResizeScripts
    BY <2>1, Where
  <2>3. Tail(todo[t]) \in ResizeScripts
    BY <2>1, <2>2, ResizeShape DEF At
  <2>4. Tail(todo[t]) \notin SurfaceScripts \cup MultiScripts
    BY <2>3, Apart
  <2>5. ~multimon /\ requested \in {0, snapshot}
    BY <2>2 DEF PolicyHeld
  <2>6. QED
    BY <1>0, <1>1, <2>1, <2>4, <2>5, GotoPolicy
<1>7. CASE ApplyResult(t)
  <2>1. todo[t] \in ResizeScripts
    BY <1>7, Where DEF ApplyResult
  <2>2. dispatch = t
    BY <2>1 DEF LockHeld, LockedScripts
  <2>3. QED
    BY <1>0, <1>1, <1>2, <1>7, <2>2, FreePolicy DEF ApplyResult, Return
<1>8. CASE Invalidate(t) \/ CancelResize(t) \/ ResetWait(t)
  <2> DEFINE s == Tail(todo[t])
  <2>1. /\ \E x \in {"invalidate", "cancel", "resetWait"} : At(t, x)
        /\ Goto(t, s) /\ snapshot' = snapshot
    BY <1>8 DEF Invalidate, CancelResize, ResetWait, Continue, requestVars
  <2>2. CASE t = "session"
    <3>1. s \in SessionScripts
      BY <2>1, <2>2, ContinueScript, GivenScripts
    <3>2. QED
      BY <1>0, <1>1, <2>1, <3>1, FreePolicy
  <2>3. CASE t # "session" /\ todo[t] \in FreeScripts
    <3>1. s \in FreeScripts
      BY <2>1, <2>3, FreeShape DEF At, Idle
    <3>2. QED
      BY <1>0, <1>1, <2>1, <3>1, FreePolicy
  <2>4. CASE t # "session" /\ todo[t] \notin FreeScripts
    <3>1. todo[t] \in ResizeScripts \cup MultiScripts /\ Head(todo[t]) = "cancel"
      BY <2>1, <2>4, SurfaceShape, ExchangeShape, ResizeShape, MultiShape
         DEF At, Idle, Scripted, Scripts, LockedScripts, SurfaceHeads
    <3>2. /\ todo[t] \in ResizeScripts => s \in ResizeScripts
          /\ todo[t] \in MultiScripts => s \in MultiScripts
      BY <3>1, ResizeShape, MultiShape
    <3>3. /\ s \in ResizeScripts => s \notin SurfaceScripts \cup MultiScripts
          /\ s \in MultiScripts => s \notin SurfaceScripts \cup ResizeScripts
      BY Apart
    <3>4. /\ todo[t] \in ResizeScripts => ~multimon /\ requested \in {0, snapshot}
          /\ todo[t] \in MultiScripts => multimon
      BY DEF PolicyHeld
    <3> HIDE DEF s
    <3>5. QED
      BY <1>0, <1>1, <2>1, <3>1, <3>2, <3>3, <3>4, GotoPolicy
  <2>5. QED
    BY <2>2, <2>3, <2>4
<1>9. QED
  BY <1>4, <1>5, <1>6, <1>7, <1>8 DEF Step

LEMMA SelectPolicy ==
  ASSUME Control, PolicyHeld, NEW size \in SizeOrNone, Select(size)
  PROVE  PolicyHeld'
<1> USE DEF Control
<1>1. "ui" \in Threads /\ todo["ui"] = <<"resolveSelect">>
  BY Where DEF Select, Threads
<1>2. dispatch = "ui"
  BY <1>1 DEF LockHeld, LockedScripts
<1>3. \A u \in Threads \ {"ui"} : todo[u] \notin LockedScripts
  BY <1>2 DEF LockHeld
<1>4. todo["ui"] \notin ExchangeScripts
  BY <1>1, Apart
<1>5. multimonActive = multimon
  BY <1>3 DEF PolicyHeld, LockedScripts, Threads
<1>6. CASE SelectAllowed(size)
  <2> DEFINE s == <<"cancel">> \o ApplySteps
  <2>1. /\ requested' = size /\ snapshot' = (IF size = 0 THEN surface ELSE size)
        /\ Goto("ui", s) /\ UNCHANGED <<multimon, multimonActive>> /\ ~multimon
    BY <1>6 DEF Select, SelectAllowed
  <2>2. s \in ResizeScripts
    BY GivenScripts
  <2> HIDE DEF s
  <2>3. s \notin SurfaceScripts \cup MultiScripts
    BY <2>2, Apart
  <2>4. todo'["ui"] = s /\ \A u \in Threads \ {"ui"} : todo'[u] = todo[u]
    BY <1>1, <2>1 DEF Goto
  <2>5. requested' \in {0, snapshot'}
    BY <2>1
  <2>6. ASSUME NEW u \in Threads
        PROVE  /\ todo'[u] \in SurfaceScripts => ~multimon' /\ requested' = 0
               /\ todo'[u] \in ResizeScripts => ~multimon' /\ requested' \in {0, snapshot'}
               /\ todo'[u] \in MultiScripts => multimon'
    BY <1>3, <2>1, <2>3, <2>4, <2>5 DEF LockedScripts
  <2>7. QED
    BY <1>5, <2>1, <2>6 DEF PolicyHeld
<1>7. CASE ~SelectAllowed(size)
  <2>1. <<>> \in FreeScripts
    BY DEF FreeScripts
  <2>2. QED
    BY <1>1, <1>2, <1>4, <1>7, <2>1, FreePolicy DEF Select, Return
<1>8. QED
  BY <1>6, <1>7

LEMMA MonitorPolicy ==
  ASSUME Control, PolicyHeld, Exchange \/ ResolveSingle \/ SetMultimonLayout
  PROVE  PolicyHeld'
<1> USE DEF Control
<1>0. "monitor" \in Threads
  BY DEF Threads
<1>1. dispatch = "monitor"
  BY <1>0, Where DEF Exchange, ResolveSingle, SetMultimonLayout, SurfaceHeads, LockHeld, LockedScripts
<1>2. \A u \in Threads \ {"monitor"} : todo[u] \notin LockedScripts
  BY <1>1 DEF LockHeld
<1>3. <<>> \in FreeScripts
  BY DEF FreeScripts
<1>4. CASE Exchange
  <2>1. todo["monitor"] \in ExchangeScripts
    BY <1>0, <1>4, Where DEF Exchange
  <2>2. /\ multimonActive' = multimon /\ UNCHANGED <<requested, multimon>>
    BY <1>4 DEF Exchange, components, settingsVars, policyVars
  <2>3. /\ \A u \in Threads \ {"monitor"} : todo'[u] \notin LockedScripts
        /\ \A s : Goto("monitor", s) => todo'["monitor"] = s
    BY <1>0, <1>2, <1>4 DEF Exchange, Goto, Continue, Return
  <2>4. CASE multimon
    <3>1. todo'["monitor"] = Tail(todo["monitor"])
      BY <1>4, <2>3, <2>4 DEF Exchange, Continue
    <3>2. todo'["monitor"] \in MultiScripts \cup {<<>>}
      BY <2>1, <3>1, ExchangeShape
    <3>3. todo'["monitor"] \notin SurfaceScripts \cup ResizeScripts
      BY <1>3, <3>2, Apart
    <3>4. QED
      BY <2>2, <2>3, <2>4, <3>3 DEF PolicyHeld, LockedScripts
  <2>5. CASE ~multimon
    <3>1. todo'["monitor"] \in {<<"resolveSingle">>, <<"resolveSchedule">>, <<>>}
      BY <1>4, <2>3, <2>5 DEF Exchange, Return
    <3>2. todo'["monitor"] \in SurfaceScripts \cup FreeScripts
      BY <1>3, <3>1 DEF SurfaceScripts
    <3>3. todo'["monitor"] \notin ResizeScripts \cup MultiScripts
      BY <3>2, Apart
    <3>4. todo'["monitor"] \in SurfaceScripts => requested = 0
      <4>1. CASE multimonActive \/ ~Fixed
        BY <4>1 DEF PolicyHeld, Fixed
      <4>2. CASE ~multimonActive /\ Fixed
        BY <1>3, <1>4, <2>3, <2>5, <4>2, Apart DEF Exchange, Return
      <4>3. QED
        BY <4>1, <4>2
    <3>5. QED
      BY <2>2, <2>3, <2>5, <3>3, <3>4 DEF PolicyHeld, LockedScripts
  <2>6. QED
    BY <2>4, <2>5
<1>5. CASE ResolveSingle
  <2>1. todo["monitor"] \in SurfaceScripts
    BY <1>0, <1>5, Where DEF ResolveSingle, SurfaceHeads
  <2>2. todo["monitor"] \notin ExchangeScripts /\ ~multimon /\ requested = 0
    BY <1>0, <2>1, Apart DEF PolicyHeld
  <2>3. PICK s \in {<<>>, <<"cache">>} : Goto("monitor", s)
    BY <1>5 DEF ResolveSingle, Return
  <2>4. s \in FreeScripts \cup SurfaceScripts
    BY <1>3, <2>3 DEF SurfaceScripts
  <2>5. s \notin MultiScripts \cup ResizeScripts
    BY <2>4, Apart
  <2>6. UNCHANGED <<requested, multimon, multimonActive>>
    BY <1>5 DEF ResolveSingle, components, settingsVars, policyVars
  <2>7. QED
    BY <1>0, <1>1, <2>2, <2>3, <2>5, <2>6, GotoPolicy
<1>6. CASE SetMultimonLayout
  <2>1. todo["monitor"] \notin ExchangeScripts
    BY <1>6, ExchangeShape DEF SetMultimonLayout, At
  <2>2. QED
    BY <1>0, <1>1, <1>3, <1>6, <2>1, FreePolicy
       DEF SetMultimonLayout, Return, components, settingsVars, policyVars
<1>7. QED
  BY <1>4, <1>5, <1>6

LEMMA SessionPolicy ==
  ASSUME Control, PolicyHeld, SessionAction
  PROVE  PolicyHeld'
<1> USE DEF Control
<1>0. "session" \in Threads /\ todo["session"] \in SessionScripts
  BY DEF Scripted, Scripts, Threads
<1>1. todo["session"] \notin ExchangeScripts
  BY <1>0, SessionApart DEF LockedScripts
<1>2. PICK s : Goto("session", s)
  BY DEF SessionAction, ResetSettings, Resolved, ReadLayout, Activate, OnConnected, EmitConnected,
     ClearActive, Ended, EmitEnd, Continue
<1>3. todo'["session"] = s /\ \A u \in Threads \ {"session"} : todo'[u] = todo[u]
  BY <1>0, <1>2 DEF Goto
<1>4. s \in SessionScripts
  BY <1>0, <1>3, SessionActionControl DEF Scripted, Scripts
<1>5. CASE ResetSettings
  <2>1. requested' = 0 /\ UNCHANGED <<multimon, multimonActive, snapshot>>
    BY <1>5 DEF ResetSettings, requestVars
  <2>2. todo'["session"] \notin LockedScripts
    BY <1>3, <1>4, SessionApart
  <2>3. QED
    BY <1>3, <2>1, <2>2 DEF PolicyHeld, LockedScripts, Threads
<1>6. CASE ~ResetSettings
  <2>1. UNCHANGED <<requested, multimon, multimonActive, snapshot>>
    BY <1>6 DEF SessionAction, Resolved, ReadLayout, Activate, OnConnected, EmitConnected,
       ClearActive, Ended, EmitEnd, components, settingsVars, policyVars, requestVars
  <2>2. QED
    BY <1>0, <1>1, <1>2, <1>4, <2>1, FreePolicy
<1>7. QED
  BY <1>5, <1>6

LEMMA PolicyStep ==
  ASSUME Control, PolicyHeld, [Next]_vars
  PROVE  PolicyHeld'
<1> USE DEF Control
<1>0. "session" \in Threads /\ "ui" \in Threads /\ "monitor" \in Threads /\ "coalescer" \in Threads
  BY DEF Threads
<1>1. <<>> \notin LockedScripts /\ <<>> \in FreeScripts
  BY Apart DEF FreeScripts, LockedScripts
<1>2. ASSUME NEW t \in Threads, Idle(t), NEW s \in FreeScripts, Goto(t, s),
             UNCHANGED <<requested, multimon, multimonActive, snapshot>>
      PROVE  PolicyHeld'
  BY <1>1, <1>2, FreePolicy DEF Idle, LockedScripts
<1>3. CASE StartWorker
  <2> DEFINE s == <<"reset", "cancel", "resolved">>
  <2>1. s \in SessionScripts
    BY DEF SessionScripts, ResetScripts
  <2>2. s \notin LockedScripts
    BY <2>1, SessionApart
  <2> HIDE DEF s
  <2>3. /\ todo' = [todo EXCEPT !["ui"] = <<>>, !["session"] = s]
        /\ UNCHANGED <<requested, multimon, multimonActive, snapshot>>
    BY <1>3 DEF StartWorker, s, components, settingsVars, policyVars, requestVars
  <2>4. \A u \in Threads : todo'[u] = todo[u] \/ todo'[u] \notin LockedScripts
    BY <1>0, <1>1, <2>2, <2>3
  <2>5. todo'["monitor"] = todo["monitor"]
    BY <1>0, <2>3
  <2>6. QED
    BY <2>3, <2>4, <2>5 DEF PolicyHeld, LockedScripts
<1>4. CASE Connect \/ Disconnect \/ Dequeue
  <2>1. <<"join">> \in FreeScripts /\ <<"beginApply">> \in FreeScripts
    BY DEF FreeScripts
  <2>2. QED
    BY <1>0, <1>1, <1>2, <1>4, <2>1
       DEF Connect, Disconnect, RequestDisconnect, Dequeue, components, settingsVars, policyVars, requestVars
<1>5. CASE SurfaceDestroyed \/ \E size \in Sizes : SurfaceCreated(size) \/ SurfaceChanged(size)
  <2>1. /\ <<"invalidate", "cancel", "resetWait">> \in FreeScripts
        /\ <<"resetWait", "beginSchedule">> \in FreeScripts /\ <<"beginSchedule">> \in FreeScripts
    BY DEF FreeScripts
  <2>2. QED
    BY <1>0, <1>2, <1>5, <2>1
       DEF SurfaceDestroyed, SurfaceCreated, SurfaceChanged, SurfaceTo, components, settingsVars,
           policyVars, requestVars
<1>6. CASE BeginSelect
  <2>1. <<"resolveSelect">> \notin SurfaceScripts \cup ResizeScripts \cup MultiScripts
    BY Apart
  <2>2. todo["ui"] \notin ExchangeScripts
    BY <1>1, <1>6 DEF BeginSelect, Idle, LockedScripts
  <2>3. QED
    BY <1>0, <1>6, <2>1, <2>2, GotoPolicy DEF BeginSelect, components, settingsVars, policyVars
<1>7. ASSUME NEW multi \in BOOLEAN, LayoutChanged(multi)
      PROVE  PolicyHeld'
  <2>1. \A u \in Threads : todo[u] \notin LockedScripts
    BY <1>7 DEF LayoutChanged, Lock, LockHeld, Threads
  <2>2. /\ multimon' = multi /\ (multi => requested' = 0) /\ (~multi => requested' = requested)
        /\ UNCHANGED multimonActive
    BY <1>7 DEF LayoutChanged, SetMultimon
  <2>3. PICK s \in ExchangeScripts : Goto("monitor", s)
    BY <1>7 DEF LayoutChanged, ExchangeScripts
  <2>4. todo'["monitor"] = s /\ \A u \in Threads \ {"monitor"} : todo'[u] = todo[u]
    BY <1>0, <2>3 DEF Goto
  <2>5. s \notin SurfaceScripts \cup ResizeScripts \cup MultiScripts
    BY Apart
  <2>6. multimon' \/ multimonActive' => requested' = 0
    BY <2>2 DEF PolicyHeld
  <2>7. QED
    BY <2>1, <2>4, <2>5, <2>6 DEF PolicyHeld, LockedScripts
<1>8. CASE WaitEnds \/ HoldEnds \/ UNCHANGED vars
  BY <1>8 DEF WaitEnds, HoldEnds, vars, components, settingsVars, policyVars, requestVars, PolicyHeld
<1>9. QED
  BY <1>0, <1>3, <1>4, <1>5, <1>6, <1>7, <1>8, StepPolicy, SelectPolicy, MonitorPolicy, SessionPolicy
     DEF Next, UiStep, MonitorStep, CoalescerStep, SessionStep, Environment, SessionAction
-----------------------------------------------------------------------------
(* The invariant, and what follows from it.                                *)

LEMMA InvariantStep ==
  ASSUME IInv, [Next]_vars
  PROVE  IInv'
<1>1. Control
  BY DEF IInv, TypeOK, Control
<1>2. Control'
  BY <1>1, NextControl
<1>3. TypeOK'
  BY <1>2, TypeStep DEF IInv, Control
<1>4. SessionPhases' /\ HeldByRequest' /\ PolicyHeld'
  BY <1>1, PhaseStep, HoldStep, PolicyStep DEF IInv
<1>5. QED
  BY <1>2, <1>3, <1>4 DEF IInv, Control

LEMMA InvariantInit == Init => IInv
<1> SUFFICES ASSUME Init PROVE IInv
  OBVIOUS
<1>1. \A t \in Threads : todo[t] = <<>>
  BY DEF Init
<1>2. TypeOK
  <2>1. todo \in [Threads -> Seq(Steps)]
    BY DEF Init
  <2>2. Flags
    BY Zenon DEF Init, Flags
  <2>3. QED
    BY <2>1, <2>2 DEF Flags, Init, TypeOK, SizeOrNone, Layouts, ResultStatuses
<1>3. <<>> \in FreeScripts
  BY DEF FreeScripts
<1>4. <<>> \notin LockedScripts
  BY <1>3, Apart DEF LockedScripts
<1>5. Scripted /\ LockHeld
  BY <1>1, <1>4, GivenScripts DEF Scripted, LockHeld
<1>6. SessionPhases /\ HeldByRequest
  BY DEF Init, SessionPhases, HeldByRequest
<1>7. PolicyHeld
  BY <1>1, <1>4 DEF Init, PolicyHeld, LockedScripts
<1>8. QED
  BY <1>2, <1>5, <1>6, <1>7 DEF IInv

(* Every thread is in a script of its own, only the holder of the dispatch *)
(* lock in one that needs it; the session's phases, the hold on input and  *)
(* the policy agree with where the threads are.                            *)
THEOREM Invariant == Spec => []IInv
  BY InvariantInit, InvariantStep, PTL DEF Spec

(* Every variable keeps its type.                                          *)
THEOREM TypeCorrect == Spec => []TypeOK
<1>1. IInv => TypeOK
  BY DEF IInv
<1>2. QED
  BY <1>1, Invariant, PTL

\* Only a resize applies a result.
LEMMA ResizingScript ==
  ASSUME Scripted, NEW t \in Threads, Resizing(t)
  PROVE  todo[t] \in ResizeScripts
<1> DEFINE Others == Seq(Steps \ {"apply"})
<1>1. SurfaceScripts \cup MultiScripts \cup ExchangeScripts \cup {<<"resolveSelect">>} \subseteq Others
  BY DEF SurfaceScripts, MultiScripts, ExchangeScripts, Steps
<1>2. FreeScripts \subseteq Others
  BY DEF FreeScripts, Steps
<1>3. QuietScripts \subseteq Others
  BY DEF QuietScripts, Steps
<1>4. ResetScripts \subseteq Others
  BY DEF ResetScripts, ReportDisconnected, ReportFailed, Steps
<1>5. AttemptScripts \cup ConnectedScripts \cup {Connecting, <<"ended">>} \subseteq Others
  BY DEF AttemptScripts, Attempt, ConnectedScripts, Connecting, Steps
<1>6. ASSUME NEW s \in Others, NEW i \in DOMAIN s
      PROVE  s[i] # "apply"
  BY <1>6
<1>7. todo[t] \notin Others
  BY <1>6 DEF Resizing
<1> HIDE DEF Others
<1>8. QED
  BY <1>1, <1>2, <1>3, <1>4, <1>5, <1>7 DEF Scripted, Scripts, SessionScripts, LockedScripts

(* The dispatch lock admits one resize at a time, from its request to its  *)
(* result: the settings and the coordinator never see two.                 *)
THEOREM OneAtATime == Spec => []OneResizeAtATime
<1>1. ASSUME IInv, NEW t \in Threads, NEW u \in Threads, Resizing(t), Resizing(u)
      PROVE  t = u
  BY <1>1, ResizingScript DEF IInv, LockHeld, LockedScripts
<1>2. IInv => OneResizeAtATime
  BY <1>1 DEF OneResizeAtATime
<1>3. QED
  BY <1>2, Invariant, PTL

(* Input is not held back for a session that is over: if its end overtook  *)
(* a resize, the request has yet to be sent or has been refused, and its   *)
(* result releases the hold.                                               *)
THEOREM NoHold == Spec => []NoHoldWithoutSession
<1>1. <<>> \in QuietScripts
  BY DEF QuietScripts
<1>2. IInv => NoHoldWithoutSession
  BY <1>1 DEF IInv, HeldByRequest, NoHoldWithoutSession, Idle
<1>3. QED
  BY <1>2, Invariant, PTL

\* What the native session is asked for, by every step.
LEMMA AskedByPolicy ==
  ASSUME IInv, Next, active, active', asked' # asked
  PROVE  /\ multimon <=> asked' = Multi
         /\ Fixed => asked' = requested
<1>1. Control
  BY DEF IInv, TypeOK, Control
<1>2. snapshot # Multi
  BY DEF IInv, TypeOK, SizeOrNone, Multi
<1>3. todo["session"] \in SessionScripts /\ "session" \in Threads /\ "monitor" \in Threads
  BY <1>1 DEF Control, Scripted, Scripts, Threads
<1>4. todo["session"] \in ConnectedScripts \cup {Connecting}
  BY DEF IInv, SessionPhases
<1>5. ~Activate
  BY <1>4, ConnectedShape DEF Activate, At
<1>6. ~ClearActive
  BY DEF ClearActive
<1>7. PICK t \in Threads : CacheLayout(t) \/ Send(t) \/ SetMultimonLayout
  <2>1. \A t \in {"ui", "monitor", "coalescer", "session"} : t \in Threads
    BY DEF Threads
  <2>2. ASSUME NEW t \in Threads, Step(t)
        PROVE  CacheLayout(t) \/ Send(t)
    BY <2>2 DEF Step, BeginSchedule, ResolveSchedule, ScheduleResize, BeginApply, ResolveApply, Begin,
       Result, ApplyResult, Invalidate, CancelResize, ResetWait, sessionVars
  <2>3. ~SessionAction
    BY <1>5, <1>6 DEF SessionAction, ResetSettings, Resolved, ReadLayout, OnConnected, EmitConnected,
       Ended, EmitEnd, sessionVars
  <2>4. ~(\E size \in SizeOrNone : Select(size)) /\ ~StartWorker /\ ~Dequeue /\ ~Exchange /\ ~ResolveSingle
    BY DEF Select, StartWorker, Dequeue, Exchange, ResolveSingle, sessionVars
  <2>5. ~WaitEnds /\ ~HoldEnds /\ ~BeginSelect /\ ~Connect /\ ~Disconnect /\ ~SurfaceDestroyed
    BY DEF WaitEnds, HoldEnds, BeginSelect, Connect, Disconnect, RequestDisconnect, SurfaceDestroyed,
       SurfaceTo, sessionVars
  <2>6. /\ ~\E size \in Sizes : SurfaceCreated(size) \/ SurfaceChanged(size)
        /\ ~\E multi \in BOOLEAN : LayoutChanged(multi)
    BY DEF SurfaceCreated, SurfaceChanged, SurfaceTo, LayoutChanged, sessionVars
  <2>7. QED
    BY <2>1, <2>2, <2>3, <2>4, <2>5, <2>6
       DEF Next, UiStep, MonitorStep, CoalescerStep, SessionStep, Environment, SessionAction
<1>8. CASE CacheLayout(t)
  <2>1. todo[t] \in SurfaceScripts
    BY <1>1, <1>8, Where DEF CacheLayout, SurfaceHeads, Control
  <2>2. ~multimon /\ requested = 0
    BY <2>1 DEF IInv, PolicyHeld
  <2>3. asked' = snapshot
    BY <1>8 DEF CacheLayout, SetMonitorLayout
  <2>4. QED
    BY <1>2, <2>2, <2>3 DEF Fixed
<1>9. CASE Send(t)
  <2>1. todo[t] \in ResizeScripts
    BY <1>1, <1>9, Where DEF Send, Control
  <2>2. ~multimon /\ requested \in {0, snapshot}
    BY <2>1 DEF IInv, PolicyHeld
  <2>3. asked' = snapshot
    BY <1>9 DEF Send
  <2>4. QED
    BY <1>2, <2>2, <2>3 DEF Fixed
<1>10. CASE SetMultimonLayout
  <2>1. todo["monitor"] \in MultiScripts
    BY <1>1, <1>3, <1>10, Where DEF SetMultimonLayout, Control
  <2>2. multimon /\ requested = 0
    BY <1>3, <2>1 DEF IInv, PolicyHeld
  <2>3. asked' = Multi
    BY <1>10 DEF SetMultimonLayout, SetMonitorLayout
  <2>4. QED
    BY <2>2, <2>3 DEF Fixed
<1>11. QED
  BY <1>7, <1>8, <1>9, <1>10

(* A running session is asked for several monitors exactly when there are  *)
(* several, and for no size but the fixed one while a resolution is fixed. *)
THEOREM FollowsPolicy == Spec => RequestsFollowPolicy
<1>1. ASSUME IInv, [Next]_vars
      PROVE  [(active /\ active' /\ asked' # asked) =>
                /\ multimon <=> asked' = Multi
                /\ Fixed => asked' = requested]_vars
  BY <1>1, AskedByPolicy
<1>2. QED
  BY <1>1, Invariant, PTL DEF Spec, RequestsFollowPolicy
-----------------------------------------------------------------------------
(* The request coalescer, for every delay and any number of requests.      *)

(* The inductive invariant.  The pending request is the youngest, every    *)
(* taken one is older than the pending one, and the wait of a worker that  *)
(* nothing has interrupted has been quiet for as long as it has lasted.    *)
PendingIsYoungest == pending => request = generation /\ worker.request < generation
RequestsNotAhead ==
  worker.generation <= generation /\ worker.request <= generation /\ request <= generation
WaitWasQuiet ==
  (worker.pc = "armed" /\ ~Interrupted) => quiet + worker.timeLeft >= Delay
CoalescerIInv == CoalescerTypeOK /\ PendingIsYoungest /\ RequestsNotAhead /\ WaitWasQuiet

\* A constructed coalescer satisfies the invariant.
LEMMA CoalescerInvInit == CoalescerInit => CoalescerIInv
<1> SUFFICES ASSUME CoalescerInit PROVE CoalescerIInv
  OBVIOUS
<1>1. 0 \in 0 .. Delay /\ 0 \in Generations /\ 0 <= MaxGeneration /\ 0 <= 0
  BY CoalescerAssumption DEF CoalescerAssumption, Generations
<1>2. CoalescerTypeOK
  BY <1>1, Zenon DEF CoalescerInit, CoalescerTypeOK
<1>3. PendingIsYoungest /\ RequestsNotAhead /\ WaitWasQuiet
  BY <1>1 DEF CoalescerInit, PendingIsYoungest, RequestsNotAhead, WaitWasQuiet
<1>4. QED
  BY <1>2, <1>3 DEF CoalescerIInv

\* Every step keeps the types.
LEMMA CoalescerTypeStep == CoalescerTypeOK /\ [CoalescerNext]_coalescerVars => CoalescerTypeOK'
<1> SUFFICES ASSUME CoalescerTypeOK, [CoalescerNext]_coalescerVars PROVE CoalescerTypeOK'
  OBVIOUS
<1> USE CoalescerAssumption DEF CoalescerAssumption
<1>1. CASE Schedule \/ Flush \/ Cancel
  <2>1. generation' \in Generations /\ generation' <= MaxGeneration
    BY <1>1 DEF Schedule, Flush, Cancel, NextGeneration, CoalescerTypeOK, Generations
  <2>2. 0 \in 0 .. Delay
    OBVIOUS
  <2>3. QED
    BY <1>1, <2>1, <2>2, Zenon DEF Schedule, Flush, Cancel, CoalescerTypeOK
<1>2. CASE FlushCallback
  BY <1>2 DEF FlushCallback, CoalescerTypeOK, Generations
<1>3. CASE Stop
  <2>1. generation' \in Generations
    BY <1>3 DEF Stop, CoalescerTypeOK, Generations
  <2>2. QED
    BY <1>3, <2>1, Zenon DEF Stop, CoalescerTypeOK
<1>4. CASE WorkerArm
  <2>1. Delay \in 0 .. Delay
    OBVIOUS
  <2>2. QED
    BY <1>4, <2>1 DEF WorkerArm, CoalescerTypeOK
<1>5. CASE WorkerInterrupted \/ WorkerDequeue \/ WorkerCallback \/ WorkerExit
  BY <1>5 DEF WorkerInterrupted, WorkerDequeue, WorkerCallback, WorkerExit, CoalescerTypeOK
<1>6. CASE Tick
  <2>1. quiet' \in 0 .. Delay /\ Countdown(worker.timeLeft) \in 0 .. Delay
    BY <1>6 DEF Tick, Countdown, CoalescerTypeOK
  <2>2. QED
    BY <1>6, <2>1 DEF Tick, CoalescerTypeOK
<1>7. CASE UNCHANGED coalescerVars
  BY <1>7 DEF coalescerVars, CoalescerTypeOK
<1>8. QED
  BY <1>1, <1>2, <1>3, <1>4, <1>5, <1>6, <1>7 DEF CoalescerNext, WorkerMain

\* Every step keeps the invariant.
LEMMA CoalescerInvStep == CoalescerIInv /\ [CoalescerNext]_coalescerVars => CoalescerIInv'
<1> SUFFICES ASSUME CoalescerIInv, [CoalescerNext]_coalescerVars PROVE CoalescerIInv'
  OBVIOUS
<1>0. CoalescerTypeOK'
  BY CoalescerTypeStep DEF CoalescerIInv
<1> USE CoalescerAssumption
    DEF CoalescerAssumption, CoalescerIInv, CoalescerTypeOK, PendingIsYoungest,
        RequestsNotAhead,
        WaitWasQuiet, Interrupted, Generations
<1>1. CASE Schedule
  BY <1>0, <1>1 DEF Schedule, NextGeneration
<1>2. CASE Flush
  <2>2. PendingIsYoungest' /\ RequestsNotAhead'
    BY <1>2 DEF Flush, NextGeneration
  <2>3. WaitWasQuiet'
    BY <1>2 DEF Flush, NextGeneration
  <2>4. QED
    BY <1>0, <2>2, <2>3
<1>3. CASE FlushCallback
  BY <1>0, <1>3 DEF FlushCallback
<1>4. CASE Cancel
  <2>2. PendingIsYoungest' /\ RequestsNotAhead'
    BY <1>4 DEF Cancel, NextGeneration
  <2>3. WaitWasQuiet'
    BY <1>4 DEF Cancel, NextGeneration
  <2>4. QED
    BY <1>0, <2>2, <2>3
<1>5. CASE Stop
  <2>2. PendingIsYoungest' /\ RequestsNotAhead'
    BY <1>5 DEF Stop
  <2>3. WaitWasQuiet'
    BY <1>5 DEF Stop
  <2>4. QED
    BY <1>0, <2>2, <2>3
<1>6. CASE WorkerArm
  <2>2. PendingIsYoungest' /\ RequestsNotAhead'
    BY <1>6 DEF WorkerArm
  <2>3. WaitWasQuiet'
    BY <1>6 DEF WorkerArm
  <2>4. QED
    BY <1>0, <2>2, <2>3
<1>7. CASE WorkerInterrupted
  BY <1>0, <1>7 DEF WorkerInterrupted
<1>8. CASE WorkerDequeue
  BY <1>0, <1>8 DEF WorkerDequeue
<1>9. CASE WorkerCallback
  BY <1>0, <1>9 DEF WorkerCallback
<1>10. CASE WorkerExit
  BY <1>0, <1>10 DEF WorkerExit
<1>11. CASE Tick
  <2>1. /\ quiet' \in 0 .. Delay
        /\ Countdown(worker.timeLeft) \in 0 .. Delay
        /\ \/ quiet' + Countdown(worker.timeLeft) >= quiet + worker.timeLeft
           \/ quiet' = Delay
    BY <1>11 DEF Tick, Countdown
  <2>3. PendingIsYoungest' /\ RequestsNotAhead'
    BY <1>11 DEF Tick
  <2>4. WaitWasQuiet'
    <3>1. worker'.timeLeft = Countdown(worker.timeLeft) /\ worker'.pc = worker.pc
          /\ worker'.generation = worker.generation
      BY <1>11 DEF Tick
    <3>2. Interrupted' = Interrupted
      BY <1>11, <3>1 DEF Tick
    <3>3. (worker.pc = "armed" /\ ~Interrupted) => quiet + worker.timeLeft >= Delay
      OBVIOUS
    <3>4. quiet + worker.timeLeft >= Delay
            => quiet' + Countdown(worker.timeLeft) >= Delay
      BY <2>1
    <3>5. QED
      BY <3>1, <3>2, <3>3, <3>4
  <2>5. QED
    BY <1>0, <2>3, <2>4
<1>12. CASE UNCHANGED coalescerVars
  BY <1>0, <1>12 DEF coalescerVars
<1>13. QED
  BY <1>1, <1>2, <1>3, <1>4, <1>5, <1>6, <1>7, <1>8, <1>9, <1>10, <1>11, <1>12
     DEF CoalescerNext, WorkerMain

\* The invariant holds in every reachable state.
LEMMA CoalescerInvariance == CoalescerSpec => []CoalescerIInv
BY CoalescerInvInit, CoalescerInvStep, PTL DEF CoalescerSpec

(* The state keeps its types.                                              *)
THEOREM CoalescerTypeCorrect == CoalescerSpec => []CoalescerTypeOK
<1>1. CoalescerIInv => CoalescerTypeOK
  BY DEF CoalescerIInv
<1>2. QED
  BY <1>1, CoalescerInvariance, PTL

(* The coalescer implements the one-slot mailbox: every step of it is a    *)
(* put, a withdrawal or a take of the mailbox, or leaves it alone.         *)
THEOREM CoalescerRefinement == CoalescerSpec => ImplementsMailbox
<1>1. CoalescerInit => Mailbox!MailboxInit
  BY DEF CoalescerInit, Mailbox!MailboxInit
<1>2. CoalescerIInv /\ [CoalescerNext]_coalescerVars
        => [Mailbox!MailboxNext]_Mailbox!mailboxVars
  <2> SUFFICES ASSUME CoalescerIInv, [CoalescerNext]_coalescerVars
               PROVE  Mailbox!MailboxNext \/ UNCHANGED Mailbox!mailboxVars
    BY DEF Mailbox!mailboxVars
  <2> USE DEF Mailbox!mailboxVars
  <2>1. CASE Schedule
    <3>1. Mailbox!Put
      BY <2>1, CoalescerAssumption
         DEF Schedule, NextGeneration, Mailbox!Put, CoalescerIInv, CoalescerTypeOK,
             Generations
    <3>2. QED
      BY <3>1 DEF Mailbox!MailboxNext
  <2>2. CASE Flush \/ Cancel \/ Stop
    <3>1. Mailbox!Withdraw
      BY <2>2 DEF Flush, Cancel, Stop, NextGeneration, Mailbox!Withdraw
    <3>2. QED
      BY <3>1 DEF Mailbox!MailboxNext
  <2>3. CASE WorkerDequeue
    <3>1. request # 0 /\ pending
      BY <2>3, CoalescerAssumption
         DEF CoalescerAssumption, WorkerDequeue, Interrupted, CoalescerIInv,
             CoalescerTypeOK, Generations,
             PendingIsYoungest
    <3>2. Mailbox!Take
      BY <2>3, <3>1 DEF WorkerDequeue, Mailbox!Take, CoalescerIInv, CoalescerTypeOK
    <3>3. QED
      BY <3>2 DEF Mailbox!MailboxNext
  <2>4. CASE FlushCallback
    BY <2>4 DEF FlushCallback
  <2>5. CASE WorkerArm \/ WorkerInterrupted \/ WorkerCallback \/ WorkerExit \/ Tick
    <3>1. worker'.request = worker.request /\ UNCHANGED <<request, pending, generation>>
      BY <2>5
         DEF WorkerArm, WorkerInterrupted, WorkerCallback, WorkerExit, Tick,
             CoalescerIInv, CoalescerTypeOK
    <3>2. QED
      BY <3>1
  <2>6. CASE UNCHANGED coalescerVars
    BY <2>6 DEF coalescerVars
  <2>7. QED
    BY <2>1, <2>2, <2>3, <2>4, <2>5, <2>6 DEF CoalescerNext, WorkerMain
<1>3. QED
  BY <1>1, <1>2, CoalescerInvariance, PTL
     DEF CoalescerSpec, ImplementsMailbox, Mailbox!MailboxSpec

(* A request is taken at most once and in the order of submission: what is *)
(* pending is younger than everything taken.                               *)
THEOREM TakenOnce == CoalescerSpec => []Mailbox!WaitingIsNewest
<1>1. CoalescerIInv => Mailbox!WaitingIsNewest
  BY CoalescerAssumption
     DEF CoalescerAssumption, CoalescerIInv, CoalescerTypeOK, Generations,
         PendingIsYoungest,
         RequestsNotAhead, Mailbox!WaitingIsNewest
<1>2. QED
  BY <1>1, CoalescerInvariance, PTL

(* The worker takes a request only after a whole delay without a new one.  *)
THEOREM Coalesced == CoalescerSpec => TakenAfterQuiet
<1>1. CoalescerIInv /\ [CoalescerNext]_coalescerVars
        => [(worker.pc = "armed" /\ worker'.pc = "callback") => quiet = Delay]_coalescerVars
  <2> SUFFICES ASSUME CoalescerIInv, CoalescerNext, worker.pc = "armed",
     worker'.pc = "callback"
               PROVE  quiet = Delay
    BY DEF coalescerVars
  <2>1. CASE WorkerDequeue
    BY <2>1, CoalescerAssumption
       DEF CoalescerAssumption, WorkerDequeue, CoalescerIInv, CoalescerTypeOK, WaitWasQuiet
  <2>2. ~WorkerDequeue => FALSE
    BY
       DEF CoalescerNext, WorkerMain, Schedule, Flush, FlushCallback, Cancel, Stop,
           WorkerArm,
           WorkerInterrupted, WorkerCallback, WorkerExit, Tick, CoalescerIInv,
              CoalescerTypeOK
  <2>3. QED
    BY <2>1, <2>2
<1>2. QED
  BY <1>1, CoalescerInvariance, PTL DEF CoalescerSpec, TakenAfterQuiet
=============================================================================
