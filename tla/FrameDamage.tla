----------------------------- MODULE FrameDamage -----------------------------
(***************************************************************************)
(* Which part of the screen a paint must copy.  FreeRDP tells with every   *)
(* frame what it has changed (EndPaint); LatestFrameRenderer numbers the   *)
(* frames and merges the damage of a frame that is replaced before it is   *)
(* painted; NativeWindowRgbaPainter, the painter without a GPU, gets one   *)
(* of the window's buffers, which shows an older picture, and copies only  *)
(* what has changed since, if its history tells, and everything otherwise. *)
(*                                                                         *)
(* The screen is a row of columns and damage an interval of them, empty if *)
(* the dirty rectangle is not valid.  The source is FreeRDP's own buffer,  *)
(* so a paint always copies the newest picture, of the columns it copies.  *)
(***************************************************************************)
EXTENDS Naturals, Sequences, FiniteSetsExt

CONSTANTS
  Columns,       \* of the screen, 1 .. Columns
  Buffers,       \* of the native window
  Sizes,         \* of the desktop
  WindowSize,    \* the size of the window
  HistoryLimit,  \* kDirtyHistoryLimit
  MaxFrames      \* bound on the frames between two starts of the renderer

ASSUME DamageAssumption ==
  /\ Columns \in Nat /\ HistoryLimit \in Nat \ {0} /\ MaxFrames \in Nat
  /\ Sizes \subseteq Nat \ {0} /\ WindowSize \in Sizes

VARIABLES
  size,             \* of the desktop
  sequence,         \* frameSequence_
  pending, taken,   \* pending_ and the frame the worker paints
  history,          \* dirtyHistory_
  historySize,      \* dirtyHistoryWidth_ x dirtyHistoryHeight_
  bufferSequences,  \* bufferFrameSequences_, 0 for a buffer it does not have
  lacks,     \* what each buffer does not show yet of the damage that was enqueued
  newer,     \* the damage enqueued since the worker took its frame
  restarted  \* the renderer numbers its frames anew and the history has old ones

rendererVars == <<size, sequence, pending, taken, newer>>
painterVars == <<history, historySize, bufferSequences, restarted>>
vars == <<rendererVars, painterVars, lacks>>

Screen == 1 .. Columns

\* MergeDirtyStats of a set of damages: the bounding box of those that are valid.
Merged(damages) ==
  LET damage == UNION damages
  IN  IF damage = {} THEN {} ELSE Min(damage) .. Max(damage)

Damage == {first .. last : first, last \in Screen}

Frame == [sequence : 0 .. MaxFrames, start : 0 .. MaxFrames, dirty : Damage \cup {{}}]
NoFrame == [sequence |-> 0, start |-> 0, dirty |-> {}]

TypeOK ==
  /\ size \in Sizes /\ sequence \in 0 .. MaxFrames
  /\ pending \in Frame /\ taken \in Frame
  /\ history \in Seq(Frame) /\ Len(history) <= HistoryLimit
  /\ historySize \in Sizes \cup {0}
  /\ bufferSequences \in [Buffers -> 0 .. MaxFrames]
  /\ lacks \in [Buffers -> SUBSET Screen]
  /\ newer \subseteq Screen /\ restarted \in BOOLEAN

Everything == [b \in Buffers |-> Screen]

Init ==
  /\ size \in Sizes /\ sequence = 0 /\ pending = NoFrame /\ taken = NoFrame
  /\ history = <<>> /\ historySize = 0 /\ bufferSequences = [b \in Buffers |-> 0]
  /\ lacks = Everything /\ newer = {} /\ restarted = FALSE
-----------------------------------------------------------------------------
(* FreeRDP and the renderer.                                               *)

\* A frame that replaces another one starts where that one did.
Enqueue(dirty) ==
  /\ sequence < MaxFrames
  /\ sequence' = sequence + 1
  /\ pending' = [sequence |-> sequence + 1,
                 start |-> IF pending = NoFrame THEN sequence + 1 ELSE pending.start,
                 dirty |-> Merged({pending.dirty, dirty})]
  /\ newer' = newer \cup dirty
  /\ lacks' = [b \in Buffers |-> lacks[b] \cup dirty]
  /\ UNCHANGED <<size, taken, painterVars>>

\* A dirty region outside the screen is not valid.  A frame that the output's owner, the
\* coordinator or the stopped renderer turn away leaves no trace, and its damage is not counted.
EndPaint == \E dirty \in Damage \cup {{}} : Enqueue(dirty)

\* RequestCurrentFrameRender.
Repaint == Enqueue({})

DropPending ==
  /\ pending # NoFrame
  /\ pending' = NoFrame
  /\ UNCHANGED <<size, sequence, taken, newer, painterVars, lacks>>

WorkerTake ==
  /\ taken = NoFrame /\ pending # NoFrame
  /\ taken' = pending /\ pending' = NoFrame
  /\ newer' = {}
  /\ UNCHANGED <<size, sequence, painterVars, lacks>>

\* A new connection or a resize, by Stop and Start: a new picture, numbered from 1 again.
Restart(newSize) ==
  /\ taken = NoFrame
  /\ size' = newSize /\ sequence' = 0 /\ pending' = NoFrame /\ newer' = {}
  /\ lacks' = Everything
  /\ restarted' = (history # <<>>)
  /\ UNCHANGED <<taken, history, historySize, bufferSequences>>
-----------------------------------------------------------------------------
(* The painter: its calls hold the mutex of the surface.                   *)

\* The history, and the frame to paint as its last entry.
Entries == Append(history, taken)

\* Where the frames are that buffer b has not seen.
Unseen(b) == {i \in DOMAIN Entries : Entries[i].sequence > bufferSequences[b]}

\* expectedSequence: entry i has to start where the one before it ended, or earlier.
Expected(b, i) ==
  LET before == {j \in Unseen(b) : j < i}
  IN  1 + IF before = {} THEN bufferSequences[b] ELSE Entries[Max(before)].sequence

NoGap_LastOnly(b) == Entries[Len(Entries)].start <= Expected(b, Len(Entries))

NoGap(b) == \A i \in Unseen(b) : Entries[i].start <= Expected(b, i)

UnseenDamage(b) == Merged({Entries[i].dirty : i \in Unseen(b)})

\* If the merged damage is large the painter copies everything too.
CanUsePartialDirty(b) ==
  /\ taken.dirty # {}
  /\ size = WindowSize /\ historySize = size
  /\ bufferSequences[b] \in 1 .. taken.sequence - 1
  /\ NoGap(b)

CopyTo(b, columns) == lacks' = [lacks EXCEPT ![b] = @ \ columns]

RecordBufferFrame_Untrimmed(b) ==
  LET known == historySize = size
  IN  /\ history' = Append(IF known THEN history ELSE <<>>, taken)
      /\ bufferSequences' = [c \in Buffers |-> IF c = b THEN taken.sequence
                                               ELSE IF known THEN bufferSequences[c] ELSE 0]
      /\ historySize' = size
      /\ restarted' = (restarted /\ known)

\* A frame of another size than the history's begins a new history.
RecordBufferFrame(b) ==
  LET known == historySize = size
      longer == Append(IF known THEN history ELSE <<>>, taken)
  IN  /\ history' = IF Len(longer) > HistoryLimit THEN Tail(longer) ELSE longer
      /\ bufferSequences' = [c \in Buffers |-> IF c = b THEN taken.sequence
                                               ELSE IF known THEN bufferSequences[c] ELSE 0]
      /\ historySize' = size
      /\ restarted' = (restarted /\ known)

\* The window gives any of its buffers.
Paint(b) ==
  /\ taken # NoFrame
  /\ \/ CopyTo(b, Screen)
     \/ CanUsePartialDirty(b) /\ CopyTo(b, UnseenDamage(b))
  /\ RecordBufferFrame(b)
  /\ taken' = NoFrame
  /\ UNCHANGED <<size, sequence, pending, newer>>

\* The paint fails, or the GPU paints: the frame is gone and the painter knows nothing of it.
PaintElsewhere ==
  /\ taken # NoFrame
  /\ taken' = NoFrame
  /\ UNCHANGED <<size, sequence, pending, newer, painterVars, lacks>>

\* The surface is created, changed, laid out or given to another output.
Destroy ==
  /\ history' = <<>> /\ historySize' = 0 /\ bufferSequences' = [b \in Buffers |-> 0]
  /\ restarted' = FALSE
  /\ lacks' = Everything
  /\ UNCHANGED rendererVars
-----------------------------------------------------------------------------
Next ==
  \/ EndPaint \/ Repaint \/ DropPending \/ WorkerTake \/ PaintElsewhere \/ Destroy
  \/ \E newSize \in Sizes : Restart(newSize)
  \/ \E b \in Buffers : Paint(b)

Spec == Init /\ [][Next]_vars
-----------------------------------------------------------------------------
(* A buffer that is painted with a frame shows all the damage of that frame*)
(* and of every frame enqueued before it: those painted on other buffers,  *)
(* replaced, dropped or lost in a failed paint, and those the history has  *)
(* forgotten.  It is not promised once the renderer has begun to number     *)
(* anew and the painter's history has not.                                 *)
PaintedIsCurrent ==
  [][\A b \in Buffers :
       (taken # NoFrame /\ bufferSequences'[b] = taken.sequence /\ ~restarted)
         => lacks'[b] \subseteq newer]_vars
=============================================================================
