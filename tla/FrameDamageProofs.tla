------------------------- MODULE FrameDamageProofs -------------------------
(***************************************************************************)
(* Theorems about the damage of frames: type correctness, and that a       *)
(* buffer that is painted shows all the damage up to its frame.            *)
(*                                                                         *)
(* The argument is about numbers.  If the frames that a buffer has not     *)
(* seen leave none of the numbers out, their damage is all that the buffer *)
(* lacks; a frame that is dropped, lost or forgotten takes its number with *)
(* it, so that no later frame can close the gap.                           *)
(***************************************************************************)
EXTENDS FrameDamage, WellFoundedInduction, TLAPS

USE DamageAssumption

LEMMA Least ==
  ASSUME NEW S \in SUBSET Nat, S # {}
  PROVE  \E x \in S : \A y \in S : x <= y
<1> DEFINE less == OpToRel(<, Nat)
<1>1. IsWellFoundedOn(less, Nat)
  BY NatLessThanWellFounded
<1>2. \A x \in Nat, y \in Nat : x < y => <<x, y>> \in less
  BY DEF OpToRel
<1> HIDE DEF less
<1>3. PICK x \in S : \A y \in S : ~ (<<y, x>> \in less)
  BY <1>1, WFMin
<1>4. ASSUME NEW y \in S
      PROVE  x <= y
  <2>1. x \in Nat /\ y \in Nat /\ <<y, x>> \notin less
    BY <1>3
  <2>2. ~(y < x)
    BY <1>2, <2>1
  <2>3. QED
    BY <2>1, <2>2
<1>5. QED
  BY <1>4

LEMMA MaxInside ==
  ASSUME NEW n \in Nat, NEW S \in SUBSET (0 .. n), S # {}
  PROVE  Max(S) \in S /\ \A y \in S : y <= Max(S)
<1> DEFINE T == {n - x : x \in S}
<1>1. T \in SUBSET Nat /\ T # {}
  OBVIOUS
<1> HIDE DEF T
<1>2. PICK k \in T : \A l \in T : k <= l
  BY <1>1, Least
<1>3. PICK x \in S : k = n - x
  BY DEF T
<1>4. \A y \in S : n - y \in T
  BY DEF T
<1>5. \A y \in S : x >= y
  BY <1>2, <1>3, <1>4
<1>6. QED
  BY <1>5 DEF Max

LEMMA MinInside ==
  ASSUME NEW S \in SUBSET Nat, S # {}
  PROVE  Min(S) \in S /\ \A y \in S : Min(S) <= y
  BY Least DEF Min

LEMMA IntervalIsDamage ==
  ASSUME NEW first \in Screen, NEW last \in Screen
  PROVE  first .. last \in Damage
  BY DEF Damage

\* Merged damage is within the screen and leaves nothing out.
LEMMA MergedDamage ==
  ASSUME NEW damages \in SUBSET SUBSET Screen
  PROVE  UNION damages \subseteq Merged(damages) /\ Merged(damages) \in Damage \cup {{}}
<1> DEFINE damage == UNION damages
<1>1. CASE damage = {}
  BY <1>1 DEF Merged
<1>2. CASE damage # {}
  <2>1. damage \in SUBSET Nat /\ damage \in SUBSET (0 .. Columns) /\ damage \subseteq Screen
    BY DEF Screen
  <2>2. /\ Min(damage) \in damage /\ \A y \in damage : Min(damage) <= y
    BY <1>2, <2>1, MinInside
  <2>3. /\ Max(damage) \in damage /\ \A y \in damage : y <= Max(damage)
    BY <1>2, <2>1, MaxInside
  <2>4. Merged(damages) = Min(damage) .. Max(damage)
    BY <1>2 DEF Merged
  <2> HIDE DEF damage
  <2>5. damage \subseteq Min(damage) .. Max(damage)
    BY <2>1, <2>2, <2>3 DEF Screen
  <2>6. Min(damage) .. Max(damage) \in Damage
    <3>1. Min(damage) \in Screen /\ Max(damage) \in Screen
      BY <2>1, <2>2, <2>3
    <3>2. QED
      BY <3>1, IntervalIsDamage
  <2>7. QED
    BY <2>4, <2>5, <2>6 DEF damage
<1>3. QED
  BY <1>1, <1>2
-----------------------------------------------------------------------------
(* Type correctness.                                                       *)

LEMMA FrameParts ==
  /\ NoFrame \in Frame
  /\ \A f \in Frame : /\ f.sequence \in 0 .. MaxFrames /\ f.start \in 0 .. MaxFrames
                      /\ f.dirty \in SUBSET Screen
<1>1. \A d \in Damage : d \in SUBSET Screen
  BY DEF Damage, Screen
<1>2. NoFrame \in Frame
  BY DEF NoFrame, Frame
<1>3. QED
  BY <1>1, <1>2 DEF Frame

LEMMA EnqueueType ==
  ASSUME TypeOK, NEW dirty \in Damage \cup {{}}, Enqueue(dirty)
  PROVE  TypeOK'
<1>1. pending.dirty \in SUBSET Screen /\ dirty \in SUBSET Screen
  BY FrameParts DEF TypeOK, Damage, Screen
<1>2. Merged({pending.dirty, dirty}) \in Damage \cup {{}}
  <2>1. {pending.dirty, dirty} \in SUBSET SUBSET Screen
    BY <1>1
  <2>2. QED
    BY <2>1, MergedDamage
<1>3. sequence + 1 \in 0 .. MaxFrames
  BY DEF TypeOK, Enqueue
<1>4. (IF pending = NoFrame THEN sequence + 1 ELSE pending.start) \in 0 .. MaxFrames
  BY <1>3, FrameParts DEF TypeOK
<1>5. pending' \in Frame
  BY <1>2, <1>3, <1>4 DEF Enqueue, Frame
<1>6. lacks' \in [Buffers -> SUBSET Screen] /\ newer' \in SUBSET Screen
  BY <1>1 DEF TypeOK, Enqueue
<1>7. QED
  BY <1>3, <1>5, <1>6 DEF TypeOK, Enqueue, painterVars

LEMMA RecordType ==
  ASSUME TypeOK, NEW b \in Buffers, RecordBufferFrame(b)
  PROVE  /\ history' \in Seq(Frame) /\ Len(history') <= HistoryLimit
         /\ historySize' \in Sizes \cup {0}
         /\ bufferSequences' \in [Buffers -> 0 .. MaxFrames]
         /\ restarted' \in BOOLEAN
<1> DEFINE old == IF historySize = size THEN history ELSE <<>>
           longer == Append(old, taken)
<1>1. old \in Seq(Frame) /\ Len(old) <= HistoryLimit
  BY DEF TypeOK
<1>2. history' = IF Len(longer) > HistoryLimit THEN Tail(longer) ELSE longer
  BY DEF RecordBufferFrame
<1> HIDE DEF old
<1>3. longer \in Seq(Frame) /\ Len(longer) <= HistoryLimit + 1 /\ longer # <<>>
  <2>1. taken \in Frame
    BY DEF TypeOK
  <2>2. longer \in Seq(Frame) /\ Len(longer) = Len(old) + 1
    BY <1>1, <2>1
  <2>3. Len(old) \in Nat
    BY <1>1
  <2> HIDE DEF longer
  <2>4. longer # <<>>
    BY <2>2, <2>3
  <2>5. QED
    BY <1>1, <2>2, <2>3, <2>4
<1>4. Tail(longer) \in Seq(Frame) /\ Len(Tail(longer)) = Len(longer) - 1
  BY <1>3
<1>5. history' \in Seq(Frame) /\ Len(history') <= HistoryLimit
  BY <1>2, <1>3, <1>4
<1>6. taken.sequence \in 0 .. MaxFrames
  BY FrameParts DEF TypeOK
<1>7. bufferSequences' \in [Buffers -> 0 .. MaxFrames]
  BY <1>6 DEF RecordBufferFrame, TypeOK
<1>8. historySize' \in Sizes \cup {0}
  BY DEF RecordBufferFrame, TypeOK
<1>9. restarted' \in BOOLEAN
  BY Zenon DEF RecordBufferFrame
<1>10. QED
  BY <1>5, <1>7, <1>8, <1>9

LEMMA TypeStep ==
  ASSUME TypeOK, [Next]_vars
  PROVE  TypeOK'
<1> USE DEF TypeOK, painterVars, rendererVars
<1>1. CASE EndPaint
  BY <1>1, EnqueueType DEF EndPaint
<1>2. CASE Repaint
  BY <1>2, EnqueueType DEF Repaint
<1>3. CASE DropPending
  BY <1>3, FrameParts DEF DropPending
<1>4. CASE WorkerTake
  BY <1>4, FrameParts DEF WorkerTake
<1>5. CASE PaintElsewhere
  BY <1>5, FrameParts DEF PaintElsewhere
<1>6. CASE Destroy
  <2>1. restarted' \in BOOLEAN
    BY <1>6, Zenon DEF Destroy
  <2>2. history' \in Seq(Frame) /\ Len(history') <= HistoryLimit
    BY <1>6 DEF Destroy
  <2>3. lacks' \in [Buffers -> SUBSET Screen] /\ bufferSequences' \in [Buffers -> 0 .. MaxFrames]
    BY <1>6 DEF Destroy, Everything
  <2>4. QED
    BY <1>6, <2>1, <2>2, <2>3 DEF Destroy
<1>7. ASSUME NEW newSize \in Sizes, Restart(newSize)
      PROVE  TypeOK'
  <2>1. restarted' \in BOOLEAN
    BY <1>7, Zenon DEF Restart
  <2>2. lacks' \in [Buffers -> SUBSET Screen]
    BY <1>7 DEF Restart, Everything
  <2>3. QED
    BY <1>7, <2>1, <2>2, FrameParts DEF Restart
<1>8. ASSUME NEW b \in Buffers, Paint(b)
      PROVE  TypeOK'
  <2>1. lacks' \in [Buffers -> SUBSET Screen]
    BY <1>8 DEF Paint, CopyTo
  <2>2. RecordBufferFrame(b)
    BY <1>8 DEF Paint
  <2>3. QED
    BY <1>8, <2>1, <2>2, RecordType, FrameParts DEF Paint
<1>9. CASE UNCHANGED vars
  BY <1>9 DEF vars
<1>10. QED
  BY <1>1, <1>2, <1>3, <1>4, <1>5, <1>6, <1>7, <1>8, <1>9 DEF Next

LEMMA TypeInit == Init => TypeOK
<1> SUFFICES ASSUME Init PROVE TypeOK
  OBVIOUS
<1>1. restarted \in BOOLEAN
  BY Zenon DEF Init
<1>2. lacks \in [Buffers -> SUBSET Screen] /\ bufferSequences \in [Buffers -> 0 .. MaxFrames]
  BY DEF Init, Everything
<1>3. QED
  BY <1>1, <1>2, FrameParts DEF Init, TypeOK

(* Every variable keeps its type; in particular merged damage is a         *)
(* rectangle on the screen, and the history is never longer than its limit.*)
THEOREM TypeCorrect == Spec => []TypeOK
  BY TypeInit, TypeStep, PTL DEF Spec
-----------------------------------------------------------------------------
(* The inductive invariant.                                                *)

\* The frames of the history that buffer b has not seen.
Past(b) == {history[i] : i \in {j \in DOMAIN history : history[j].sequence > bufferSequences[b]}}

\* Frames leave none of the numbers out, and their damage.
Covers(frames, low, high) == \A n \in low + 1 .. high : \E f \in frames : n \in f.start .. f.sequence
DirtOf(frames) == UNION {f.dirty : f \in frames}

\* What waits is newer than what is painted, and nothing enqueued is newer than what waits.
FrameOrder ==
  /\ taken # NoFrame =>
       1 <= taken.start /\ taken.start <= taken.sequence /\ taken.sequence <= sequence
  /\ pending # NoFrame =>
       taken.sequence < pending.start /\ pending.start <= pending.sequence /\ pending.sequence = sequence

\* The painter has buffers only with a history.
HistoryStart == history = <<>> => \A b \in Buffers : bufferSequences[b] = 0

\* The history is in order, older than what waits, and ends with the newest buffer.
HistoryOrder ==
  /\ \A i \in DOMAIN history :
       /\ history[i].sequence <= sequence
       /\ taken # NoFrame => history[i].sequence < taken.start
       /\ pending # NoFrame => history[i].sequence < pending.start
       /\ \A j \in DOMAIN history : i < j => history[i].sequence < history[j].start
  /\ \A b \in Buffers : bufferSequences[b] # 0 =>
       history # <<>> /\ bufferSequences[b] <= history[Len(history)].sequence

\* The damage since the taken frame waits, unless a number is lost.
NewerWaits ==
  taken # NoFrame /\ Covers({pending}, taken.sequence, sequence) => newer \subseteq pending.dirty

\* What a buffer lacks is in the frames it has not seen, unless a number is lost.
LacksUnseen(b) ==
  /\ taken # NoFrame /\ Covers(Past(b) \cup {taken}, bufferSequences[b], taken.sequence)
       => lacks[b] \subseteq newer \cup DirtOf(Past(b) \cup {taken})
  /\ Covers(Past(b) \cup {taken, pending}, bufferSequences[b], sequence)
       => lacks[b] \subseteq DirtOf(Past(b) \cup {taken, pending})

IInv ==
  /\ TypeOK /\ FrameOrder /\ NewerWaits /\ HistoryStart
  /\ ~restarted => /\ HistoryOrder
                   /\ \A b \in Buffers : bufferSequences[b] # 0 => LacksUnseen(b)
-----------------------------------------------------------------------------
(* What the painter's search of its history finds.                         *)

LEMMA EntriesParts ==
  ASSUME TypeOK
  PROVE  /\ Len(history) \in Nat /\ Len(Entries) = Len(history) + 1
         /\ Entries \in Seq(Frame) /\ DOMAIN Entries = 1 .. Len(history) + 1
         /\ \A i \in DOMAIN history : Entries[i] = history[i]
         /\ Entries[Len(history) + 1] = taken
  BY DEF TypeOK, Entries

LEMMA UnseenFrames ==
  ASSUME TypeOK, NEW b \in Buffers, bufferSequences[b] < taken.sequence
  PROVE  /\ \A f \in Past(b) \cup {taken} : \E i \in Unseen(b) : Entries[i] = f
         /\ \A i \in Unseen(b) : Entries[i] \in Past(b) \cup {taken}
         /\ Len(history) + 1 \in Unseen(b)
<1> USE EntriesParts
<1>1. Len(history) + 1 \in Unseen(b)
  BY DEF Unseen
<1>2. \A i \in DOMAIN history : i \in 1 .. Len(history) + 1
  BY DEF TypeOK
<1>3. ASSUME NEW f \in Past(b)
      PROVE  \E i \in Unseen(b) : Entries[i] = f
  BY <1>2 DEF Past, Unseen
<1>4. ASSUME NEW i \in Unseen(b)
      PROVE  Entries[i] \in Past(b) \cup {taken}
  <2>1. i \in DOMAIN history \/ i = Len(history) + 1
    BY DEF Unseen, TypeOK
  <2>2. QED
    BY <2>1 DEF Unseen, Past
<1>5. QED
  BY <1>1, <1>3, <1>4

\* Entries that start where the ones before them end leave no number out.
LEMMA NoGapCovers ==
  ASSUME TypeOK, NEW b \in Buffers, bufferSequences[b] < taken.sequence, NoGap(b)
  PROVE  Covers(Past(b) \cup {taken}, bufferSequences[b], taken.sequence)
<1> USE EntriesParts
<1>0. /\ bufferSequences[b] \in Nat /\ taken.sequence \in Nat
      /\ \A i \in DOMAIN Entries : Entries[i].sequence \in Nat /\ Entries[i].start \in Nat
  BY FrameParts DEF TypeOK
<1> SUFFICES ASSUME NEW n \in bufferSequences[b] + 1 .. taken.sequence
             PROVE  \E f \in Past(b) \cup {taken} : n \in f.start .. f.sequence
  BY DEF Covers
<1>1. n \in Nat
  BY <1>0
\* The first of them that reaches the number.
<1> DEFINE reach == {i \in Unseen(b) : n <= Entries[i].sequence}
<1>2. reach \in SUBSET Nat /\ Len(history) + 1 \in reach
  <2>1. Unseen(b) \in SUBSET Nat
    BY DEF Unseen
  <2>2. QED
    BY <1>0, <2>1, UnseenFrames
<1>3. PICK i \in reach : \A j \in reach : i <= j
  BY <1>2, Least
<1>4. i \in Unseen(b) /\ n <= Entries[i].sequence /\ i \in 1 .. Len(history) + 1
  BY DEF Unseen
<1> DEFINE before == {j \in Unseen(b) : j < i}
<1>5. Entries[i].start <= n
  <2>1. Entries[i].start <= Expected(b, i)
    BY <1>4 DEF NoGap
  <2>2. CASE before = {}
    BY <1>0, <1>4, <2>1, <2>2 DEF Expected
  <2>3. CASE before # {}
    <3>1. before \in SUBSET (0 .. Len(history) + 1)
      <4>1. \A j \in Unseen(b) : j \in 0 .. Len(history) + 1
        BY DEF Unseen
      <4>2. QED
        BY <4>1
    <3>2. Max(before) \in before
      <4>1. Len(history) + 1 \in Nat
        OBVIOUS
      <4> HIDE DEF before
      <4>2. QED
        BY <2>3, <3>1, <4>1, MaxInside
    <3>3. Max(before) \notin reach
      BY <1>2, <1>3, <1>4, <3>1, <3>2
    <3>4. Max(before) \in DOMAIN Entries /\ Entries[Max(before)].sequence < n
      BY <1>0, <1>1, <3>1, <3>2, <3>3 DEF Unseen
    <3>5. Expected(b, i) = 1 + Entries[Max(before)].sequence
      BY <2>3 DEF Expected
    <3> DEFINE start == Entries[i].start
               last == Entries[Max(before)].sequence
    <3>6. start \in Nat /\ last \in Nat /\ last < n /\ start <= 1 + last
      BY <1>0, <1>4, <2>1, <3>4, <3>5
    <3>7. start <= n
      <4> HIDE EntriesParts
      <4> HIDE DEF start, last
      <4>1. QED
        BY <1>1, <3>6
    <3>8. QED
      BY <3>7
  <2>4. QED
    BY <2>2, <2>3
<1>6. Entries[i] \in Past(b) \cup {taken}
  BY <1>4, UnseenFrames
<1>7. n \in Entries[i].start .. Entries[i].sequence
  BY <1>0, <1>1, <1>4, <1>5
<1>8. QED
  BY <1>6, <1>7

LEMMA UnseenDamageIsAll ==
  ASSUME TypeOK, NEW b \in Buffers, bufferSequences[b] < taken.sequence
  PROVE  DirtOf(Past(b) \cup {taken}) \subseteq UnseenDamage(b)
<1> DEFINE damages == {Entries[i].dirty : i \in Unseen(b)}
<1>1. damages \in SUBSET SUBSET Screen
  <2>1. \A i \in Unseen(b) : Entries[i] \in Frame
    BY EntriesParts DEF Unseen
  <2>2. \A i \in Unseen(b) : Entries[i].dirty \in SUBSET Screen
    BY <2>1, FrameParts
  <2>3. QED
    BY <2>2
<1>2. DirtOf(Past(b) \cup {taken}) \subseteq UNION damages
  <2>1. ASSUME NEW f \in Past(b) \cup {taken}
        PROVE  f.dirty \in damages
    BY UnseenFrames
  <2> HIDE DEF damages
  <2>2. QED
    BY <2>1 DEF DirtOf
<1>3. QED
  BY <1>1, <1>2, MergedDamage DEF UnseenDamage
-----------------------------------------------------------------------------
(* Every step keeps the invariant.                                         *)

Ordered == FrameOrder /\ HistoryOrder

LEMMA Numbers ==
  ASSUME TypeOK
  PROVE  /\ sequence \in Nat /\ taken.sequence \in Nat /\ taken.start \in Nat
         /\ pending.sequence \in Nat /\ pending.start \in Nat
         /\ \A b \in Buffers : bufferSequences[b] \in Nat
         /\ \A i \in DOMAIN history : history[i].sequence \in Nat /\ history[i].start \in Nat
         /\ NoFrame.sequence = 0 /\ NoFrame.start = 0 /\ NoFrame.dirty = {}
<1>1. \A i \in DOMAIN history : history[i] \in Frame
  BY DEF TypeOK
<1>2. QED
  BY <1>1, FrameParts DEF TypeOK, NoFrame

\* Whatever waits is newer than the history and than what any buffer shows.
LEMMA Newer ==
  ASSUME TypeOK, Ordered, NEW b \in Buffers, bufferSequences[b] # 0
  PROVE  /\ bufferSequences[b] <= sequence
         /\ taken # NoFrame => bufferSequences[b] < taken.start
         /\ pending # NoFrame => bufferSequences[b] < pending.start
         /\ \A f \in Past(b) :
              /\ f.sequence \in Nat /\ f.start \in Nat /\ f.sequence <= sequence
              /\ taken # NoFrame => f.sequence < taken.start
              /\ pending # NoFrame => f.sequence < pending.start
<1>1. history # <<>> /\ bufferSequences[b] <= history[Len(history)].sequence
  BY DEF Ordered, HistoryOrder
<1>2. Len(history) \in DOMAIN history
  BY <1>1 DEF TypeOK
<1>3. /\ bufferSequences[b] <= sequence
      /\ taken # NoFrame => bufferSequences[b] < taken.start
      /\ pending # NoFrame => bufferSequences[b] < pending.start
  BY <1>1, <1>2, Numbers DEF Ordered, HistoryOrder
<1>4. ASSUME NEW f \in Past(b)
      PROVE  /\ f.sequence \in Nat /\ f.start \in Nat /\ f.sequence <= sequence
             /\ taken # NoFrame => f.sequence < taken.start
             /\ pending # NoFrame => f.sequence < pending.start
  <2>1. PICK i \in DOMAIN history : f = history[i]
    BY DEF Past
  <2>2. QED
    BY <2>1, Numbers DEF Ordered, HistoryOrder
<1>5. QED
  BY <1>3, <1>4

LEMMA EnqueueStep ==
  ASSUME IInv, NEW dirty \in Damage \cup {{}}, Enqueue(dirty)
  PROVE  IInv'
<1> USE DEF IInv, painterVars
<1>1. TypeOK /\ TypeOK'
  BY EnqueueType
<1>2. /\ sequence' = sequence + 1 /\ newer' = newer \cup dirty
      /\ \A b \in Buffers : lacks'[b] = lacks[b] \cup dirty
      /\ UNCHANGED <<taken, history, bufferSequences, restarted>>
  BY DEF Enqueue
<1>3. /\ pending'.sequence = sequence + 1
      /\ pending'.start = (IF pending = NoFrame THEN sequence + 1 ELSE pending.start)
      /\ pending'.dirty = Merged({pending.dirty, dirty})
      /\ pending' # NoFrame
  BY <1>1, Numbers DEF Enqueue
<1>4. pending.dirty \cup dirty \subseteq pending'.dirty
  <2>1. {pending.dirty, dirty} \in SUBSET SUBSET Screen
    BY <1>1, FrameParts DEF TypeOK, Damage, Screen
  <2>2. QED
    BY <1>3, <2>1, MergedDamage
<1>5. FrameOrder'
  BY <1>1, <1>2, <1>3, Numbers DEF FrameOrder
<1>6. \A n \in Nat : n <= sequence /\ n \in pending'.start .. pending'.sequence
        => n \in pending.start .. pending.sequence
  BY <1>1, <1>3, Numbers DEF FrameOrder
<1>7. ASSUME NEW frames, NEW low \in Nat, Covers(frames \cup {pending'}, low, sequence + 1)
      PROVE  Covers(frames \cup {pending}, low, sequence)
  <2> SUFFICES ASSUME NEW n \in low + 1 .. sequence
               PROVE  \E f \in frames \cup {pending} : n \in f.start .. f.sequence
    BY DEF Covers
  <2>1. n \in low + 1 .. sequence + 1 /\ n \in Nat /\ n <= sequence
    BY <1>1, Numbers
  <2>2. PICK f \in frames \cup {pending'} : n \in f.start .. f.sequence
    BY <1>7, <2>1 DEF Covers
  <2>3. QED
    BY <1>6, <2>1, <2>2
<1>8. NewerWaits'
  <2> SUFFICES ASSUME taken # NoFrame, Covers({pending'}, taken.sequence, sequence + 1)
               PROVE  newer' \subseteq pending'.dirty
    BY <1>2 DEF NewerWaits
  <2>1. Covers({} \cup {pending}, taken.sequence, sequence)
    BY <1>1, <1>7, Numbers
  <2>2. newer \subseteq pending.dirty
    BY <2>1 DEF NewerWaits
  <2>3. QED
    BY <1>2, <1>4, <2>2
<1>9. ASSUME NEW b \in Buffers, LacksUnseen(b)
      PROVE  LacksUnseen(b)'
  <2>1. Past(b)' = Past(b)
    BY <1>2 DEF Past
  <2>2. ASSUME taken # NoFrame, Covers(Past(b) \cup {taken}, bufferSequences[b], taken.sequence)
        PROVE  lacks'[b] \subseteq newer' \cup DirtOf(Past(b) \cup {taken})
    BY <1>2, <1>9, <2>2 DEF LacksUnseen
  <2>3. ASSUME Covers(Past(b) \cup {taken, pending'}, bufferSequences[b], sequence + 1)
        PROVE  lacks'[b] \subseteq DirtOf(Past(b) \cup {taken, pending'})
    <3> DEFINE frames == Past(b) \cup {taken}
    <3>1. Covers(frames \cup {pending'}, bufferSequences[b], sequence + 1)
      <4>1. frames \cup {pending'} = Past(b) \cup {taken, pending'}
        OBVIOUS
      <4>2. QED
        BY <2>3, <4>1
    <3> HIDE DEF frames
    <3>2. Covers(frames \cup {pending}, bufferSequences[b], sequence)
      BY <1>1, <1>7, <3>1, Numbers
    <3>3. frames \cup {pending} = Past(b) \cup {taken, pending}
      BY DEF frames
    <3>4. lacks[b] \subseteq DirtOf(Past(b) \cup {taken, pending})
      BY <1>9, <3>2, <3>3 DEF LacksUnseen
    <3>5. QED
      BY <1>2, <1>4, <3>4 DEF DirtOf
  <2>4. QED
    BY <1>2, <2>1, <2>2, <2>3 DEF LacksUnseen
<1>10. HistoryStart'
  BY <1>2 DEF HistoryStart
<1>11. HistoryOrder => HistoryOrder'
  BY <1>1, <1>2, <1>3, Numbers DEF HistoryOrder
<1>12. QED
  BY <1>1, <1>2, <1>5, <1>8, <1>9, <1>10, <1>11

LEMMA DropStep ==
  ASSUME IInv, DropPending
  PROVE  IInv'
<1> USE DEF IInv, painterVars
<1>1. TypeOK /\ TypeOK'
  BY TypeStep DEF Next
<1>2. /\ pending # NoFrame /\ pending' = NoFrame
      /\ UNCHANGED <<sequence, taken, newer, history, bufferSequences, restarted, lacks>>
  BY DEF DropPending
<1>3. taken.sequence < sequence /\ taken.sequence < pending.start /\ pending.start <= sequence
  BY <1>1, <1>2, Numbers DEF FrameOrder
<1>4. FrameOrder' /\ HistoryStart' /\ (HistoryOrder => HistoryOrder')
  BY <1>2 DEF FrameOrder, HistoryStart, HistoryOrder
\* The number of the dropped frame is in no other.
<1>5. NewerWaits'
  <2>1. sequence \notin pending'.start .. pending'.sequence
    BY <1>1, <1>2, <1>3, Numbers
  <2>2. ~Covers({pending'}, taken.sequence, sequence)
    BY <1>1, <1>3, <2>1, Numbers DEF Covers
  <2>3. QED
    BY <1>2, <2>2 DEF NewerWaits
<1>6. ASSUME ~restarted, NEW b \in Buffers, bufferSequences[b] # 0, LacksUnseen(b)
      PROVE  LacksUnseen(b)'
  <2>1. Past(b)' = Past(b)
    BY <1>2 DEF Past
  <2>2. Ordered
    BY <1>6 DEF Ordered
  <2>3. bufferSequences[b] < pending.start /\ \A f \in Past(b) : f.sequence \in Nat /\ f.sequence < pending.start
    BY <1>1, <1>2, <1>6, <2>2, Newer
  <2>4. \A f \in Past(b) \cup {taken, pending'} : sequence \notin f.start .. f.sequence
    BY <1>1, <1>2, <1>3, <2>3, Numbers
  <2>5. sequence \in bufferSequences[b] + 1 .. sequence
    BY <1>1, <1>3, <2>3, Numbers
  <2>6. ~Covers(Past(b) \cup {taken, pending'}, bufferSequences[b], sequence)
    BY <2>4, <2>5 DEF Covers
  <2>7. QED
    BY <1>2, <1>6, <2>1, <2>6 DEF LacksUnseen
<1>7. QED
  BY <1>1, <1>2, <1>4, <1>5, <1>6

LEMMA TakeStep ==
  ASSUME IInv, WorkerTake
  PROVE  IInv'
<1> USE DEF IInv, painterVars
<1>1. TypeOK /\ TypeOK'
  BY TypeStep DEF Next
<1>2. /\ taken = NoFrame /\ pending # NoFrame /\ taken' = pending /\ pending' = NoFrame
      /\ newer' = {} /\ UNCHANGED <<sequence, history, bufferSequences, restarted, lacks>>
  BY DEF WorkerTake
<1>3. FrameOrder' /\ HistoryStart' /\ NewerWaits' /\ (HistoryOrder => HistoryOrder')
  BY <1>1, <1>2, Numbers DEF FrameOrder, HistoryStart, HistoryOrder, NewerWaits
<1>4. ASSUME NEW b \in Buffers, LacksUnseen(b)
      PROVE  LacksUnseen(b)'
  <2>1. Past(b)' = Past(b)
    BY <1>2 DEF Past
  <2>2. Covers(Past(b) \cup {taken, pending}, bufferSequences[b], sequence)
          => lacks[b] \subseteq DirtOf(Past(b) \cup {pending})
    BY <1>1, <1>2, <1>4, Numbers DEF LacksUnseen, DirtOf
  <2>3. Past(b) \cup {taken', pending'} = Past(b) \cup {taken, pending}
    BY <1>2
  <2>4. taken'.sequence = sequence
    BY <1>2 DEF FrameOrder
  <2>5. Covers(Past(b) \cup {taken'}, bufferSequences[b], sequence)
          => Covers(Past(b) \cup {taken, pending}, bufferSequences[b], sequence)
    BY <1>2 DEF Covers
  <2>6. DirtOf(Past(b) \cup {pending}) \subseteq DirtOf(Past(b) \cup {taken', pending'})
    BY <1>2 DEF DirtOf
  <2>7. QED
    BY <1>2, <2>1, <2>2, <2>3, <2>4, <2>5, <2>6 DEF LacksUnseen
<1>5. QED
  BY <1>1, <1>2, <1>3, <1>4

LEMMA ElsewhereStep ==
  ASSUME IInv, PaintElsewhere
  PROVE  IInv'
<1> USE DEF IInv, painterVars
<1>1. TypeOK /\ TypeOK'
  BY TypeStep DEF Next
<1>2. /\ taken # NoFrame /\ taken' = NoFrame
      /\ UNCHANGED <<sequence, pending, newer, history, bufferSequences, restarted, lacks>>
  BY DEF PaintElsewhere
<1>3. FrameOrder' /\ HistoryStart' /\ NewerWaits' /\ (HistoryOrder => HistoryOrder')
  BY <1>1, <1>2, Numbers DEF FrameOrder, HistoryStart, HistoryOrder, NewerWaits
\* The number of the lost frame is in no other.
<1>4. ASSUME ~restarted, NEW b \in Buffers, bufferSequences[b] # 0, LacksUnseen(b)
      PROVE  LacksUnseen(b)'
  <2>1. Past(b)' = Past(b)
    BY <1>2 DEF Past
  <2>2. Ordered
    BY <1>4 DEF Ordered
  <2>3. /\ bufferSequences[b] < taken.start /\ taken.start <= taken.sequence /\ taken.sequence <= sequence
        /\ \A f \in Past(b) : f.sequence \in Nat /\ f.sequence < taken.start
    BY <1>1, <1>2, <1>4, <2>2, Newer DEF FrameOrder
  <2>4. \A f \in Past(b) \cup {taken'} : taken.sequence \notin f.start .. f.sequence
    BY <1>1, <1>2, <2>3, Numbers
  <2>5. taken.sequence \notin pending.start .. pending.sequence
    BY <1>1, <1>2, <2>3, Numbers DEF FrameOrder
  <2>6. taken.sequence \in bufferSequences[b] + 1 .. sequence
    BY <1>1, <2>3, Numbers
  <2>7. ~Covers(Past(b) \cup {taken', pending}, bufferSequences[b], sequence)
    BY <2>4, <2>5, <2>6 DEF Covers
  <2>8. QED
    BY <1>2, <2>1, <2>7 DEF LacksUnseen
<1>5. QED
  BY <1>1, <1>2, <1>3, <1>4

LEMMA RestartStep ==
  ASSUME IInv, NEW newSize \in Sizes, Restart(newSize)
  PROVE  IInv'
<1> USE DEF IInv
<1>1. TypeOK /\ TypeOK'
  BY TypeStep DEF Next
<1>2. /\ taken' = NoFrame /\ pending' = NoFrame
      /\ UNCHANGED <<history, bufferSequences>> /\ restarted' = (history # <<>>)
  BY DEF Restart
<1>3. FrameOrder' /\ HistoryStart' /\ NewerWaits'
  BY <1>2 DEF FrameOrder, HistoryStart, NewerWaits
<1>4. ~restarted' => history = <<>> /\ \A b \in Buffers : bufferSequences'[b] = 0
  BY <1>2 DEF HistoryStart
<1>5. ~restarted' => HistoryOrder'
  BY <1>2, <1>4 DEF HistoryOrder
<1>6. QED
  BY <1>1, <1>3, <1>4, <1>5

LEMMA DestroyStep ==
  ASSUME IInv, Destroy
  PROVE  IInv'
<1> USE DEF IInv, rendererVars
<1>1. TypeOK /\ TypeOK'
  BY TypeStep DEF Next
<1>2. /\ UNCHANGED <<sequence, pending, taken, newer>>
      /\ history' = <<>> /\ \A b \in Buffers : bufferSequences'[b] = 0
  BY DEF Destroy
<1>3. FrameOrder' /\ HistoryStart' /\ NewerWaits' /\ HistoryOrder'
  BY <1>2 DEF FrameOrder, HistoryStart, NewerWaits, HistoryOrder
<1>4. QED
  BY <1>1, <1>2, <1>3

\* The property, of one paint: this is where the search of the history counts.
LEMMA PaintedLacks ==
  ASSUME IInv, NEW b \in Buffers, Paint(b), historySize # size \/ ~restarted
  PROVE  lacks'[b] \subseteq newer
<1> USE DEF IInv
<1>1. lacks \in [Buffers -> SUBSET Screen]
  BY DEF TypeOK
<1>2. CASE CopyTo(b, Screen)
  BY <1>1, <1>2 DEF CopyTo
<1>3. CASE CanUsePartialDirty(b) /\ CopyTo(b, UnseenDamage(b))
  <2>1. /\ bufferSequences[b] # 0 /\ bufferSequences[b] < taken.sequence /\ NoGap(b) /\ ~restarted
    BY <1>3, Numbers DEF CanUsePartialDirty
  <2>2. taken # NoFrame
    BY DEF Paint
  <2>3. Covers(Past(b) \cup {taken}, bufferSequences[b], taken.sequence)
    BY <2>1, NoGapCovers
  <2>4. lacks[b] \subseteq newer \cup DirtOf(Past(b) \cup {taken})
    BY <2>1, <2>2, <2>3 DEF LacksUnseen
  <2>5. DirtOf(Past(b) \cup {taken}) \subseteq UnseenDamage(b)
    BY <2>1, UnseenDamageIsAll
  <2>6. lacks'[b] = lacks[b] \ UnseenDamage(b)
    BY <1>1, <1>3 DEF CopyTo
  <2>7. QED
    BY <2>4, <2>5, <2>6
<1>4. QED
  BY <1>2, <1>3 DEF Paint

\* The new history is the old one, perhaps without its first frame, and the painted frame.
Known == IF historySize = size THEN history ELSE <<>>

LEMMA RecordedHistory ==
  ASSUME TypeOK, NEW b \in Buffers, RecordBufferFrame(b)
  PROVE  \E k \in {0, 1} :
           /\ k <= Len(Known)
           /\ Len(history') \in Nat /\ Len(history') = Len(Known) + 1 - k /\ history' # <<>>
           /\ DOMAIN history' = 1 .. Len(history')
           /\ history'[Len(history')] = taken
           /\ \A i \in 1 .. Len(history') : i + k <= Len(Known) => history'[i] = Known[i + k]
<1> DEFINE longer == Append(Known, taken)
<1>1. /\ Known \in Seq(Frame) /\ Len(Known) \in Nat /\ taken \in Frame
  BY DEF TypeOK, Known
<1>2. history' = IF Len(longer) > HistoryLimit THEN Tail(longer) ELSE longer
  BY DEF RecordBufferFrame, Known
<1>3. /\ longer \in Seq(Frame) /\ Len(longer) = Len(Known) + 1
      /\ longer[Len(Known) + 1] = taken /\ \A i \in 1 .. Len(Known) : longer[i] = Known[i]
  BY <1>1
<1> HIDE DEF longer
<1>4. CASE Len(longer) > HistoryLimit
  <2>1. Len(Known) >= 1
    BY <1>1, <1>3, <1>4
  <2>2. longer # <<>>
    BY <1>1, <1>3
  <2>3. /\ history' \in Seq(Frame) /\ Len(history') = Len(longer) - 1
        /\ \A i \in 1 .. Len(longer) - 1 : history'[i] = longer[i + 1]
    BY <1>2, <1>3, <1>4, <2>2
  <2>4. Len(history') = Len(Known) /\ DOMAIN history' = 1 .. Len(history') /\ history' # <<>>
    BY <1>1, <1>3, <2>1, <2>3
  <2>5. history'[Len(history')] = taken
    BY <1>1, <1>3, <2>1, <2>3, <2>4
  <2>6. \A i \in 1 .. Len(history') : i + 1 <= Len(Known) => history'[i] = Known[i + 1]
    BY <1>1, <1>3, <2>3, <2>4
  <2>7. 1 <= Len(Known) /\ Len(history') \in Nat /\ Len(history') = Len(Known) + 1 - 1
    BY <1>1, <2>1, <2>4
  <2>8. QED
    BY <2>4, <2>5, <2>6, <2>7, Zenon
<1>5. CASE ~(Len(longer) > HistoryLimit)
  <2>1. history' = longer
    BY <1>2, <1>5
  <2>2. DOMAIN history' = 1 .. Len(history') /\ history' # <<>>
    BY <1>1, <1>3, <2>1
  <2>3. QED
    BY <1>1, <1>3, <2>1, <2>2
<1>6. QED
  BY <1>4, <1>5

LEMMA PaintStep ==
  ASSUME IInv, NEW b \in Buffers, Paint(b)
  PROVE  IInv'
<1> USE DEF IInv
<1>1. TypeOK /\ TypeOK'
  BY TypeStep DEF Next
<1>2. /\ taken # NoFrame /\ taken' = NoFrame /\ RecordBufferFrame(b)
      /\ UNCHANGED <<size, sequence, pending, newer>>
      /\ \A c \in Buffers \ {b} : lacks'[c] = lacks[c]
  BY <1>1 DEF Paint, CopyTo, TypeOK
<1>3. /\ restarted' = (restarted /\ historySize = size)
      /\ bufferSequences'[b] = taken.sequence
      /\ \A c \in Buffers \ {b} : bufferSequences'[c] = IF historySize = size THEN bufferSequences[c] ELSE 0
  BY <1>2 DEF RecordBufferFrame
<1>4. PICK k \in {0, 1} :
        /\ k <= Len(Known)
        /\ Len(history') \in Nat /\ Len(history') = Len(Known) + 1 - k /\ history' # <<>>
        /\ DOMAIN history' = 1 .. Len(history')
        /\ history'[Len(history')] = taken
        /\ \A i \in 1 .. Len(history') : i + k <= Len(Known) => history'[i] = Known[i + k]
  BY <1>1, <1>2, RecordedHistory
<1>5. Len(Known) \in Nat /\ DOMAIN Known = 1 .. Len(Known)
  BY <1>1 DEF Known, TypeOK
<1>6. FrameOrder' /\ HistoryStart' /\ NewerWaits'
  BY <1>1, <1>2, <1>4, Numbers DEF FrameOrder, HistoryStart, NewerWaits
<1>7. 1 <= taken.start /\ taken.start <= taken.sequence /\ taken.sequence <= sequence
  BY <1>2 DEF FrameOrder
<1>8. pending # NoFrame => taken.sequence < pending.start
  BY DEF FrameOrder
\* What is left to show is said of a history that numbers as the renderer does.
<1> SUFFICES ASSUME ~restarted'
             PROVE  /\ HistoryOrder'
                    /\ \A c \in Buffers : bufferSequences'[c] # 0 => LacksUnseen(c)'
  BY <1>1, <1>6
<1>9. historySize = size => ~restarted /\ Ordered /\ Known = history
  BY <1>3 DEF Ordered, Known
<1>10. historySize # size => Known = <<>>
  BY DEF Known
\* The old history, in order.
<1>11. \A i \in 1 .. Len(Known) :
         /\ Known[i].sequence \in Nat /\ Known[i].start \in Nat
         /\ Known[i].sequence < taken.start
         /\ pending # NoFrame => Known[i].sequence < pending.start
         /\ \A j \in 1 .. Len(Known) : i < j => Known[i].sequence < Known[j].start
  BY <1>1, <1>2, <1>5, <1>9, <1>10, Numbers DEF Ordered, HistoryOrder
<1>12. \A i \in 1 .. Len(history') :
         \/ i = Len(history') /\ history'[i] = taken
         \/ i + k \in 1 .. Len(Known) /\ history'[i] = Known[i + k]
  BY <1>4, <1>5
<1>13. HistoryOrder'
  <2>1. ASSUME NEW i \in 1 .. Len(history')
        PROVE  /\ history'[i].sequence <= sequence
               /\ pending # NoFrame => history'[i].sequence < pending.start
               /\ \A j \in 1 .. Len(history') : i < j => history'[i].sequence < history'[j].start
    <3>1. CASE i = Len(history') /\ history'[i] = taken
      BY <1>4, <1>7, <1>8, <3>1
    <3>2. CASE i + k \in 1 .. Len(Known) /\ history'[i] = Known[i + k]
      <4>1. /\ history'[i].sequence \in Nat /\ history'[i].sequence < taken.start
            /\ pending # NoFrame => history'[i].sequence < pending.start
        BY <1>11, <3>2
      <4>2. ASSUME NEW j \in 1 .. Len(history'), i < j
            PROVE  history'[i].sequence < history'[j].start
        <5>1. CASE history'[j] = taken
          BY <4>1, <5>1
        <5>2. CASE j + k \in 1 .. Len(Known) /\ history'[j] = Known[j + k]
          <6>1. i + k < j + k
            BY <1>4, <4>2
          <6>2. QED
            BY <1>11, <3>2, <5>2, <6>1
        <5>3. QED
          BY <1>12, <5>1, <5>2
      <4>3. QED
        BY <1>1, <1>7, <4>1, <4>2, Numbers
    <3>3. QED
      BY <1>12, <3>1, <3>2
  <2>2. ASSUME NEW c \in Buffers, bufferSequences'[c] # 0
        PROVE  bufferSequences'[c] <= history'[Len(history')].sequence
    <3>1. CASE c = b
      BY <1>1, <1>3, <1>4, <3>1, Numbers
    <3>2. CASE c # b
      <4>1. bufferSequences'[c] = bufferSequences[c] /\ bufferSequences[c] # 0 /\ historySize = size
        BY <1>3, <2>2, <3>2
      <4>2. bufferSequences[c] < taken.start
        BY <1>1, <1>2, <1>9, <4>1, Newer
      <4>3. QED
        BY <1>1, <1>4, <1>7, <4>1, <4>2, Numbers
    <3>3. QED
      BY <3>1, <3>2
  <2>3. QED
    BY <1>2, <1>4, <2>1, <2>2 DEF HistoryOrder
\* A number that NoFrame would have to have is in no frame.
<1>14. ASSUME NEW frames, NEW low \in Nat, Covers(frames \cup {taken', pending}, low, sequence)
       PROVE  Covers(frames \cup {pending}, low, sequence)
  BY <1>1, <1>2, <1>14, Numbers DEF Covers
<1>15. LacksUnseen(b)'
  <2> SUFFICES ASSUME Covers(Past(b)' \cup {taken', pending}, taken.sequence, sequence)
               PROVE  lacks'[b] \subseteq DirtOf(Past(b)' \cup {taken', pending})
    BY <1>2, <1>3 DEF LacksUnseen
  <2>1. ASSUME NEW i \in 1 .. Len(history')
        PROVE  ~(history'[i].sequence > taken.sequence)
    <3>1. taken.sequence \in Nat /\ taken.start \in Nat
      BY <1>1, Numbers
    <3>2. CASE history'[i] = taken
      BY <3>1, <3>2
    <3>3. CASE i + k \in 1 .. Len(Known) /\ history'[i] = Known[i + k]
      <4>1. history'[i].sequence \in Nat /\ history'[i].sequence < taken.start
        BY <1>11, <3>3
      <4>2. QED
        BY <1>7, <3>1, <4>1
    <3>4. QED
      BY <1>12, <3>2, <3>3
  <2>2. Past(b)' = {}
    BY <1>3, <1>4, <2>1 DEF Past
  <2>3. Covers({pending}, taken.sequence, sequence)
    <3>1. Covers({} \cup {pending}, taken.sequence, sequence)
      BY <1>1, <1>14, <2>2, Numbers
    <3>2. QED
      BY <3>1
  <2>4. newer \subseteq pending.dirty
    BY <1>2, <2>3 DEF NewerWaits
  <2>5. lacks'[b] \subseteq newer
    BY <1>9, PaintedLacks
  <2>6. QED
    BY <2>4, <2>5 DEF DirtOf
<1>16. ASSUME NEW c \in Buffers \ {b}, bufferSequences'[c] # 0
       PROVE  LacksUnseen(c)'
  <2>1. bufferSequences'[c] = bufferSequences[c] /\ bufferSequences[c] # 0 /\ historySize = size
    BY <1>3, <1>16
  <2>2. ~restarted /\ Known = history /\ LacksUnseen(c) /\ bufferSequences[c] \in Nat
        /\ bufferSequences[c] < taken.start
    BY <1>1, <1>2, <1>9, <2>1, Newer, Numbers
  <2> SUFFICES ASSUME Covers(Past(c)' \cup {taken', pending}, bufferSequences[c], sequence)
               PROVE  lacks[c] \subseteq DirtOf(Past(c)' \cup {taken', pending})
    BY <1>2, <2>1 DEF LacksUnseen
  <2>3. Covers(Past(c)' \cup {pending}, bufferSequences[c], sequence)
    BY <1>14, <2>2
  <2>4. \A f \in Past(c)' : \E i \in 1 .. Len(history') : f = history'[i]
    BY <1>4 DEF Past
  <2>5. Past(c)' \subseteq Past(c) \cup {taken}
    <3>1. ASSUME NEW f \in Past(c)'
          PROVE  f \in Past(c) \cup {taken}
      <4>1. PICK i \in 1 .. Len(history') : f = history'[i] /\ f.sequence > bufferSequences[c]
        BY <1>4, <2>1 DEF Past
      <4>2. CASE history'[i] = taken
        BY <4>1, <4>2
      <4>3. CASE i + k \in 1 .. Len(Known) /\ history'[i] = Known[i + k]
        BY <1>5, <2>2, <4>1, <4>3 DEF Past
      <4>4. QED
        BY <1>12, <4>2, <4>3
    <3>2. QED
      BY <3>1
  \* A frame that the history has forgotten takes its number with it.
  <2>6. Past(c) \subseteq Past(c)'
    <3>1. ASSUME NEW f \in Past(c)
          PROVE  f \in Past(c)'
      <4>1. PICK i \in 1 .. Len(Known) : f = Known[i] /\ f.sequence > bufferSequences[c]
        BY <1>5, <2>2 DEF Past
      <4>2. CASE i - k >= 1
        <5>1. i - k \in 1 .. Len(history') /\ (i - k) + k = i
          BY <1>4, <1>5, <4>2
        <5>2. history'[i - k] = f
          BY <1>4, <4>1, <5>1
        <5>3. QED
          BY <1>4, <2>1, <4>1, <5>1, <5>2 DEF Past
      <4>3. CASE ~(i - k >= 1)
        <5>1. i = 1 /\ k = 1
          BY <1>4, <1>5, <4>3
        <5>2. f.sequence \in Nat /\ f.sequence < taken.start
          BY <1>11, <4>1
        <5>3. \A n \in 1 .. Len(history') : f.sequence < history'[n].start
          <6>1. ASSUME NEW n \in 1 .. Len(history'), n + k \in 1 .. Len(Known), history'[n] = Known[n + k]
                PROVE  f.sequence < history'[n].start
            BY <1>4, <1>11, <4>1, <5>1, <6>1
          <6>2. QED
            BY <1>12, <5>2, <6>1
        <5>4. pending # NoFrame => f.sequence < pending.start
          BY <1>11, <4>1
        <5>5. \A g \in Past(c)' \cup {pending} : f.sequence \notin g.start .. g.sequence
          <6>1. ASSUME NEW g \in Past(c)'
                PROVE  f.sequence < g.start /\ g.start \in Nat
            <7>1. PICK n \in 1 .. Len(history') : g = history'[n]
              BY <2>4
            <7>2. g = taken \/ \E j \in 1 .. Len(Known) : g = Known[j]
              BY <1>12, <7>1
            <7>3. g.start \in Nat
              BY <1>1, <1>11, <7>2, Numbers
            <7>4. QED
              BY <5>3, <7>1, <7>3
          <6>2. f.sequence \notin pending.start .. pending.sequence
            BY <1>1, <2>2, <4>1, <5>2, <5>4, Numbers
          <6>3. QED
            BY <1>1, <5>2, <6>1, <6>2
        <5>6. f.sequence \in bufferSequences[c] + 1 .. sequence
          BY <1>1, <1>7, <2>2, <4>1, <5>2, Numbers
        <5>7. QED
          BY <2>3, <5>5, <5>6 DEF Covers
      <4>4. QED
        BY <4>2, <4>3
    <3>2. QED
      BY <3>1
  <2>7. taken \in Past(c)'
    <3>1. Len(history') \in DOMAIN history'
      BY <1>4
    <3>2. history'[Len(history')].sequence > bufferSequences'[c]
      BY <1>1, <1>4, <1>7, <2>1, <2>2, Numbers
    <3>3. QED
      BY <1>4, <3>1, <3>2 DEF Past
  <2>8. Past(c)' \cup {pending} = Past(c) \cup {taken, pending}
    BY <2>5, <2>6, <2>7
  <2>9. lacks[c] \subseteq DirtOf(Past(c) \cup {taken, pending})
    BY <2>2, <2>3, <2>8 DEF LacksUnseen
  <2>10. DirtOf(Past(c)' \cup {pending}) \subseteq DirtOf(Past(c)' \cup {taken', pending})
    BY DEF DirtOf
  <2>11. QED
    BY <2>8, <2>9, <2>10
<1>17. QED
  BY <1>13, <1>15, <1>16

LEMMA InvariantStep ==
  ASSUME IInv, [Next]_vars
  PROVE  IInv'
<1>1. CASE EndPaint
  BY <1>1, EnqueueStep DEF EndPaint
<1>2. CASE Repaint
  BY <1>2, EnqueueStep DEF Repaint
<1>3. CASE DropPending \/ WorkerTake \/ PaintElsewhere \/ Destroy
  BY <1>3, DropStep, TakeStep, ElsewhereStep, DestroyStep
<1>4. CASE \E newSize \in Sizes : Restart(newSize)
  BY <1>4, RestartStep
<1>5. CASE \E b \in Buffers : Paint(b)
  BY <1>5, PaintStep
<1>6. CASE UNCHANGED vars
  <2>1. \A b \in Buffers : Past(b)' = Past(b)
    BY <1>6 DEF vars, painterVars, Past
  <2>2. QED
    BY <1>6, <2>1 DEF vars, painterVars, rendererVars, IInv, TypeOK, FrameOrder, NewerWaits, HistoryStart,
       HistoryOrder, LacksUnseen
<1>7. QED
  BY <1>1, <1>2, <1>3, <1>4, <1>5, <1>6 DEF Next

LEMMA InvariantInit == Init => IInv
<1> SUFFICES ASSUME Init PROVE IInv
  OBVIOUS
<1>1. FrameOrder /\ NewerWaits /\ HistoryStart
  BY DEF Init, FrameOrder, NewerWaits, HistoryStart
<1>2. HistoryOrder /\ \A b \in Buffers : bufferSequences[b] = 0
  BY DEF Init, HistoryOrder
<1>3. QED
  BY <1>1, <1>2, TypeInit DEF IInv

(* The numbers of the frames that wait and of the history are in order,    *)
(* and a buffer lacks nothing but the damage of the frames it has not      *)
(* seen, unless one of their numbers is lost.                              *)
THEOREM Invariant == Spec => []IInv
  BY InvariantInit, InvariantStep, PTL DEF Spec

LEMMA CurrentStep ==
  ASSUME IInv, [Next]_vars, NEW b \in Buffers,
         taken # NoFrame, bufferSequences'[b] = taken.sequence, ~restarted
  PROVE  lacks'[b] \subseteq newer
<1>1. TypeOK /\ Ordered /\ 1 <= taken.start /\ taken.start <= taken.sequence
  BY DEF IInv, Ordered, FrameOrder
\* Before the paint the buffer shows something older.
<1>2. bufferSequences[b] # taken.sequence
  BY <1>1, Newer, Numbers
<1>3. bufferSequences'[b] # bufferSequences[b] /\ bufferSequences'[b] # 0
  BY <1>1, <1>2, Numbers
<1>4. ASSUME NEW c \in Buffers, Paint(c)
      PROVE  c = b
  BY <1>3, <1>4 DEF Paint, RecordBufferFrame
<1>5. CASE \E c \in Buffers : Paint(c)
  BY <1>4, <1>5, PaintedLacks
<1>6. CASE ~\E c \in Buffers : Paint(c)
  <2>1. Destroy
    BY <1>3, <1>6 DEF Next, EndPaint, Repaint, Enqueue, DropPending, WorkerTake, PaintElsewhere, Restart,
       painterVars, vars
  <2>2. QED
    BY <1>3, <2>1 DEF Destroy
<1>7. QED
  BY <1>5, <1>6

(* A buffer that is painted with a frame shows the damage of that frame    *)
(* and of every one enqueued before it, for every number of buffers, size  *)
(* of the screen and length of the history.                                *)
THEOREM PaintIsCurrent == Spec => PaintedIsCurrent
<1>1. ASSUME IInv, [Next]_vars
      PROVE  [\A b \in Buffers :
                (taken # NoFrame /\ bufferSequences'[b] = taken.sequence /\ ~restarted)
                  => lacks'[b] \subseteq newer]_vars
  BY <1>1, CurrentStep
<1>2. QED
  BY <1>1, Invariant, PTL DEF Spec, PaintedIsCurrent
=============================================================================
