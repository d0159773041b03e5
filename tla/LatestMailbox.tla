---------------------------- MODULE LatestMailbox ----------------------------
(***************************************************************************)
(* What the bridge's one-slot hand-overs promise: the newest item replaces *)
(* an older one that was not taken yet, an item is taken at most once, and *)
(* items are taken in the order they were put.  Items are numbered by the  *)
(* sequence number they were put with; 0 is the empty slot.                *)
(* DisplayRequestCoalescer and GdiFramePipeline implement it.              *)
(***************************************************************************)
EXTENDS Naturals

VARIABLES
  sequence,  \* of the last operation
  slot,      \* the item waiting to be taken, or 0
  taken      \* the item taken last, or 0

mailboxVars == <<sequence, slot, taken>>

MailboxTypeOK == sequence \in Nat /\ slot \in Nat /\ taken \in Nat

MailboxInit == sequence = 0 /\ slot = 0 /\ taken = 0

Put == sequence' = sequence + 1 /\ slot' = sequence + 1 /\ UNCHANGED taken

\* A withdrawal may be numbered too.
Withdraw == sequence' \in {sequence, sequence + 1} /\ slot' = 0 /\ UNCHANGED taken

Take == slot # 0 /\ taken' = slot /\ slot' = 0 /\ UNCHANGED sequence

MailboxNext == Put \/ Withdraw \/ Take

MailboxSpec == MailboxInit /\ [][MailboxNext]_mailboxVars

(* A waiting item is newer than anything taken, hence no item is taken     *)
(* twice and none is taken after a younger one.                            *)
WaitingIsNewest == (slot # 0 => slot = sequence /\ taken < slot) /\ taken <= sequence
=============================================================================
