---------------------------- MODULE Subsequences ----------------------------
(***************************************************************************)
(* What is left of a queue when tasks in the middle are erased: the        *)
(* workers of both GPU compositors drop ends of frames from a deep queue.  *)
(***************************************************************************)
EXTENDS Naturals, Sequences, FiniteSets

\* The elements at the places in S, in the order of the sequence. Place(n) is the n-th of
\* these places; the implication lets a proof see that the choice exists without counting.
ElementsAt(q, S) ==
  LET Rank(i) == Cardinality({j \in S : j <= i})
      Place(n) == CHOOSE i \in S : \A j \in S : Rank(j) = n => Rank(i) = n
  IN  [n \in 1 .. Cardinality(S) |-> q[Place(n)]]
=============================================================================
