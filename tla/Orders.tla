------------------------------- MODULE Orders -------------------------------
(***************************************************************************)
(* The elements of a finite set as an ordered sequence, and the elements   *)
(* of a sequence at chosen places.  They say what SetToSortSeq and         *)
(* SelectSeq say, through the rank of an element instead of a recursion,   *)
(* so that proofs can speak of them.  For the same reason Accumulated is   *)
(* FoldLeft as a recursive function of a number.                           *)
(***************************************************************************)
EXTENDS Naturals, Sequences, FiniteSets

\* The i-th element is the one that i - 1 others precede.
Enumeration(S, R) ==
  [i \in 1 .. Cardinality(S) |->
     CHOOSE x \in S : Cardinality({y \in S : <<y, x>> \in R}) = i - 1]

\* The sequence of the elements of S, sorted.
InOrder(S, Precedes(_, _)) ==
  Enumeration(S, {p \in S \X S : Precedes(p[1], p[2])})

\* The elements of s at the indexes I, in the order they have in s.
Select(s, I) ==
  LET places == InOrder(I, <)
  IN [k \in 1 .. Cardinality(I) |-> s[places[k]]]

\* base, then one element of s after another by op.
Accumulated(op(_, _), base, s) ==
  LET upTo[k \in 0 .. Len(s)] == IF k = 0 THEN base ELSE op(upTo[k - 1], s[k])
  IN upTo[Len(s)]

\* s is a sequence.
Listed(s) == s \in Seq({s[k] : k \in DOMAIN s})

\* The sequences of s, one after another.
Joined(s) == Accumulated(LAMBDA t, u : t \o u, <<>>, s)
=============================================================================
