-------------------------------- MODULE Slices --------------------------------
(***************************************************************************)
(* The loops that sort transactions by shard or by account: a slice is     *)
(* appended to, one element after the other.                               *)
(***************************************************************************)
EXTENDS Integers, Sequences, FiniteSets, SequencesExt

\* The elements of q that are in T, in the order of q.
Selected(q, T) == FoldLeft(LAMBDA slice, x : IF x \in T THEN Append(slice, x) ELSE slice, <<>>, q)

\* The slices of qs one after the other.
Concatenated(qs) == FoldLeft(LAMBDA all, q : all \o q, <<>>, qs)

Holds(q, x) == \E i \in 1 .. Len(q) : q[i] = x
=============================================================================
