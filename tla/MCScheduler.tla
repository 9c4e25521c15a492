----------------------------- MODULE MCScheduler -----------------------------
(***************************************************************************)
(* Two shards; fees from below to above the cap.                           *)
(***************************************************************************)
EXTENDS Scheduler

T(a, b, f) == [from |-> a, to |-> b, fee |-> f]

\* Shard 1 fills its window and more, over the cap and below it; a transaction
\* crosses into it and is subsidised in both shards.
Windowed == <<T(1, 1, 9), T(1, 1, 6), T(1, 1, 3), T(0, 1, 1)>>
=============================================================================
