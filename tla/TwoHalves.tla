------------------------------ MODULE TwoHalves ------------------------------
(***************************************************************************)
(* What the broker method promises of a transfer between two shards: the   *)
(* sender pays the broker, then the broker pays the recipient, then the    *)
(* supervisor has both halves in its books; each of these happens once.    *)
(***************************************************************************)
CONSTANT Transfer
VARIABLE phase

Init == phase = [t \in Transfer |-> "new"]

Succ(p) == CASE p = "new" -> "paid in"
             [] p = "paid in" -> "paid out"
             [] p = "paid out" -> "finished"
             [] OTHER -> p

\* A block or a confirmation may move several transfers on, each by one phase.
Next ==
  \E T \in (SUBSET Transfer) \ {{}} :
    phase' = [t \in Transfer |-> IF t \in T THEN Succ(phase[t]) ELSE phase[t]]

Spec == Init /\ [][Next]_phase
=============================================================================
