------------------------------ MODULE MCStorage ------------------------------
(***************************************************************************)
(* A tree of five blocks: two forks at height 1, one of them with a child, *)
(* and an empty block, whose state is that of its parent.                  *)
(***************************************************************************)
EXTENDS Storage

Blocks == {"g", "a", "b", "aa", "ab"}
Parents == [g |-> "g", a |-> "g", b |-> "g", aa |-> "a", ab |-> "a"]
Roots == [g |-> 0, a |-> 1, b |-> 2, aa |-> 1, ab |-> 3]
=============================================================================
