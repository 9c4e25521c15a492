------------------------------ MODULE MCReshard ------------------------------
(***************************************************************************)
(* Two shards, an account of each and a transfer between them.  In the     *)
(* first round the recipient moves to the sender's shard, in the second    *)
(* both move to the other one: second halves, first halves and credited    *)
(* balances are all met on the way.                                        *)
(***************************************************************************)
EXTENDS Reshard

Accounts == {"a", "b"}
Home == [a |-> 0, b |-> 1]
Transfers == <<[sender |-> "a", recipient |-> "b", value |-> 1]>>
Moves == <<{[b |-> 0]}, {[a |-> 1, b |-> 1]}>>
=============================================================================
