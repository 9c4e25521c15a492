-------------------------------- MODULE MCClpa --------------------------------
(***************************************************************************)
(* Three shards, so that a moving vertex has neighbours in the old, the    *)
(* new and a third shard; one shard has two accounts.                      *)
(***************************************************************************)
EXTENDS Clpa

Accounts == {"a", "b", "c", "d"}
Home == [a |-> 0, b |-> 0, c |-> 1, d |-> 2]
=============================================================================
