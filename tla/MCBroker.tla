------------------------------- MODULE MCBroker -------------------------------
(***************************************************************************)
(* Two shards; two transfers from shard 0 to shard 1, the home of the      *)
(* broker, which can pay for one of them there, one transfer back, two     *)
(* rows with the broker as a party and one inside shard 0.  Whether a      *)
(* sender can pay depends on the order of the blocks.  The file is shorter *)
(* than dataTotalNum, and its last row is in a batch it does not fill.     *)
(***************************************************************************)
EXTENDS Broker

Accounts == {"a", "b", "c", "k"}
Home == [a |-> 0, b |-> 1, c |-> 0, k |-> 1]
Brokers == <<"k">>
Transfers ==
  <<[sender |-> "a", recipient |-> "b", value |-> 1],
    [sender |-> "c", recipient |-> "b", value |-> 1],
    [sender |-> "a", recipient |-> "k", value |-> 1],
    [sender |-> "b", recipient |-> "a", value |-> 1],
    [sender |-> "k", recipient |-> "c", value |-> 1],
    [sender |-> "a", recipient |-> "c", value |-> 1],
    [sender |-> "c", recipient |-> "a", value |-> 1]>>
=============================================================================
