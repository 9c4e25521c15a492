------------------------------- MODULE MCRelay -------------------------------
(***************************************************************************)
(* Two shards, three accounts, transfers in both directions and within a   *)
(* shard; with a balance of 4 the local one can only be paid late.  The    *)
(* file is short: its last row is read and never sent.                     *)
(***************************************************************************)
EXTENDS Relay

Accounts == {"a", "b", "c"}
Home == [a |-> 0, b |-> 1, c |-> 0]
Transfer(x, y, v) == [sender |-> x, recipient |-> y, value |-> v]
Transfers == <<Transfer("a", "b", 1), Transfer("b", "c", 2), Transfer("c", "a", 5),
               Transfer("b", "a", 1)>>
Crossing == <<Transfer("a", "b", 1), Transfer("b", "c", 2)>>
=============================================================================
