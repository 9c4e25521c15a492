-------------------------------- MODULE Epochs --------------------------------
(***************************************************************************)
(* What a round of re-sharding promises to the blocks: the shards work in  *)
(* epochs that do not overlap.  A shard stops for the change (Freeze), and *)
(* goes on in the next epoch (Enter) only when every other shard has       *)
(* stopped too or has already gone on.                                     *)
(***************************************************************************)
EXTENDS Naturals

CONSTANT Shard
VARIABLES epoch, frozen

Init == epoch = [s \in Shard |-> 0] /\ frozen = {}

Freeze(s) ==
  /\ s \notin frozen
  /\ frozen' = frozen \cup {s}
  /\ UNCHANGED epoch

Enter(s) ==
  /\ s \in frozen
  /\ \A t \in Shard : \/ t \in frozen /\ epoch[t] = epoch[s]
                      \/ epoch[t] = epoch[s] + 1
  /\ epoch' = [epoch EXCEPT ![s] = @ + 1]
  /\ frozen' = frozen \ {s}

Next == \E s \in Shard : Freeze(s) \/ Enter(s)
=============================================================================
