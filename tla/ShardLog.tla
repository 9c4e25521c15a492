------------------------------ MODULE ShardLog ------------------------------
(***************************************************************************)
(* What the consensus of a shard promises to the rest of the system: the   *)
(* nodes hold one chain.  A node may be behind, but when it adds a block   *)
(* at a height that some node already has, it adds that node's block.      *)
(***************************************************************************)
EXTENDS Naturals, Sequences

CONSTANTS Node, Block
VARIABLE chain

Init == chain = [n \in Node |-> <<>>]

\* b is the block every node has, that has one, at node n's next height.
Fits(n, b) ==
  \A m \in Node : Len(chain[m]) > Len(chain[n]) => chain[m][Len(chain[n]) + 1] = b

Extend(n, b) ==
  /\ Fits(n, b)
  /\ chain' = [chain EXCEPT ![n] = Append(@, b)]

Next == \E n \in Node, b \in Block : Extend(n, b)

Spec == Init /\ [][Next]_chain
=============================================================================
