------------------------------- MODULE MCPbft -------------------------------
(***************************************************************************)
(* Restrictions of the state space for the runs of Pbft.  A CONSTRAINT     *)
(* only cuts behaviours off: what is found is a behaviour of Pbft.         *)
(***************************************************************************)
EXTENDS Pbft

\* The nodes that lead neither view are alike: they may as well handle the
\* messages of the view change without overtaking each other.
NoOvertaking ==
  \A n \in 2 .. N - 2 :
    /\ Cardinality(viewChangeMap[n]) >= Cardinality(viewChangeMap[n + 1])
    /\ Cardinality(newViewMap[n]) >= Cardinality(newViewMap[n + 1])

\* No block is proposed: the view change by itself.
NoBlock == proposed = 0 /\ (\A n \in Node : proposer[n] = "idle") /\ NoOvertaking

\* A block by itself.
NoViewChange == timeouts = 0

\* Node 1 takes over after node 0 has committed a block, which node 1 may not
\* have; node 0 hears nothing of the view change and leads on beside node 1.
TwoLeaders ==
  /\ timeouts > 0 => Len(chain[0]) > 0
  /\ viewChangeMap[0] = {} /\ newViewMap[0] = {}
  /\ 0 \notin {v.from : v \in viewChanges}

\* The view-change messages are still on their way.
ViewChangesDelayed == \A n \in Node : viewChangeMap[n] = {}

\* After a timeout there are two leaders, or none but node 0.
OldLeaderStays == ViewChangesDelayed \/ TwoLeaders

\* Faults come one at a time: a restart or a timeout.
OneFault == (timeouts = 0 \/ restarted = {}) /\ OldLeaderStays

\* How far node n is with digest d.
Progress(n, d) ==
  (IF <<n, d>> \in prePrepares THEN 0 ELSE 1)
    + cntPrepareConfirm[n][d] + cntCommitConfirm[n][d]

\* Lower-numbered nodes are never behind higher-numbered ones.
Staggered ==
  \A d \in 1 .. proposed : \A n \in 0 .. N - 2 : Progress(n, d) >= Progress(n + 1, d)

\* Nodes 1, 2, ... time out, one after the other, and each of them handles the
\* messages of the view change in the order of their senders; node 0 hears
\* nothing of it.
Senders(map) == {v.from : v \in map}
InTurn(S) == \A k \in S : 1 .. k \subseteq S
OrderlyViewChange ==
  /\ 0 \notin Senders(viewChanges)
  /\ viewChangeMap[0] = {} /\ newViewMap[0] = {}
  /\ \A n \in Node : /\ InTurn(Senders(viewChangeMap[n]))
                      /\ InTurn(Senders(newViewMap[n]))
                      /\ Cardinality(viewChangeMap[n]) > 0 => timeouts = 3
  /\ \A n \in 1 .. N - 2 :
       /\ Cardinality(viewChangeMap[n]) >= Cardinality(viewChangeMap[n + 1])
       /\ Cardinality(newViewMap[n]) >= Cardinality(newViewMap[n + 1])

\* Node 0 alone commits block 1; then the others time out, agree on view 1
\* without node 0, and go on with a block of node 1.
ForkSchedule ==
  /\ Staggered \/ timeouts > 0
  /\ \A n \in 1 .. N - 1 : cntCommitConfirm[n][1] = 0
  /\ \A n \in Node, d \in Digest : cntPrepareConfirm[n][d] <= Quorum
  /\ timeouts > 0 => /\ Len(chain[0]) = 1 /\ proposer[0] = "idle"
                     /\ \A n \in 1 .. N - 1 : cntPrepareConfirm[n][1] \in {0, Quorum}
  /\ OrderlyViewChange
  /\ \A n \in 1 .. N - 2 : proposed = 2 => Progress(n, 2) >= Progress(n + 1, 2)
  /\ proposed = 2 => moved = 1 .. N - 1 /\ <<0, 2>> \in prePrepares

\* Block 1 is prepared everywhere; then three nodes time out, and the Commits of
\* the block and the messages of the view change come in any order between
\* them; a node handles the messages of each kind in the order of their senders,
\* and its Commits in one go, lower-numbered nodes first.
Ascending(map, msgs) ==
  \A n \in Node : \A v \in map[n], w \in msgs : w.to = n => w.from > v.from
InMidCommit == {n \in Node : cntCommitConfirm[n][1] \in 1 .. Quorum - 1}
CommitsDuringViewChange ==
  /\ proposed = 1 /\ \A n \in Node : proposer[n] = "idle" /\ cntPrepareConfirm[n][1] = Quorum
  /\ \A n \in 0 .. N - 2 : cntCommitConfirm[n][1] >= cntCommitConfirm[n + 1][1]
  /\ cntCommitConfirm[0][1] <= Quorum /\ Cardinality(InMidCommit) <= 1
  /\ \A n \in Node : viewChangeMap[n] # {} => timeouts = 3
  /\ NoOvertaking
  /\ \A v \in viewChanges : v.from > 0 /\ (timeouts < 3 => v.from <= timeouts)
  /\ Ascending(viewChangeMap, viewChanges) /\ Ascending(newViewMap, newViews)

\* One of them, or both in these orders.
BlockAndViewChange == NoViewChange \/ NoBlock \/ CommitsDuringViewChange
=============================================================================
