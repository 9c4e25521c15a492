--------------------------------- MODULE Clpa ---------------------------------
(***************************************************************************)
(* The constrained label propagation that decides which accounts move      *)
(* (partition/partition_CLPA.go), as the CLPA committee uses it: reported  *)
(* transfers become edges, a run moves vertices one at a time, its result  *)
(* goes to the shards (module Reshard) and the graph is reset.  Reports    *)
(* and runs exclude each other by clpaLock.                                *)
(*                                                                         *)
(* The lists of neighbours keep duplicates, here as the number of times a  *)
(* neighbour occurs.  The vertices of an iteration are visited in the      *)
(* order of a Go map, that is, in any order.  Scores are floats in the     *)
(* code; with the weight penalty 1/2 of Init_CLPAState they are compared   *)
(* exactly here, and of equal ones any may come out as the largest.        *)
(***************************************************************************)
EXTENDS Integers, FiniteSets, FiniteSetsExt, Functions

CONSTANTS
  ShardNum, Account, Addr2Shard,
  MaxIterations,       \* 100 in the code
  UpdateThreshold,     \* 50 in the code: how often a vertex may move in a run
  MaxEdges, MaxRounds  \* bounds: transfers reported, runs

Shard == 0 .. ShardNum - 1

ASSUME ConfigAssumption ==
  /\ ShardNum \in Nat \ {0} /\ Addr2Shard \in [Account -> Shard]
  /\ {MaxIterations, UpdateThreshold, MaxEdges, MaxRounds} \subseteq Nat

VARIABLES
  \* the graph
  VertexSet, EdgeSet, PartitionMap, VertexsNumInShard,
  \* kept up to date during a run
  Edges2Shard, MinEdges2Shard, CrossShardEdgeNum,
  \* local to CLPA_Partition: `todo' is what the iteration has still to visit
  running, iter, todo, updateTreshold, res,
  \* the committee
  modifiedMap, clpaCnt, edges

graphVars == <<VertexSet, EdgeSet, PartitionMap, VertexsNumInShard>>
weightVars == <<Edges2Shard, MinEdges2Shard, CrossShardEdgeNum>>
runVars == <<running, iter, todo, updateTreshold, res>>
supVars == <<modifiedMap, clpaCnt, edges>>
vars == <<graphVars, weightVars, runVars, supVars>>

PerShard(x) == [s \in Shard |-> x]
NoNeighbours == [u \in Account |-> 0]

\* A new CLPAState after Init_CLPAState.
Init_CLPAState ==
  /\ VertexSet = {} /\ EdgeSet = [v \in Account |-> NoNeighbours]
  /\ VertexsNumInShard = PerShard(0)
  /\ Edges2Shard = PerShard(0) /\ MinEdges2Shard = 0 /\ CrossShardEdgeNum = 0

Init ==
  /\ Init_CLPAState /\ PartitionMap = <<>>
  /\ running = FALSE /\ iter = 0 /\ todo = {}
  /\ updateTreshold = [v \in Account |-> 0] /\ res = <<>>
  /\ modifiedMap = <<>> /\ clpaCnt = 0 /\ edges = 0

\* f[v], or the shard of the address where f has nothing.
Lookup(f, v) == IF v \in DOMAIN f THEN f[v] ELSE Addr2Shard[v]

\* f with the entries of g put in.
Put(f, g) == [v \in DOMAIN f \cup DOMAIN g |-> IF v \in DOMAIN g THEN g[v] ELSE f[v]]

-----------------------------------------------------------------------------
(* Reports.                                                                *)

\* The ends AddEdge gives to AddVertex.
NewVertexes(ends) == ends \ VertexSet

\* AddEdge with AddVertex, for a transfer in a reported block; data2tx lets no
\* transfer to oneself in.
AddEdge(u, v) ==
  LET new == NewVertexes({u, v}) IN
  /\ ~running /\ u # v /\ edges < MaxEdges
  /\ VertexSet' = VertexSet \cup {u, v}
  /\ PartitionMap' = Put(PartitionMap, [w \in new |-> Lookup(PartitionMap, w)])
  /\ VertexsNumInShard' = [s \in Shard |-> VertexsNumInShard[s]
                             + Cardinality({w \in new : Lookup(PartitionMap, w) = s})]
  /\ EdgeSet' = [EdgeSet EXCEPT ![u][v] = @ + 1, ![v][u] = @ + 1]
  /\ edges' = edges + 1
  /\ UNCHANGED <<weightVars, runVars, modifiedMap, clpaCnt>>

-----------------------------------------------------------------------------
(* A run.                                                                  *)

\* How many neighbours v has in the shards S under the partition p.
Degree(v, S, p) == SumFunctionOnSet(EdgeSet[v], {u \in VertexSet : p[u] \in S})

\* ComputeEdges2Shard: for shard s the edges that end in s from elsewhere, and
\* half of the entries for edges inside; and half of the former of all shards.
CrossEdges(s, p) == SumFunction([v \in {w \in VertexSet : p[w] # s} |-> Degree(v, {s}, p)])
InterEdges(s, p) == SumFunction([v \in {w \in VertexSet : p[w] = s} |-> Degree(v, {s}, p)])
Weights(p) == [s \in Shard |-> CrossEdges(s, p) + InterEdges(s, p) \div 2]
CrossNum(p) == SumFunction([s \in Shard |-> CrossEdges(s, p)]) \div 2

ComputeEdges2Shard ==
  /\ Edges2Shard' = Weights(PartitionMap)
  /\ MinEdges2Shard' = Min(Range(Edges2Shard'))
  /\ CrossShardEdgeNum' = CrossNum(PartitionMap)

\* The start of CLPA_Partition.
Begin ==
  /\ ~running /\ clpaCnt < MaxRounds
  /\ running' = TRUE /\ clpaCnt' = clpaCnt + 1
  /\ iter' = 0 /\ todo' = VertexSet
  /\ updateTreshold' = [v \in Account |-> 0] /\ res' = <<>>
  /\ ComputeEdges2Shard
  /\ UNCHANGED <<graphVars, modifiedMap, edges>>

\* getShard_score, times twice the out-degree and MinEdges2Shard.
getShard_score(v, k) == Degree(v, {k}, PartitionMap) * (2 * MinEdges2Shard - Edges2Shard[k])

\* A score takes part if it is larger than the initial max_score of -9999; a
\* division by a MinEdges2Shard of 0 makes it -Inf.
Comparable(v, k) ==
  /\ MinEdges2Shard # 0
  /\ getShard_score(v, k) > -9999 * 2 * MinEdges2Shard * Degree(v, Shard, PartitionMap)

\* The shards CLPA_Partition may find best for v: those of neighbours with the
\* largest score, or the present one if no score takes part.
BestShards(v) ==
  LET near == {PartitionMap[u] : u \in {u \in VertexSet : EdgeSet[v][u] > 0}}
      scored == {k \in near : Comparable(v, k)}
  IN IF scored = {} THEN {PartitionMap[v]}
     ELSE {k \in scored : \A j \in scored : getShard_score(v, j) <= getShard_score(v, k)}

\* Wrong: edges to third shards are forgotten.
ChangeShardRecomputeTwo(v, old, new) ==
  LET inNew == Degree(v, {new}, PartitionMap)
      inOld == Degree(v, {old}, PartitionMap)
  IN
  /\ Edges2Shard' = [Edges2Shard EXCEPT ![new] = @ + inOld, ![old] = @ - inNew]
  /\ MinEdges2Shard' = Min(Range(Edges2Shard'))
  /\ CrossShardEdgeNum' = CrossShardEdgeNum + inOld - inNew

\* v moves: the weights change by its neighbours only.
changeShardRecompute(v, old, new) ==
  LET inNew == Degree(v, {new}, PartitionMap)
      inOld == Degree(v, {old}, PartitionMap)
      inThird == Degree(v, Shard \ {old, new}, PartitionMap)
  IN
  /\ Edges2Shard' = [Edges2Shard EXCEPT ![new] = @ + inThird + inOld, ![old] = @ - inThird - inNew]
  /\ MinEdges2Shard' = Min(Range(Edges2Shard'))
  /\ CrossShardEdgeNum' = CrossShardEdgeNum + inOld - inNew

\* Wrong: the last vertex may leave too.
MayLeaveLast(s) == VertexsNumInShard[s] > 0
\* A shard is not left empty.
MayLeave(s) == VertexsNumInShard[s] > 1

Move(v, k) ==
  LET old == PartitionMap[v] IN
  /\ PartitionMap' = [PartitionMap EXCEPT ![v] = k]
  /\ res' = Put(res, [w \in {v} |-> k])
  /\ updateTreshold' = [updateTreshold EXCEPT ![v] = @ + 1]
  /\ VertexsNumInShard' = [VertexsNumInShard EXCEPT ![old] = @ - 1, ![k] = @ + 1]
  /\ changeShardRecompute(v, old, k)

\* The body of the inner loop for v.
Visit(v) ==
  /\ running /\ v \in todo
  /\ todo' = todo \ {v}
  /\ \/ /\ updateTreshold[v] < UpdateThreshold
        /\ \E k \in BestShards(v) :
             /\ k # PartitionMap[v] /\ MayLeave(PartitionMap[v])
             /\ Move(v, k)
     \/ /\ \/ updateTreshold[v] >= UpdateThreshold
           \/ \E k \in BestShards(v) : k = PartitionMap[v] \/ ~MayLeave(PartitionMap[v])
        /\ UNCHANGED <<PartitionMap, res, updateTreshold, VertexsNumInShard, weightVars>>
  /\ UNCHANGED <<VertexSet, EdgeSet, running, iter, supVars>>

NextIteration ==
  /\ running /\ todo = {} /\ iter + 1 < MaxIterations
  /\ iter' = iter + 1 /\ todo' = VertexSet
  /\ UNCHANGED <<graphVars, weightVars, running, updateTreshold, res, supVars>>

\* Wrong: the new state starts with the partition of the addresses.
ClpaResetForgetting(mmap) == PartitionMap' = <<>>
\* clpaReset: the partition so far is kept, the graph is not.
clpaReset(mmap) == PartitionMap' = mmap

\* The end of CLPA_Partition, and what MsgSendingControl does with its result.
End ==
  /\ running /\ todo = {} /\ iter + 1 >= MaxIterations
  /\ running' = FALSE
  /\ modifiedMap' = Put(modifiedMap, res)
  /\ clpaReset(modifiedMap')
  /\ VertexSet' = {} /\ EdgeSet' = [v \in Account |-> NoNeighbours]
  /\ VertexsNumInShard' = PerShard(0)
  /\ Edges2Shard' = PerShard(0) /\ MinEdges2Shard' = 0 /\ CrossShardEdgeNum' = 0
  /\ iter' = 0 /\ updateTreshold' = [v \in Account |-> 0] /\ res' = <<>>
  /\ UNCHANGED <<todo, clpaCnt, edges>>

Next ==
  \/ \E u, v \in Account : AddEdge(u, v)
  \/ Begin \/ (\E v \in todo : Visit(v)) \/ NextIteration \/ End

Spec == Init /\ [][Next]_vars

-----------------------------------------------------------------------------
(* Properties.                                                             *)

\* Every variable has its type; MinEdges2Shard is what scores are divided by.
TypeOK ==
  /\ VertexSet \subseteq Account /\ EdgeSet \in [Account -> [Account -> Nat]]
  /\ DOMAIN PartitionMap \subseteq Account /\ Range(PartitionMap) \subseteq Shard
  /\ VertexSet \subseteq DOMAIN PartitionMap
  /\ VertexsNumInShard \in [Shard -> Nat] /\ Edges2Shard \in [Shard -> Nat]
  /\ {MinEdges2Shard, CrossShardEdgeNum} \subseteq Nat
  /\ todo \subseteq VertexSet /\ iter \in 0 .. MaxIterations
  /\ updateTreshold \in [Account -> 0 .. UpdateThreshold]

\* The weights that changeShardRecompute keeps up to date are, after every move,
\* those ComputeEdges2Shard would compute from the graph; none is negative.
WeightsExact ==
  TypeOK /\ (running =>
             /\ Edges2Shard = Weights(PartitionMap)
             /\ MinEdges2Shard = Min(Range(Weights(PartitionMap)))
             /\ CrossShardEdgeNum = CrossNum(PartitionMap))

\* The sizes of the shards, on which the last vertex' staying depends, are right
\* although vertices keep their shard over a reset and are counted anew.
SizesExact ==
  \A s \in Shard : VertexsNumInShard[s] = Cardinality({v \in VertexSet : PartitionMap[v] = s})

\* The partition the graph goes by is the one the supervisor sends transactions
\* by, up to the moves of the present run, which are the ones it will send.
MapsAgree == \A v \in VertexSet : PartitionMap[v] = Lookup(Put(modifiedMap, res), v)

\* No run takes the last vertex of a shard away, and none moves a vertex as long as
\* one shard has no edge at all, where every score is divided by zero.
MovesGuarded ==
  [][running /\ running' =>
       /\ \A s \in Shard : (\E v \in VertexSet : PartitionMap[v] = s)
                             => \E v \in VertexSet : PartitionMap'[v] = s
       /\ (\E s \in Shard : Weights(PartitionMap)[s] = 0) => UNCHANGED res]_vars
=============================================================================
