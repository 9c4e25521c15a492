------------------------------ MODULE ClpaProofs ------------------------------
(***************************************************************************)
(* The graph's partition and the supervisor's map agree, and the sizes and *)
(* weights a run goes by are those of the graph, for every number of       *)
(* shards, accounts, transfers, iterations and runs and every order of     *)
(* visits.                                                                 *)
(***************************************************************************)
EXTENDS Clpa, Folding

\* What the partition maps say together: the graph's vertices have an entry, the
\* supervisor has moved only accounts with one, and every entry, also of an
\* account that is no vertex since the last reset, is the supervisor's with the
\* moves of the present run, if there is one.
MapsInv ==
  /\ VertexSet \subseteq DOMAIN PartitionMap
  /\ todo \subseteq VertexSet
  /\ ~running => res = <<>>
  /\ DOMAIN modifiedMap \cup DOMAIN res \subseteq DOMAIN PartitionMap
  /\ \A v \in DOMAIN PartitionMap : PartitionMap[v] = Lookup(Put(modifiedMap, res), v)

\* An empty map of the code: Put with it changes nothing.
LEMMA EmptyMap == DOMAIN <<>> = {}
  OBVIOUS

\* A reported transfer gives new vertices the entry they have or, if they have
\* none, the shard of their address, which is what the supervisor looks up too.
LEMMA AddEdgeKeepsMaps ==
  ASSUME MapsInv, NEW u \in Account, NEW v \in Account, AddEdge(u, v)
  PROVE  MapsInv'
<1> DEFINE new == NewVertexes({u, v})
           entries == [w \in new |-> Lookup(PartitionMap, w)]
<1>1. /\ VertexSet' = VertexSet \cup {u, v} /\ PartitionMap' = Put(PartitionMap, entries)
      /\ UNCHANGED <<todo, res, modifiedMap, running>>
  BY DEF AddEdge, runVars
<1>2. DOMAIN PartitionMap' = DOMAIN PartitionMap \cup new
  BY <1>1 DEF Put
<1>3. \A w \in DOMAIN PartitionMap' : PartitionMap'[w] = Lookup(PartitionMap, w)
  BY <1>1, <1>2 DEF Put, Lookup
<1>4. new = {u, v} \ VertexSet
  BY DEF NewVertexes
<1>5. \A w \in DOMAIN PartitionMap' : PartitionMap'[w] = Lookup(Put(modifiedMap, res), w)
  <2>1. TAKE w \in DOMAIN PartitionMap'
  <2>2. CASE w \in DOMAIN PartitionMap
    BY <2>2, <1>3 DEF MapsInv, Lookup
  <2>3. CASE w \notin DOMAIN PartitionMap
    <3>1. w \notin DOMAIN Put(modifiedMap, res)
      BY <2>3 DEF MapsInv, Put
    <3> QED BY <2>3, <3>1, <1>3 DEF Lookup
  <2> QED BY <2>2, <2>3
<1> QED BY <1>1, <1>2, <1>4, <1>5 DEF MapsInv

\* A move is entered in the partition and in the result.
LEMMA VisitKeepsMaps ==
  ASSUME MapsInv, NEW v \in todo, Visit(v)
  PROVE  MapsInv'
<1>1. /\ VertexSet' = VertexSet /\ modifiedMap' = modifiedMap
      /\ todo' = todo \ {v} /\ running /\ running' = running
  BY DEF Visit, supVars
<1>2. CASE UNCHANGED <<PartitionMap, res>>
  BY <1>1, <1>2 DEF MapsInv
<1>3. ASSUME NEW k \in BestShards(v), Move(v, k)
      PROVE  MapsInv'
  <2> DEFINE move == [w \in {v} |-> k]
  <2>1. PartitionMap' = [PartitionMap EXCEPT ![v] = k] /\ res' = Put(res, move)
    BY <1>3 DEF Move
  <2>2. v \in DOMAIN PartitionMap
    BY DEF MapsInv
  <2>3. DOMAIN PartitionMap' = DOMAIN PartitionMap /\ DOMAIN res' = DOMAIN res \cup {v}
    BY <2>1 DEF Put
  <2>4. \A w \in DOMAIN PartitionMap : w # v =>
          PartitionMap'[w] = PartitionMap[w] /\ (w \in DOMAIN res => res'[w] = res[w])
    BY <2>1 DEF Put
  <2>5. PartitionMap'[v] = k /\ res'[v] = k
    BY <2>1, <2>2 DEF Put
  <2>6. ASSUME NEW w \in DOMAIN PartitionMap
        PROVE  PartitionMap'[w] = Lookup(Put(modifiedMap, res'), w)
    <3>1. CASE w = v
      BY <3>1, <2>3, <2>5 DEF Lookup, Put
    <3>2. CASE w # v
      <4>1. PartitionMap'[w] = Lookup(Put(modifiedMap, res), w)
        BY <3>2, <2>4 DEF MapsInv
      <4>2. Lookup(Put(modifiedMap, res'), w) = Lookup(Put(modifiedMap, res), w)
        BY <3>2, <2>3, <2>4 DEF Lookup, Put
      <4> QED BY <4>1, <4>2
    <3> QED BY <3>1, <3>2
  <2> QED BY <1>1, <2>2, <2>3, <2>6 DEF MapsInv
<1> QED BY <1>2, <1>3 DEF Visit

\* The result enters the supervisor's map, which becomes the new partition.
LEMMA EndKeepsMaps ==
  ASSUME MapsInv, End
  PROVE  MapsInv'
<1>1. /\ modifiedMap' = Put(modifiedMap, res) /\ PartitionMap' = modifiedMap'
      /\ VertexSet' = {} /\ todo' = {} /\ res' = <<>>
  BY DEF End, clpaReset
<1>2. \A w : Lookup(Put(modifiedMap', res'), w) = Lookup(modifiedMap', w)
  BY <1>1, EmptyMap DEF Lookup, Put
<1> QED BY <1>1, <1>2, EmptyMap DEF MapsInv, Lookup

LEMMA StepKeepsMaps == MapsInv /\ [Next]_vars => MapsInv'
<1> SUFFICES ASSUME MapsInv, [Next]_vars PROVE MapsInv'
  OBVIOUS
<1>1. ASSUME NEW u \in Account, NEW v \in Account, AddEdge(u, v) PROVE MapsInv'
  BY <1>1, AddEdgeKeepsMaps
<1>2. CASE Begin
  <2>1. /\ UNCHANGED <<VertexSet, PartitionMap, modifiedMap>>
        /\ ~running /\ running' /\ todo' = VertexSet /\ res' = <<>>
    BY <1>2 DEF Begin, graphVars
  <2>2. res' = res
    BY <2>1 DEF MapsInv
  <2> QED BY <2>1, <2>2 DEF MapsInv
<1>3. ASSUME NEW v \in todo, Visit(v) PROVE MapsInv'
  BY <1>3, VisitKeepsMaps
<1>4. CASE NextIteration
  BY <1>4 DEF NextIteration, MapsInv, graphVars, supVars
<1>5. CASE End
  BY <1>5, EndKeepsMaps
<1>6. CASE UNCHANGED vars
  BY <1>6 DEF MapsInv, vars, graphVars, runVars, supVars
<1> QED BY <1>1, <1>2, <1>3, <1>4, <1>5, <1>6 DEF Next

\* The partition the graph goes by is always the one the supervisor sends
\* transactions by, up to the moves of the present run (clpaReset, AddVertex).
THEOREM MapsAgreeAlways == Spec => []MapsAgree
<1>1. Init => MapsInv
  BY EmptyMap DEF Init, Init_CLPAState, MapsInv
<1>2. MapsInv => MapsAgree
  BY DEF MapsInv, MapsAgree
<1> QED BY <1>1, <1>2, StepKeepsMaps, PTL DEF Spec

-----------------------------------------------------------------------------
(* Sums over a graph without directions and loops.                         *)

Graph(E, V) ==
  /\ IsFiniteSet(V)
  /\ \A u, v \in V : E[u][v] \in Nat /\ E[u][v] = E[v][u]
  /\ \A v \in V : E[v][v] = 0

\* The edges from v into B, and from A into B.
Into(E, v, B) == SumFunctionOnSet(E[v], B)
Cut(E, A, B) == SumFunction([v \in A |-> Into(E, v, B)])

LEMMA CutType ==
  ASSUME NEW V, NEW E, Graph(E, V), NEW A \in SUBSET V, NEW B \in SUBSET V
  PROVE  /\ IsFiniteSet(A) /\ Cut(E, A, B) \in Nat /\ \A v \in V : Into(E, v, B) \in Nat
<1>1. IsFiniteSet(A) /\ IsFiniteSet(B)
  BY FS_Subset DEF Graph
<1>2. ASSUME NEW v \in V PROVE Into(E, v, B) \in Nat
  <2> DEFINE f == E[v]
  <2>1. \A u \in B : f[u] \in Nat
    BY DEF Graph
  <2> HIDE DEF f
  <2>2. SumFunctionOnSet(f, B) \in Nat
    BY <1>1, <2>1, SumOfPart
  <2> QED BY <2>2 DEF f, Into
<1>3. Cut(E, A, B) \in Nat
  <2> DEFINE f == [v \in A |-> Into(E, v, B)]
  <2>1. \A v \in A : f[v] \in Nat
    BY <1>2
  <2>2. Cut(E, A, B) = SumFunctionOnSet(f, A)
    BY DEF Cut, SumFunction
  <2> HIDE DEF f
  <2> QED BY <1>1, <2>1, <2>2, SumOfPart
<1> QED BY <1>1, <1>2, <1>3

\* One vertex more on the left.
LEMMA CutRow ==
  ASSUME NEW V, NEW E, Graph(E, V), NEW A \in SUBSET V, NEW B \in SUBSET V, NEW x \in V \ A
  PROVE  Cut(E, A \cup {x}, B) = Cut(E, A, B) + Into(E, x, B)
<1> DEFINE f == [v \in A |-> Into(E, v, B)]
           g == [v \in A \cup {x} |-> Into(E, v, B)]
<1>1. IsFiniteSet(A) /\ \A v \in V : Into(E, v, B) \in Nat
  BY CutType
<1>2. \A v \in A : g[v] \in Int /\ f[v] = g[v]
  BY <1>1
<1>3. \A v \in A \cup {x} : g[v] \in Int
  BY <1>1
<1>4. Cut(E, A, B) = SumFunctionOnSet(f, A) /\ Cut(E, A \cup {x}, B) = SumFunctionOnSet(g, A \cup {x})
  BY DEF Cut, SumFunction
<1>5. g[x] = Into(E, x, B) /\ g[x] \in Int
  BY <1>1
<1> HIDE DEF f, g
<1>6. SumFunctionOnSet(f, A) = SumFunctionOnSet(g, A)
  BY ONLY <1>1, <1>2, SumEqual
<1>7. SumFunctionOnSet(g, A \cup {x}) = g[x] + SumFunctionOnSet(g, A)
  <2>1. x \notin A
    OBVIOUS
  <2> QED BY ONLY <1>1, <1>3, <2>1, SumAdd
<1>8. SumFunctionOnSet(g, A) \in Int
  BY ONLY <1>1, <1>2, SumStep
<1> QED BY <1>4, <1>5, <1>6, <1>7, <1>8

\* One vertex more on the right: an edge may be read from either end.
LEMMA CutColumn ==
  ASSUME NEW V, NEW E, Graph(E, V), NEW A \in SUBSET V, NEW B \in SUBSET V, NEW x \in V \ B
  PROVE  Cut(E, A, B \cup {x}) = Cut(E, A, B) + Into(E, x, A)
<1> DEFINE f == [v \in A |-> Into(E, v, B)]
           h == [v \in A |-> Into(E, v, B \cup {x})]
           g == E[x]
<1>1. IsFiniteSet(A) /\ IsFiniteSet(B) /\ \A v \in V : Into(E, v, B) \in Nat
  BY CutType
<1>2. ASSUME NEW v \in V PROVE Into(E, v, B \cup {x}) = Into(E, v, B) + E[v][x]
  <2> DEFINE e == E[v]
  <2>1. x \notin B /\ \A u \in B \cup {x} : e[u] \in Int
    BY DEF Graph
  <2>2. e[x] \in Int
    BY <2>1
  <2>3. Into(E, v, B) \in Int
    BY <1>1
  <2> HIDE DEF e
  <2>4. SumFunctionOnSet(e, B \cup {x}) = e[x] + SumFunctionOnSet(e, B)
    BY ONLY <1>1, <2>1, SumAdd
  <2> QED BY <2>2, <2>3, <2>4 DEF e, Into
<1>3. \A v \in A : f[v] \in Int /\ g[v] \in Int /\ h[v] = f[v] + g[v]
  <2> SUFFICES ASSUME NEW v \in A PROVE f[v] \in Int /\ g[v] \in Int /\ h[v] = f[v] + g[v]
    OBVIOUS
  <2>1. E[v][x] = E[x][v] /\ E[x][v] \in Int
    BY DEF Graph
  <2>2. Into(E, v, B) \in Int /\ Into(E, v, B \cup {x}) = Into(E, v, B) + E[v][x]
    <3>1. v \in V
      OBVIOUS
    <3>2. Into(E, v, B) \in Int
      BY <1>1, <3>1
    <3>3. Into(E, v, B \cup {x}) = Into(E, v, B) + E[v][x]
      BY <1>2, <3>1, Zenon
    <3> QED BY <3>2, <3>3
  <2>3. f[v] = Into(E, v, B) /\ h[v] = Into(E, v, B \cup {x}) /\ g[v] = E[x][v]
    OBVIOUS
  <2> HIDE DEF f, g, h
  <2> QED BY <2>1, <2>2, <2>3
<1>4. Cut(E, A, B) = SumFunctionOnSet(f, A) /\ Cut(E, A, B \cup {x}) = SumFunctionOnSet(h, A)
  BY DEF Cut, SumFunction
<1>5. Into(E, x, A) = SumFunctionOnSet(g, A)
  BY DEF Into
<1> HIDE DEF f, g, h
<1>6. SumFunctionOnSet(h, A) = SumFunctionOnSet(f, A) + SumFunctionOnSet(g, A)
  BY ONLY <1>1, <1>3, SumPlus
<1> QED BY <1>4, <1>5, <1>6

\* x joins the group G out of the rest H: what ComputeEdges2Shard counts for the
\* group changes by the edges of x.
Joined(E, H, G, x) ==
  /\ Cut(E, H, G \cup {x}) = Cut(E, H \cup {x}, G) - Into(E, x, G) + Into(E, x, H)
  /\ Cut(E, H, G \cup {x}) + Cut(E, G \cup {x}, G \cup {x}) \div 2
       = Cut(E, H \cup {x}, G) + Cut(E, G, G) \div 2 + Into(E, x, H)

LEMMA JoinGroup ==
  ASSUME NEW V, NEW E, Graph(E, V), NEW G \in SUBSET V, NEW H \in SUBSET V, NEW x \in V,
         x \notin G, x \notin H
  PROVE  Joined(E, H, G, x)
<1> DEFINE GX == G \cup {x}
           a == Cut(E, H, G)
           i == Cut(E, G, G)
           g == Into(E, x, G)
           h == Into(E, x, H)
<1>1. a \in Nat /\ i \in Nat /\ g \in Nat /\ h \in Nat
  BY CutType
<1>2. GX \in SUBSET V /\ x \in V \ G /\ x \in V \ H
  OBVIOUS
<1>3. Cut(E, H, GX) = a + h
  BY <1>2, CutColumn
<1>4. Cut(E, H \cup {x}, G) = a + g
  BY <1>2, CutRow
<1>5. Cut(E, G, GX) = i + g
  BY <1>2, CutColumn
<1>6. Cut(E, GX, GX) = Cut(E, G, GX) + Into(E, x, GX)
  BY <1>2, CutRow
<1>7. Into(E, x, GX) = g
  <2> DEFINE e == E[x]
  <2>1. IsFiniteSet(G) /\ e[x] = 0 /\ \A u \in G \cup {x} : e[u] \in Int
    <3>1. IsFiniteSet(G)
      BY FS_Subset DEF Graph
    <3>2. e[x] = 0 /\ \A u \in G \cup {x} : e[u] \in Int
      BY DEF Graph
    <3> QED BY <3>1, <3>2
  <2> HIDE DEF e
  <2>2. SumFunctionOnSet(e, G \cup {x}) = e[x] + SumFunctionOnSet(e, G)
    BY ONLY <2>1, x \notin G, SumAdd
  <2>3. SumFunctionOnSet(e, G) = g
    BY DEF e, Into
  <2>4. SumFunctionOnSet(e, GX) = g
    BY <1>1, <2>1, <2>2, <2>3
  <2> QED BY <2>4 DEF e, Into
<1> HIDE DEF a, i, g, h, GX
<1>8. Cut(E, GX, GX) = i + g + g
  BY <1>1, <1>5, <1>6, <1>7
<1>9. Cut(E, GX, GX) \div 2 = i \div 2 + g
  BY <1>1, <1>8
<1>10. i \div 2 \in Nat
  BY <1>1
<1>11. /\ Cut(E, H, GX) = Cut(E, H \cup {x}, G) - g + h
       /\ Cut(E, H, GX) + Cut(E, GX, GX) \div 2 = Cut(E, H \cup {x}, G) + i \div 2 + h
  <2> DEFINE j == i \div 2
  <2> HIDE DEF j
  <2>1. j \in Nat /\ Cut(E, GX, GX) \div 2 = j + g
    BY <1>9, <1>10 DEF j
  <2>2. /\ Cut(E, H, GX) = Cut(E, H \cup {x}, G) - g + h
        /\ Cut(E, H, GX) + Cut(E, GX, GX) \div 2 = Cut(E, H \cup {x}, G) + j + h
    BY <1>1, <1>3, <1>4, <2>1
  <2> QED BY <2>2 DEF j
<1> QED BY <1>11 DEF g, h, i, GX, Joined

LEMMA ShardsFinite == IsFiniteSet(Shard) /\ Shard # {}
<1>1. ShardNum \in Nat \ {0} /\ 0 \in Int /\ ShardNum - 1 \in Int
  BY ConfigAssumption
<1> DEFINE n == ShardNum - 1
<1>2. n \in Nat
  BY <1>1
<1> HIDE DEF n
<1>3. IsFiniteSet(0 .. n) /\ 0 \in 0 .. n
  BY <1>2, FS_Interval
<1> QED BY <1>3 DEF Shard, n

-----------------------------------------------------------------------------
(* What a move does to the weights.                                        *)

At(p, s) == {v \in VertexSet : p[v] = s}
Off(p, s) == {v \in VertexSet : p[v] # s}

LEMMA AsCuts ==
  ASSUME NEW p, NEW s
  PROVE  /\ \A v : Degree(v, {s}, p) = Into(EdgeSet, v, At(p, s))
         /\ CrossEdges(s, p) = Cut(EdgeSet, Off(p, s), At(p, s))
         /\ InterEdges(s, p) = Cut(EdgeSet, At(p, s), At(p, s))
<1>1. {u \in VertexSet : p[u] \in {s}} = At(p, s)
  BY DEF At
<1>2. \A v : Degree(v, {s}, p) = Into(EdgeSet, v, At(p, s))
  BY <1>1 DEF Degree, Into
<1>3. CrossEdges(s, p) = Cut(EdgeSet, Off(p, s), At(p, s))
  BY <1>2 DEF CrossEdges, Cut, Off
<1>4. InterEdges(s, p) = Cut(EdgeSet, At(p, s), At(p, s))
  BY <1>2 DEF InterEdges, Cut, At
<1> QED BY <1>2, <1>3, <1>4

LEMMA WeightTypes ==
  ASSUME Graph(EdgeSet, VertexSet), NEW p
  PROVE  /\ \A s \in Shard : CrossEdges(s, p) \in Nat /\ InterEdges(s, p) \in Nat
         /\ Weights(p) \in [Shard -> Nat]
         /\ CrossNum(p) \in Nat
<1>1. ASSUME NEW s \in Shard PROVE CrossEdges(s, p) \in Nat /\ InterEdges(s, p) \in Nat
  <2>1. Off(p, s) \in SUBSET VertexSet /\ At(p, s) \in SUBSET VertexSet
    BY DEF Off, At
  <2>2. Cut(EdgeSet, Off(p, s), At(p, s)) \in Nat /\ Cut(EdgeSet, At(p, s), At(p, s)) \in Nat
    BY <2>1, CutType
  <2> QED BY <2>2, AsCuts
<1>2. \A n \in Nat : n \div 2 \in Nat
  OBVIOUS
<1>3. Weights(p) \in [Shard -> Nat]
  BY <1>1, <1>2 DEF Weights
<1>4. CrossNum(p) \in Nat
  <2> DEFINE f == [s \in Shard |-> CrossEdges(s, p)]
  <2>1. \A s \in Shard : f[s] \in Nat
    BY <1>1
  <2>2. SumFunction(f) = SumFunctionOnSet(f, Shard)
    BY DEF SumFunction
  <2>3. IsFiniteSet(Shard)
    BY ShardsFinite
  <2>4. CrossNum(p) = SumFunction(f) \div 2
    BY DEF CrossNum
  <2> HIDE DEF f
  <2>5. SumFunction(f) \in Nat
    BY <2>1, <2>2, <2>3, SumOfPart
  <2> QED BY <1>2, <2>4, <2>5
<1> QED BY <1>1, <1>3, <1>4

\* The vertex x moves from one shard to the other: the weights of these two and
\* the number of cross-shard edges change by what changeShardRecompute adds.
LEMMA MoveWeights ==
  ASSUME Graph(EdgeSet, VertexSet), NEW p, \A v \in VertexSet : p[v] \in Shard,
         NEW x \in VertexSet, NEW k \in Shard, k # p[x],
         NEW q, \A v \in VertexSet : q[v] = IF v = x THEN k ELSE p[v]
  PROVE  LET old == p[x]
             inNew == Degree(x, {k}, p)
             inOld == Degree(x, {old}, p)
             inThird == Degree(x, Shard \ {old, k}, p)
         IN /\ Weights(q) = [Weights(p) EXCEPT ![k] = @ + inThird + inOld, ![old] = @ - inThird - inNew]
            /\ CrossNum(q) = CrossNum(p) + inOld - inNew
<1> DEFINE old == p[x]
           inNew == Degree(x, {k}, p)
           inOld == Degree(x, {old}, p)
           inThird == Degree(x, Shard \ {old, k}, p)
           N == At(p, k)
           O == At(p, old) \ {x}
           T == {v \in VertexSet : p[v] \notin {old, k}}
<1>1. old \in Shard /\ old # k
  OBVIOUS
<1>2. /\ N \in SUBSET VertexSet /\ O \in SUBSET VertexSet /\ T \in SUBSET VertexSet
      /\ x \notin N /\ x \notin O /\ x \notin T /\ O \cap T = {} /\ N \cap T = {}
  BY <1>1 DEF At
<1>3. /\ At(p, k) = N /\ Off(p, k) = (O \cup T) \cup {x}
      /\ At(q, k) = N \cup {x} /\ Off(q, k) = O \cup T
      /\ At(p, old) = O \cup {x} /\ Off(p, old) = N \cup T
      /\ At(q, old) = O /\ Off(q, old) = (N \cup T) \cup {x}
  <2>1. At(p, k) = N /\ Off(p, k) = (O \cup T) \cup {x}
    BY <1>1 DEF At, Off
  <2>2. At(q, k) = N \cup {x} /\ Off(q, k) = O \cup T
    BY <1>1 DEF At, Off
  <2>3. At(p, old) = O \cup {x} /\ Off(p, old) = N \cup T
    BY <1>1 DEF At, Off
  <2>4. At(q, old) = O /\ Off(q, old) = (N \cup T) \cup {x}
    BY <1>1 DEF At, Off
  <2> QED BY <2>1, <2>2, <2>3, <2>4
<1>4. ASSUME NEW s \in Shard, s # k, s # old
      PROVE  At(q, s) = At(p, s) /\ Off(q, s) = Off(p, s)
  BY <1>1, <1>4 DEF At, Off
<1> DEFINE iN == Into(EdgeSet, x, N)
           iO == Into(EdgeSet, x, O)
           iT == Into(EdgeSet, x, T)
<1>5. iN \in Nat /\ iO \in Nat /\ iT \in Nat /\ IsFiniteSet(N) /\ IsFiniteSet(O) /\ IsFiniteSet(T)
  BY <1>2, CutType
<1> DEFINE e == EdgeSet[x]
<1>6. e[x] = 0 /\ \A u \in VertexSet : e[u] \in Int
  BY DEF Graph
<1>7. inNew = iN
  BY <1>3, AsCuts
<1>8. inThird = iT
  <2>1. {u \in VertexSet : p[u] \in Shard \ {old, k}} = T
    OBVIOUS
  <2> QED BY <2>1 DEF Degree, Into
<1>9. inOld = iO
  <2>1. inOld = Into(EdgeSet, x, O \cup {x})
    BY <1>3, AsCuts
  <2> HIDE DEF e
  <2>2. \A u \in O \cup {x} : e[u] \in Int
    BY <1>2, <1>6
  <2> HIDE DEF O
  <2>3. SumFunctionOnSet(e, O \cup {x}) = e[x] + SumFunctionOnSet(e, O)
    BY ONLY <1>2, <1>5, <2>2, SumAdd
  <2>4. SumFunctionOnSet(e, O) = iO
    BY DEF e, Into
  <2>5. SumFunctionOnSet(e, O \cup {x}) = iO
    BY <1>5, <1>6, <2>3, <2>4
  <2> QED BY <2>1, <2>5 DEF e, Into
<1>10. Into(EdgeSet, x, O \cup T) = iO + iT /\ Into(EdgeSet, x, N \cup T) = iN + iT
  <2> HIDE DEF e
  <2>1. (\A u \in O \cup T : e[u] \in Int) /\ (\A u \in N \cup T : e[u] \in Int)
    BY <1>2, <1>6
  <2> HIDE DEF O, N, T
  <2>2. SumFunctionOnSet(e, O \cup T) = SumFunctionOnSet(e, O) + SumFunctionOnSet(e, T)
    BY ONLY <1>2, <1>5, <2>1, SumUnion
  <2>3. SumFunctionOnSet(e, N \cup T) = SumFunctionOnSet(e, N) + SumFunctionOnSet(e, T)
    BY ONLY <1>2, <1>5, <2>1, SumUnion
  <2> QED BY <2>2, <2>3 DEF e, Into
<1> HIDE DEF N, O, T, inNew, inOld, inThird
<1>11. /\ CrossEdges(k, q) = CrossEdges(k, p) - iN + (iO + iT)
       /\ CrossEdges(k, q) + InterEdges(k, q) \div 2 = CrossEdges(k, p) + InterEdges(k, p) \div 2 + (iO + iT)
  <2> DEFINE H == O \cup T
  <2>1. H \in SUBSET VertexSet /\ x \notin H
    BY <1>2
  <2>2. /\ Cut(EdgeSet, H, N \cup {x}) = Cut(EdgeSet, H \cup {x}, N) - iN + Into(EdgeSet, x, H)
        /\ Cut(EdgeSet, H, N \cup {x}) + Cut(EdgeSet, N \cup {x}, N \cup {x}) \div 2
             = Cut(EdgeSet, H \cup {x}, N) + Cut(EdgeSet, N, N) \div 2 + Into(EdgeSet, x, H)
    <3> HIDE DEF H
    <3>1. N \in SUBSET VertexSet /\ x \notin N
      BY <1>2
    <3>2. Joined(EdgeSet, H, N, x)
      BY <2>1, <3>1, JoinGroup
    <3> QED BY <3>2, Zenon DEF Joined, iN
  <2>3. /\ CrossEdges(k, q) = Cut(EdgeSet, H, N \cup {x}) /\ CrossEdges(k, p) = Cut(EdgeSet, H \cup {x}, N)
        /\ InterEdges(k, q) = Cut(EdgeSet, N \cup {x}, N \cup {x}) /\ InterEdges(k, p) = Cut(EdgeSet, N, N)
    BY <1>3, AsCuts, ZenonT(30)
  <2> QED BY <1>10, <2>2, <2>3
<1>12. /\ CrossEdges(old, p) = CrossEdges(old, q) - iO + (iN + iT)
       /\ CrossEdges(old, p) + InterEdges(old, p) \div 2 = CrossEdges(old, q) + InterEdges(old, q) \div 2 + (iN + iT)
  <2> DEFINE H == N \cup T
  <2>1. H \in SUBSET VertexSet /\ x \notin H
    BY <1>2
  <2>2. /\ Cut(EdgeSet, H, O \cup {x}) = Cut(EdgeSet, H \cup {x}, O) - iO + Into(EdgeSet, x, H)
        /\ Cut(EdgeSet, H, O \cup {x}) + Cut(EdgeSet, O \cup {x}, O \cup {x}) \div 2
             = Cut(EdgeSet, H \cup {x}, O) + Cut(EdgeSet, O, O) \div 2 + Into(EdgeSet, x, H)
    <3> HIDE DEF H
    <3>1. O \in SUBSET VertexSet /\ x \notin O
      BY <1>2
    <3>2. Joined(EdgeSet, H, O, x)
      BY <2>1, <3>1, JoinGroup
    <3> QED BY <3>2, Zenon DEF Joined, iO
  <2>3. /\ CrossEdges(old, p) = Cut(EdgeSet, H, O \cup {x}) /\ CrossEdges(old, q) = Cut(EdgeSet, H \cup {x}, O)
        /\ InterEdges(old, p) = Cut(EdgeSet, O \cup {x}, O \cup {x}) /\ InterEdges(old, q) = Cut(EdgeSet, O, O)
    BY <1>3, AsCuts, ZenonT(30)
  <2> QED BY <1>10, <2>2, <2>3
<1> HIDE DEF iN, iO, iT, e, old
<1>13. ASSUME NEW s \in Shard, s # k, s # old
       PROVE  CrossEdges(s, q) = CrossEdges(s, p) /\ InterEdges(s, q) = InterEdges(s, p)
  BY <1>4, <1>13, AsCuts
<1>14. /\ \A s \in Shard : CrossEdges(s, p) \in Nat /\ CrossEdges(s, q) \in Nat
       /\ Weights(p) \in [Shard -> Nat] /\ Weights(q) \in [Shard -> Nat]
  BY WeightTypes
<1>15. \A s \in Shard : /\ Weights(p)[s] = CrossEdges(s, p) + InterEdges(s, p) \div 2
                        /\ Weights(q)[s] = CrossEdges(s, q) + InterEdges(s, q) \div 2
  BY DEF Weights
<1>16. /\ Weights(q)[k] = Weights(p)[k] + (iO + iT)
       /\ Weights(p)[old] = Weights(q)[old] + (iN + iT)
       /\ \A s \in Shard : s # k /\ s # old => Weights(q)[s] = Weights(p)[s]
  BY <1>1, <1>11, <1>12, <1>13, <1>15
<1>17. Weights(q) = [Weights(p) EXCEPT ![k] = @ + inThird + inOld, ![old] = @ - inThird - inNew]
  <2> DEFINE W == Weights(p)
             Z == Weights(q)
  <2> HIDE DEF W, Z
  <2>1. W \in [Shard -> Nat] /\ Z \in [Shard -> Nat]
    BY <1>14 DEF W, Z
  <2>2. /\ Z[k] = W[k] + inThird + inOld /\ Z[old] = W[old] - inThird - inNew
        /\ \A s \in Shard : s # k /\ s # old => Z[s] = W[s]
    BY <1>1, <1>5, <1>7, <1>8, <1>9, <1>16, <2>1 DEF W, Z
  <2>3. Z = [W EXCEPT ![k] = W[k] + inThird + inOld, ![old] = W[old] - inThird - inNew]
    BY <1>1, <2>1, <2>2
  <2> QED BY <1>1, <2>3 DEF W, Z
<1>18. CrossNum(q) = CrossNum(p) + inOld - inNew
  <2> DEFINE f == [s \in Shard |-> CrossEdges(s, p)]
             g == [s \in Shard |-> CrossEdges(s, q)]
             h == [f EXCEPT ![k] = g[k]]
             F == SumFunctionOnSet(f, Shard)
             G == SumFunctionOnSet(g, Shard)
             M == SumFunctionOnSet(h, Shard)
  <2>1. \A s \in Shard : f[s] \in Int /\ g[s] \in Int /\ h[s] \in Int
    BY <1>14
  <2>2. \A s \in Shard : /\ s # k => h[s] = f[s]
                         /\ s # old => g[s] = h[s]
    BY <1>1, <1>13
  <2>3. h[k] = g[k] /\ h[old] = f[old]
    BY <1>1
  <2>4. g[k] = f[k] - iN + (iO + iT) /\ f[old] = g[old] - iO + (iN + iT)
    BY <1>1, <1>11, <1>12
  <2>5. IsFiniteSet(Shard)
    BY ShardsFinite
  <2>6. CrossNum(p) = F \div 2 /\ CrossNum(q) = G \div 2
    BY DEF CrossNum, SumFunction
  <2> HIDE DEF f, g, h
  <2>7. M = F - f[k] + h[k]
    <3>1. \A s \in Shard : f[s] \in Int /\ h[s] \in Int /\ (s # k => h[s] = f[s])
      BY <2>1, <2>2
    <3> QED BY ONLY <2>5, <3>1, k \in Shard, SumUpdate
  <2>8. G = M - h[old] + g[old]
    <3>1. \A s \in Shard : h[s] \in Int /\ g[s] \in Int /\ (s # old => g[s] = h[s])
      BY <2>1, <2>2
    <3> QED BY ONLY <2>5, <3>1, <1>1, SumUpdate
  <2>9. F \in Int
    BY ONLY <2>1, <2>5, SumStep
  <2> HIDE DEF F, G, M
  <2>10. f[k] \in Int /\ f[old] \in Int /\ g[k] \in Int /\ g[old] \in Int
    BY <1>1, <2>1
  <2>11. G = F + (iO - iN) + (iO - iN)
    BY <1>5, <2>3, <2>4, <2>7, <2>8, <2>9, <2>10
  <2>12. G \div 2 = F \div 2 + (iO - iN)
    <3> DEFINE d == iO - iN
    <3>1. d \in Int
      BY <1>5
    <3> HIDE DEF d
    <3>2. G = F + d + d
      BY <2>11 DEF d
    <3>3. G \div 2 = F \div 2 + d
      BY <2>9, <3>1, <3>2
    <3> QED BY <3>3 DEF d
  <2>13. F \div 2 \in Int
    BY <2>9
  <2> QED BY <1>5, <1>7, <1>9, <2>6, <2>12, <2>13
<1> QED BY <1>17, <1>18 DEF old, inNew, inOld, inThird

-----------------------------------------------------------------------------
(* The invariant of a run.                                                 *)

\* An edge is entered at both of its ends, which differ.
GraphSimple ==
  /\ IsFiniteSet(VertexSet)
  /\ \A u, v \in Account : EdgeSet[u][v] = EdgeSet[v][u]
  /\ \A v \in Account : EdgeSet[v][v] = 0

GraphInv == WeightsExact /\ MapsInv /\ GraphSimple /\ SizesExact

LEMMA SimpleGraph ==
  ASSUME TypeOK, GraphSimple
  PROVE  /\ Graph(EdgeSet, VertexSet)
         /\ \A v \in DOMAIN PartitionMap : PartitionMap[v] \in Shard
         /\ \A v \in VertexSet : PartitionMap[v] \in Shard
<1>1. Graph(EdgeSet, VertexSet)
  BY DEF TypeOK, GraphSimple, Graph
<1>2. \A v \in DOMAIN PartitionMap : PartitionMap[v] \in Shard
  BY DEF TypeOK, Range
<1> QED BY <1>1, <1>2 DEF TypeOK

\* The number of edges between u and v grows, and no other.
OneMore(E, F, u, v) ==
  /\ F \in [Account -> [Account -> Nat]]
  /\ F[u][v] = E[u][v] + 1 /\ F[v][u] = E[v][u] + 1
  /\ \A a, b \in Account : <<a, b>> \notin {<<u, v>>, <<v, u>>} => F[a][b] = E[a][b]

LEMMA OneEdgeMore ==
  ASSUME NEW E \in [Account -> [Account -> Nat]], NEW u \in Account, NEW v \in Account, u # v,
         NEW F, F = [E EXCEPT ![u][v] = @ + 1, ![v][u] = @ + 1]
  PROVE  OneMore(E, F, u, v)
<1>1. DOMAIN F = Account /\ F = [a \in Account |-> F[a]]
  OBVIOUS
<1>2. F[u] = [E[u] EXCEPT ![v] = E[u][v] + 1]
  OBVIOUS
<1>3. F[v] = [E[v] EXCEPT ![u] = E[v][u] + 1]
  OBVIOUS
<1>4. \A a \in Account : a # u /\ a # v => F[a] = E[a]
  OBVIOUS
<1>5. E[u] \in [Account -> Nat] /\ E[v] \in [Account -> Nat] /\ E[u][v] + 1 \in Nat /\ E[v][u] + 1 \in Nat
  OBVIOUS
<1>6. F[u] \in [Account -> Nat] /\ F[v] \in [Account -> Nat]
  BY ONLY <1>2, <1>3, <1>5
<1>7. \A a \in Account : F[a] \in [Account -> Nat]
  BY <1>4, <1>6
<1>8. F \in [Account -> [Account -> Nat]]
  BY ONLY <1>1, <1>7
<1> QED BY <1>2, <1>3, <1>4, <1>5, <1>8 DEF OneMore

\* A new vertex is counted in the shard it is entered in.
LEMMA AddEdgeKeepsGraph ==
  ASSUME TypeOK, MapsInv, GraphSimple, SizesExact,
         NEW u \in Account, NEW v \in Account, AddEdge(u, v)
  PROVE  TypeOK' /\ GraphSimple' /\ SizesExact' /\ ~running'
<1> DEFINE new == {u, v} \ VertexSet
           entries == [w \in new |-> Lookup(PartitionMap, w)]
           old(s) == {w \in VertexSet : PartitionMap[w] = s}
           add(s) == {w \in new : Lookup(PartitionMap, w) = s}
<1>1. /\ ~running' /\ u # v /\ VertexSet' = VertexSet \cup {u, v}
      /\ PartitionMap' = Put(PartitionMap, entries)
      /\ VertexsNumInShard' = [s \in Shard |-> VertexsNumInShard[s] + Cardinality(add(s))]
      /\ EdgeSet' = [EdgeSet EXCEPT ![u][v] = @ + 1, ![v][u] = @ + 1]
      /\ UNCHANGED <<Edges2Shard, MinEdges2Shard, CrossShardEdgeNum, iter, todo, updateTreshold>>
  BY DEF AddEdge, NewVertexes, runVars, weightVars
<1>2. /\ DOMAIN PartitionMap' = DOMAIN PartitionMap \cup new
      /\ \A w \in DOMAIN PartitionMap' : PartitionMap'[w] = Lookup(PartitionMap, w)
  BY <1>1 DEF Put, Lookup
<1>3. \A w \in Account : Lookup(PartitionMap, w) \in Shard
  BY SimpleGraph, ConfigAssumption DEF Lookup
<1>4. /\ EdgeSet' \in [Account -> [Account -> Nat]]
      /\ EdgeSet'[u][v] = EdgeSet[u][v] + 1 /\ EdgeSet'[v][u] = EdgeSet[v][u] + 1
      /\ \A a, b \in Account : <<a, b>> \notin {<<u, v>>, <<v, u>>} => EdgeSet'[a][b] = EdgeSet[a][b]
  <2>1. EdgeSet \in [Account -> [Account -> Nat]] /\ u # v
    BY <1>1 DEF TypeOK
  <2>2. EdgeSet' = [EdgeSet EXCEPT ![u][v] = @ + 1, ![v][u] = @ + 1]
    BY <1>1
  <2>3. OneMore(EdgeSet, EdgeSet', u, v)
    BY <2>1, <2>2, OneEdgeMore, Zenon
  <2> QED BY <2>3, Zenon DEF OneMore
<1>5. GraphSimple'
  <2>1. IsFiniteSet(VertexSet')
    <3>1. IsFiniteSet(VertexSet)
      BY DEF GraphSimple
    <3>2. VertexSet' = (VertexSet \cup {u}) \cup {v}
      BY <1>1
    <3> QED BY <3>1, <3>2, FS_AddElement
  <2>4. /\ \A a, b \in Account : EdgeSet[a][b] = EdgeSet[b][a]
        /\ \A a \in Account : EdgeSet[a][a] = 0
    BY DEF GraphSimple
  <2>5. ASSUME NEW a \in Account, NEW b \in Account PROVE EdgeSet'[a][b] = EdgeSet'[b][a]
    <3>1. CASE <<a, b>> \in {<<u, v>>, <<v, u>>}
      BY <1>4, <2>4, <3>1
    <3>2. CASE <<a, b>> \notin {<<u, v>>, <<v, u>>}
      <4>1. <<b, a>> \notin {<<u, v>>, <<v, u>>}
        BY <3>2
      <4> QED BY <1>4, <2>4, <3>2, <4>1
    <3> QED BY <3>1, <3>2
  <2>6. ASSUME NEW a \in Account PROVE EdgeSet'[a][a] = 0
    <3>1. <<a, a>> \notin {<<u, v>>, <<v, u>>}
      BY <1>1
    <3> QED BY <1>4, <2>4, <3>1
  <2> QED BY <2>1, <2>5, <2>6 DEF GraphSimple
<1>6. ASSUME NEW s \in Shard
      PROVE  /\ VertexsNumInShard'[s] = Cardinality({w \in VertexSet' : PartitionMap'[w] = s})
             /\ VertexsNumInShard'[s] \in Nat
  <2>1. {w \in VertexSet' : PartitionMap'[w] = s} = old(s) \cup add(s)
    <3>1. VertexSet' \subseteq DOMAIN PartitionMap'
      BY <1>1, <1>2 DEF TypeOK
    <3>2. \A w \in VertexSet : w \in DOMAIN PartitionMap /\ PartitionMap[w] = Lookup(PartitionMap, w)
      BY DEF TypeOK, Lookup
    <3> QED BY <1>1, <1>2, <3>1, <3>2
  <2>2. old(s) \cap add(s) = {}
    OBVIOUS
  <2>3. IsFiniteSet(old(s)) /\ IsFiniteSet(add(s))
    <3>1. IsFiniteSet(VertexSet) /\ IsFiniteSet(VertexSet \cup {u, v})
      <4>1. IsFiniteSet((VertexSet \cup {u}) \cup {v}) /\ IsFiniteSet(VertexSet)
        BY FS_AddElement DEF GraphSimple
      <4>2. (VertexSet \cup {u}) \cup {v} = VertexSet \cup {u, v}
        OBVIOUS
      <4> QED BY <4>1, <4>2
    <3>2. old(s) \subseteq VertexSet /\ add(s) \subseteq VertexSet \cup {u, v}
      OBVIOUS
    <3> QED BY <3>1, <3>2, FS_Subset
  <2>4. /\ Cardinality(old(s) \cup add(s)) = Cardinality(old(s)) + Cardinality(add(s)) - Cardinality({})
        /\ Cardinality(old(s)) \in Nat /\ Cardinality(add(s)) \in Nat /\ Cardinality({}) = 0
    <3> HIDE DEF old, add
    <3> QED BY <2>2, <2>3, FS_Union, FS_CardinalityType, FS_EmptySet
  <2>5. VertexsNumInShard[s] = Cardinality(old(s))
    BY DEF SizesExact
  <2>6. VertexsNumInShard'[s] = VertexsNumInShard[s] + Cardinality(add(s))
    BY <1>1
  <2> HIDE DEF old, add
  <2>7. /\ VertexsNumInShard'[s] = Cardinality(old(s) \cup add(s))
        /\ VertexsNumInShard'[s] \in Nat
    BY <2>4, <2>5, <2>6
  <2> QED BY <2>1, <2>7
<1>7. TypeOK'
  <2>1. /\ VertexSet' \subseteq Account /\ VertexSet' \subseteq DOMAIN PartitionMap'
        /\ DOMAIN PartitionMap' \subseteq Account /\ todo' \subseteq VertexSet'
    BY <1>1, <1>2 DEF TypeOK
  <2>2. Range(PartitionMap') \subseteq Shard
    BY <1>2, <1>3, <2>1 DEF Range
  <2>3. VertexsNumInShard' \in [Shard -> Nat]
    <3>1. VertexsNumInShard' = [s \in Shard |-> VertexsNumInShard'[s]]
      BY <1>1
    <3> QED BY <1>6, <3>1
  <2> QED BY <1>1, <1>4, <2>1, <2>2, <2>3 DEF TypeOK
<1>8. SizesExact'
  BY <1>6 DEF SizesExact
<1> QED BY <1>1, <1>5, <1>7, <1>8

\* The least of the weights is one of them.
LEMMA LeastWeight ==
  ASSUME NEW W \in [Shard -> Nat]
  PROVE  Min(Range(W)) \in Nat /\ \A s \in Shard : Min(Range(W)) <= W[s]
<1>1. IsFiniteSet(Shard) /\ Shard # {} /\ \A s \in Shard : W[s] \in Int
  BY ShardsFinite
<1>2. PICK x, y \in Shard : \A z \in Shard : W[x] <= W[z] /\ W[z] <= W[y]
  BY <1>1, Extremes
<1>3. Range(W) = {W[s] : s \in Shard}
  BY DEF Range
<1>4. \E m \in Range(W) : \A n \in Range(W) : m <= n
  BY <1>2, <1>3
<1>5. Min(Range(W)) \in Range(W) /\ \A n \in Range(W) : Min(Range(W)) <= n
  BY <1>4 DEF Min
<1> QED BY <1>3, <1>5

LEMMA BestIsShard ==
  ASSUME TypeOK, GraphSimple, NEW v \in VertexSet, NEW k \in BestShards(v)
  PROVE  k \in Shard
<1>1. \A w \in VertexSet : PartitionMap[w] \in Shard
  BY SimpleGraph
<1> QED BY <1>1 DEF BestShards

\* A move keeps sizes and weights right.
LEMMA MoveKeepsGraph ==
  ASSUME GraphInv, running, NEW v \in todo, NEW k \in BestShards(v), k # PartitionMap[v],
         updateTreshold[v] < UpdateThreshold, Move(v, k),
         todo' = todo \ {v}, UNCHANGED <<VertexSet, EdgeSet, iter>>
  PROVE  WeightsExact' /\ SizesExact'
<1> DEFINE old == PartitionMap[v]
           q == PartitionMap'
           at(s) == {w \in VertexSet : PartitionMap[w] = s}
           qat(s) == {w \in VertexSet : q[w] = s}
<1>1. /\ TypeOK /\ GraphSimple /\ SizesExact /\ Graph(EdgeSet, VertexSet)
      /\ \A w \in VertexSet : PartitionMap[w] \in Shard
  BY SimpleGraph DEF GraphInv, WeightsExact
<1>2. v \in VertexSet /\ VertexSet \subseteq DOMAIN PartitionMap /\ old \in Shard /\ k # old
  BY <1>1 DEF TypeOK
<1>3. k \in Shard
  BY <1>1, <1>2, BestIsShard
<1>4. q = [PartitionMap EXCEPT ![v] = k]
  BY DEF Move
<1>5. DOMAIN q = DOMAIN PartitionMap /\ \A w \in DOMAIN PartitionMap : q[w] = IF w = v THEN k ELSE PartitionMap[w]
  BY <1>4
<1>6. \A w \in VertexSet : q[w] = IF w = v THEN k ELSE PartitionMap[w]
  BY <1>2, <1>5
<1>7. VertexsNumInShard \in [Shard -> Nat]
  BY <1>1 DEF TypeOK
<1>8. /\ VertexsNumInShard' = [VertexsNumInShard EXCEPT ![old] = @ - 1, ![k] = @ + 1]
      /\ updateTreshold' = [updateTreshold EXCEPT ![v] = @ + 1]
  BY DEF Move
<1>9. \A s \in Shard : IsFiniteSet(at(s)) /\ Cardinality(at(s)) \in Nat /\ VertexsNumInShard[s] = Cardinality(at(s))
  <2> SUFFICES ASSUME NEW s \in Shard
               PROVE  IsFiniteSet(at(s)) /\ Cardinality(at(s)) \in Nat /\ VertexsNumInShard[s] = Cardinality(at(s))
    OBVIOUS
  <2>1. at(s) \subseteq VertexSet /\ IsFiniteSet(VertexSet)
    BY <1>1 DEF GraphSimple
  <2>2. IsFiniteSet(at(s))
    BY <2>1, FS_Subset
  <2>3. VertexsNumInShard[s] = Cardinality(at(s))
    BY <1>1 DEF SizesExact
  <2> QED BY <2>2, <2>3, FS_CardinalityType
<1>10. /\ qat(old) = at(old) \ {v} /\ v \in at(old)
       /\ qat(k) = at(k) \cup {v} /\ v \notin at(k)
       /\ \A s \in Shard : s # k /\ s # old => qat(s) = at(s)
  BY <1>2, <1>6
<1>11. Cardinality(qat(old)) = Cardinality(at(old)) - 1 /\ Cardinality(qat(k)) = Cardinality(at(k)) + 1
  <2> HIDE DEF at, qat
  <2>1. IsFiniteSet(at(old)) /\ IsFiniteSet(at(k))
    BY <1>2, <1>3, <1>9
  <2>2. Cardinality(at(old) \ {v}) = IF v \in at(old) THEN Cardinality(at(old)) - 1 ELSE Cardinality(at(old))
    BY ONLY <2>1, FS_RemoveElement
  <2>3. Cardinality(at(k) \cup {v}) = IF v \in at(k) THEN Cardinality(at(k)) ELSE Cardinality(at(k)) + 1
    BY ONLY <2>1, FS_AddElement
  <2> QED BY <1>10, <2>2, <2>3
<1>12. Cardinality(qat(old)) \in Nat
  <2> HIDE DEF at, qat
  <2>1. IsFiniteSet(at(old))
    BY <1>2, <1>9
  <2>2. IsFiniteSet(at(old) \ {v})
    BY <2>1, FS_RemoveElement
  <2> QED BY <1>10, <2>2, FS_CardinalityType
<1>13. \A s \in Shard : VertexsNumInShard'[s] = Cardinality(qat(s)) /\ VertexsNumInShard'[s] \in Nat
  <2> SUFFICES ASSUME NEW s \in Shard
               PROVE  VertexsNumInShard'[s] = Cardinality(qat(s)) /\ VertexsNumInShard'[s] \in Nat
    OBVIOUS
  <2> HIDE DEF at, qat
  <2>1. CASE s = old
    <3>1. VertexsNumInShard'[s] = VertexsNumInShard[s] - 1
      BY <1>2, <1>3, <1>7, <1>8, <2>1
    <3> QED BY <1>9, <1>11, <1>12, <2>1, <3>1
  <2>2. CASE s = k
    <3>1. VertexsNumInShard'[s] = VertexsNumInShard[s] + 1
      BY <1>2, <1>3, <1>7, <1>8, <2>2
    <3> QED BY <1>3, <1>9, <1>11, <2>2, <3>1
  <2>3. CASE s # old /\ s # k
    <3>1. VertexsNumInShard'[s] = VertexsNumInShard[s]
      BY <1>2, <1>3, <1>7, <1>8, <2>3
    <3> QED BY <1>9, <1>10, <2>3, <3>1
  <2> QED BY <2>1, <2>2, <2>3
<1>14. SizesExact'
  BY <1>13 DEF SizesExact
<1> DEFINE inNew == Degree(v, {k}, PartitionMap)
           inOld == Degree(v, {old}, PartitionMap)
           inThird == Degree(v, Shard \ {old, k}, PartitionMap)
<1>15. /\ Weights(q) = [Weights(PartitionMap) EXCEPT ![k] = @ + inThird + inOld, ![old] = @ - inThird - inNew]
       /\ CrossNum(q) = CrossNum(PartitionMap) + inOld - inNew
  <2> HIDE DEF q
  <2> QED BY <1>1, <1>2, <1>3, <1>6, MoveWeights
<1>16. Edges2Shard = Weights(PartitionMap) /\ CrossShardEdgeNum = CrossNum(PartitionMap)
  BY DEF GraphInv, WeightsExact
<1>17. /\ Edges2Shard' = [Edges2Shard EXCEPT ![k] = @ + inThird + inOld, ![old] = @ - inThird - inNew]
       /\ MinEdges2Shard' = Min(Range(Edges2Shard'))
       /\ CrossShardEdgeNum' = CrossShardEdgeNum + inOld - inNew
  BY DEF Move, changeShardRecompute
<1> HIDE DEF inNew, inOld, inThird
<1>18. Edges2Shard' = Weights(q) /\ CrossShardEdgeNum' = CrossNum(q)
  BY <1>15, <1>16, <1>17, Zenon
<1>19. Weights(q) \in [Shard -> Nat] /\ CrossNum(q) \in Nat
  BY <1>1, WeightTypes
<1>20. MinEdges2Shard' = Min(Range(Weights(q))) /\ MinEdges2Shard' \in Nat
  <2>1. Min(Range(Weights(q))) \in Nat
    BY <1>19, LeastWeight
  <2> QED BY <1>17, <1>18, <2>1
<1>21. Weights(PartitionMap)' = Weights(q) /\ CrossNum(PartitionMap)' = CrossNum(q)
  BY DEF Weights, CrossNum, CrossEdges, InterEdges, Degree
<1>22. TypeOK'
  <2>1. Range(PartitionMap') \subseteq Shard
    BY <1>1, <1>3, <1>5 DEF TypeOK, Range
  <2>2. VertexsNumInShard' \in [Shard -> Nat]
    BY <1>7, <1>8, <1>13
  <2>3. updateTreshold' \in [Account -> 0 .. UpdateThreshold]
    <3>1. updateTreshold \in [Account -> 0 .. UpdateThreshold] /\ v \in Account
      BY <1>1, <1>2 DEF TypeOK
    <3>2. UpdateThreshold \in Nat
      BY ConfigAssumption
    <3>3. updateTreshold[v] + 1 \in 0 .. UpdateThreshold
      BY <3>1, <3>2
    <3> QED BY <1>8, <3>1, <3>3
  <2> QED BY <1>1, <1>5, <1>18, <1>19, <1>20, <2>1, <2>2, <2>3 DEF TypeOK
<1>23. Edges2Shard' = Weights(PartitionMap)' /\ CrossShardEdgeNum' = CrossNum(PartitionMap)'
       /\ MinEdges2Shard' = Min(Range(Weights(PartitionMap)'))
  BY <1>18, <1>20, <1>21
<1> QED BY <1>14, <1>22, <1>23 DEF WeightsExact

LEMMA UnmovedKeepsGraph ==
  ASSUME GraphInv, UNCHANGED <<graphVars, weightVars, updateTreshold>>,
         todo' \subseteq VertexSet, iter' \in 0 .. MaxIterations, running' => running
  PROVE  WeightsExact' /\ GraphSimple' /\ SizesExact'
<1>1. UNCHANGED <<VertexSet, EdgeSet, PartitionMap, VertexsNumInShard,
                  Edges2Shard, MinEdges2Shard, CrossShardEdgeNum>>
  BY DEF graphVars, weightVars
<1>2. TypeOK'
  BY <1>1 DEF GraphInv, WeightsExact, TypeOK
<1>3. Weights(PartitionMap)' = Weights(PartitionMap) /\ CrossNum(PartitionMap)' = CrossNum(PartitionMap)
  BY <1>1 DEF Weights, CrossNum, CrossEdges, InterEdges, Degree
<1>4. WeightsExact'
  BY <1>1, <1>2, <1>3 DEF GraphInv, WeightsExact
<1> QED BY <1>1, <1>4 DEF GraphInv, GraphSimple, SizesExact

\* A run starts with the weights of the graph.
LEMMA BeginKeepsGraph ==
  ASSUME GraphInv, Begin
  PROVE  WeightsExact' /\ GraphSimple' /\ SizesExact'
<1>1. /\ UNCHANGED <<VertexSet, EdgeSet, PartitionMap, VertexsNumInShard>>
      /\ todo' = VertexSet /\ iter' = 0 /\ updateTreshold' = [v \in Account |-> 0]
      /\ Edges2Shard' = Weights(PartitionMap) /\ CrossShardEdgeNum' = CrossNum(PartitionMap)
      /\ MinEdges2Shard' = Min(Range(Edges2Shard'))
  BY DEF Begin, graphVars, ComputeEdges2Shard
<1>2. TypeOK /\ Graph(EdgeSet, VertexSet)
  BY SimpleGraph DEF GraphInv, WeightsExact
<1>3. Weights(PartitionMap) \in [Shard -> Nat] /\ CrossNum(PartitionMap) \in Nat
  BY <1>2, WeightTypes
<1>4. MinEdges2Shard' \in Nat
  BY <1>1, <1>3, LeastWeight
<1>5. TypeOK'
  <2>1. 0 \in 0 .. MaxIterations /\ 0 \in 0 .. UpdateThreshold
    BY ConfigAssumption
  <2> QED BY <1>1, <1>2, <1>3, <1>4, <2>1 DEF TypeOK
<1>6. Weights(PartitionMap)' = Weights(PartitionMap) /\ CrossNum(PartitionMap)' = CrossNum(PartitionMap)
  BY <1>1 DEF Weights, CrossNum, CrossEdges, InterEdges, Degree
<1>7. WeightsExact'
  BY <1>1, <1>5, <1>6 DEF WeightsExact
<1> QED BY <1>1, <1>7 DEF GraphInv, GraphSimple, SizesExact

\* The graph before the first report and after a reset.
LEMMA EmptyGraph ==
  ASSUME VertexSet = {}, EdgeSet = [v \in Account |-> NoNeighbours], VertexsNumInShard = PerShard(0),
         Edges2Shard = PerShard(0), MinEdges2Shard = 0, CrossShardEdgeNum = 0, ~running,
         iter = 0, todo = {}, updateTreshold = [v \in Account |-> 0],
         DOMAIN PartitionMap \subseteq Account, \A v \in DOMAIN PartitionMap : PartitionMap[v] \in Shard
  PROVE  WeightsExact /\ GraphSimple /\ SizesExact
<1>1. 0 \in 0 .. MaxIterations /\ 0 \in 0 .. UpdateThreshold
  BY ConfigAssumption
<1>2. TypeOK
  BY <1>1 DEF TypeOK, NoNeighbours, PerShard, Range
<1>3. IsFiniteSet({}) /\ Cardinality({}) = 0
  BY FS_EmptySet
<1>4. GraphSimple
  BY <1>3 DEF GraphSimple, NoNeighbours
<1>5. SizesExact
  <2> SUFFICES ASSUME NEW s \in Shard
               PROVE  VertexsNumInShard[s] = Cardinality({v \in VertexSet : PartitionMap[v] = s})
    BY DEF SizesExact
  <2>1. {v \in VertexSet : PartitionMap[v] = s} = {}
    OBVIOUS
  <2> QED BY <1>3, <2>1 DEF PerShard
<1> QED BY <1>2, <1>4, <1>5 DEF WeightsExact

LEMMA StepKeepsGraph == GraphInv /\ [Next]_vars => GraphInv'
<1> SUFFICES ASSUME GraphInv, [Next]_vars PROVE WeightsExact' /\ GraphSimple' /\ SizesExact'
  BY StepKeepsMaps DEF GraphInv
<1>1. TypeOK /\ MapsInv /\ GraphSimple /\ SizesExact /\ iter \in 0 .. MaxIterations /\ todo \subseteq VertexSet
  BY DEF GraphInv, WeightsExact, TypeOK
<1>2. ASSUME NEW u \in Account, NEW v \in Account, AddEdge(u, v)
      PROVE  WeightsExact' /\ GraphSimple' /\ SizesExact'
  <2>1. TypeOK' /\ GraphSimple' /\ SizesExact' /\ ~running'
    BY <1>1, <1>2, AddEdgeKeepsGraph
  <2> QED BY <2>1 DEF WeightsExact
<1>3. CASE Begin
  BY <1>3, BeginKeepsGraph
<1>4. ASSUME NEW v \in todo, Visit(v)
      PROVE  WeightsExact' /\ GraphSimple' /\ SizesExact'
  <2>1. running /\ todo' = todo \ {v} /\ UNCHANGED <<VertexSet, EdgeSet, running, iter>>
    BY <1>4 DEF Visit
  <2>2. ASSUME NEW k \in BestShards(v), k # PartitionMap[v], updateTreshold[v] < UpdateThreshold, Move(v, k)
        PROVE  WeightsExact' /\ GraphSimple' /\ SizesExact'
    <3>1. WeightsExact' /\ SizesExact'
      BY <2>1, <2>2, MoveKeepsGraph
    <3> QED BY <1>1, <2>1, <3>1 DEF GraphSimple
  <2>3. CASE UNCHANGED <<PartitionMap, res, updateTreshold, VertexsNumInShard, weightVars>>
    <3>1. UNCHANGED <<graphVars, weightVars, updateTreshold>> /\ todo' \subseteq VertexSet
      BY <1>1, <2>1, <2>3 DEF graphVars
    <3> QED BY <1>1, <2>1, <3>1, UnmovedKeepsGraph
  <2> QED BY <1>4, <2>2, <2>3 DEF Visit
<1>5. CASE NextIteration
  <2>1. UNCHANGED <<graphVars, weightVars, updateTreshold, running>> /\ todo' \subseteq VertexSet
    BY <1>5 DEF NextIteration
  <2>2. iter' \in 0 .. MaxIterations
    BY <1>1, <1>5, ConfigAssumption DEF NextIteration
  <2> QED BY <2>1, <2>2, UnmovedKeepsGraph
<1>6. CASE End
  <2>1. /\ VertexSet' = {} /\ EdgeSet' = [v \in Account |-> NoNeighbours] /\ VertexsNumInShard' = PerShard(0)
        /\ Edges2Shard' = PerShard(0) /\ MinEdges2Shard' = 0 /\ CrossShardEdgeNum' = 0 /\ ~running'
        /\ iter' = 0 /\ todo' = {} /\ updateTreshold' = [v \in Account |-> 0]
        /\ PartitionMap' = Put(modifiedMap, res)
    BY <1>6 DEF End, clpaReset
  <2>2. DOMAIN PartitionMap' = DOMAIN modifiedMap \cup DOMAIN res
    BY <2>1 DEF Put
  <2>3. DOMAIN PartitionMap' \subseteq DOMAIN PartitionMap /\ DOMAIN PartitionMap \subseteq Account
    BY <1>1, <2>2 DEF MapsInv, TypeOK
  <2>4. ASSUME NEW v \in DOMAIN PartitionMap' PROVE PartitionMap'[v] \in Shard
    <3>1. PartitionMap[v] = Lookup(Put(modifiedMap, res), v)
      BY <1>1, <2>3 DEF MapsInv
    <3>2. PartitionMap'[v] = PartitionMap[v]
      BY <2>1, <3>1 DEF Lookup
    <3>3. PartitionMap[v] \in Shard
      BY <1>1, <2>3, SimpleGraph
    <3> QED BY <3>2, <3>3
  <2>5. WeightsExact' /\ GraphSimple' /\ SizesExact'
    <3>1. TypeOK'
      <4>1. 0 \in 0 .. MaxIterations /\ 0 \in 0 .. UpdateThreshold
        BY ConfigAssumption
      <4> QED BY <2>1, <2>3, <2>4, <4>1 DEF TypeOK, NoNeighbours, PerShard, Range
    <3>2. GraphSimple'
      BY <2>1, FS_EmptySet DEF GraphSimple, NoNeighbours
    <3>3. \A s \in Shard : {v \in VertexSet' : PartitionMap'[v] = s} = {}
      BY <2>1
    <3>4. SizesExact'
      BY <2>1, <3>3, FS_EmptySet DEF SizesExact, PerShard
    <3> QED BY <2>1, <3>1, <3>2, <3>4 DEF WeightsExact
  <2> QED BY <2>5
<1>7. CASE UNCHANGED vars
  <2>1. UNCHANGED <<graphVars, weightVars, updateTreshold, running, todo, iter>>
    BY <1>7 DEF vars, runVars
  <2>2. todo' \subseteq VertexSet /\ iter' \in 0 .. MaxIterations
    BY <1>1, <2>1
  <2> QED BY <2>1, <2>2, UnmovedKeepsGraph
<1> QED BY <1>2, <1>3, <1>4, <1>5, <1>6, <1>7 DEF Next

LEMMA InitGraph == Init => GraphInv
<1> SUFFICES ASSUME Init PROVE GraphInv
  OBVIOUS
<1>1. MapsInv
  BY EmptyMap DEF Init, Init_CLPAState, MapsInv
<1>2. WeightsExact /\ GraphSimple /\ SizesExact
  BY EmptyMap, EmptyGraph DEF Init, Init_CLPAState
<1> QED BY <1>1, <1>2 DEF GraphInv

\* A move leaves another vertex behind, and is made only where no weight is zero.
LEMMA MovesAreGuarded ==
  ASSUME GraphInv, running, NEW v \in todo, NEW k \in BestShards(v), k # PartitionMap[v],
         MayLeave(PartitionMap[v]), PartitionMap' = [PartitionMap EXCEPT ![v] = k]
  PROVE  /\ \A s \in Shard : (\E w \in VertexSet : PartitionMap[w] = s)
                               => \E w \in VertexSet : PartitionMap'[w] = s
         /\ \A s \in Shard : Weights(PartitionMap)[s] # 0
<1>1. TypeOK /\ GraphSimple /\ SizesExact /\ Graph(EdgeSet, VertexSet)
  BY SimpleGraph DEF GraphInv, WeightsExact
<1>2. v \in VertexSet /\ VertexSet \subseteq DOMAIN PartitionMap /\ PartitionMap[v] \in Shard
  BY <1>1, SimpleGraph DEF TypeOK
<1>3. \A w \in VertexSet : w # v => PartitionMap'[w] = PartitionMap[w]
  BY <1>2
<1>4. ASSUME NEW s \in Shard, NEW w \in VertexSet, PartitionMap[w] = s
      PROVE  \E x \in VertexSet : PartitionMap'[x] = s
  <2>1. CASE w # v
    BY <1>3, <1>4, <2>1
  <2>2. CASE w = v
    <3> DEFINE at == {x \in VertexSet : PartitionMap[x] = s}
    <3>1. Cardinality(at) > 1
      BY <1>1, <1>4, <2>2 DEF SizesExact, MayLeave
    <3>2. at \subseteq VertexSet /\ IsFiniteSet(VertexSet) /\ v \in at
      BY <1>1, <1>4, <2>2 DEF GraphSimple
    <3>3. PICK x \in at : x # v
      <4> HIDE DEF at
      <4>1. IsFiniteSet(at) /\ Cardinality(at) \in Nat
        BY <3>2, FS_Subset, FS_CardinalityType
      <4>2. Cardinality(at \ {v}) = Cardinality(at) - 1
        BY <3>2, <4>1, FS_RemoveElement
      <4>3. at \ {v} # {}
        BY <3>1, <4>1, <4>2, FS_EmptySet
      <4> QED BY <4>3
    <3> QED BY <1>3, <3>3
  <2> QED BY <2>1, <2>2
<1>5. \A s \in Shard : Weights(PartitionMap)[s] # 0
  <2> SUFFICES ASSUME NEW s \in Shard, Weights(PartitionMap)[s] = 0 PROVE FALSE
    OBVIOUS
  <2>1. Weights(PartitionMap) \in [Shard -> Nat]
    BY <1>1, WeightTypes
  <2>2. MinEdges2Shard = Min(Range(Weights(PartitionMap)))
    BY DEF GraphInv, WeightsExact
  <2>3. MinEdges2Shard = 0
    <3> DEFINE W == Weights(PartitionMap)
    <3> HIDE DEF W
    <3>1. W \in [Shard -> Nat] /\ W[s] = 0 /\ MinEdges2Shard = Min(Range(W))
      BY <2>1, <2>2 DEF W
    <3>2. Min(Range(W)) \in Nat /\ Min(Range(W)) <= W[s]
      BY <3>1, LeastWeight
    <3> QED BY <3>1, <3>2
  <2>4. \A j : ~Comparable(v, j)
    BY <2>3 DEF Comparable
  <2> QED BY <2>4 DEF BestShards
<1> QED BY <1>4, <1>5

Guarded ==
  running /\ running' =>
    /\ \A s \in Shard : (\E v \in VertexSet : PartitionMap[v] = s)
                          => \E v \in VertexSet : PartitionMap'[v] = s
    /\ (\E s \in Shard : Weights(PartitionMap)[s] = 0) => UNCHANGED res

LEMMA StepGuarded == GraphInv /\ [Next]_vars => [Guarded]_vars
<1> SUFFICES ASSUME GraphInv, Next, running, running'
             PROVE  /\ \A s \in Shard : (\E v \in VertexSet : PartitionMap[v] = s)
                                          => \E v \in VertexSet : PartitionMap'[v] = s
                    /\ (\E s \in Shard : Weights(PartitionMap)[s] = 0) => UNCHANGED res
  BY DEF Guarded
<1>1. CASE UNCHANGED <<PartitionMap, res>>
  BY <1>1
<1>2. ASSUME NEW v \in todo, NEW k \in BestShards(v), k # PartitionMap[v],
             MayLeave(PartitionMap[v]), Move(v, k)
      PROVE  /\ \A s \in Shard : (\E w \in VertexSet : PartitionMap[w] = s)
                                   => \E w \in VertexSet : PartitionMap'[w] = s
             /\ \A s \in Shard : Weights(PartitionMap)[s] # 0
  <2>1. PartitionMap' = [PartitionMap EXCEPT ![v] = k]
    BY <1>2 DEF Move
  <2> QED BY <1>2, <2>1, MovesAreGuarded
<1>3. (\E v \in todo : Visit(v)) \/ NextIteration
  BY DEF Next, AddEdge, Begin, End
<1>4. CASE NextIteration
  BY <1>1, <1>4 DEF NextIteration, graphVars
<1>5. ASSUME NEW v \in todo, Visit(v)
      PROVE  \/ UNCHANGED <<PartitionMap, res>>
             \/ \E k \in BestShards(v) : k # PartitionMap[v] /\ MayLeave(PartitionMap[v]) /\ Move(v, k)
  BY <1>5 DEF Visit
<1> QED BY <1>1, <1>2, <1>3, <1>4, <1>5

\* For every graph and every order of visits the weights that changeShardRecompute
\* keeps up to date are those ComputeEdges2Shard would compute.
THEOREM WeightsAlwaysExact == Spec => []WeightsExact
<1>1. GraphInv => WeightsExact
  BY DEF GraphInv
<1> QED BY <1>1, InitGraph, StepKeepsGraph, PTL DEF Spec

\* VertexsNumInShard counts the vertices of each shard over any number of resets.
THEOREM SizesAlwaysExact == Spec => []SizesExact
<1>1. GraphInv => SizesExact
  BY DEF GraphInv
<1> QED BY <1>1, InitGraph, StepKeepsGraph, PTL DEF Spec

\* No run empties a shard, and none moves a vertex while some shard has no edge.
THEOREM MovesAlwaysGuarded == Spec => MovesGuarded
<1>1. [][Guarded]_vars <=> MovesGuarded
  BY DEF Guarded, MovesGuarded
<1> QED BY <1>1, InitGraph, StepKeepsGraph, StepGuarded, PTL DEF Spec
=============================================================================
