--------------------------- MODULE SchedulerProofs ---------------------------
(***************************************************************************)
(* Theorems about the Justitia pool and scheduler, for all shards,         *)
(* transactions, block sizes and modes.                                    *)
(***************************************************************************)
EXTENDS Scheduler, Folding

LEMMA ItemFacts ==
  ASSUME NEW x \in Item
  PROVE  /\ x.tx \in Tx /\ x.relayed \in BOOLEAN /\ x.tx \in Nat
         /\ x = [tx |-> x.tx, relayed |-> x.relayed]
         /\ Txs[x.tx].from \in Shard /\ Txs[x.tx].to \in Shard
         /\ FeeToProposer(x) \in Nat /\ FeeToProposer(x) > 0
         /\ Home(x) \in Shard
<1>1. x.tx \in Tx /\ x.relayed \in BOOLEAN /\ x = [tx |-> x.tx, relayed |-> x.relayed]
  BY DEF Item
<1>2. Txs \in Seq([from : Shard, to : Shard, fee : Nat \ {0}]) /\ x.tx \in 1 .. Len(Txs)
  BY <1>1, SchedulerAssumption DEF Tx
<1>3. Txs[x.tx] \in [from : Shard, to : Shard, fee : Nat \ {0}] /\ x.tx \in Nat
  <2> DEFINE R == [from : Shard, to : Shard, fee : Nat \ {0}]
  <2>1. Txs \in Seq(R)
    BY <1>2
  <2> HIDE DEF R
  <2>2. Txs[x.tx] \in R /\ x.tx \in Nat
    BY <1>2, <2>1
  <2> QED BY <2>2 DEF R
<1> QED BY <1>1, <1>3 DEF FeeToProposer, Home

-----------------------------------------------------------------------------
(* Every item has its place.                                               *)

LEMMA ArriveWhere ==
  ASSUME PoolTyped, Whereabouts, NEW x \in arriving, AddTxs2Pool(x)
  PROVE  Whereabouts'
<1> DEFINE h == Home(x)
<1>1. x \in Item /\ h \in Shard
  BY ItemFacts DEF PoolTyped
<1>2. /\ arriving' = arriving \ {x} /\ UNCHANGED <<step, allTxs, block, committed>>
      /\ TxQueue' = [TxQueue EXCEPT ![h] = @ \cup {x}]
  BY DEF AddTxs2Pool
<1>3. \A s \in Shard : TxQueue'[s] = IF s = h THEN TxQueue[s] \cup {x} ELSE TxQueue[s]
  BY <1>1, <1>2 DEF PoolTyped
<1> HIDE DEF h
<1>4. \A s \in Shard : Held(s)' = IF s = h THEN Held(s) \cup {x} ELSE Held(s)
  BY <1>2, <1>3 DEF Held
<1>5. \A y : Due(y)' <=> Due(y)
  BY <1>2 DEF Due
<1>6. AtHome'
  BY <1>1, <1>2, <1>4 DEF Whereabouts, AtHome, h
<1>7. Apart'
  BY <1>1, <1>2, <1>3, <1>4 DEF Whereabouts, Apart, Held
<1>8. AllThere'
  <2> SUFFICES ASSUME NEW y \in Item
               PROVE  Due(y) <=> y \in arriving' \cup committed \cup Held(Home(y))'
    BY <1>2, <1>5 DEF AllThere
  <2>1. Due(y) <=> y \in arriving \cup committed \cup Held(Home(y))
    BY DEF Whereabouts, AllThere
  <2>2. Home(y) \in Shard
    BY ItemFacts
  <2>3. CASE y = x
    <3>1. Home(y) = h
      BY <2>3 DEF h
    <3> QED BY <1>1, <1>4, <2>1, <2>3, <3>1
  <2>4. CASE y # x
    BY <1>2, <1>4, <2>1, <2>2, <2>4
  <2> QED BY <2>3, <2>4
<1> QED BY <1>6, <1>7, <1>8 DEF Whereabouts

LEMMA DrainWhere ==
  ASSUME PoolTyped, Whereabouts, NEW s \in Shard, Drain(s)
  PROVE  Whereabouts'
<1>1. /\ UNCHANGED <<arriving, block, committed>> /\ step[s] = "idle"
      /\ step' = [step EXCEPT ![s] = "packing"]
      /\ allTxs' = [allTxs EXCEPT ![s] = TxQueue[s]]
      /\ TxQueue' = [TxQueue EXCEPT ![s] = {}]
  BY DEF Drain
<1>2. allTxs[s] = {} /\ block[s] = {}
  BY <1>1 DEF Whereabouts, AtHome
<1>3. /\ TxQueue'[s] = {} /\ allTxs'[s] = TxQueue[s] /\ step'[s] = "packing"
      /\ \A r \in Shard : r # s => /\ TxQueue'[r] = TxQueue[r] /\ allTxs'[r] = allTxs[r]
                                   /\ step'[r] = step[r]
  BY <1>1 DEF PoolTyped
<1>4. \A r \in Shard : Held(r)' = Held(r)
  BY <1>1, <1>2, <1>3 DEF Held
<1>5. \A x \in Item : Due(x)' <=> Due(x)
  BY <1>1 DEF Due
<1>6. AtHome'
  BY <1>1, <1>2, <1>3, <1>4 DEF Whereabouts, AtHome
<1>7. Apart'
  BY <1>1, <1>2, <1>3, <1>4 DEF Whereabouts, Apart
<1>8. AllThere'
  BY <1>1, <1>4, <1>5, ItemFacts DEF Whereabouts, AllThere
<1> QED BY <1>6, <1>7, <1>8 DEF Whereabouts

LEMMA SelectWhere ==
  ASSUME PoolTyped, Whereabouts, NEW s \in Shard, Select(s)
  PROVE  Whereabouts'
<1> DEFINE selected == SelectForBlock(s, allTxs[s])
<1>1. selected \subseteq allTxs[s]
  BY DEF SelectForBlock
<1>2. /\ UNCHANGED <<arriving, committed>> /\ step[s] = "packing"
      /\ step' = [step EXCEPT ![s] = "proposed"]
      /\ block' = [block EXCEPT ![s] = selected]
      /\ TxQueue' = [TxQueue EXCEPT ![s] = TxQueue[s] \cup (allTxs[s] \ selected)]
      /\ allTxs' = [allTxs EXCEPT ![s] = {}]
  BY DEF Select, PutBack
<1> HIDE DEF selected
<1>3. block[s] = {}
  BY <1>2 DEF Whereabouts, AtHome
<1>4. /\ TxQueue'[s] = TxQueue[s] \cup (allTxs[s] \ selected)
      /\ allTxs'[s] = {} /\ block'[s] = selected /\ step'[s] = "proposed"
      /\ \A r \in Shard : r # s => /\ TxQueue'[r] = TxQueue[r] /\ allTxs'[r] = allTxs[r]
                                   /\ block'[r] = block[r] /\ step'[r] = step[r]
  BY <1>2 DEF PoolTyped
<1>5. \A r \in Shard : Held(r)' = Held(r)
  BY <1>1, <1>3, <1>4 DEF Held
<1>6. \A x \in Item : Due(x)' <=> Due(x)
  BY <1>2 DEF Due
<1>7. AtHome'
  BY <1>4, <1>5 DEF Whereabouts, AtHome
<1>8. Apart'
  <2>1. TxQueue[s] \cap allTxs[s] = {}
    BY DEF Whereabouts, Apart
  <2>2. TxQueue'[s] \cap (allTxs'[s] \cup block'[s]) = {}
    BY <1>1, <1>4, <2>1
  <2> QED BY <1>2, <1>4, <1>5, <2>2 DEF Whereabouts, Apart
<1>9. AllThere'
  BY <1>2, <1>5, <1>6, ItemFacts DEF Whereabouts, AllThere
<1> QED BY <1>7, <1>8, <1>9 DEF Whereabouts

\* A block that is committed sends off the second halves of its cross-shard
\* transactions, none of which has been on its way before.
LEMMA CommitWhere ==
  ASSUME PoolTyped, Whereabouts, NEW s \in Shard, Commit(s)
  PROVE  Whereabouts'
<1> DEFINE new == [tx : {x.tx : x \in {y \in block[s] : Txs[y.tx].to # s}}, relayed : {TRUE}]
<1>1. /\ UNCHANGED <<TxQueue, allTxs>>
      /\ step' = [step EXCEPT ![s] = "idle"] /\ step[s] = "proposed"
      /\ block' = [block EXCEPT ![s] = {}]
      /\ committed' = committed \cup block[s]
      /\ arriving' = arriving \cup new
  BY DEF Commit
<1>2. allTxs[s] = {} /\ block[s] \subseteq Item /\ block[s] \subseteq Held(s)
  BY <1>1 DEF Whereabouts, AtHome, PoolTyped, Held
<1>3. ASSUME NEW z \in new
      PROVE  /\ z \in Item /\ z.relayed /\ IsCrossShard(z)
             /\ [z EXCEPT !.relayed = FALSE] \in block[s]
  <2>1. PICK y \in block[s] : Txs[y.tx].to # s /\ z = [tx |-> y.tx, relayed |-> TRUE]
    OBVIOUS
  <2>2. y \in Item /\ Home(y) = s
    BY <1>2 DEF Whereabouts, AtHome
  <2>3. ~y.relayed /\ Txs[y.tx].from = s
    BY <2>1, <2>2 DEF Home
  <2>4. y = [tx |-> y.tx, relayed |-> FALSE] /\ y.tx \in Tx
    BY <2>2, <2>3, ItemFacts
  <2>5. [z EXCEPT !.relayed = FALSE] = y
    BY <2>1, <2>4
  <2> QED BY <2>1, <2>3, <2>4, <2>5 DEF Item, IsCrossShard
<1>4. ASSUME NEW x \in Item, x.relayed, IsCrossShard(x), [x EXCEPT !.relayed = FALSE] \in block[s]
      PROVE  x \in new
  <2> DEFINE y == [x EXCEPT !.relayed = FALSE]
  <2>1. x = [tx |-> x.tx, relayed |-> TRUE]
    BY <1>4, ItemFacts
  <2>2. y.tx = x.tx /\ ~y.relayed
    BY <2>1
  <2>3. Home(y) = s
    BY <1>2, <1>4 DEF Whereabouts, AtHome
  <2>4. Txs[y.tx].to # s
    BY <1>4, <2>2, <2>3 DEF Home, IsCrossShard
  <2> HIDE DEF y
  <2>5. y \in block[s]
    BY <1>4 DEF y
  <2> DEFINE T == {v.tx : v \in {w \in block[s] : Txs[w.tx].to # s}}
  <2>6. x.tx \in T
    BY <2>2, <2>4, <2>5
  <2> HIDE DEF T
  <2>7. [tx |-> x.tx, relayed |-> TRUE] \in [tx : T, relayed : {TRUE}]
    BY <2>6
  <2> QED BY <2>1, <2>7, Zenon DEF T
<1> HIDE DEF new
<1>5. \A x \in Item : Due(x)' <=> Due(x) \/ x \in new
  BY <1>1, <1>3, <1>4 DEF Due
<1>6. \A z \in new : z \notin arriving \cup committed /\ \A r \in Shard : z \notin Held(r)
  <2> SUFFICES ASSUME NEW z \in new
               PROVE  z \notin arriving \cup committed /\ \A r \in Shard : z \notin Held(r)
    OBVIOUS
  <2>1. z \in Item /\ z.relayed /\ [z EXCEPT !.relayed = FALSE] \in Held(s)
    BY <1>2, <1>3
  <2>2. ~Due(z)
    BY <2>1 DEF Due, Whereabouts, Apart
  <2>3. z \notin arriving \cup committed \cup Held(Home(z))
    BY <2>1, <2>2 DEF Whereabouts, AllThere
  <2> QED BY <2>3 DEF Whereabouts, AtHome
<1>7. /\ step'[s] = "idle" /\ block'[s] = {}
      /\ \A r \in Shard : r # s => step'[r] = step[r] /\ block'[r] = block[r]
  BY <1>1 DEF PoolTyped
<1>8. \A r \in Shard : Held(r)' = IF r = s THEN Held(r) \ block[s] ELSE Held(r)
  <2>1. Held(s)' = Held(s) \ block[s]
    BY <1>1, <1>2, <1>7 DEF Held, Whereabouts, Apart
  <2>2. \A r \in Shard : r # s => Held(r)' = Held(r)
    BY <1>1, <1>7 DEF Held
  <2> QED BY <2>1, <2>2
<1>9. AtHome'
  BY <1>1, <1>2, <1>7, <1>8 DEF Whereabouts, AtHome
<1>10. \A r \in Shard : r # s => block[s] \cap Held(r) = {}
  BY <1>2 DEF Whereabouts, AtHome
<1>11. Apart'
  <2>1. arriving' \cap committed' = {}
    BY <1>1, <1>2, <1>6 DEF Whereabouts, Apart
  <2>2. ASSUME NEW r \in Shard
        PROVE  /\ (arriving' \cup committed') \cap Held(r)' = {}
               /\ TxQueue'[r] \cap (allTxs'[r] \cup block'[r]) = {}
    <3>1. (arriving' \cup committed') \cap Held(r)' = {}
      BY <1>1, <1>6, <1>8, <1>10 DEF Whereabouts, Apart
    <3>2. TxQueue'[r] \cap (allTxs'[r] \cup block'[r]) = {}
      BY <1>1, <1>7 DEF Whereabouts, Apart
    <3> QED BY <3>1, <3>2
  <2> QED BY <2>1, <2>2 DEF Apart
<1>12. AllThere'
  <2> SUFFICES ASSUME NEW x \in Item
               PROVE  Due(x)' <=> x \in arriving' \cup committed' \cup Held(Home(x))'
    BY DEF AllThere
  <2>1. Due(x) <=> x \in arriving \cup committed \cup Held(Home(x))
    BY DEF Whereabouts, AllThere
  <2>2. Home(x) \in Shard
    BY ItemFacts
  <2>3. x \in block[s] => x \in Held(Home(x))
    BY <1>2 DEF Whereabouts, AtHome
  <2> QED BY <1>1, <1>5, <1>8, <2>1, <2>2, <2>3
<1> QED BY <1>9, <1>11, <1>12 DEF Whereabouts

LEMMA InitWhere == Init => Whereabouts
<1> SUFFICES ASSUME Init PROVE Whereabouts
  OBVIOUS
<1>1. \A s \in Shard : Held(s) = {} /\ allTxs[s] = {} /\ block[s] = {}
  BY DEF Init, Held
<1>2. AtHome /\ Apart
  BY <1>1 DEF Init, AtHome, Apart
<1>3. AllThere
  <2> SUFFICES ASSUME NEW x \in Item PROVE Due(x) <=> x \in arriving
    BY <1>1, ItemFacts DEF AllThere, Init
  <2>1. x \in arriving <=> ~x.relayed
    <3>1. x = [tx |-> x.tx, relayed |-> x.relayed] /\ x.tx \in Tx /\ x.relayed \in BOOLEAN
      BY ItemFacts
    <3>2. x \in arriving => ~x.relayed
      BY DEF Init
    <3>3. ~x.relayed => x = [tx |-> x.tx, relayed |-> FALSE]
      BY <3>1
    <3> QED BY <3>1, <3>2, <3>3 DEF Init
  <2>2. committed = {}
    BY DEF Init
  <2> QED BY <2>1, <2>2 DEF Due
<1> QED BY <1>2, <1>3 DEF Whereabouts

LEMMA NextWhere == PoolTyped /\ Whereabouts /\ [Next]_vars => Whereabouts'
<1> SUFFICES ASSUME PoolTyped, Whereabouts, [Next]_vars PROVE Whereabouts'
  OBVIOUS
<1>1. ASSUME NEW x \in arriving, AddTxs2Pool(x) PROVE Whereabouts'
  BY <1>1, ArriveWhere
<1>2. ASSUME NEW s \in Shard, Drain(s) PROVE Whereabouts'
  BY <1>2, DrainWhere
<1>3. ASSUME NEW s \in Shard, Select(s) PROVE Whereabouts'
  BY <1>3, SelectWhere
<1>4. ASSUME NEW s \in Shard, Commit(s) PROVE Whereabouts'
  BY <1>4, CommitWhere
<1>5. ASSUME UNCHANGED <<poolVars, committed>> PROVE Whereabouts'
  BY <1>5 DEF poolVars, Whereabouts, AtHome, Apart, AllThere, Held, Due
<1>6. ASSUME NEW m \in feeMsgs, handleFeeInfoSync(m) PROVE Whereabouts'
  BY <1>5, <1>6 DEF handleFeeInfoSync
<1>7. CASE UNCHANGED vars
  BY <1>5, <1>7 DEF vars
<1> QED BY <1>1, <1>2, <1>3, <1>4, <1>6, <1>7 DEF Next

\* At most one shard holds the item.
LEMMA OneHolder ==
  ASSUME NEW x, NEW h \in Shard, NEW Q, \A s \in Shard : x \in Q[s] => s = h
  PROVE  Cardinality({s \in Shard : x \in Q[s]}) = IF x \in Q[h] THEN 1 ELSE 0
<1>1. CASE x \in Q[h]
  <2>1. {s \in Shard : x \in Q[s]} = {h}
    BY <1>1
  <2> QED BY <1>1, <2>1, FS_Singleton
<1>2. CASE x \notin Q[h]
  <2>1. {s \in Shard : x \in Q[s]} = {}
    BY <1>2
  <2> QED BY <1>2, <2>1, FS_EmptySet
<1> QED BY <1>1, <1>2

LEMMA InOrOut ==
  ASSUME NEW x, NEW S
  PROVE  Cardinality({x} \cap S) = IF x \in S THEN 1 ELSE 0
<1>1. CASE x \in S
  <2>1. {x} \cap S = {x}
    BY <1>1
  <2> QED BY <1>1, <2>1, FS_Singleton
<1>2. CASE x \notin S
  <2>1. {x} \cap S = {}
    BY <1>2
  <2> QED BY <1>2, <2>1, FS_EmptySet
<1> QED BY <1>1, <1>2

LEMMA WhereaboutsSuffice == PoolTyped /\ Whereabouts => NoTxLost
<1> SUFFICES ASSUME PoolTyped, Whereabouts, NEW x \in Item
             PROVE  Cardinality({s \in Shard : x \in TxQueue[s]})
                      + Cardinality({s \in Shard : x \in allTxs[s]})
                      + Cardinality({s \in Shard : x \in block[s]})
                      + Cardinality({x} \cap arriving) + Cardinality({x} \cap committed)
                    = IF Due(x) THEN 1 ELSE 0
  BY DEF NoTxLost
<1> DEFINE h == Home(x)
<1>1. h \in Shard
  BY ItemFacts
<1>2. \A s \in Shard : /\ x \in TxQueue[s] => s = h
                       /\ x \in allTxs[s] => s = h
                       /\ x \in block[s] => s = h
  BY DEF Whereabouts, AtHome, Held
<1> HIDE DEF h
<1>3. Cardinality({s \in Shard : x \in TxQueue[s]}) = IF x \in TxQueue[h] THEN 1 ELSE 0
  BY <1>1, <1>2, OneHolder
<1>4. Cardinality({s \in Shard : x \in allTxs[s]}) = IF x \in allTxs[h] THEN 1 ELSE 0
  <2>1. \A s \in Shard : x \in allTxs[s] => s = h
    BY <1>2
  <2> QED BY ONLY h \in Shard, <1>1, <2>1, OneHolder
<1>5. Cardinality({s \in Shard : x \in block[s]}) = IF x \in block[h] THEN 1 ELSE 0
  BY <1>1, <1>2, OneHolder
<1>6. /\ Cardinality({x} \cap arriving) = IF x \in arriving THEN 1 ELSE 0
      /\ Cardinality({x} \cap committed) = IF x \in committed THEN 1 ELSE 0
  BY InOrOut
<1>7. Due(x) <=> x \in arriving \cup committed \cup Held(h)
  BY DEF Whereabouts, AllThere, h
<1>8. /\ arriving \cap committed = {} /\ (arriving \cup committed) \cap Held(h) = {}
      /\ TxQueue[h] \cap (allTxs[h] \cup block[h]) = {}
  BY <1>1 DEF Whereabouts, Apart
<1>9. allTxs[h] = {} \/ block[h] = {}
  BY <1>1 DEF Whereabouts, AtHome
<1> QED BY <1>3, <1>4, <1>5, <1>6, <1>7, <1>8, <1>9 DEF Held

-----------------------------------------------------------------------------
(* A block never outgrows BlockSize.                                       *)

LEMMA ItemsFinite == \A S \in SUBSET Item : IsFiniteSet(S) /\ Cardinality(S) \in Nat
<1> DEFINE f == [p \in Tx \X (0 .. 1) |-> [tx |-> p[1], relayed |-> p[2] = 1]]
<1>1. IsFiniteSet(Tx)
  <2>1. Len(Txs) \in Nat
    BY SchedulerAssumption
  <2> QED BY <2>1, FS_Interval DEF Tx
<1>2. IsFiniteSet(0 .. 1)
  <2>1. 0 \in Int /\ 1 \in Int
    OBVIOUS
  <2> QED BY <2>1, FS_Interval, Zenon
<1>3. IsFiniteSet(Tx \X (0 .. 1))
  BY <1>1, <1>2, FS_Product
<1>4. f \in [Tx \X (0 .. 1) -> Item]
  BY DEF Item
<1>5. \A x \in Item : \E p \in Tx \X (0 .. 1) : f[p] = x
  <2> SUFFICES ASSUME NEW x \in Item PROVE \E p \in Tx \X (0 .. 1) : f[p] = x
    OBVIOUS
  <2>1. x.tx \in Tx /\ x.relayed \in BOOLEAN /\ x = [tx |-> x.tx, relayed |-> x.relayed]
    BY ItemFacts
  <2>2. CASE x.relayed
    <3>1. x = [tx |-> x.tx, relayed |-> TRUE]
      BY <2>1, <2>2
    <3>2. <<x.tx, 1>> \in Tx \X (0 .. 1)
      BY <2>1
    <3>3. f[<<x.tx, 1>>] = [tx |-> x.tx, relayed |-> TRUE]
      BY <3>2
    <3> QED BY <3>1, <3>2, <3>3
  <2>3. CASE ~x.relayed
    <3>1. x = [tx |-> x.tx, relayed |-> FALSE]
      BY <2>1, <2>3
    <3>2. <<x.tx, 0>> \in Tx \X (0 .. 1)
      BY <2>1
    <3>3. f[<<x.tx, 0>>] = [tx |-> x.tx, relayed |-> FALSE]
      <4>1. f[<<x.tx, 0>>] = [tx |-> x.tx, relayed |-> 0 = 1]
        BY <3>2
      <4>2. (0 = 1) = FALSE
        OBVIOUS
      <4> QED BY <4>1, <4>2, Zenon
    <3> QED BY <3>1, <3>2, <3>3
  <2> QED BY <2>1, <2>2, <2>3
<1> HIDE DEF f
<1>6. f \in Surjection(Tx \X (0 .. 1), Item)
  BY <1>4, <1>5 DEF Surjection
<1>7. IsFiniteSet(Item)
  BY <1>3, <1>6, FS_Surjection
<1> QED BY <1>7, FS_Subset, FS_CardinalityType

LEMMA SubsidyType ==
  ASSUME FeesTyped, PricesTyped, NEW s \in Shard, NEW x \in Item
  PROVE  SubsidyR(s, x) \in Nat
<1> DEFINE a == avg[s][Txs[x.tx].from]
           b == avg[s][Txs[x.tx].to]
           l == lambda[s]
<1>1. a \in Nat /\ b \in Nat
  BY ItemFacts DEF FeesTyped
<1>2. l \in Nat /\ l > 0
  BY SchedulerAssumption DEF PricesTyped
<1>3. Fixed \in Nat /\ Congestion \in Nat
  BY SchedulerAssumption
<1>4. SubsidyR(s, x) = CalculateRAB(JustitiaSubsidyMode, a, b, Fixed, Congestion, l)
  BY DEF SubsidyR
<1> HIDE DEF a, b, l
<1>5. (b * Congestion) \div l \in Nat
  <2>1. b * Congestion \in Nat
    BY <1>1, <1>3
  <2> DEFINE c == b * Congestion
  <2> HIDE DEF c
  <2>2. c \in Nat
    BY <2>1 DEF c
  <2>3. c \div l \in Nat
    BY <1>2, <2>2
  <2> QED BY <2>3 DEF c
<1>6. a + b \in Nat
  BY <1>1
<1> DEFINE q == (b * Congestion) \div l
           p == a + b
<1>7. CalculateRAB(JustitiaSubsidyMode, a, b, Fixed, Congestion, l) \in {0, b, p, Fixed, q}
  <2> HIDE DEF q, p
  <2> QED BY SchedulerAssumption, <1>1, <1>3 DEF CalculateRAB, q, p
<1> QED BY <1>1, <1>3, <1>4, <1>5, <1>6, <1>7

LEMMA ScoreType ==
  ASSUME FeesTyped, PricesTyped, NEW s \in Shard, NEW x \in Item
  PROVE  Scored(s, x).phase \in Int /\ Scored(s, x).score \in Int
<1> DEFINE a == avg[s][Txs[x.tx].from]
           b == avg[s][Txs[x.tx].to]
           r == SubsidyR(s, x)
           f == FeeToProposer(x)
<1>1. a \in Nat /\ b \in Nat /\ r \in Nat /\ f \in Nat
  BY ItemFacts, SubsidyType DEF FeesTyped
<1>2. CASE ~IsCrossShard(x)
  BY <1>1, <1>2 DEF Scored
<1>3. CASE IsCrossShard(x)
  <2> DEFINE u == Split2(f, r, a, b)
  <2>1. Scored(s, x) = IF Txs[x.tx].from = s
                       THEN [score |-> u.uA, phase |-> Phase(Classify(u.uA, a, b))]
                       ELSE [score |-> u.uB, phase |-> Phase(Classify(u.uB, b, a))]
    BY <1>3 DEF Scored, scoreCTX
  <2> HIDE DEF f, r, a, b
  <2>2. u.uA \in Int /\ u.uB \in Int
    BY <1>1 DEF Split2
  <2> HIDE DEF u
  <2>3. \A c : Phase(c) \in Int
    BY DEF Phase
  <2> QED BY <2>1, <2>2, <2>3
<1> QED BY <1>2, <1>3

\* The two halves of a transaction are never in the same shard.
LEMMA OneHalf ==
  ASSUME Whereabouts, PoolTyped, NEW s \in Shard, NEW x \in Held(s), NEW y \in Held(s), x.tx = y.tx
  PROVE  x = y
<1>1. x \in Item /\ y \in Item
  BY DEF PoolTyped, Held
<1>2. Home(x) = s /\ Home(y) = s
  BY DEF Whereabouts, AtHome
<1>3. Due(x) /\ Due(y)
  BY <1>1, <1>2 DEF Whereabouts, AllThere
<1>4. ASSUME x.relayed # y.relayed PROVE FALSE
  BY <1>1, <1>2, <1>3, <1>4, ItemFacts DEF Due, IsCrossShard, Home
<1>5. x.relayed = y.relayed
  BY <1>1, <1>4
<1> QED BY <1>1, <1>5, ItemFacts

\* The order of SelectForBlock is total on what a shard holds, so it leaves
\* no more than BlockSize items with fewer than BlockSize before them.
LEMMA SelectionFits ==
  ASSUME PoolTyped, FeesTyped, PricesTyped, Whereabouts, NEW s \in Shard
  PROVE  /\ SelectForBlock(s, allTxs[s]) \subseteq allTxs[s]
         /\ Cardinality(SelectForBlock(s, allTxs[s])) <= BlockSize
<1> DEFINE S == allTxs[s]
           R == {p \in Item \X Item : Before(s, p[1], p[2])}
           ph(x) == Scored(s, x).phase
           sc(x) == Scored(s, x).score
<1>1. S \in SUBSET Item /\ S \subseteq Held(s)
  BY DEF PoolTyped, Held
<1>2. IsFiniteSet(S)
  BY <1>1, ItemsFinite
<1>3. \A x \in Item : ph(x) \in Int /\ sc(x) \in Int /\ x.tx \in Nat
  BY ScoreType, ItemFacts
<1>4. \A x, y \in S : <<x, y>> \in R <=> \/ ph(x) < ph(y)
                                         \/ ph(x) = ph(y) /\ sc(x) > sc(y)
                                         \/ ph(x) = ph(y) /\ sc(x) = sc(y) /\ x.tx < y.tx
  BY <1>1 DEF Before
<1>5. \A x, y \in S : <<x, y>> \in R <=> Before(s, x, y)
  BY <1>1
<1>6. \A x, y \in S : x.tx = y.tx => x = y
  BY <1>1, OneHalf
<1> HIDE DEF S, R, ph, sc
<1>7. Orders(R, S)
  <2>1. \A x \in S : ph(x) \in Int /\ sc(x) \in Int /\ x.tx \in Nat
    BY <1>1, <1>3
  <2>2. \A x, y \in S : <<x, y>> \in R => <<y, x>> \notin R
    BY <1>4, <2>1
  <2>3. \A x, y, z \in S : <<x, y>> \in R /\ <<y, z>> \in R => <<x, z>> \in R
    BY <1>4, <2>1
  <2>4. \A x, y \in S : x # y => <<x, y>> \in R \/ <<y, x>> \in R
    BY <1>4, <1>6, <2>1
  <2> QED BY <2>2, <2>3, <2>4 DEF Orders
<1>8. BlockSize \in Nat
  BY SchedulerAssumption
<1>9. Cardinality({x \in S : Cardinality({y \in S : <<y, x>> \in R}) < BlockSize}) <= BlockSize
  BY <1>2, <1>7, <1>8, FirstOnes
<1>10. SelectForBlock(s, S) = {x \in S : Cardinality({y \in S : <<y, x>> \in R}) < BlockSize}
  <2>1. \A x \in S : {y \in S : Before(s, y, x)} = {y \in S : <<y, x>> \in R}
    BY <1>5
  <2> QED BY <2>1 DEF SelectForBlock
<1> QED BY <1>9, <1>10 DEF S, SelectForBlock

-----------------------------------------------------------------------------
(* The sums and averages.                                                  *)

LEMMA SubsidySums ==
  ASSUME FeesTyped, PricesTyped, NEW s \in Shard, NEW items \in SUBSET Item, NEW part \in SUBSET items
  PROVE  /\ SumOfSubsidies(s, part) \in Nat /\ SumOfSubsidies(s, items) \in Nat
         /\ SumOfSubsidies(s, part) <= SumOfSubsidies(s, items)
<1> DEFINE f == [x \in Item |-> SubsidyR(s, x)]
           C(S) == {y \in S : IsCrossShard(y)}
<1>1. \A x \in Item : f[x] \in Nat
  BY SubsidyType
<1>2. \A S \in SUBSET Item : SumOfSubsidies(s, S) = SumFunctionOnSet(f, C(S))
  <2> SUFFICES ASSUME NEW S \in SUBSET Item
               PROVE  SumOfSubsidies(s, S) = SumFunctionOnSet(f, C(S))
    OBVIOUS
  <2> DEFINE g == [x \in C(S) |-> SubsidyR(s, x)]
  <2>1. SumOfSubsidies(s, S) = SumFunctionOnSet(g, C(S))
    BY DEF SumOfSubsidies, SumFunction
  <2>2. C(S) \in SUBSET Item /\ IsFiniteSet(C(S))
    BY ItemsFinite
  <2>3. \A x \in C(S) : f[x] \in Int /\ g[x] = f[x]
    BY <1>1, <2>2
  <2> HIDE DEF f, g, C
  <2> QED BY <2>1, <2>2, <2>3, SumEqual
<1>3. C(items) \in SUBSET Item /\ C(part) \in SUBSET C(items) /\ part \in SUBSET Item
  OBVIOUS
<1>4. IsFiniteSet(C(items)) /\ \A x \in C(items) : f[x] \in Nat
  BY <1>1, <1>3, ItemsFinite
<1> HIDE DEF f, C
<1>5. /\ SumFunctionOnSet(f, C(part)) \in Nat
      /\ SumFunctionOnSet(f, C(part)) <= SumFunctionOnSet(f, C(items))
  BY <1>3, <1>4, SumOfPart
<1>6. SumFunctionOnSet(f, C(items)) \in Nat
  BY <1>4, SumOfPart
<1> QED BY <1>2, <1>3, <1>5, <1>6

LEMMA BlockAverage ==
  ASSUME NEW items \in SUBSET Item, items # {}
  PROVE  /\ BlockAvg(items) \in Nat
         /\ \E x, y \in items : Capped(x) <= BlockAvg(items) /\ BlockAvg(items) <= Capped(y)
<1> DEFINE f == [x \in items |-> Capped(x)]
<1>1. \A x \in items : f[x] = Capped(x) /\ f[x] \in Nat
  BY ItemFacts, SchedulerAssumption DEF Capped
<1>2. IsFiniteSet(items)
  BY ItemsFinite
<1>3. BlockAvg(items) = SumFunctionOnSet(f, items) \div Cardinality(items)
  BY DEF BlockAvg, SumFunction
<1> HIDE DEF f
<1>4. BlockAvg(items) \in Nat /\ \E x, y \in items : f[x] <= BlockAvg(items) /\ BlockAvg(items) <= f[y]
  BY <1>1, <1>2, <1>3, AverageBetween
<1> QED BY <1>1, <1>4

LEMMA WindowAverage ==
  ASSUME NEW w \in Seq(Nat), w # <<>>
  PROVE  /\ recomputeAvg(w) \in Nat
         /\ \E i, j \in 1 .. Len(w) : w[i] <= recomputeAvg(w) /\ recomputeAvg(w) <= w[j]
<1> DEFINE S == 1 .. Len(w)
<1>1. Len(w) \in Nat /\ Len(w) > 0 /\ DOMAIN w = S /\ S # {} /\ \A i \in S : w[i] \in Nat
  OBVIOUS
<1>2. IsFiniteSet(S) /\ Cardinality(S) = Len(w)
  <2> DEFINE n == Len(w)
  <2> HIDE DEF n
  <2>1. n \in Nat /\ n > 0
    BY <1>1 DEF n
  <2>2. IsFiniteSet(1 .. n) /\ Cardinality(1 .. n) = n
    BY <2>1, FS_Interval
  <2> QED BY <2>2 DEF n
<1>3. recomputeAvg(w) = SumFunctionOnSet(w, S) \div Cardinality(S)
  BY <1>1, <1>2 DEF recomputeAvg, SumFunction
<1> HIDE DEF S
<1>4. recomputeAvg(w) \in Nat /\ \E i, j \in S : w[i] <= recomputeAvg(w) /\ recomputeAvg(w) <= w[j]
  BY <1>1, <1>2, <1>3, AverageBetween, ZenonT(30)
<1> QED BY <1>4 DEF S

-----------------------------------------------------------------------------
(* Types.                                                                  *)

LEMMA InitType == Init => TypeOK
<1> SUFFICES ASSUME Init PROVE TypeOK
  OBVIOUS
<1>1. PoolTyped
  BY DEF Init, PoolTyped, Item
<1>2. FeesTyped
  BY DEF Init, FeesTyped
<1>3. PricesTyped
  BY SchedulerAssumption DEF Init, PricesTyped
<1>4. Bounded
  BY SchedulerAssumption, FS_EmptySet DEF Init, Bounded
<1> QED BY <1>1, <1>2, <1>3, <1>4 DEF TypeOK

LEMMA ArriveType ==
  ASSUME TypeOK, NEW x \in arriving, AddTxs2Pool(x)
  PROVE  TypeOK'
<1>1. x \in Item /\ Home(x) \in Shard
  BY ItemFacts DEF TypeOK, PoolTyped
<1>2. PoolTyped'
  BY <1>1 DEF AddTxs2Pool, TypeOK, PoolTyped
<1> QED BY <1>2 DEF AddTxs2Pool, feeVars, epochVars, TypeOK, FeesTyped, PricesTyped, Bounded

LEMMA DrainType ==
  ASSUME TypeOK, NEW s \in Shard, Drain(s)
  PROVE  TypeOK'
<1>1. PoolTyped'
  BY DEF Drain, TypeOK, PoolTyped
<1> QED BY <1>1 DEF Drain, feeVars, epochVars, TypeOK, FeesTyped, PricesTyped, Bounded

LEMMA SelectType ==
  ASSUME TypeOK, Whereabouts, IssuedCounted, NEW s \in Shard, Select(s)
  PROVE  TypeOK' /\ IssuedCounted'
<1> DEFINE selected == SelectForBlock(s, allTxs[s])
           all == IF JustitiaSubsidyMode = "Lagrangian" THEN SumOfSubsidies(s, allTxs[s]) ELSE 0
           part == IF JustitiaSubsidyMode = "Lagrangian" THEN SumOfSubsidies(s, selected) ELSE 0
<1>1. selected \subseteq allTxs[s] /\ Cardinality(selected) <= BlockSize
  BY SelectionFits DEF TypeOK
<1>2. all \in Nat /\ part \in Nat /\ part <= all
  <2>1. allTxs[s] \in SUBSET Item
    BY DEF TypeOK, PoolTyped
  <2>2. /\ SumOfSubsidies(s, selected) \in Nat /\ SumOfSubsidies(s, allTxs[s]) \in Nat
        /\ SumOfSubsidies(s, selected) <= SumOfSubsidies(s, allTxs[s])
    BY <1>1, <2>1, SubsidySums DEF TypeOK
  <2> QED BY <2>2
<1>3. /\ step' = [step EXCEPT ![s] = "proposed"]
      /\ block' = [block EXCEPT ![s] = selected]
      /\ TxQueue' = [TxQueue EXCEPT ![s] = TxQueue[s] \cup (allTxs[s] \ selected)]
      /\ allTxs' = [allTxs EXCEPT ![s] = {}]
      /\ UNCHANGED <<arriving, committed, height, feeVars, lambda>>
  BY DEF Select, PutBack
<1>4. /\ epochSubsidyTotal' = [epochSubsidyTotal EXCEPT ![s] = epochSubsidyTotal[s] + all]
      /\ issued' = [issued EXCEPT ![s] = issued[s] + part]
  BY DEF Select
<1> HIDE DEF selected, all, part
<1>5. PoolTyped'
  BY <1>1, <1>3 DEF TypeOK, PoolTyped
<1>6. FeesTyped'
  BY <1>3 DEF feeVars, TypeOK, FeesTyped
<1>7. PricesTyped'
  BY <1>2, <1>3, <1>4 DEF TypeOK, PricesTyped
<1>8. Bounded'
  <2>1. \A r \in Shard : block'[r] = IF r = s THEN selected ELSE block[r]
    BY <1>3 DEF TypeOK, PoolTyped
  <2> QED BY <1>1, <1>3, <2>1 DEF feeVars, TypeOK, Bounded
<1>9. IssuedCounted'
  <2>1. \A r \in Shard :
          /\ epochSubsidyTotal'[r] = IF r = s THEN epochSubsidyTotal[r] + all ELSE epochSubsidyTotal[r]
          /\ issued'[r] = IF r = s THEN issued[r] + part ELSE issued[r]
          /\ epochSubsidyTotal[r] \in Nat /\ issued[r] \in Nat
    BY <1>4 DEF TypeOK, PricesTyped
  <2> QED BY <1>2, <2>1 DEF IssuedCounted
<1> QED BY <1>5, <1>6, <1>7, <1>8, <1>9 DEF TypeOK

LEMMA PriceType ==
  ASSUME NEW price \in MinLambda .. MaxLambda, NEW total \in Nat
  PROVE  /\ UpdateShadowPrice(price, total) \in MinLambda .. MaxLambda
         /\ UpdateShadowPrice(price, total) < price => total <= MaxInflation
<1> DEFINE d == total - MaxInflation
           n == Alpha * d
           v == IF MaxInflation = 0 THEN 0 ELSE n \div MaxInflation
<1>1. /\ MaxInflation \in Nat /\ Alpha \in Nat /\ MinLambda \in Nat /\ MaxLambda \in Nat
      /\ MinLambda <= MaxLambda
  BY SchedulerAssumption
<1>2. d \in Int /\ (total > MaxInflation => d >= 0)
  BY <1>1
<1>3. UpdateShadowPrice(price, total) = Clamp(price + v, MinLambda, MaxLambda)
  BY DEF UpdateShadowPrice
<1> HIDE DEF d
<1>4. n \in Int /\ (d >= 0 => n >= 0)
  BY <1>1, <1>2
<1> HIDE DEF n
<1>5. v \in Int /\ (d >= 0 => v >= 0)
  BY <1>1, <1>4
<1> HIDE DEF v
<1> QED BY <1>1, <1>2, <1>3, <1>5 DEF Clamp

LEMMA CommitPrices ==
  ASSUME PricesTyped, IssuedCounted, NEW s \in Shard, Commit(s)
  PROVE  PricesTyped' /\ IssuedCounted'
<1>1. CASE EpochEnds(s)
  <2>1. /\ lambda' = [lambda EXCEPT ![s] = UpdateShadowPrice(lambda[s], epochSubsidyTotal[s])]
        /\ epochSubsidyTotal' = [epochSubsidyTotal EXCEPT ![s] = 0]
        /\ issued' = [issued EXCEPT ![s] = 0]
    BY <1>1 DEF Commit, UpdateEpoch
  <2>2. UpdateShadowPrice(lambda[s], epochSubsidyTotal[s]) \in MinLambda .. MaxLambda
    BY PriceType DEF PricesTyped
  <2> QED BY <2>1, <2>2 DEF PricesTyped, IssuedCounted
<1>2. CASE ~EpochEnds(s)
  BY <1>2 DEF Commit, epochVars, PricesTyped, IssuedCounted
<1> QED BY <1>1, <1>2

LEMMA CommitPool ==
  ASSUME PoolTyped, Whereabouts, NEW s \in Shard, Commit(s)
  PROVE  PoolTyped' /\ \A r \in Shard : block'[r] = IF r = s THEN {} ELSE block[r]
<1> DEFINE new == [tx : {x.tx : x \in {y \in block[s] : Txs[y.tx].to # s}}, relayed : {TRUE}]
<1>1. /\ UNCHANGED <<TxQueue, allTxs>>
      /\ step' = [step EXCEPT ![s] = "idle"]
      /\ block' = [block EXCEPT ![s] = {}]
      /\ committed' = committed \cup block[s]
      /\ arriving' = arriving \cup new
  BY DEF Commit
<1>2. \A y \in block[s] : y \in Item /\ y.tx \in Tx
  BY ItemFacts DEF PoolTyped
<1>3. new \subseteq Item
  BY <1>2 DEF Item
<1> HIDE DEF new
<1> QED BY <1>1, <1>2, <1>3 DEF PoolTyped

-----------------------------------------------------------------------------
(* Averages.                                                               *)

\* Only the committing shard gets new fees, those of its intra-shard items.
LEMMA CommitFees ==
  ASSUME PoolTyped, Whereabouts, NEW s \in Shard, Commit(s)
  PROVE  LET items == IntraShard(block[s]) IN
         /\ items \in SUBSET Item
         /\ \A r \in Shard : Fees(r)' = IF r = s THEN Fees(r) \cup {Capped(x) : x \in items}
                                        ELSE Fees(r)
         /\ \A r \in Shard : Fees(r)' \subseteq Nat
<1> DEFINE items == IntraShard(block[s])
<1>1. /\ items \in SUBSET Item
      /\ \A x \in items : Home(x) = s
  BY DEF PoolTyped, Whereabouts, AtHome, IntraShard, Held
<1>2. IntraShard(committed)' = IntraShard(committed) \cup items
  BY DEF Commit, IntraShard
<1>3. \A r \in Shard : Fees(r)' = {Capped(x) : x \in {y \in IntraShard(committed)' : Home(y) = r}}
  BY DEF Fees
<1>4. \A r \in Shard : {y \in IntraShard(committed)' : Home(y) = r}
                       = {y \in IntraShard(committed) : Home(y) = r} \cup IF r = s THEN items ELSE {}
  BY <1>1, <1>2
<1> HIDE DEF items
<1>5. \A r \in Shard : Fees(r)' = IF r = s THEN Fees(r) \cup {Capped(x) : x \in items} ELSE Fees(r)
  BY <1>3, <1>4 DEF Fees
<1>6. \A x \in Item : Capped(x) \in Nat
  BY ItemFacts, SchedulerAssumption DEF Capped
<1>7. \A r \in Shard : Fees(r) \subseteq Nat
  BY <1>6 DEF Fees, IntraShard, PoolTyped
<1>8. {Capped(x) : x \in items} \subseteq Nat
  BY <1>1, <1>6
<1> QED BY <1>1, <1>5, <1>7, <1>8 DEF items

\* What the window of a shard becomes.
LEMMA CommitWindow ==
  ASSUME TypeOK, Whereabouts, AveragesTraced, NEW s \in Shard, Commit(s), IntraShard(block[s]) # {}
  PROVE  \E w \in Seq(Nat) :
           /\ itxWindow' = [itxWindow EXCEPT ![s] = w]
           /\ avg' = [avg EXCEPT ![s][s] = recomputeAvg(w)]
           /\ w # <<>> /\ Len(w) <= JustitiaWindowBlocks
           /\ \A i \in 1 .. Len(w) : Between(w[i], s)'
           /\ recomputeAvg(w) \in Nat /\ Between(recomputeAvg(w), s)'
<1> DEFINE items == IntraShard(block[s])
           old == itxWindow[s]
           new == BlockAvg(items)
           app == Append(old, new)
           In(a) == \E f, g \in Fees(s)' : f <= a /\ a <= g
           w == IF Len(app) > JustitiaWindowBlocks THEN Tail(app) ELSE app
<1>1. /\ items \in SUBSET Item
      /\ Fees(s)' = Fees(s) \cup {Capped(x) : x \in items}
      /\ Fees(s)' \subseteq Nat
  BY CommitFees DEF TypeOK
<1>2. itxWindow' = [itxWindow EXCEPT ![s] = w] /\ avg' = [avg EXCEPT ![s][s] = recomputeAvg(w)]
  BY DEF Commit, OnBlockFinalized
<1>3. old \in Seq(Nat) /\ Len(old) <= JustitiaWindowBlocks /\ \A i \in 1 .. Len(old) : Between(old[i], s)
  BY DEF TypeOK, FeesTyped, Bounded, AveragesTraced
<1>4. items # {}
  OBVIOUS
<1> HIDE DEF items, old
<1>5. new \in Nat /\ \E x, y \in items : Capped(x) <= new /\ new <= Capped(y)
  BY <1>1, <1>4, BlockAverage
<1>6. In(new)
  BY <1>1, <1>5
<1>7. \A a : Between(a, s) => In(a)
  BY <1>1 DEF Between
<1> HIDE DEF new, In
<1>8. JustitiaWindowBlocks \in Nat \ {0}
  BY SchedulerAssumption
<1>9. /\ app \in Seq(Nat) /\ Len(app) = Len(old) + 1
      /\ \A i \in 1 .. Len(app) : app[i] = IF i = Len(app) THEN new ELSE old[i]
  BY <1>3, <1>5
<1>10. \A i \in 1 .. Len(app) : In(app[i])
  <2> SUFFICES ASSUME NEW i \in 1 .. Len(app) PROVE In(app[i])
    OBVIOUS
  <2>1. CASE i = Len(app)
    BY <1>6, <1>9, <2>1
  <2>2. CASE i # Len(app)
    <3>1. app[i] = old[i] /\ i \in 1 .. Len(old)
      BY <1>3, <1>9, <2>2
    <3> QED BY <1>3, <1>7, <3>1
  <2> QED BY <2>1, <2>2
<1> HIDE DEF app
<1>11. /\ w \in Seq(Nat) /\ w # <<>> /\ Len(w) <= JustitiaWindowBlocks
       /\ \A i \in 1 .. Len(w) : \E j \in 1 .. Len(app) : w[i] = app[j]
  <2>1. CASE Len(app) > JustitiaWindowBlocks
    <3>1. w = Tail(app)
      BY <2>1
    <3>2. w \in Seq(Nat) /\ Len(w) = Len(app) - 1 /\ \A i \in 1 .. Len(w) : w[i] = app[i + 1]
      BY <1>8, <1>9, <2>1, <3>1
    <3> HIDE DEF w
    <3>3. Len(w) > 0 /\ Len(w) <= JustitiaWindowBlocks
      BY <1>3, <1>8, <1>9, <2>1, <3>2
    <3>4. \A i \in 1 .. Len(w) : i + 1 \in 1 .. Len(app)
      BY <1>9, <3>2
    <3> QED BY <3>2, <3>3, <3>4
  <2>2. CASE ~(Len(app) > JustitiaWindowBlocks)
    <3>1. w = app
      BY <2>2
    <3> HIDE DEF w
    <3>2. Len(w) > 0 /\ Len(w) <= JustitiaWindowBlocks
      BY <1>3, <1>8, <1>9, <2>2, <3>1
    <3> QED BY <1>9, <3>1, <3>2
  <2> QED BY <2>1, <2>2
<1> HIDE DEF w
<1>12. \A i \in 1 .. Len(w) : In(w[i])
  BY <1>10, <1>11
<1>13. recomputeAvg(w) \in Nat /\ \E i, j \in 1 .. Len(w) : w[i] <= recomputeAvg(w) /\ recomputeAvg(w) <= w[j]
  BY <1>11, WindowAverage
<1>14. In(recomputeAvg(w))
  <2>1. PICK i, j \in 1 .. Len(w) : w[i] <= recomputeAvg(w) /\ recomputeAvg(w) <= w[j]
    BY <1>13
  <2>2. PICK f \in Fees(s)' : f <= w[i]
    BY <1>12 DEF In
  <2>3. PICK g \in Fees(s)' : w[j] <= g
    BY <1>12 DEF In
  <2>4. w[i] \in Nat /\ w[j] \in Nat /\ f \in Nat /\ g \in Nat
    BY <1>1, <1>11, <2>2, <2>3
  <2>5. f <= recomputeAvg(w) /\ recomputeAvg(w) <= g
    BY <1>13, <2>1, <2>2, <2>3, <2>4
  <2> QED BY <2>2, <2>3, <2>5 DEF In
<1>15. \A a \in Nat : In(a) <=> Between(a, s)'
  BY DEF In, Between
<1>16. \A i \in 1 .. Len(w) : w[i] \in Nat
  BY <1>11
<1>17. PICK v \in Seq(Nat) : v = w
  BY <1>11
<1>18. (\A i \in 1 .. Len(v) : Between(v[i], s)') /\ Between(recomputeAvg(v), s)'
  BY <1>12, <1>13, <1>14, <1>15, <1>16, <1>17
<1> QED BY <1>2, <1>11, <1>13, <1>17, <1>18

LEMMA CommitTraced ==
  ASSUME TypeOK, Whereabouts, AveragesTraced, NEW s \in Shard, Commit(s)
  PROVE  /\ FeesTyped' /\ AveragesTraced'
         /\ \A r \in Shard : Len(itxWindow'[r]) <= JustitiaWindowBlocks
<1> DEFINE items == IntraShard(block[s])
<1>1. /\ \A r \in Shard : Fees(r)' = IF r = s THEN Fees(r) \cup {Capped(x) : x \in items} ELSE Fees(r)
  BY CommitFees DEF TypeOK
<1>2. \A r \in Shard : \A a \in Nat : Between(a, r) => Between(a, r)'
  <2>1. \A r \in Shard : Fees(r) \subseteq Fees(r)'
    BY <1>1
  <2> QED BY <2>1 DEF Between
<1>3. \A r \in Shard : /\ itxWindow[r] \in Seq(Nat) /\ Len(itxWindow[r]) <= JustitiaWindowBlocks
                       /\ \A q \in Shard : avg[q][r] \in Nat
  BY DEF TypeOK, FeesTyped, Bounded
<1>4. /\ \A r \in Shard : /\ itxWindow'[r] \in Seq(Nat) /\ Len(itxWindow'[r]) <= JustitiaWindowBlocks
                          /\ (itxWindow'[r] = <<>> <=> Fees(r)' = {})
                          /\ \A i \in 1 .. Len(itxWindow'[r]) : Between(itxWindow[r][i], r)'
                          /\ (avg'[r][r] = 0 /\ Fees(r)' = {}) \/ Between(avg[r][r], r)'
      /\ \A q, r \in Shard : avg'[q][r] \in Nat /\ (avg'[q][r] = 0 \/ Between(avg[q][r], r)')
      /\ itxWindow' \in [Shard -> Seq(Nat)] /\ avg' \in [Shard -> [Shard -> Nat]]
  <2>1. CASE items = {}
    <3>1. UNCHANGED <<itxWindow, avg>>
      BY <2>1 DEF Commit, OnBlockFinalized
    <3>2. \A r \in Shard : Fees(r)' = Fees(r)
      BY <1>1, <2>1
    <3>3. \A r \in Shard : \A a \in Nat : Between(a, r)' <=> Between(a, r)
      BY <3>2 DEF Between
    <3>4. \A r \in Shard : /\ \A i \in 1 .. Len(itxWindow[r]) : itxWindow[r][i] \in Nat
      BY <1>3
    <3>5. \A r \in Shard : /\ \A i \in 1 .. Len(itxWindow[r]) : Between(itxWindow[r][i], r)'
                           /\ \A q \in Shard : Between(avg[q][r], r)' <=> Between(avg[q][r], r)
      BY <3>1, <3>2, <3>4 DEF AveragesTraced, Between
    <3> QED BY <1>3, <3>1, <3>2, <3>5 DEF AveragesTraced, TypeOK, FeesTyped
  <2>2. CASE items # {}
    <3>1. PICK w \in Seq(Nat) :
            /\ itxWindow' = [itxWindow EXCEPT ![s] = w]
            /\ avg' = [avg EXCEPT ![s][s] = recomputeAvg(w)]
            /\ w # <<>> /\ Len(w) <= JustitiaWindowBlocks
            /\ \A i \in 1 .. Len(w) : Between(w[i], s)'
            /\ recomputeAvg(w) \in Nat /\ Between(recomputeAvg(w), s)'
      BY <2>2, CommitWindow
    <3> DEFINE a == recomputeAvg(w)
    <3> HIDE DEF a
    <3>2. \A r \in Shard : itxWindow'[r] = IF r = s THEN w ELSE itxWindow[r]
      BY <3>1 DEF TypeOK, FeesTyped
    <3>3. \A q, r \in Shard : avg'[q][r] = IF q = s /\ r = s THEN a ELSE avg[q][r]
      BY <3>1 DEF TypeOK, FeesTyped, a
    <3>4. Fees(s)' # {}
      BY <1>1, <2>2
    <3>5. a \in Nat /\ Between(a, s)'
      BY <3>1 DEF a
    <3>6. itxWindow' \in [Shard -> Seq(Nat)] /\ avg' \in [Shard -> [Shard -> Nat]]
      BY <3>1, <3>5 DEF TypeOK, FeesTyped, a
    <3>7. ASSUME NEW r \in Shard, r # s
          PROVE  /\ (itxWindow'[r] = <<>> <=> Fees(r)' = {})
                 /\ \A i \in 1 .. Len(itxWindow'[r]) : Between(itxWindow[r][i], r)'
                 /\ (avg'[r][r] = 0 /\ Fees(r)' = {}) \/ Between(avg[r][r], r)'
      <4>1. Fees(r)' = Fees(r) /\ itxWindow'[r] = itxWindow[r] /\ avg'[r][r] = avg[r][r]
        BY <1>1, <3>2, <3>3, <3>7
      <4> QED BY <4>1 DEF AveragesTraced, Between
    <3>8. /\ (itxWindow'[s] = <<>> <=> Fees(s)' = {})
          /\ \A i \in 1 .. Len(itxWindow'[s]) : Between(itxWindow[s][i], s)'
          /\ Between(avg[s][s], s)'
      BY <3>1, <3>2, <3>3, <3>4, <3>5 DEF Between
    <3>9. ASSUME NEW q \in Shard, NEW r \in Shard
          PROVE  avg'[q][r] \in Nat /\ (avg'[q][r] = 0 \/ Between(avg[q][r], r)')
      <4>1. CASE q = s /\ r = s
        BY <3>3, <3>5, <3>8, <4>1
      <4>2. CASE ~(q = s /\ r = s)
        <5>1. avg'[q][r] = avg[q][r] /\ avg[q][r] \in Nat
          BY <1>3, <3>3, <4>2
        <5>2. Fees(r) \subseteq Fees(r)'
          BY <1>1
        <5>3. avg[q][r] = 0 \/ Between(avg[q][r], r)
          BY DEF AveragesTraced
        <5> QED BY <5>1, <5>2, <5>3 DEF Between
      <4> QED BY <4>1, <4>2
    <3>10. \A r \in Shard : itxWindow'[r] \in Seq(Nat) /\ Len(itxWindow'[r]) <= JustitiaWindowBlocks
      BY <1>3, <3>1, <3>2
    <3> QED BY <3>6, <3>7, <3>8, <3>9, <3>10
  <2> QED BY <2>1, <2>2
<1>5. feeMsgs' = feeMsgs \cup [shard : {s}, to : Shard \ {s}, avg : {avg'[s][s]}, height : {height'[s]}]
  BY DEF Commit
<1>6. height' \in [Shard -> Nat]
  BY DEF Commit, TypeOK, FeesTyped
<1>7. avg'[s][s] \in Nat /\ height'[s] \in Nat
  BY <1>4, <1>6
<1>8. feeMsgs' \subseteq [shard : Shard, to : Shard, avg : Nat, height : Nat]
  <2> DEFINE a == avg'[s][s]
             h == height'[s]
  <2> HIDE DEF a, h
  <2>1. feeMsgs' = feeMsgs \cup [shard : {s}, to : Shard \ {s}, avg : {a}, height : {h}]
    BY <1>5 DEF a, h
  <2>2. a \in Nat /\ h \in Nat
    BY <1>7 DEF a, h
  <2> QED BY <2>1, <2>2 DEF TypeOK, FeesTyped
<1>9. ASSUME NEW m \in feeMsgs'
      PROVE  m.shard # m.to /\ (m.avg = 0 \/ Between(m.avg, m.shard)')
  <2>1. CASE m \in feeMsgs
    <3>1. m.avg \in Nat /\ m.shard \in Shard
      BY <2>1 DEF TypeOK, FeesTyped
    <3>2. m.shard # m.to /\ (m.avg = 0 \/ Between(m.avg, m.shard))
      BY <2>1 DEF AveragesTraced
    <3> QED BY <1>2, <3>1, <3>2
  <2>2. CASE m \in [shard : {s}, to : Shard \ {s}, avg : {avg'[s][s]}, height : {height'[s]}]
    <3>1. m.shard = s /\ m.to # s /\ m.avg = avg'[s][s]
      BY <2>2
    <3>2. avg'[s][s] = 0 \/ Between(avg[s][s], s)'
      BY <1>4
    <3> QED BY <3>1, <3>2 DEF Between
  <2> QED BY <1>5, <2>1, <2>2
<1>10. FeesTyped'
  BY <1>4, <1>6, <1>8 DEF FeesTyped
<1>11. AveragesTraced'
  BY <1>4, <1>9 DEF AveragesTraced
<1> QED BY <1>4, <1>10, <1>11

\* A late or reordered FeeInfoSync only ever brings an average the shard once had.
LEMMA SyncTraced ==
  ASSUME FeesTyped, AveragesTraced, NEW m \in feeMsgs, handleFeeInfoSync(m)
  PROVE  FeesTyped' /\ AveragesTraced'
<1>1. /\ feeMsgs' = feeMsgs \ {m} /\ avg' = [avg EXCEPT ![m.to][m.shard] = m.avg]
      /\ UNCHANGED <<committed, height, itxWindow>>
  BY DEF handleFeeInfoSync
<1>2. m.to \in Shard /\ m.shard \in Shard /\ m.avg \in Nat /\ m.shard # m.to
  BY DEF FeesTyped, AveragesTraced
<1>3. \A q, r \in Shard : avg'[q][r] = IF q = m.to /\ r = m.shard THEN m.avg ELSE avg[q][r]
  BY <1>1, <1>2 DEF FeesTyped
<1>4. FeesTyped'
  BY <1>1, <1>2 DEF FeesTyped
<1>5. \A r : Fees(r)' = Fees(r)
  BY <1>1 DEF Fees
<1>6. \A s \in Shard : avg'[s][s] = avg[s][s] /\ itxWindow'[s] = itxWindow[s]
  BY <1>1, <1>2, <1>3
<1>7. \A q, r \in Shard : avg'[q][r] = 0 \/ Between(avg[q][r], r)'
  <2> SUFFICES ASSUME NEW q \in Shard, NEW r \in Shard
               PROVE  avg'[q][r] = 0 \/ Between(avg[q][r], r)'
    OBVIOUS
  <2>1. CASE q = m.to /\ r = m.shard
    BY <1>3, <1>5, <2>1 DEF AveragesTraced, Between
  <2>2. CASE ~(q = m.to /\ r = m.shard)
    BY <1>3, <1>5, <2>2 DEF AveragesTraced, Between
  <2> QED BY <2>1, <2>2
<1>8. \A n \in feeMsgs' : n.shard # n.to /\ (n.avg = 0 \/ Between(n.avg, n.shard)')
  BY <1>1, <1>5 DEF AveragesTraced, Between
<1>9. \A s \in Shard : /\ (itxWindow'[s] = <<>> <=> Fees(s)' = {})
                       /\ \A i \in 1 .. Len(itxWindow'[s]) : Between(itxWindow[s][i], s)'
                       /\ (avg'[s][s] = 0 /\ Fees(s)' = {}) \/ Between(avg[s][s], s)'
  BY <1>5, <1>6 DEF AveragesTraced, Between
<1> QED BY <1>4, <1>7, <1>8, <1>9 DEF AveragesTraced

-----------------------------------------------------------------------------
(* The theorems.                                                           *)

IInv == TypeOK /\ Whereabouts /\ AveragesTraced /\ IssuedCounted

LEMMA InitInvariant == Init => IInv
<1> SUFFICES ASSUME Init PROVE IInv
  OBVIOUS
<1>1. \A r : Fees(r) = {}
  BY DEF Init, Fees, IntraShard
<1>2. AveragesTraced
  BY <1>1 DEF Init, AveragesTraced
<1>3. IssuedCounted
  BY DEF Init, IssuedCounted
<1> QED BY <1>2, <1>3, InitType, InitWhere DEF IInv

LEMMA NextInvariant == IInv /\ [Next]_vars => IInv'
<1> SUFFICES ASSUME IInv, [Next]_vars PROVE IInv'
  OBVIOUS
<1>1. Whereabouts'
  BY NextWhere DEF IInv, TypeOK
<1>2. ASSUME UNCHANGED <<committed, itxWindow, avg, feeMsgs>> PROVE AveragesTraced'
  <2>1. \A r : Fees(r)' = Fees(r)
    BY <1>2 DEF Fees
  <2> QED BY <1>2, <2>1 DEF IInv, AveragesTraced, Between
<1>3. ASSUME NEW x \in arriving, AddTxs2Pool(x) PROVE TypeOK' /\ AveragesTraced' /\ IssuedCounted'
  <2>1. UNCHANGED <<committed, feeVars, epochVars>>
    BY <1>3 DEF AddTxs2Pool
  <2> QED BY <1>2, <1>3, <2>1, ArriveType DEF IInv, feeVars, epochVars, IssuedCounted
<1>4. ASSUME NEW s \in Shard, Drain(s) PROVE TypeOK' /\ AveragesTraced' /\ IssuedCounted'
  <2>1. UNCHANGED <<committed, feeVars, epochVars>>
    BY <1>4 DEF Drain
  <2> QED BY <1>2, <1>4, <2>1, DrainType DEF IInv, feeVars, epochVars, IssuedCounted
<1>5. ASSUME NEW s \in Shard, Select(s) PROVE TypeOK' /\ AveragesTraced' /\ IssuedCounted'
  <2>1. UNCHANGED <<committed, feeVars>>
    BY <1>5 DEF Select
  <2> QED BY <1>2, <1>5, <2>1, SelectType DEF IInv, feeVars
<1>6. ASSUME NEW s \in Shard, Commit(s) PROVE TypeOK' /\ AveragesTraced' /\ IssuedCounted'
  <2>1. PoolTyped' /\ \A r \in Shard : block'[r] = IF r = s THEN {} ELSE block[r]
    BY <1>6, CommitPool DEF IInv, TypeOK
  <2>2. /\ FeesTyped' /\ AveragesTraced'
        /\ \A r \in Shard : Len(itxWindow'[r]) <= JustitiaWindowBlocks
    BY <1>6, CommitTraced DEF IInv
  <2>3. PricesTyped' /\ IssuedCounted'
    BY <1>6, CommitPrices DEF IInv, TypeOK
  <2>4. \A r \in Shard : Cardinality(block'[r]) <= BlockSize
    BY <2>1, FS_EmptySet, SchedulerAssumption DEF IInv, TypeOK, Bounded
  <2> QED BY <2>1, <2>2, <2>3, <2>4 DEF TypeOK, Bounded
<1>7. ASSUME NEW m \in feeMsgs, handleFeeInfoSync(m) PROVE TypeOK' /\ AveragesTraced' /\ IssuedCounted'
  <2>1. UNCHANGED <<poolVars, committed, itxWindow, epochVars>>
    BY <1>7 DEF handleFeeInfoSync
  <2>2. FeesTyped' /\ AveragesTraced'
    BY <1>7, SyncTraced DEF IInv, TypeOK
  <2> QED BY <2>1, <2>2 DEF poolVars, epochVars, IInv, IssuedCounted, TypeOK, PoolTyped, PricesTyped, Bounded
<1>8. ASSUME UNCHANGED vars PROVE TypeOK' /\ AveragesTraced' /\ IssuedCounted'
  <2>1. UNCHANGED <<poolVars, committed, height, feeVars, epochVars>>
    BY <1>8 DEF vars
  <2>2. PoolTyped' /\ FeesTyped'
    BY <2>1 DEF poolVars, feeVars, IInv, TypeOK, PoolTyped, FeesTyped
  <2>3. PricesTyped' /\ Bounded' /\ IssuedCounted'
    BY <2>1 DEF poolVars, feeVars, epochVars, IInv, TypeOK, PricesTyped, Bounded, IssuedCounted
  <2> QED BY <1>2, <2>1, <2>2, <2>3 DEF feeVars, TypeOK
<1> QED BY <1>1, <1>3, <1>4, <1>5, <1>6, <1>7, <1>8 DEF Next, IInv

LEMMA Invariant == Spec => []IInv
  BY InitInvariant, NextInvariant, PTL DEF Spec

\* Whatever arrives while packTxsWithScheduler has drained the queue, and
\* however the shards' leaders interleave, each half of a transaction that is
\* due is in exactly one place: for every number of shards and transactions,
\* every block size and every subsidy mode.
THEOREM NothingLostInThePool == Spec => []NoTxLost
<1>1. IInv => NoTxLost
  BY WhereaboutsSuffice DEF IInv, TypeOK
<1> QED BY <1>1, Invariant, PTL

\* Every average a shard keeps, its own and the copies that FeeInfoSync
\* messages bring late or out of order, lies between two capped fees its shard
\* committed; windows and blocks keep within their sizes, the price in its bounds.
THEOREM AveragesInRange == Spec => []AverageInRange
<1>1. ASSUME IInv PROVE AverageInRange
  <2>1. ASSUME NEW s \in Shard, NEW r \in Shard
        PROVE  IF Fees(r) = {} THEN avg[s][r] = 0
               ELSE Between(avg[s][r], r) \/ (s # r /\ avg[s][r] = 0)
    <3>1. avg[s][r] = 0 \/ Between(avg[s][r], r)
      BY <1>1 DEF IInv, AveragesTraced
    <3>2. s = r => (avg[s][r] = 0 /\ Fees(r) = {}) \/ Between(avg[s][r], r)
      BY <1>1 DEF IInv, AveragesTraced
    <3>3. Between(avg[s][r], r) => Fees(r) # {}
      BY DEF Between
    <3> QED BY <3>1, <3>2, <3>3
  <2> QED BY <1>1, <2>1 DEF AverageInRange, IInv
<1> QED BY <1>1, Invariant, PTL

\* The shadow price of the Lagrangian mode never falls at the end of an epoch
\* in which the packed transactions were granted more than MaxInflation: what is
\* packed was counted in epochSubsidyTotal when it was scored.
THEOREM PriceDefendsBudget == Spec => BudgetDefended
<1> DEFINE Defended == \A s \in Shard : lambda'[s] < lambda[s] => issued[s] <= MaxInflation
<1>1. ASSUME IInv, Next PROVE Defended
  <2> SUFFICES ASSUME NEW r \in Shard, lambda'[r] < lambda[r] PROVE issued[r] <= MaxInflation
    OBVIOUS
  <2>1. /\ lambda[r] \in MinLambda .. MaxLambda /\ epochSubsidyTotal[r] \in Nat /\ issued[r] \in Nat
        /\ issued[r] <= epochSubsidyTotal[r] /\ MinLambda \in Nat /\ MaxLambda \in Nat
        /\ MaxInflation \in Nat
    BY <1>1, SchedulerAssumption DEF IInv, TypeOK, PricesTyped, IssuedCounted
  <2>2. lambda' # lambda
    BY <2>1
  <2>3. PICK s \in Shard : Commit(s)
    BY <1>1, <2>2 DEF Next, AddTxs2Pool, Drain, Select, handleFeeInfoSync, epochVars
  <2>4. lambda' = [lambda EXCEPT ![s] = UpdateShadowPrice(lambda[s], epochSubsidyTotal[s])]
    BY <2>2, <2>3 DEF Commit, UpdateEpoch, epochVars
  <2>5. lambda \in [Shard -> MinLambda .. MaxLambda]
    BY <1>1 DEF IInv, TypeOK, PricesTyped
  <2>6. r = s /\ lambda'[r] = UpdateShadowPrice(lambda[r], epochSubsidyTotal[r])
    <3>1. r # s => lambda'[r] = lambda[r]
      BY <2>4, <2>5
    <3>2. r = s
      BY <2>1, <3>1
    <3> QED BY <2>4, <2>5, <3>2
  <2>7. epochSubsidyTotal[r] <= MaxInflation
    BY <2>1, <2>6, PriceType
  <2> QED BY <2>1, <2>7
<1>2. IInv /\ [Next]_vars => [Defended]_vars
  BY <1>1
<1> QED BY <1>2, Invariant, PTL DEF Spec, BudgetDefended
=============================================================================
