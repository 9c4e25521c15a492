------------------------------ MODULE RelayProofs ------------------------------
(***************************************************************************)
(* The relay method, for every number of shards, accounts and rows, every  *)
(* block size and rate of injection, and every order of delivery.          *)
(***************************************************************************)
EXTENDS Relay, Folding, SequenceTheorems

-----------------------------------------------------------------------------
(* Rows and items.                                                         *)

\* A message's transactions as items of a pool.
LEMMA ItemsHold ==
  ASSUME NEW q \in Seq(Tx), NEW b \in BOOLEAN
  PROVE  LET r == [i \in 1 .. Len(q) |-> [tx |-> q[i], relayed |-> b]]
         IN /\ r \in Seq(Item)
            /\ \A x \in Item : Holds(r, x) <=> x.relayed = b /\ Holds(q, x.tx)
            /\ Distinct(q) => Distinct(r)
<1> DEFINE it(t) == [tx |-> t, relayed |-> b]
           r == [i \in 1 .. Len(q) |-> it(q[i])]
<1>1. Len(q) \in Nat /\ \A i \in 1 .. Len(q) : q[i] \in Tx
  OBVIOUS
<1>2. \A t \in Tx : it(t) \in Item /\ it(t).tx = t /\ it(t).relayed = b
  BY DEF Item
<1>3. \A x \in Item : x.relayed = b => x = it(x.tx)
  BY DEF Item
<1>4. r \in Seq(Item) /\ Len(r) = Len(q) /\ \A i \in 1 .. Len(q) : r[i] = it(q[i])
  <2> HIDE DEF it
  <2> QED BY <1>1, <1>2
<1> HIDE DEF r, it
<1>5. ASSUME NEW x \in Item PROVE Holds(r, x) <=> x.relayed = b /\ Holds(q, x.tx)
  <2>1. x \in Item
    OBVIOUS
  <2>2. ASSUME Holds(r, x) PROVE x.relayed = b /\ Holds(q, x.tx)
    <3>1. PICK i \in 1 .. Len(q) : it(q[i]) = x
      BY <1>4, <2>2 DEF Holds
    <3> QED BY <1>1, <1>2, <3>1 DEF Holds
  <2>3. ASSUME x.relayed = b, Holds(q, x.tx) PROVE Holds(r, x)
    <3>1. PICK i \in 1 .. Len(q) : q[i] = x.tx
      BY <2>3 DEF Holds
    <3>2. r[i] = x
      BY <1>3, <1>4, <2>1, <2>3, <3>1
    <3> QED BY <1>4, <3>2 DEF Holds
  <2> QED BY <2>2, <2>3
<1>6. Distinct(q) => Distinct(r)
  <2> SUFFICES ASSUME Distinct(q), NEW i \in 1 .. Len(q), NEW j \in 1 .. Len(q), r[i] = r[j]
               PROVE  i = j
    BY <1>4 DEF Distinct
  <2>1. q[i] = q[j]
    BY <1>1, <1>2, <1>4
  <2> QED BY <2>1 DEF Distinct
<1> QED BY <1>4, <1>5, <1>6 DEF r, it

LEMMA RowTypes ==
  ASSUME NEW t \in Tx
  PROVE  /\ Rows[t].sender \in Account /\ Rows[t].recipient \in Account /\ Rows[t].value \in Nat
         /\ From(t) \in Shard /\ To(t) \in Shard
<1>1. Rows[t] \in [sender : Account, recipient : Account, value : Nat]
  <2> DEFINE R == [sender : Account, recipient : Account, value : Nat]
  <2>1. Rows \in Seq(R) /\ t \in 1 .. Len(Rows)
    BY ConfigAssumption DEF Tx
  <2> HIDE DEF R
  <2>2. Rows[t] \in R
    BY <2>1
  <2> QED BY <2>2 DEF R
<1>2. Rows[t].sender \in Account /\ Rows[t].recipient \in Account /\ Rows[t].value \in Nat
  BY <1>1
<1> QED BY <1>2, ConfigAssumption DEF From, To

LEMMA RowsFinite == Len(Rows) \in Nat /\ Tx = 1 .. Len(Rows) /\ IsFiniteSet(Tx)
<1>1. Len(Rows) \in Nat
  BY ConfigAssumption
<1>2. IsFiniteSet(1 .. Len(Rows))
  BY <1>1, LastIndex
<1> QED BY <1>1, <1>2 DEF Tx

LEMMA ItemTypes ==
  /\ \A t \in Tx : First(t) \in Item /\ Second(t) \in Item /\ First(t) # Second(t)
  /\ \A x \in Item : x.tx \in Tx /\ x = IF x.relayed THEN Second(x.tx) ELSE First(x.tx)
  /\ \A t : First(t).tx = t /\ ~First(t).relayed /\ Second(t).tx = t /\ Second(t).relayed
<1>1. \A t \in Tx : First(t) \in Item /\ Second(t) \in Item /\ First(t) # Second(t)
  BY DEF Item, First, Second
<1>2. ASSUME NEW x \in Item PROVE x.tx \in Tx /\ x = IF x.relayed THEN Second(x.tx) ELSE First(x.tx)
  <2>1. x.tx \in Tx /\ x.relayed \in BOOLEAN /\ x = [tx |-> x.tx, relayed |-> x.relayed]
    BY DEF Item
  <2>2. CASE x.relayed
    <3>1. x.relayed = TRUE
      BY <2>1, <2>2
    <3> QED BY <2>1, <3>1 DEF Second
  <2>3. CASE ~x.relayed
    <3>1. x.relayed = FALSE
      BY <2>1, <2>3
    <3> QED BY <2>1, <3>1 DEF First
  <2> QED BY <2>2, <2>3
<1>3. \A t : First(t).tx = t /\ ~First(t).relayed /\ Second(t).tx = t /\ Second(t).relayed
  BY DEF First, Second
<1> QED BY <1>1, <1>2, <1>3

\* An injected piece: the rows between two numbers whose sender lives in s.
LEMMA RowsOfHolds ==
  ASSUME NEW s, NEW first \in Nat \ {0}, NEW last \in Nat, first <= last, last <= Len(Rows)
  PROVE  /\ RowsOf(s, first, last) \in Seq(Tx) /\ Distinct(RowsOf(s, first, last))
         /\ \A t : Holds(RowsOf(s, first, last), t) <=> t \in first .. last /\ From(t) = s
<1> DEFINE n == last - first + 1
           q == [i \in 1 .. n |-> first + i - 1]
           T == {t \in Tx : From(t) = s}
<1>1. n \in Nat /\ Tx = 1 .. Len(Rows) /\ Len(Rows) \in Nat
  BY RowsFinite
<1>2. \A i \in 1 .. n : first + i - 1 \in Tx
  BY <1>1
<1>3. q \in Seq(Tx) /\ Len(q) = n /\ \A i \in 1 .. n : q[i] = first + i - 1
  BY <1>1, <1>2
<1>4. Distinct(q)
  BY <1>1, <1>3 DEF Distinct
<1>5. \A t : Holds(q, t) <=> t \in first .. last
  <2> SUFFICES ASSUME NEW t PROVE Holds(q, t) <=> t \in first .. last
    OBVIOUS
  <2>1. Holds(q, t) => t \in first .. last
    BY <1>1, <1>3 DEF Holds
  <2>2. ASSUME t \in first .. last PROVE Holds(q, t)
    <3>1. t - first + 1 \in 1 .. n /\ q[t - first + 1] = t
      BY <2>2
    <3> QED BY <1>3, <3>1 DEF Holds
  <2> QED BY <2>1, <2>2
<1>6. RowsOf(s, first, last) = Selected(q, T)
  BY DEF RowsOf
<1>7. first .. last \subseteq Tx
  BY <1>1
<1> HIDE DEF q, T
<1>8. /\ Selected(q, T) \in Seq(Tx) /\ Distinct(Selected(q, T))
      /\ \A t : Holds(Selected(q, T), t) <=> Holds(q, t) /\ t \in T
  BY <1>3, <1>4, SelectedHolds
<1> QED BY <1>5, <1>6, <1>7, <1>8 DEF T

\* What the messages a block sends hold.
RelaysFrom(s, txs, out) ==
  /\ out \subseteq [to : Shard, txs : Seq(Tx)]
  /\ \A m \in out : /\ Distinct(m.txs)
                    /\ \A t \in Tx : Holds(m.txs, t) => m.to = To(t) /\ To(t) # s /\ Holds(txs, First(t))
                    /\ \A n \in out : n.to = m.to => n = m
  /\ \A t \in Tx : Holds(txs, First(t)) /\ To(t) # s => \E m \in out : m.to = To(t) /\ Holds(m.txs, t)

LEMMA RelaysOfHold ==
  ASSUME NEW s, NEW txs \in Seq(Item), Distinct(txs),
         \A x \in Item : Holds(txs, x) /\ x.relayed => To(x.tx) = s
  PROVE  RelaysFrom(s, txs, RelaysOf(s, txs))
<1> DEFINE far == {x \in Item : MustRelay(s, x)}
           near(r) == {x \in Item : RelayTarget(x) = r}
           out == Selected(txs, far)
           txsTo(r) == Selected(out, near(r))
           msg(r) == [to |-> r, txs |-> [i \in 1 .. Len(txsTo(r)) |-> txsTo(r)[i].tx]]
           targets == {RelayTarget(out[i]) : i \in 1 .. Len(out)}
<1>1. RelaysOf(s, txs) = {msg(r) : r \in targets}
  BY DEF RelaysOf
<1>2. /\ out \in Seq(Item) /\ Distinct(out)
      /\ \A x : Holds(out, x) <=> Holds(txs, x) /\ x \in far
  <2> HIDE DEF far
  <2> QED BY SelectedHolds
<1> HIDE DEF out
<1>3. \A x \in Item : x \in far <=> To(x.tx) # s
  BY DEF MustRelay
<1>4. \A r : \A x \in Item : x \in near(r) <=> To(x.tx) = r
  BY DEF RelayTarget
<1> HIDE DEF far, near
<1>5. ASSUME NEW r
      PROVE  /\ txsTo(r) \in Seq(Item) /\ Distinct(txsTo(r))
             /\ \A x \in Item : Holds(txsTo(r), x) <=> Holds(txs, x) /\ To(x.tx) # s /\ To(x.tx) = r
  BY <1>2, <1>3, <1>4, SelectedHolds
<1> HIDE DEF txsTo
<1>6. ASSUME NEW r
      PROVE  /\ msg(r).to = r /\ msg(r).txs \in Seq(Tx) /\ Distinct(msg(r).txs)
             /\ \A t \in Tx : Holds(msg(r).txs, t) <=> Holds(txs, First(t)) /\ To(t) # s /\ To(t) = r
  <2> DEFINE q == txsTo(r)
             p == [i \in 1 .. Len(q) |-> q[i].tx]
  <2>1. q \in Seq(Item) /\ Distinct(q) /\ \A x \in Item : Holds(q, x) <=> Holds(txs, x) /\ To(x.tx) # s /\ To(x.tx) = r
    BY <1>5
  <2> HIDE DEF q
  <2>2. Len(q) \in Nat /\ \A i \in 1 .. Len(q) : q[i] \in Item
    BY <2>1
  <2>3. \A i \in 1 .. Len(q) : Holds(q, q[i]) /\ q[i].tx \in Tx
    BY <2>2, ItemTypes DEF Holds
  <2>4. \A i \in 1 .. Len(q) : q[i] = First(q[i].tx)
    BY <2>1, <2>2, <2>3, ItemTypes
  <2>5. p \in Seq(Tx) /\ Len(p) = Len(q) /\ \A i \in 1 .. Len(q) : p[i] = q[i].tx
    BY <2>2, <2>3
  <2> HIDE DEF p
  <2>6. Distinct(p)
    BY <2>1, <2>4, <2>5 DEF Distinct
  <2>7. ASSUME NEW t \in Tx PROVE Holds(p, t) <=> Holds(txs, First(t)) /\ To(t) # s /\ To(t) = r
    <3>1. First(t) \in Item /\ First(t).tx = t
      BY ItemTypes
    <3>2. Holds(p, t) <=> Holds(q, First(t))
      BY <2>4, <2>5, <3>1 DEF Holds
    <3> QED BY <2>1, <3>1, <3>2
  <2>8. msg(r).to = r /\ msg(r).txs = p
    BY DEF p, q
  <2> QED BY <2>5, <2>6, <2>7, <2>8
<1>7. targets \subseteq Shard
  <2>1. \A i \in 1 .. Len(out) : out[i] \in Item
    BY <1>2
  <2> QED BY <2>1, ItemTypes, RowTypes DEF RelayTarget
<1>8. \A r \in targets : msg(r) \in [to : Shard, txs : Seq(Tx)]
  <2> HIDE DEF targets
  <2> SUFFICES ASSUME NEW r \in targets PROVE msg(r) \in [to : Shard, txs : Seq(Tx)]
    OBVIOUS
  <2> DEFINE p == [i \in 1 .. Len(txsTo(r)) |-> txsTo(r)[i].tx]
  <2>1. msg(r) = [to |-> r, txs |-> p] /\ msg(r).txs = p
    OBVIOUS
  <2>2. p \in Seq(Tx) /\ r \in Shard
    BY <1>6, <1>7, <2>1
  <2> HIDE DEF p
  <2> QED BY <2>1, <2>2
<1>9. ASSUME NEW t \in Tx, Holds(txs, First(t)), To(t) # s PROVE To(t) \in targets
  <2>1. First(t) \in Item /\ First(t).tx = t
    BY ItemTypes
  <2>2. Holds(out, First(t))
    BY <1>2, <1>3, <1>9, <2>1
  <2>3. PICK i \in 1 .. Len(out) : out[i] = First(t)
    BY <2>2 DEF Holds
  <2> QED BY <2>1, <2>3 DEF RelayTarget
<1> HIDE DEF msg, targets
<1> QED BY <1>1, <1>6, <1>8, <1>9 DEF RelaysFrom

-----------------------------------------------------------------------------
(* The supervisor's pieces.                                                *)

LEMMA DivBetween ==
  ASSUME NEW n \in Nat, NEW d \in Nat \ {0}
  PROVE  n \div d \in Nat /\ (n \div d) * d <= n /\ n < (n \div d + 1) * d
<1>1. n \div d \in Nat /\ n % d \in 0 .. d - 1 /\ n = d * (n \div d) + (n % d)
  OBVIOUS
<1> DEFINE k == n \div d
<1>2. k \in Nat /\ d * k <= n /\ n < d * k + d
  BY <1>1
<1> HIDE DEF k
<1>3. k * d = d * k /\ (k + 1) * d = d * k + d
  BY <1>2
<1> QED BY <1>2, <1>3 DEF k

\* A piece is not empty and does not pass the end of its batch.
LEMMA PieceAdvances ==
  ASSUME NEW k \in Nat \ {0}, k <= dataTotalNum
  PROVE  /\ PieceEnd(k) \in Nat /\ k <= PieceEnd(k)
         /\ PieceEnd(k) <= BatchEnd(k) /\ BatchEnd(k) <= dataTotalNum /\ BatchEnd(k) \in Nat
<1> DEFINE b == batchDataNum
           c == InjectSpeed
           d == (k - 1) \div b
           f == d * b
           e == (k - 1 - f) \div c
<1>1. b \in Nat \ {0} /\ c \in Nat \ {0} /\ dataTotalNum \in Nat /\ k - 1 \in Nat
  BY ConfigAssumption
<1>2. d \in Nat /\ f <= k - 1 /\ k - 1 < (d + 1) * b
  BY <1>1, DivBetween
<1>3. f \in Nat /\ (d + 1) * b \in Nat
  <2> HIDE DEF d, b
  <2> QED BY <1>1, <1>2
<1>4. k - 1 - f \in Nat
  <2> HIDE DEF f
  <2> QED BY <1>1, <1>2, <1>3
<1>5. e \in Nat /\ k - 1 - f < (e + 1) * c
  <2> HIDE DEF f
  <2> QED BY <1>1, <1>4, DivBetween
<1>6. (e + 1) * c \in Nat
  <2> HIDE DEF e
  <2> QED BY <1>1, <1>5
<1>7. BatchEnd(k) = Least((d + 1) * b, dataTotalNum) /\ PieceEnd(k) = Least(f + (e + 1) * c, BatchEnd(k))
  BY DEF BatchEnd, PieceEnd
<1> DEFINE x == (d + 1) * b
           y == (e + 1) * c
<1> HIDE DEF d, f, e, b, c, x, y
<1>8. x \in Nat /\ k <= x /\ y \in Nat /\ f \in Nat /\ k <= f + y
  <2>1. x \in Nat /\ k - 1 < x /\ y \in Nat /\ k - 1 - f < y
    BY <1>2, <1>3, <1>5, <1>6 DEF x, y
  <2> QED BY <1>3, <2>1
<1>9. BatchEnd(k) = Least(x, dataTotalNum) /\ PieceEnd(k) = Least(f + y, BatchEnd(k))
  BY <1>7 DEF x, y
<1> QED BY <1>1, <1>8, <1>9 DEF Least

-----------------------------------------------------------------------------
(* A block is executed transaction by transaction.                         *)

LEMMA ExecuteType ==
  ASSUME NEW s, NEW bal \in [Account -> Nat], NEW x \in Item
  PROVE  Execute(s, bal, x) \in [Account -> Nat]
<1> DEFINE r == Rows[x.tx]
           paid == [bal EXCEPT ![r.sender] = @ - r.value]
           credit(b) == IF CreditedHere(s, x.tx) THEN [b EXCEPT ![r.recipient] = @ + r.value] ELSE b
<1>1. r.sender \in Account /\ r.recipient \in Account /\ r.value \in Nat
  BY RowTypes, ItemTypes
<1>2. bal[r.sender] >= r.value => paid \in [Account -> Nat]
  <2> HIDE DEF r
  <2>1. bal[r.sender] >= r.value => bal[r.sender] - r.value \in Nat
    BY <1>1
  <2> QED BY <1>1, <2>1
<1>3. ASSUME NEW b \in [Account -> Nat] PROVE credit(b) \in [Account -> Nat]
  <2> HIDE DEF r
  <2>1. b[r.recipient] + r.value \in Nat
    BY <1>1
  <2> QED BY <1>1, <2>1
<1>4. \/ Execute(s, bal, x) = bal
      \/ bal[r.sender] >= r.value /\ Execute(s, bal, x) = credit(paid)
      \/ Execute(s, bal, x) = credit(bal)
  BY SMTT(30) DEF Execute
<1> HIDE DEF credit, paid
<1> QED BY <1>2, <1>3, <1>4

\* h[i] are the balances after i transactions.
Ledgers(h, s, txs) ==
  /\ h[0] = balance /\ h[Len(txs)] = GetUpdateStatusTrie(s, txs)
  /\ \A i \in 1 .. Len(txs) : h[i] = Execute(s, h[i - 1], txs[i])

LEMMA ExecutionSteps ==
  ASSUME balance \in [Account -> Nat], NEW s, NEW txs \in Seq(Item)
  PROVE  \E h \in [0 .. Len(txs) -> [Account -> Nat]] : Ledgers(h, s, txs)
<1> DEFINE n == Len(txs)
           D == 1 .. n
           X == [Account -> Nat]
           F == [i \in 1 .. n |-> [v \in X |-> Execute(s, v, txs[i])]]
           R(g) == g = [u \in SUBSET DOMAIN txs |->
                          IF u = {} THEN balance ELSE Execute(s, g[u \ {Max(u)}], txs[Max(u)])]
           iter == CHOOSE g : R(g)
<1>1. GetUpdateStatusTrie(s, txs) = iter[DOMAIN txs]
  BY DEF GetUpdateStatusTrie, FoldLeft, MapThenFoldSet
<1>2. n \in Nat /\ DOMAIN txs = D /\ balance \in X /\ \A i \in 1 .. n : txs[i] \in Item
  OBVIOUS
<1>3. F \in [1 .. n -> [X -> X]]
  <2>1. \A i \in 1 .. n, v \in X : Execute(s, v, txs[i]) \in X
    BY <1>2, ExecuteType
  <2> HIDE DEF X, n
  <2> QED BY <2>1
<1>4. PICK g \in [SUBSET (1 .. n) -> X], h \in [0 .. n -> X] : LeftFolds(g, h, n, balance, F)
  <2> HIDE DEF n, X, F
  <2> QED BY <1>2, <1>3, LeftFold, Zenon
<1>5. \A u \in SUBSET D : u # {} => Max(u) \in u
  BY <1>2, LastIndex
<1>6. \A i \in D, v \in X : F[i][v] = Execute(s, v, txs[i])
  <2> HIDE DEF X, n
  <2> QED OBVIOUS
<1>7. IsFiniteSet(D)
  BY <1>2, LastIndex
<1> HIDE DEF F, X, n
<1>8. ASSUME NEW u \in SUBSET D
      PROVE  g[u] = IF u = {} THEN balance ELSE Execute(s, g[u \ {Max(u)}], txs[Max(u)])
  <2>1. g[u] = IF u = {} THEN balance ELSE F[Max(u)][g[u \ {Max(u)}]]
    BY <1>4 DEF LeftFolds
  <2>2. CASE u = {}
    BY <2>1, <2>2
  <2>3. CASE u # {}
    <3> DEFINE k == Max(u)
    <3>1. k \in D /\ u \ {k} \in SUBSET D
      BY <1>5, <2>3
    <3> HIDE DEF k
    <3>2. g[u \ {k}] \in X
      BY <1>4, <3>1
    <3>3. F[k][g[u \ {k}]] = Execute(s, g[u \ {k}], txs[k])
      BY <1>6, <3>1, <3>2
    <3>4. g[u] = F[k][g[u \ {k}]]
      BY <2>1, <2>3 DEF k
    <3> QED BY <2>3, <3>3, <3>4 DEF k
  <2> QED BY <2>2, <2>3
<1>9. R(g)
  BY <1>2, <1>4, <1>8
<1>10. R(iter)
  <2> HIDE DEF R
  <2> QED BY <1>9, Zenon
<1>11. iter[D] = g[D]
  <2> DEFINE P == {u \in SUBSET D : iter[u] = g[u]}
  <2> HIDE DEF iter, D
  <2>1. ASSUME NEW u \in SUBSET D, \A x \in u : u \ {x} \in P
        PROVE  u \in P
    <3>1. iter[u] = IF u = {} THEN balance ELSE Execute(s, iter[u \ {Max(u)}], txs[Max(u)])
      BY <1>2, <1>10
    <3>2. CASE u = {}
      BY <1>8, <3>1, <3>2
    <3>3. CASE u # {}
      <4> DEFINE k == Max(u)
                 w == u \ {k}
      <4>1. iter[w] = g[w]
        BY <1>5, <2>1, <3>3
      <4> HIDE DEF k
      <4>2. iter[u] = Execute(s, iter[w], txs[k]) /\ g[u] = Execute(s, g[w], txs[k])
        BY <1>8, <3>1, <3>3 DEF k
      <4> HIDE DEF w
      <4>3. iter[u] = g[u]
        BY <4>1, <4>2
      <4> QED BY <4>3
    <3> QED BY <3>2, <3>3
  <2>2. D \in P
    <3> HIDE DEF P
    <3> QED BY <1>7, <2>1, SubsetInduction
  <2> QED BY <2>2
<1>12. h[0] = balance /\ h[n] = g[D]
  BY <1>4 DEF LeftFolds
<1>13. ASSUME NEW i \in 1 .. n PROVE h[i] = Execute(s, h[i - 1], txs[i])
  <2>1. i - 1 \in 0 .. n
    BY <1>2
  <2>2. h[i] = F[i][h[i - 1]] /\ h[i - 1] \in X
    BY <1>4, <2>1 DEF LeftFolds
  <2> QED BY <1>6, <2>2
<1>14. h[n] = GetUpdateStatusTrie(s, txs)
  BY <1>1, <1>2, <1>11, <1>12
<1>15. Ledgers(h, s, txs)
  BY <1>12, <1>13, <1>14 DEF Ledgers, n
<1> QED BY <1>4, <1>15 DEF n, X

-----------------------------------------------------------------------------
(* Where the halves of the transactions are.                               *)

Sent(msgs, s, t) == \E m \in msgs : m.to = s /\ Holds(m.txs, t)

\* No message repeats a transaction, nor do two.
Letters(msgs) ==
  \A m \in msgs : /\ Distinct(m.txs)
                  /\ \A n \in msgs, t \in Tx : Holds(m.txs, t) /\ Holds(n.txs, t) => m = n

Mailed(s, x) == IF x.relayed THEN Sent(relays, s, x.tx) ELSE Sent(injects, s, x.tx)
InPool(s, x) == Holds(TxQueue[s], x)
InBlock(s, x) == block[s] # <<>> /\ Holds(block[s][1], x)
InChain(s, x) == Holds(chain[s], x)

\* First halves are in their sender's shard; second halves in the recipient's,
\* and only once the first is in a chain.
Belongs(s, x) ==
  IF x.relayed THEN x.tx \in Cross /\ To(x.tx) = s /\ InChain(From(x.tx), First(x.tx))
               ELSE From(x.tx) = s /\ x.tx <= nowDataNum

\* Item x is in at most one place of shard s, and in none that it does not
\* belong to.
OnePlace(s, x) ==
  /\ ~(Mailed(s, x) /\ (InPool(s, x) \/ InBlock(s, x) \/ InChain(s, x)))
  /\ ~(InPool(s, x) /\ (InBlock(s, x) \/ InChain(s, x)))
  /\ ~(InBlock(s, x) /\ InChain(s, x))
  /\ Mailed(s, x) \/ InPool(s, x) \/ InBlock(s, x) \/ InChain(s, x) => Belongs(s, x)

Places == \A s \in Shard, x \in Item : OnePlace(s, x)

\* No place has an item twice.
NoRepeats ==
  /\ Letters(injects) /\ Letters(relays)
  /\ \A s \in Shard : /\ Distinct(TxQueue[s]) /\ Distinct(chain[s])
                      /\ block[s] # <<>> => Distinct(block[s][1])

IInv == TypeOK /\ nowDataNum <= Len(Rows) /\ RightShard /\ Places /\ NoRepeats

-----------------------------------------------------------------------------
(* Sets of messages.                                                       *)

Message == [to : Shard, txs : Seq(Tx)]

LEMMA LettersLess ==
  ASSUME NEW msgs, Letters(msgs), NEW m \in msgs
  PROVE  /\ Letters(msgs \ {m})
         /\ \A s, t : t \in Tx => (Sent(msgs \ {m}, s, t) <=> Sent(msgs, s, t) /\ ~Holds(m.txs, t))
<1>1. Letters(msgs \ {m})
  BY DEF Letters
<1>2. ASSUME NEW s, NEW t \in Tx PROVE Sent(msgs \ {m}, s, t) <=> Sent(msgs, s, t) /\ ~Holds(m.txs, t)
  BY DEF Letters, Sent
<1> QED BY <1>1, <1>2

LEMMA LettersMore ==
  ASSUME NEW msgs, Letters(msgs), NEW out, Letters(out),
         \A m \in msgs, n \in out, t \in Tx : ~(Holds(m.txs, t) /\ Holds(n.txs, t))
  PROVE  /\ Letters(msgs \cup out)
         /\ \A s, t : Sent(msgs \cup out, s, t) <=> Sent(msgs, s, t) \/ Sent(out, s, t)
<1>1. Letters(msgs \cup out)
  BY DEF Letters
<1>2. \A s, t : Sent(msgs \cup out, s, t) <=> Sent(msgs, s, t) \/ Sent(out, s, t)
  BY DEF Sent
<1> QED BY <1>1, <1>2

\* One piece's messages: a row is in the one for its sender's shard.
LEMMA PieceLetters ==
  ASSUME NEW first \in Nat \ {0}, NEW last \in Nat, first <= last, last <= Len(Rows)
  PROVE  LET out == {[to |-> s, txs |-> RowsOf(s, first, last)] : s \in {From(t) : t \in first .. last}}
         IN /\ out \subseteq Message /\ Letters(out)
            /\ \A s, t : Sent(out, s, t) <=> t \in first .. last /\ From(t) = s
<1> DEFINE msg(s) == [to |-> s, txs |-> RowsOf(s, first, last)]
           dest == {From(t) : t \in first .. last}
           out == {msg(s) : s \in dest}
<1>1. first .. last \subseteq Tx
  BY RowsFinite
<1>2. dest \subseteq Shard
  BY <1>1, RowTypes
<1>3. ASSUME NEW s
      PROVE  /\ msg(s).to = s /\ msg(s).txs \in Seq(Tx) /\ Distinct(msg(s).txs)
             /\ \A t : Holds(msg(s).txs, t) <=> t \in first .. last /\ From(t) = s
  BY RowsOfHolds
<1>4. \A s \in dest : msg(s) \in Message
  <2> SUFFICES ASSUME NEW s \in dest PROVE msg(s) \in Message
    OBVIOUS
  <2>1. s \in Shard /\ RowsOf(s, first, last) \in Seq(Tx)
    BY <1>2, RowsOfHolds
  <2> QED BY <2>1 DEF Message
<1> HIDE DEF msg
<1>5. out \subseteq Message
  BY <1>4
<1>6. Letters(out)
  BY <1>3 DEF Letters
<1>7. ASSUME NEW s, NEW t PROVE Sent(out, s, t) <=> t \in first .. last /\ From(t) = s
  <2>1. ASSUME Sent(out, s, t) PROVE t \in first .. last /\ From(t) = s
    BY <1>3, <2>1 DEF Sent
  <2>2. ASSUME t \in first .. last, From(t) = s PROVE Sent(out, s, t)
    <3>1. s \in dest /\ msg(s) \in out
      BY <2>2
    <3>2. msg(s).to = s /\ Holds(msg(s).txs, t)
      BY <1>3, <2>2
    <3> HIDE DEF out, dest
    <3> QED BY <3>1, <3>2 DEF Sent
  <2> QED BY <2>1, <2>2
<1> QED BY <1>5, <1>6, <1>7 DEF msg

LEMMA RelayLetters ==
  ASSUME NEW s, NEW txs, NEW out, RelaysFrom(s, txs, out)
  PROVE  /\ out \subseteq Message /\ Letters(out)
         /\ \A r : \A t \in Tx : Sent(out, r, t) <=> r = To(t) /\ To(t) # s /\ Holds(txs, First(t))
<1>1. out \subseteq Message
  BY DEF RelaysFrom, Message
<1>2. Letters(out)
  BY DEF RelaysFrom, Letters
<1>3. ASSUME NEW r, NEW t \in Tx PROVE Sent(out, r, t) <=> r = To(t) /\ To(t) # s /\ Holds(txs, First(t))
  BY DEF RelaysFrom, Sent
<1> QED BY <1>1, <1>2, <1>3

LEMMA BlockType ==
  ASSUME TypeOK, NEW s \in Shard, block[s] # <<>>
  PROVE  block[s][1] \in Seq(Item)
<1>1. block[s] \in Seq(Seq(Item))
  BY DEF TypeOK
<1> DEFINE I == Seq(Item)
<1> HIDE DEF I
<1>2. block[s] \in Seq(I) /\ block[s] # <<>>
  BY <1>1 DEF I
<1>3. block[s][1] \in I
  BY <1>2
<1> QED BY <1>3 DEF I

-----------------------------------------------------------------------------
(* The invariant is kept, action by action.                                *)

\* Item x is somewhere in shard s or on its way to it.
Here(s, x) == Mailed(s, x) \/ InPool(s, x) \/ InBlock(s, x) \/ InChain(s, x)

\* A step that loses nothing of shard s; one that executes nothing.
Stays(s) == \A x \in Item : Here(s, x) => Here(s, x)'
Settled == \A s \in Shard, x \in Item : InChain(s, x)' => InChain(s, x)

Kept == nowDataNum' <= Len(Rows) /\ RightShard' /\ Places' /\ NoRepeats'

LEMMA TypeUse ==
  ASSUME TypeOK
  PROVE  /\ injects \subseteq Message /\ relays \subseteq Message
         /\ \A s \in Shard : TxQueue[s] \in Seq(Item) /\ chain[s] \in Seq(Item)
         /\ \A m \in injects \cup relays : m.to \in Shard /\ m.txs \in Seq(Tx)
  BY DEF TypeOK, Message

\* Steps that leave messages, pools, blocks and chains alone.
LEMMA IdleKeeps ==
  ASSUME IInv, UNCHANGED <<injects, relays, TxQueue, block, chain, nowDataNum, panicked>>
  PROVE  Kept /\ Settled /\ \A s \in Shard : Stays(s)
<1>1. Places'
  BY DEF IInv, Places, OnePlace, Mailed, InPool, InBlock, InChain, Belongs
<1>2. NoRepeats'
  BY DEF IInv, NoRepeats
<1>3. Settled /\ \A s \in Shard : Stays(s)
  BY DEF Settled, Stays, Here, Mailed, InPool, InBlock, InChain
<1> QED BY <1>1, <1>2, <1>3 DEF IInv, Kept, RightShard

\* The next rows are sent: none of them is anywhere yet.
LEMMA SendingKeeps ==
  ASSUME IInv, txSending
  PROVE  /\ Kept /\ injects' \subseteq Message /\ nowDataNum' \in 0 .. dataTotalNum
         /\ Settled /\ \A s \in Shard : Stays(s)
         /\ \A t \in Tx : nowDataNum < t /\ t <= nowDataNum' => Here(From(t), First(t))'
<1> DEFINE first == nowDataNum + 1
           last == PieceEnd(first)
           out == {[to |-> s, txs |-> RowsOf(s, first, last)] : s \in {From(t) : t \in first .. last}}
<1>1. /\ nowDataNum < dataTotalNum /\ BatchEnd(first) <= Len(Rows)
      /\ injects' = injects \cup out /\ nowDataNum' = last
      /\ UNCHANGED <<relays, TxQueue, block, chain, panicked>>
  BY DEF txSending, shardVars
<1>2. nowDataNum \in Nat /\ dataTotalNum \in Nat /\ Len(Rows) \in Nat /\ Tx = 1 .. Len(Rows)
  BY RowsFinite, ConfigAssumption DEF IInv, TypeOK
<1>3. first \in Nat \ {0} /\ first <= dataTotalNum
  BY <1>1, <1>2
<1>4. /\ last \in Nat /\ first <= last /\ last <= BatchEnd(first) /\ BatchEnd(first) <= dataTotalNum
      /\ BatchEnd(first) \in Nat
  <2> HIDE DEF first
  <2> QED BY <1>3, PieceAdvances
<1>5. last <= Len(Rows) /\ last <= dataTotalNum
  <2> HIDE DEF first, last
  <2> QED BY <1>1, <1>2, <1>4
<1>6. out \subseteq Message /\ Letters(out) /\ \A s, t : Sent(out, s, t) <=> t \in first .. last /\ From(t) = s
  <2> HIDE DEF first, last
  <2> QED BY <1>3, <1>4, <1>5, PieceLetters, ZenonT(30)
<1>7. nowDataNum <= last
  <2> HIDE DEF last
  <2> QED BY <1>2, <1>4
<1> DEFINE new(t) == t \in first .. last
<1>8. \A t \in Tx : new(t) => ~(t <= nowDataNum)
  <2> HIDE DEF last
  <2> QED BY <1>2, <1>4
<1> HIDE DEF out, last, first, new
<1>9. ASSUME NEW m \in injects, NEW n \in out, NEW t \in Tx, Holds(m.txs, t), Holds(n.txs, t) PROVE FALSE
  <2>1. Sent(out, n.to, t) /\ m.to \in Shard
    BY <1>9, TypeUse DEF Sent, IInv
  <2>2. new(t)
    BY <1>6, <2>1 DEF new
  <2>3. First(t) \in Item /\ First(t).tx = t /\ ~First(t).relayed
    BY ItemTypes
  <2>4. Mailed(m.to, First(t))
    BY <1>9, <2>3 DEF Mailed, Sent
  <2>5. Belongs(m.to, First(t))
    BY <2>1, <2>3, <2>4 DEF IInv, Places, OnePlace
  <2> QED BY <1>8, <2>2, <2>3, <2>5 DEF Belongs
<1>10. /\ Letters(injects \cup out)
       /\ \A s, t : Sent(injects \cup out, s, t) <=> Sent(injects, s, t) \/ (new(t) /\ From(t) = s)
  <2>1. Letters(injects)
    BY DEF IInv, NoRepeats
  <2> QED BY <1>6, <1>9, <2>1, LettersMore DEF new
<1>11. ASSUME NEW s \in Shard, NEW x \in Item
       PROVE  /\ Mailed(s, x)' <=> Mailed(s, x) \/ (~x.relayed /\ new(x.tx) /\ From(x.tx) = s)
              /\ (InPool(s, x)' <=> InPool(s, x)) /\ (InBlock(s, x)' <=> InBlock(s, x))
              /\ (InChain(s, x)' <=> InChain(s, x))
              /\ Belongs(s, x) => Belongs(s, x)'
              /\ new(x.tx) /\ ~x.relayed => ~Belongs(s, x)
              /\ new(x.tx) /\ ~x.relayed /\ From(x.tx) = s => Belongs(s, x)'
  <2>1. Mailed(s, x)' <=> Mailed(s, x) \/ (~x.relayed /\ new(x.tx) /\ From(x.tx) = s)
    BY <1>1, <1>10 DEF Mailed
  <2>2. (InPool(s, x)' <=> InPool(s, x)) /\ (InBlock(s, x)' <=> InBlock(s, x)) /\ (InChain(s, x)' <=> InChain(s, x))
    BY <1>1 DEF InPool, InBlock, InChain
  <2>3. x.tx \in Tx /\ x.tx \in Nat
    BY <1>2, ItemTypes
  <2>4. Belongs(s, x) => Belongs(s, x)'
    <3>1. x.tx <= nowDataNum => x.tx <= nowDataNum'
      BY <1>1, <1>2, <1>4, <1>7, <2>3
    <3> QED BY <1>1, <3>1 DEF Belongs, InChain
  <2>5. new(x.tx) /\ ~x.relayed => ~Belongs(s, x)
    BY <1>8, <2>3 DEF Belongs
  <2>6. new(x.tx) /\ ~x.relayed /\ From(x.tx) = s => Belongs(s, x)'
    <3>1. new(x.tx) => x.tx <= nowDataNum'
      BY <1>1 DEF new
    <3> QED BY <3>1 DEF Belongs
  <2> QED BY <2>1, <2>2, <2>4, <2>5, <2>6
<1>12. Places'
  <2> SUFFICES ASSUME NEW s \in Shard, NEW x \in Item PROVE OnePlace(s, x)'
    BY DEF Places
  <2> QED BY <1>11 DEF IInv, Places, OnePlace
<1>13. NoRepeats'
  BY <1>1, <1>10 DEF IInv, NoRepeats
<1>14. Kept
  BY <1>1, <1>5, <1>12, <1>13 DEF Kept, IInv, RightShard
<1>15. injects' \subseteq Message
  BY <1>1, <1>6, TypeUse DEF IInv
<1>16. nowDataNum' \in 0 .. dataTotalNum
  BY <1>1, <1>2, <1>4, <1>5
<1>17. Settled /\ \A s \in Shard : Stays(s)
  BY <1>11 DEF Settled, Stays, Here
<1>18. ASSUME NEW t \in Tx, nowDataNum < t, t <= nowDataNum' PROVE Here(From(t), First(t))'
  <2>1. First(t) \in Item /\ First(t).tx = t /\ ~First(t).relayed /\ From(t) \in Shard
    BY ItemTypes, RowTypes
  <2>2. new(t)
    BY <1>1, <1>2, <1>18 DEF new, first
  <2>3. Mailed(From(t), First(t))'
    BY <1>11, <2>1, <2>2
  <2> QED BY <2>3 DEF Here
<1> QED BY <1>14, <1>15, <1>16, <1>17, <1>18

\* A message's transactions enter the pool of the shard it is for.
LEMMA DeliveryKeeps ==
  ASSUME IInv, NEW b \in BOOLEAN, NEW m \in IF b THEN relays ELSE injects,
         injects' = IF b THEN injects ELSE injects \ {m},
         relays' = IF b THEN relays \ {m} ELSE relays,
         TxQueue' = [TxQueue EXCEPT ![m.to] = @ \o [i \in 1 .. Len(m.txs) |-> [tx |-> m.txs[i], relayed |-> b]]],
         UNCHANGED <<block, chain, nowDataNum, panicked>>
  PROVE  Kept /\ TxQueue' \in [Shard -> Seq(Item)] /\ Settled /\ \A s \in Shard : Stays(s)
<1> DEFINE items == [i \in 1 .. Len(m.txs) |-> [tx |-> m.txs[i], relayed |-> b]]
           r == m.to
           q == TxQueue[r]
<1>1. m \in injects \cup relays /\ r \in Shard /\ m.txs \in Seq(Tx) /\ q \in Seq(Item)
  BY TypeUse DEF IInv
<1>2. Letters(injects) /\ Letters(relays) /\ Distinct(m.txs) /\ Distinct(q)
  BY <1>1 DEF IInv, NoRepeats, Letters
<1>3. /\ items \in Seq(Item) /\ Distinct(items)
      /\ \A x \in Item : Holds(items, x) <=> x.relayed = b /\ Holds(m.txs, x.tx)
  BY <1>1, <1>2, ItemsHold
<1>4. TxQueue \in [Shard -> Seq(Item)]
  BY DEF IInv, TypeOK
<1> HIDE DEF items
<1>5. TxQueue' = [TxQueue EXCEPT ![r] = q \o items]
  BY <1>1, <1>4 DEF items
<1>6. TxQueue'[r] = q \o items /\ \A s \in Shard : s # r => TxQueue'[s] = TxQueue[s]
  BY <1>1, <1>4, <1>5
<1>7. ASSUME NEW x \in Item, x.relayed = b, Holds(m.txs, x.tx)
      PROVE  Mailed(r, x) /\ ~InPool(r, x) /\ ~InBlock(r, x) /\ ~InChain(r, x) /\ Belongs(r, x)
  <2>1. Mailed(r, x)
    BY <1>7 DEF Mailed, Sent
  <2> QED BY <1>1, <2>1 DEF IInv, Places, OnePlace
<1>8. Disjoint(q, items)
  <2> SUFFICES ASSUME NEW x, Holds(q, x), Holds(items, x) PROVE FALSE
    BY DEF Disjoint
  <2>1. x \in Item
    BY <1>3 DEF Holds
  <2> QED BY <1>3, <1>7, <2>1 DEF InPool
<1>9. /\ q \o items \in Seq(Item) /\ Distinct(q \o items)
      /\ \A x : Holds(q \o items, x) <=> Holds(q, x) \/ Holds(items, x)
  BY <1>1, <1>2, <1>3, <1>8, ConcatHolds
<1>10. TxQueue' \in [Shard -> Seq(Item)]
  BY <1>4, <1>5, <1>9
<1>11. /\ Letters(injects') /\ Letters(relays')
       /\ \A s, t : t \in Tx => (Sent(injects', s, t) <=> Sent(injects, s, t) /\ (b \/ ~Holds(m.txs, t)))
       /\ \A s, t : t \in Tx => (Sent(relays', s, t) <=> Sent(relays, s, t) /\ (~b \/ ~Holds(m.txs, t)))
  <2>1. CASE b
    BY <1>2, <2>1, LettersLess
  <2>2. CASE ~b
    BY <1>2, <2>2, LettersLess
  <2> QED BY <2>1, <2>2
<1>12. ASSUME NEW s \in Shard, NEW x \in Item
       PROVE  /\ Mailed(s, x)' <=> Mailed(s, x) /\ ~(x.relayed = b /\ Holds(m.txs, x.tx))
              /\ InPool(s, x)' <=> InPool(s, x) \/ (s = r /\ x.relayed = b /\ Holds(m.txs, x.tx))
              /\ InBlock(s, x)' <=> InBlock(s, x)
              /\ InChain(s, x)' <=> InChain(s, x)
              /\ Belongs(s, x)' <=> Belongs(s, x)
  <2>1. x.tx \in Tx /\ x.relayed \in BOOLEAN
    BY DEF Item
  <2>2. Mailed(s, x)' <=> Mailed(s, x) /\ ~(x.relayed = b /\ Holds(m.txs, x.tx))
    <3>1. CASE x.relayed
      BY <1>11, <2>1, <3>1 DEF Mailed
    <3>2. CASE ~x.relayed
      BY <1>11, <2>1, <3>2 DEF Mailed
    <3> QED BY <3>1, <3>2
  <2>3. InPool(s, x)' <=> InPool(s, x) \/ (s = r /\ x.relayed = b /\ Holds(m.txs, x.tx))
    BY <1>3, <1>6, <1>9 DEF InPool
  <2>4. (InBlock(s, x)' <=> InBlock(s, x)) /\ (InChain(s, x)' <=> InChain(s, x)) /\ (Belongs(s, x)' <=> Belongs(s, x))
    BY DEF InBlock, InChain, Belongs
  <2> QED BY <2>2, <2>3, <2>4
<1>13. Places'
  <2> SUFFICES ASSUME NEW s \in Shard, NEW x \in Item PROVE OnePlace(s, x)'
    BY DEF Places
  <2>1. OnePlace(s, x)
    BY DEF IInv, Places
  <2> QED BY <1>7, <1>12, <2>1 DEF OnePlace
<1>14. NoRepeats'
  <2>1. ASSUME NEW s \in Shard PROVE Distinct(TxQueue'[s])
    BY <1>6, <1>9 DEF IInv, NoRepeats
  <2> QED BY <1>11, <2>1 DEF IInv, NoRepeats
<1>15. ASSUME NEW s \in Shard, NEW x \in Item, Here(s, x) PROVE Here(s, x)'
  <2>1. CASE x.relayed = b /\ Holds(m.txs, x.tx)
    <3>1. Belongs(r, x) /\ Belongs(s, x)
      BY <1>7, <1>15, <2>1 DEF Here, IInv, Places, OnePlace
    <3>2. s = r
      BY <3>1 DEF Belongs
    <3> QED BY <1>12, <2>1, <3>2 DEF Here
  <2>2. CASE ~(x.relayed = b /\ Holds(m.txs, x.tx))
    BY <1>12, <1>15, <2>2 DEF Here
  <2> QED BY <2>1, <2>2
<1>16. Settled /\ \A s \in Shard : Stays(s)
  BY <1>12, <1>15 DEF Settled, Stays
<1> QED BY <1>10, <1>13, <1>14, <1>16 DEF Kept, IInv, RightShard

\* The packed transactions go from the pool to the block.
LEMMA ProposeKeeps ==
  ASSUME IInv, NEW s0 \in Shard, Propose(s0)
  PROVE  /\ Kept /\ TxQueue' \in [Shard -> Seq(Item)] /\ block' \in [Shard -> Seq(Seq(Item))]
         /\ \A s \in Shard : Len(block'[s]) <= 1
         /\ Settled /\ \A s \in Shard : Stays(s)
<1> DEFINE q == TxQueue[s0]
           txs == Packed(s0)
           rest == SubSeq(q, Len(txs) + 1, Len(q))
<1>1. /\ block[s0] = <<>> /\ block' = [block EXCEPT ![s0] = <<txs>>]
      /\ TxQueue' = [TxQueue EXCEPT ![s0] = SubSeq(@, Len(txs) + 1, Len(@))]
      /\ UNCHANGED <<injects, relays, chain, nowDataNum, panicked>>
  BY DEF Propose, supVars, netVars
<1>2. /\ TxQueue \in [Shard -> Seq(Item)] /\ block \in [Shard -> Seq(Seq(Item))]
      /\ \A s \in Shard : Len(block[s]) <= 1
  BY DEF IInv, TypeOK
<1>3. q \in Seq(Item) /\ Len(q) \in Nat /\ Distinct(q)
  BY <1>2 DEF IInv, NoRepeats
<1>4. \E n \in 0 .. Len(q) : txs = SubSeq(q, 1, n)
  <2> DEFINE n == Least(BlockSize, Len(q))
  <2>1. n \in 0 .. Len(q)
    BY <1>3, ConfigAssumption DEF Least
  <2>2. txs = SubSeq(q, 1, n)
    BY DEF Packed
  <2> QED BY <2>1, <2>2
<1> HIDE DEF txs, q
<1>5. /\ txs \in Seq(Item) /\ rest \in Seq(Item) /\ Distinct(txs) /\ Distinct(rest)
      /\ \A x : (Holds(q, x) <=> Holds(txs, x) \/ Holds(rest, x)) /\ ~(Holds(txs, x) /\ Holds(rest, x))
  <2>1. PICK n \in 0 .. Len(q) : txs = SubSeq(q, 1, n)
    BY <1>4
  <2> DEFINE p == SubSeq(q, 1, n)
             w == SubSeq(q, n + 1, Len(q))
  <2>2. /\ p \in Seq(Item) /\ w \in Seq(Item) /\ Len(p) = n
        /\ \A x : Holds(q, x) <=> Holds(p, x) \/ Holds(w, x)
        /\ Distinct(q) => Distinct(p) /\ Distinct(w) /\ Disjoint(p, w)
    BY <1>3, SplitHolds
  <2>3. txs = p /\ rest = w
    BY <2>1, <2>2
  <2> HIDE DEF p, w, rest
  <2> QED BY <1>3, <2>2, <2>3 DEF Disjoint
<1>6. TxQueue' = [TxQueue EXCEPT ![s0] = rest]
  BY <1>1, <1>2 DEF q
<1> HIDE DEF rest
<1>7. /\ TxQueue'[s0] = rest /\ block'[s0] = <<txs>>
      /\ \A s \in Shard : s # s0 => TxQueue'[s] = TxQueue[s] /\ block'[s] = block[s]
  BY <1>1, <1>2, <1>6
<1>8. <<txs>> # <<>> /\ <<txs>>[1] = txs /\ Len(<<txs>>) = 1 /\ <<txs>> \in Seq(Seq(Item))
  BY <1>5
<1>9. ASSUME NEW s \in Shard, NEW x \in Item
      PROVE  /\ InPool(s, x)' <=> IF s = s0 THEN Holds(rest, x) ELSE InPool(s, x)
             /\ InBlock(s, x)' <=> IF s = s0 THEN Holds(txs, x) ELSE InBlock(s, x)
             /\ s = s0 => ~InBlock(s, x) /\ (InPool(s, x) <=> Holds(txs, x) \/ Holds(rest, x))
             /\ Mailed(s, x)' <=> Mailed(s, x)
             /\ InChain(s, x)' <=> InChain(s, x)
             /\ Belongs(s, x)' <=> Belongs(s, x)
  <2>1. InPool(s, x)' <=> IF s = s0 THEN Holds(rest, x) ELSE InPool(s, x)
    BY <1>7 DEF InPool
  <2>2. InBlock(s, x)' <=> IF s = s0 THEN Holds(txs, x) ELSE InBlock(s, x)
    BY <1>7, <1>8 DEF InBlock
  <2>3. s = s0 => ~InBlock(s, x) /\ (InPool(s, x) <=> Holds(txs, x) \/ Holds(rest, x))
    BY <1>1, <1>5 DEF InBlock, InPool, q
  <2>4. (Mailed(s, x)' <=> Mailed(s, x)) /\ (InChain(s, x)' <=> InChain(s, x)) /\ (Belongs(s, x)' <=> Belongs(s, x))
    BY <1>1 DEF Mailed, InChain, Belongs
  <2> QED BY <2>1, <2>2, <2>3, <2>4
<1>10. Places'
  <2> SUFFICES ASSUME NEW s \in Shard, NEW x \in Item PROVE OnePlace(s, x)'
    BY DEF Places
  <2>1. OnePlace(s, x)
    BY DEF IInv, Places
  <2>2. ~(Holds(txs, x) /\ Holds(rest, x))
    BY <1>5
  <2> QED BY <1>9, <2>1, <2>2 DEF OnePlace
<1>11. NoRepeats'
  <2>1. ASSUME NEW s \in Shard PROVE Distinct(TxQueue'[s]) /\ (block'[s] # <<>> => Distinct(block'[s][1]))
    <3>1. CASE s = s0
      BY <1>5, <1>7, <1>8, <3>1
    <3>2. CASE s # s0
      BY <1>7, <3>2 DEF IInv, NoRepeats
    <3> QED BY <3>1, <3>2
  <2> QED BY <1>1, <2>1 DEF IInv, NoRepeats
<1>12. TxQueue' \in [Shard -> Seq(Item)]
  BY <1>2, <1>5, <1>6
<1>13. block' \in [Shard -> Seq(Seq(Item))] /\ \A s \in Shard : Len(block'[s]) <= 1
  <2> DEFINE I == Seq(Seq(Item))
  <2>1. block \in [Shard -> I] /\ <<txs>> \in I
    BY <1>2, <1>8
  <2> HIDE DEF I
  <2>2. block' \in [Shard -> I]
    BY <1>1, <2>1
  <2>3. ASSUME NEW s \in Shard PROVE Len(block'[s]) <= 1
    <3>1. CASE s = s0
      <4>1. Len(block'[s]) = 1
        BY <1>7, <1>8, <3>1, Zenon
      <4> QED BY <4>1
    <3>2. CASE s # s0
      BY <1>2, <1>7, <3>2
    <3> QED BY <3>1, <3>2
  <2> QED BY <2>2, <2>3 DEF I
<1>14. Settled /\ \A s \in Shard : Stays(s)
  <2>1. ASSUME NEW s \in Shard, NEW x \in Item, Here(s, x) PROVE Here(s, x)'
    <3>1. CASE s = s0
      BY <1>9, <2>1, <3>1 DEF Here
    <3>2. CASE s # s0
      BY <1>9, <2>1, <3>2 DEF Here
    <3> QED BY <3>1, <3>2
  <2> QED BY <1>9, <2>1 DEF Settled, Stays
<1> QED BY <1>1, <1>10, <1>11, <1>12, <1>13, <1>14 DEF Kept, IInv, RightShard

\* All transactions of a block are where they belong.
LEMMA BlockCorrect ==
  ASSUME IInv, NEW s0 \in Shard, block[s0] # <<>>
  PROVE  /\ block[s0][1] \in Seq(Item) /\ Distinct(block[s0][1])
         /\ \A i \in 1 .. Len(block[s0][1]) : ~Incorrect(s0, block[s0][1][i])
         /\ RelaysFrom(s0, block[s0][1], RelaysOf(s0, block[s0][1]))
<1> DEFINE txs == block[s0][1]
<1>1. txs \in Seq(Item)
  BY BlockType DEF IInv
<1>2. Distinct(txs)
  BY DEF IInv, NoRepeats
<1>3. ASSUME NEW x \in Item, Holds(txs, x) PROVE Belongs(s0, x)
  <2>1. InBlock(s0, x)
    BY <1>3 DEF InBlock
  <2> QED BY <2>1 DEF IInv, Places, OnePlace
<1> HIDE DEF txs
<1>4. ASSUME NEW i \in 1 .. Len(txs) PROVE ~Incorrect(s0, txs[i])
  <2>1. txs[i] \in Item /\ Holds(txs, txs[i])
    BY <1>1 DEF Holds
  <2> QED BY <1>3, <2>1 DEF Belongs, Incorrect
<1>5. \A x \in Item : Holds(txs, x) /\ x.relayed => To(x.tx) = s0
  BY <1>3 DEF Belongs
<1>6. RelaysFrom(s0, txs, RelaysOf(s0, txs))
  BY <1>1, <1>2, <1>5, RelaysOfHold
<1> QED BY <1>1, <1>2, <1>4, <1>6 DEF txs

\* The block's transactions go to the chain, and the second halves on their way.
LEMMA AddKeeps ==
  ASSUME IInv, NEW s0 \in Shard, AddBlock(s0), NEW out, out = RelaysOf(s0, block[s0][1]),
         relays' = relays \cup out, UNCHANGED <<injects, TxQueue, nowDataNum, panicked>>
  PROVE  /\ Kept /\ block' \in [Shard -> Seq(Seq(Item))] /\ \A s \in Shard : Len(block'[s]) <= 1
         /\ chain' \in [Shard -> Seq(Item)] /\ relays' \subseteq Message
         /\ balance' \in [Account -> Nat]
         /\ \A s \in Shard : Stays(s)
         /\ \A t \in Cross : InChain(From(t), First(t))' =>
              InChain(From(t), First(t)) \/ Here(To(t), Second(t))'
         /\ \A s \in Shard, x \in Item : InChain(s, x)' <=> InChain(s, x) \/ (s = s0 /\ InBlock(s, x))
<1> DEFINE txs == block[s0][1]
           ch == chain[s0]
<1>1. /\ block[s0] # <<>> /\ block' = [block EXCEPT ![s0] = <<>>]
      /\ chain' = [chain EXCEPT ![s0] = @ \o txs] /\ balance' = GetUpdateStatusTrie(s0, txs)
  BY DEF AddBlock
<1>2. txs \in Seq(Item) /\ Distinct(txs) /\ RelaysFrom(s0, txs, RelaysOf(s0, txs))
  BY <1>1, BlockCorrect
<1>3. \A x : InBlock(s0, x) <=> Holds(txs, x)
  BY <1>1 DEF InBlock
<1> HIDE DEF txs
<1>4. /\ block \in [Shard -> Seq(Seq(Item))] /\ \A s \in Shard : Len(block[s]) <= 1
      /\ chain \in [Shard -> Seq(Item)] /\ balance \in [Account -> Nat]
  BY DEF IInv, TypeOK
<1>5. ch \in Seq(Item) /\ Distinct(ch)
  BY <1>4 DEF IInv, NoRepeats
<1>6. chain' = [chain EXCEPT ![s0] = ch \o txs]
  BY <1>1, <1>4
<1>7. /\ block'[s0] = <<>> /\ chain'[s0] = ch \o txs
      /\ \A s \in Shard : s # s0 => block'[s] = block[s] /\ chain'[s] = chain[s]
  BY <1>1, <1>4, <1>6
<1>8. Disjoint(ch, txs)
  <2> SUFFICES ASSUME NEW x, Holds(ch, x), Holds(txs, x) PROVE FALSE
    BY DEF Disjoint
  <2>1. x \in Item
    BY <1>2 DEF Holds
  <2>2. InChain(s0, x) /\ InBlock(s0, x)
    BY <1>3 DEF InChain
  <2> QED BY <2>1, <2>2 DEF IInv, Places, OnePlace
<1>9. /\ ch \o txs \in Seq(Item) /\ Distinct(ch \o txs)
      /\ \A x : Holds(ch \o txs, x) <=> Holds(ch, x) \/ Holds(txs, x)
  BY <1>2, <1>5, <1>8, ConcatHolds
<1>10. chain' \in [Shard -> Seq(Item)]
  BY <1>4, <1>6, <1>9
<1>11. block' \in [Shard -> Seq(Seq(Item))] /\ \A s \in Shard : Len(block'[s]) <= 1
  <2> DEFINE I == Seq(Seq(Item))
  <2>1. block \in [Shard -> I] /\ <<>> \in I
    BY <1>4
  <2> HIDE DEF I
  <2>2. block' \in [Shard -> I]
    BY <1>1, <2>1
  <2>3. ASSUME NEW s \in Shard PROVE Len(block'[s]) <= 1
    BY <1>4, <1>7
  <2> QED BY <2>2, <2>3 DEF I
<1>12. balance' \in [Account -> Nat]
  <2>1. PICK h \in [0 .. Len(txs) -> [Account -> Nat]] : Ledgers(h, s0, txs)
    BY <1>2, <1>4, ExecutionSteps
  <2>2. Len(txs) \in 0 .. Len(txs)
    BY <1>2
  <2>3. balance' = h[Len(txs)]
    BY <1>1, <2>1 DEF Ledgers
  <2> QED BY <2>1, <2>2, <2>3
<1>13. /\ out \subseteq Message /\ Letters(out)
       /\ \A r : \A t \in Tx : Sent(out, r, t) => r = To(t) /\ To(t) # s0 /\ InBlock(s0, First(t))
  <2>1. out = RelaysOf(s0, txs)
    BY DEF txs
  <2> QED BY <1>2, <1>3, <2>1, RelayLetters
<1>14. ASSUME NEW r, NEW t \in Tx, Sent(out, r, t)
       PROVE  /\ r \in Shard /\ t \in Cross /\ To(t) = r /\ From(t) = s0 /\ InBlock(s0, First(t))
              /\ ~Mailed(r, Second(t)) /\ ~InPool(r, Second(t))
              /\ ~InBlock(r, Second(t)) /\ ~InChain(r, Second(t))
  <2>1. r = To(t) /\ To(t) # s0 /\ InBlock(s0, First(t)) /\ r \in Shard
    BY <1>13, <1>14, RowTypes
  <2>2. /\ First(t) \in Item /\ First(t).tx = t /\ ~First(t).relayed
        /\ Second(t) \in Item /\ Second(t).tx = t /\ Second(t).relayed
    BY ItemTypes
  <2>3. Belongs(s0, First(t)) /\ ~InChain(s0, First(t))
    BY <2>1, <2>2 DEF IInv, Places, OnePlace
  <2>4. From(t) = s0 /\ t \in Cross
    BY <2>1, <2>2, <2>3 DEF Belongs, Cross
  <2>5. ~Belongs(r, Second(t))
    BY <2>2, <2>3, <2>4 DEF Belongs
  <2> QED BY <2>1, <2>2, <2>4, <2>5 DEF IInv, Places, OnePlace
<1>15. ASSUME NEW m \in relays, NEW n \in out, NEW t \in Tx, Holds(m.txs, t), Holds(n.txs, t) PROVE FALSE
  <2>1. Sent(out, n.to, t) /\ m.to \in Shard
    BY <1>15, TypeUse DEF Sent, IInv
  <2>2. To(t) = n.to /\ ~Mailed(n.to, Second(t)) /\ From(t) = s0 /\ InBlock(s0, First(t))
    BY <1>14, <2>1
  <2>3. Second(t) \in Item /\ Second(t).tx = t /\ Second(t).relayed
    BY ItemTypes
  <2>4. Mailed(m.to, Second(t))
    BY <1>15, <2>3 DEF Mailed, Sent
  <2>5. Belongs(m.to, Second(t))
    BY <2>1, <2>3, <2>4 DEF IInv, Places, OnePlace
  <2>6. m.to = n.to
    BY <2>2, <2>3, <2>5 DEF Belongs
  <2> QED BY <2>2, <2>4, <2>6
<1>16. /\ Letters(relays') /\ relays' \subseteq Message
       /\ \A s, t : Sent(relays', s, t) <=> Sent(relays, s, t) \/ Sent(out, s, t)
  <2>1. Letters(relays) /\ relays \subseteq Message
    BY TypeUse DEF IInv, NoRepeats
  <2> QED BY <1>13, <1>15, <2>1, LettersMore
<1> HIDE DEF ch
<1>17. ASSUME NEW s \in Shard, NEW x \in Item
       PROVE  /\ Mailed(s, x)' <=> Mailed(s, x) \/ (x.relayed /\ Sent(out, s, x.tx))
              /\ InPool(s, x)' <=> InPool(s, x)
              /\ InBlock(s, x)' <=> s # s0 /\ InBlock(s, x)
              /\ InChain(s, x)' <=> InChain(s, x) \/ (s = s0 /\ InBlock(s, x))
  <2>1. Mailed(s, x)' <=> Mailed(s, x) \/ (x.relayed /\ Sent(out, s, x.tx))
    BY <1>16 DEF Mailed
  <2>2. InPool(s, x)' <=> InPool(s, x)
    BY DEF InPool
  <2>3. InBlock(s, x)' <=> s # s0 /\ InBlock(s, x)
    BY <1>7 DEF InBlock
  <2>4. InChain(s, x)' <=> InChain(s, x) \/ (s = s0 /\ InBlock(s, x))
    BY <1>3, <1>7, <1>9 DEF InChain, ch
  <2> QED BY <2>1, <2>2, <2>3, <2>4
<1>18. ASSUME NEW s \in Shard, NEW x \in Item
       PROVE  /\ Belongs(s, x) => Belongs(s, x)'
              /\ x.relayed /\ Sent(out, s, x.tx) => Belongs(s, x)'
  <2>1. x.tx \in Tx /\ From(x.tx) \in Shard /\ First(x.tx) \in Item
    BY ItemTypes, RowTypes
  <2>2. InChain(From(x.tx), First(x.tx)) => InChain(From(x.tx), First(x.tx))'
    BY <1>17, <2>1
  <2>3. Belongs(s, x) => Belongs(s, x)'
    BY <2>2 DEF Belongs
  <2>4. ASSUME x.relayed, Sent(out, s, x.tx) PROVE Belongs(s, x)'
    <3>1. x.tx \in Cross /\ To(x.tx) = s /\ From(x.tx) = s0 /\ InBlock(s0, First(x.tx))
      BY <1>14, <2>1, <2>4
    <3>2. InChain(From(x.tx), First(x.tx))'
      BY <1>17, <2>1, <3>1
    <3> QED BY <2>4, <3>1, <3>2 DEF Belongs
  <2> QED BY <2>3, <2>4
<1>19. Places'
  <2> SUFFICES ASSUME NEW s \in Shard, NEW x \in Item PROVE OnePlace(s, x)'
    BY DEF Places
  <2>1. OnePlace(s, x)
    BY DEF IInv, Places
  <2>2. x.relayed /\ Sent(out, s, x.tx) =>
          ~Mailed(s, x) /\ ~InPool(s, x) /\ ~InBlock(s, x) /\ ~InChain(s, x)
    BY <1>14, ItemTypes
  <2> QED BY <1>17, <1>18, <2>1, <2>2 DEF OnePlace
<1>20. NoRepeats'
  <2>1. ASSUME NEW s \in Shard PROVE Distinct(chain'[s]) /\ (block'[s] # <<>> => Distinct(block'[s][1]))
    <3>1. CASE s = s0
      BY <1>7, <1>9, <3>1
    <3>2. CASE s # s0
      BY <1>7, <3>2 DEF IInv, NoRepeats
    <3> QED BY <3>1, <3>2
  <2> QED BY <1>16, <2>1 DEF IInv, NoRepeats
<1>21. \A s \in Shard : Stays(s)
  <2>1. ASSUME NEW s \in Shard, NEW x \in Item, Here(s, x) PROVE Here(s, x)'
    BY <1>17, <2>1 DEF Here
  <2> QED BY <2>1 DEF Stays
<1>22. ASSUME NEW t \in Cross, InChain(From(t), First(t))', ~InChain(From(t), First(t))
       PROVE  Here(To(t), Second(t))'
  <2>1. /\ t \in Tx /\ From(t) \in Shard /\ To(t) \in Shard /\ From(t) # To(t) /\ First(t) \in Item
        /\ Second(t) \in Item /\ Second(t).tx = t /\ Second(t).relayed
    BY ItemTypes, RowTypes DEF Cross
  <2>2. From(t) = s0 /\ InBlock(s0, First(t))
    BY <1>17, <1>22, <2>1
  <2>3. out = RelaysOf(s0, txs)
    BY DEF txs
  <2>4. Sent(out, To(t), t)
    BY <1>2, <1>3, <2>1, <2>2, <2>3, RelayLetters
  <2>5. Mailed(To(t), Second(t))'
    BY <1>17, <2>1, <2>4
  <2> QED BY <2>5 DEF Here
<1>23. \A s \in Shard, x \in Item : InChain(s, x)' <=> InChain(s, x) \/ (s = s0 /\ InBlock(s, x))
  BY <1>17
<1> QED BY <1>10, <1>11, <1>12, <1>16, <1>19, <1>20, <1>21, <1>22, <1>23 DEF Kept, IInv, RightShard

LEMMA StepKeepsIInv == IInv /\ [Next]_vars => IInv'
<1> SUFFICES ASSUME IInv, [Next]_vars PROVE IInv'
  OBVIOUS
<1>1. /\ nowDataNum \in 0 .. dataTotalNum /\ phase \in {"reading", "sent", "waiting", "stopped"}
      /\ injects \subseteq Message /\ relays \subseteq Message
      /\ TxQueue \in [Shard -> Seq(Item)] /\ chain \in [Shard -> Seq(Item)]
      /\ block \in [Shard -> Seq(Seq(Item))] /\ \A s \in Shard : Len(block[s]) <= 1
      /\ balance \in [Account -> Nat]
      /\ panicked \subseteq Shard /\ halted \subseteq Shard /\ stops \subseteq Shard
      /\ emptyInfos \in Nat /\ fullInfos \in Nat /\ stopGap \in 0 .. stopThreshold
  BY DEF IInv, TypeOK, Message
<1> DEFINE Rest == /\ phase' \in {"reading", "sent", "waiting", "stopped"}
                   /\ halted' \subseteq Shard /\ stops' \subseteq Shard
                   /\ emptyInfos' \in Nat /\ fullInfos' \in Nat
                   /\ stopGap' \in 0 .. stopThreshold
           Core == /\ nowDataNum' \in 0 .. dataTotalNum
                   /\ injects' \subseteq Message /\ relays' \subseteq Message
                   /\ TxQueue' \in [Shard -> Seq(Item)] /\ chain' \in [Shard -> Seq(Item)]
                   /\ block' \in [Shard -> Seq(Seq(Item))] /\ \A s \in Shard : Len(block'[s]) <= 1
                   /\ balance' \in [Account -> Nat]
<1>2. ASSUME Rest, Core, Kept PROVE IInv'
  <2>1. panicked' = {}
    BY <1>2 DEF Kept, RightShard
  <2>2. TypeOK'
    BY <1>2, <2>1 DEF TypeOK, Message
  <2> QED BY <1>2, <2>2 DEF IInv, Kept
<1>3. stopThreshold \in Nat /\ 0 \in 0 .. stopThreshold
  BY ConfigAssumption DEF stopThreshold
<1>4. ASSUME UNCHANGED <<injects, relays, TxQueue, block, chain, balance, nowDataNum, panicked>>, Rest
      PROVE  IInv'
  <2>1. Core
    BY <1>1, <1>4
  <2> HIDE DEF Rest, Core
  <2> QED BY <1>2, <1>4, <2>1, IdleKeeps
<1>5. CASE txSending
  <2>1. Kept /\ injects' \subseteq Message /\ nowDataNum' \in 0 .. dataTotalNum
    BY <1>5, SendingKeeps
  <2>2. /\ phase' \in {"reading", "sent"}
        /\ UNCHANGED <<stopGap, stops, relays, emptyInfos, fullInfos, TxQueue, block, chain, balance, halted>>
    BY <1>5 DEF txSending, shardVars
  <2>3. Rest /\ Core
    BY <1>1, <2>1, <2>2
  <2> HIDE DEF Rest, Core
  <2> QED BY <1>2, <2>1, <2>3
<1>6. CASE EndBatch \/ EndOfFile \/ SendStop
  <2>1. /\ UNCHANGED <<injects, relays, TxQueue, block, chain, balance, nowDataNum, panicked,
                       halted, emptyInfos, fullInfos>>
        /\ phase' \in {"reading", "waiting", "stopped"} /\ stops' \in {stops, Shard} /\ stopGap' \in {0, stopGap}
    BY <1>6 DEF EndBatch, EndOfFile, SendStop, shardVars, netVars
  <2>2. Rest
    BY <1>1, <1>3, <2>1
  <2> HIDE DEF Rest
  <2> QED BY <1>4, <2>1, <2>2
<1>7. ASSUME NEW full \in BOOLEAN, handleBlockInfos(full) PROVE IInv'
  <2>1. UNCHANGED <<injects, relays, TxQueue, block, chain, balance, nowDataNum, panicked,
                    halted, phase, stops>>
    BY <1>7 DEF handleBlockInfos, shardVars
  <2>2. emptyInfos' \in Nat /\ fullInfos' \in Nat
    BY <1>1, <1>7 DEF handleBlockInfos
  <2>3. stopGap' \in 0 .. stopThreshold
    BY <1>1, <1>3, <1>7 DEF handleBlockInfos, NextGap, Least
  <2>4. Rest
    BY <1>1, <2>1, <2>2, <2>3
  <2> HIDE DEF Rest
  <2> QED BY <1>4, <2>1, <2>4
<1>8. ASSUME NEW m \in injects, handleInjectTx(m) PROVE IInv'
  <2>1. /\ injects' = injects \ {m} /\ relays' = relays
        /\ TxQueue' = [TxQueue EXCEPT ![m.to] = @ \o [i \in 1 .. Len(m.txs) |-> [tx |-> m.txs[i], relayed |-> FALSE]]]
        /\ UNCHANGED <<block, chain, nowDataNum, panicked, balance, phase, halted, stops, emptyInfos,
                       fullInfos, stopGap>>
    BY <1>8 DEF handleInjectTx, First, supVars, shardVars
  <2>2. Kept /\ TxQueue' \in [Shard -> Seq(Item)]
    <3>1. FALSE \in BOOLEAN /\ m \in IF FALSE THEN relays ELSE injects
      OBVIOUS
    <3>2. /\ injects' = IF FALSE THEN injects ELSE injects \ {m}
          /\ relays' = IF FALSE THEN relays \ {m} ELSE relays
      BY <2>1
    <3> QED BY <2>1, <3>1, <3>2, DeliveryKeeps
  <2>3. Rest /\ Core
    BY <1>1, <2>1, <2>2
  <2> HIDE DEF Rest, Core
  <2> QED BY <1>2, <2>2, <2>3
<1>9. ASSUME NEW m \in relays, handleRelay(m) PROVE IInv'
  <2>1. /\ relays' = relays \ {m} /\ injects' = injects
        /\ TxQueue' = [TxQueue EXCEPT ![m.to] = @ \o [i \in 1 .. Len(m.txs) |-> [tx |-> m.txs[i], relayed |-> TRUE]]]
        /\ UNCHANGED <<block, chain, nowDataNum, panicked, balance, phase, halted, stops, emptyInfos,
                       fullInfos, stopGap>>
    BY <1>9 DEF handleRelay, Second, supVars, shardVars
  <2>2. Kept /\ TxQueue' \in [Shard -> Seq(Item)]
    <3>1. TRUE \in BOOLEAN /\ m \in IF TRUE THEN relays ELSE injects
      OBVIOUS
    <3>2. /\ injects' = IF TRUE THEN injects ELSE injects \ {m}
          /\ relays' = IF TRUE THEN relays \ {m} ELSE relays
      BY <2>1
    <3> QED BY <2>1, <3>1, <3>2, DeliveryKeeps
  <2>3. Rest /\ Core
    BY <1>1, <2>1, <2>2
  <2> HIDE DEF Rest, Core
  <2> QED BY <1>2, <2>2, <2>3
<1>10. ASSUME NEW s \in Shard, Propose(s) PROVE IInv'
  <2>1. /\ Kept /\ TxQueue' \in [Shard -> Seq(Item)] /\ block' \in [Shard -> Seq(Seq(Item))]
        /\ \A r \in Shard : Len(block'[r]) <= 1
    BY <1>10, ProposeKeeps
  <2>2. UNCHANGED <<supVars, chain, balance, panicked, halted, netVars>>
    BY <1>10 DEF Propose
  <2>3. Rest /\ Core
    BY <1>1, <2>1, <2>2 DEF supVars, netVars
  <2> HIDE DEF Rest, Core
  <2> QED BY <1>2, <2>1, <2>3
<1>11. ASSUME NEW s \in Shard, HandleinCommit(s) PROVE IInv'
  <2>1. AddBlock(s) /\ UNCHANGED <<supVars, halted, injects, TxQueue>>
    BY <1>11 DEF HandleinCommit
  <2>2. block[s] # <<>>
    BY <2>1 DEF AddBlock
  <2>3. \A i \in 1 .. Len(block[s][1]) : ~Incorrect(s, block[s][1][i])
    BY <2>2, BlockCorrect
  <2>4. /\ relays' = relays \cup RelaysOf(s, block[s][1]) /\ UNCHANGED panicked
        /\ emptyInfos' \in {emptyInfos, emptyInfos + 1} /\ fullInfos' \in {fullInfos, fullInfos + 1}
    BY <1>11, <2>3 DEF HandleinCommit
  <2>5. /\ Kept /\ block' \in [Shard -> Seq(Seq(Item))] /\ (\A r \in Shard : Len(block'[r]) <= 1)
        /\ chain' \in [Shard -> Seq(Item)] /\ relays' \subseteq Message /\ balance' \in [Account -> Nat]
    <3> DEFINE out == RelaysOf(s, block[s][1])
    <3>1. out = RelaysOf(s, block[s][1]) /\ relays' = relays \cup out
      BY <2>4
    <3> HIDE DEF out
    <3>2. UNCHANGED <<injects, TxQueue, nowDataNum, panicked>>
      BY <2>1, <2>4 DEF supVars
    <3> QED BY <2>1, <3>1, <3>2, AddKeeps
  <2>6. Core
    BY <1>1, <2>1, <2>5 DEF supVars
  <2>7. Rest
    BY <1>1, <2>1, <2>4 DEF supVars
  <2> HIDE DEF Rest, Core
  <2> QED BY <1>2, <2>5, <2>6, <2>7
<1>12. ASSUME NEW s \in Shard, WaitToStop(s) PROVE IInv'
  <2>1. /\ s \in stops /\ stops' = stops \ {s} /\ halted' = halted \cup {s}
        /\ UNCHANGED <<nowDataNum, phase, stopGap, block, chain, balance, panicked, netVars, TxQueue>>
    BY <1>12 DEF WaitToStop
  <2>2. Rest
    BY <1>1, <2>1 DEF netVars
  <2>3. UNCHANGED <<injects, relays, TxQueue, block, chain, balance, nowDataNum, panicked>>
    BY <2>1 DEF netVars
  <2> HIDE DEF Rest
  <2> QED BY <1>4, <2>2, <2>3
<1>13. CASE UNCHANGED vars
  <2>1. UNCHANGED <<injects, relays, TxQueue, block, chain, balance, nowDataNum, panicked,
                    phase, halted, stops, emptyInfos, fullInfos, stopGap>>
    BY <1>13 DEF vars, supVars, shardVars, netVars
  <2>2. Rest
    BY <1>1, <2>1
  <2> HIDE DEF Rest
  <2> QED BY <1>4, <2>1, <2>2
<1> QED BY <1>5, <1>6, <1>7, <1>8, <1>9, <1>10, <1>11, <1>12, <1>13 DEF Next

LEMMA InitIInv == Init => IInv
<1> SUFFICES ASSUME Init PROVE IInv
  OBVIOUS
<1>1. /\ \A s \in Shard : TxQueue[s] = <<>> /\ block[s] = <<>> /\ chain[s] = <<>>
      /\ injects = {} /\ relays = {} /\ nowDataNum = 0 /\ panicked = {}
  BY DEF Init
<1>2. TypeOK
  <2>1. 0 \in 0 .. stopThreshold /\ 0 \in 0 .. dataTotalNum /\ Init_Balance \in Nat
    BY ConfigAssumption DEF stopThreshold
  <2>2. <<>> \in Seq(Item) /\ <<>> \in Seq(Seq(Item)) /\ Len(<<>>) = 0
    OBVIOUS
  <2> DEFINE A == Seq(Item)
             B == Seq(Seq(Item))
  <2> HIDE DEF A, B
  <2>3. TxQueue \in [Shard -> A] /\ chain \in [Shard -> A] /\ block \in [Shard -> B]
    BY <2>2 DEF Init, A, B
  <2>4. \A s \in Shard : Len(block[s]) <= 1
    BY <1>1, <2>2
  <2>5. balance \in [Account -> Nat]
    BY <2>1 DEF Init
  <2> QED BY <2>1, <2>3, <2>4, <2>5 DEF Init, TypeOK, A, B
<1>3. Places
  <2> SUFFICES ASSUME NEW s \in Shard, NEW x \in Item PROVE OnePlace(s, x)
    BY DEF Places
  <2>1. ~Mailed(s, x)
    BY <1>1 DEF Mailed, Sent
  <2>2. ~InPool(s, x) /\ ~InBlock(s, x) /\ ~InChain(s, x)
    BY <1>1, EmptyHolds DEF InPool, InBlock, InChain
  <2> QED BY <2>1, <2>2 DEF OnePlace
<1>4. NoRepeats
  BY <1>1, EmptyHolds DEF NoRepeats, Letters
<1>5. nowDataNum <= Len(Rows)
  BY <1>1, RowsFinite
<1> QED BY <1>1, <1>2, <1>3, <1>4, <1>5 DEF IInv, RightShard

\* Whatever is injected and relayed when, each half reaches the shard that
\* executes it: HandleinCommit never panics of an "incorrect tx".
THEOREM EachInItsShard == Spec => []RightShard
<1>1. IInv => RightShard
  BY DEF IInv
<1> QED BY <1>1, InitIInv, StepKeepsIInv, PTL DEF Spec

\* No half is executed twice, although no handler looks for duplicates.
THEOREM ExecutedOnce == Spec => []ExactlyOnce
<1>1. IInv => ExactlyOnce
  BY DEF IInv, NoRepeats, Distinct, ExactlyOnce
<1> QED BY <1>1, InitIInv, StepKeepsIInv, PTL DEF Spec

\* A recipient is credited only once the sender's shard has the first half.
THEOREM DebitedFirst == Spec => []CreditAfterDebit
<1>1. IInv => CreditAfterDebit
  <2> SUFFICES ASSUME IInv, NEW t \in Cross, Executed(To(t), Second(t)) PROVE Executed(From(t), First(t))
    BY DEF CreditAfterDebit
  <2>1. t \in Tx /\ To(t) \in Shard /\ Second(t) \in Item /\ Second(t).relayed /\ Second(t).tx = t
    BY RowTypes, ItemTypes DEF Cross
  <2>2. InChain(To(t), Second(t))
    BY DEF Executed, InChain, Holds
  <2>3. Belongs(To(t), Second(t))
    BY <2>1, <2>2 DEF IInv, Places, OnePlace
  <2> QED BY <2>1, <2>3 DEF Belongs, InChain, Executed, Holds
<1> QED BY <1>1, InitIInv, StepKeepsIInv, PTL DEF Spec

-----------------------------------------------------------------------------
(* Nothing is lost.                                                        *)

\* NothingLost in terms of places.
Tracked ==
  \A t \in Tx : t <= nowDataNum =>
    /\ Here(From(t), First(t))
    /\ t \in Cross /\ InChain(From(t), First(t)) => Here(To(t), Second(t))

\* A step that brings new rows on their way, loses nothing in a shard, and with
\* a first half executes the relaying.
Carried ==
  /\ \A s \in Shard : Stays(s)
  /\ \A t \in Tx : t <= nowDataNum' /\ ~(t <= nowDataNum) =>
       Here(From(t), First(t))' /\ ~InChain(From(t), First(t))'
  /\ \A t \in Cross : InChain(From(t), First(t))' =>
       InChain(From(t), First(t)) \/ Here(To(t), Second(t))'

LEMMA CarriedTracks ==
  ASSUME Tracked, Carried
  PROVE  Tracked'
<1> SUFFICES ASSUME NEW t \in Tx, t <= nowDataNum'
             PROVE  /\ Here(From(t), First(t))'
                    /\ t \in Cross /\ InChain(From(t), First(t))' => Here(To(t), Second(t))'
  BY DEF Tracked
<1>1. From(t) \in Shard /\ To(t) \in Shard /\ First(t) \in Item /\ Second(t) \in Item
  BY RowTypes, ItemTypes
<1>2. Here(From(t), First(t)) => Here(From(t), First(t))'
  BY <1>1 DEF Carried, Stays
<1>3. CASE t <= nowDataNum
  <2>1. Here(From(t), First(t))'
    BY <1>2, <1>3 DEF Tracked
  <2>2. ASSUME t \in Cross, InChain(From(t), First(t))' PROVE Here(To(t), Second(t))'
    <3>1. Here(To(t), Second(t)) => Here(To(t), Second(t))'
      BY <1>1, <2>2 DEF Carried, Stays
    <3>2. InChain(From(t), First(t)) \/ Here(To(t), Second(t))'
      BY <2>2 DEF Carried
    <3> QED BY <1>2, <1>3, <2>2, <3>1, <3>2 DEF Tracked
  <2> QED BY <2>1, <2>2
<1>4. CASE ~(t <= nowDataNum)
  BY <1>4 DEF Carried
<1> QED BY <1>3, <1>4

\* Steps after which no chain is longer.
LEMMA SettledCarries ==
  ASSUME IInv, Settled, \A s \in Shard : Stays(s),
         \A t \in Tx : t <= nowDataNum' /\ ~(t <= nowDataNum) => Here(From(t), First(t))'
  PROVE  Carried
<1>1. ASSUME NEW t \in Tx, ~(t <= nowDataNum) PROVE ~InChain(From(t), First(t))'
  <2>1. From(t) \in Shard /\ First(t) \in Item /\ First(t).tx = t /\ ~First(t).relayed
    BY RowTypes, ItemTypes
  <2>2. ~Belongs(From(t), First(t))
    BY <1>1, <2>1 DEF Belongs
  <2>3. ~InChain(From(t), First(t))
    BY <2>1, <2>2 DEF IInv, Places, OnePlace
  <2> QED BY <2>1, <2>3 DEF Settled
<1>2. ASSUME NEW t \in Cross, InChain(From(t), First(t))' PROVE InChain(From(t), First(t))
  <2>1. From(t) \in Shard /\ First(t) \in Item
    BY RowTypes, ItemTypes DEF Cross
  <2> QED BY <1>2, <2>1 DEF Settled
<1> QED BY <1>1, <1>2 DEF Carried

\* A block is added and relayed at once.
LEMMA AddCarries ==
  ASSUME IInv, NEW s0 \in Shard, AddBlock(s0), NEW out, out = RelaysOf(s0, block[s0][1]),
         relays' = relays \cup out, UNCHANGED <<injects, TxQueue, nowDataNum, panicked>>
  PROVE  Carried
<1>1. /\ \A s \in Shard : Stays(s)
      /\ \A t \in Cross : InChain(From(t), First(t))' =>
           InChain(From(t), First(t)) \/ Here(To(t), Second(t))'
  BY AddKeeps
<1>2. \A t \in Tx : t <= nowDataNum' => t <= nowDataNum
  OBVIOUS
<1> QED BY <1>1, <1>2 DEF Carried

LEMMA StepCarries ==
  ASSUME IInv, [Next]_vars
  PROVE  Carried
<1>1. ASSUME Settled, \A s \in Shard : Stays(s), UNCHANGED nowDataNum PROVE Carried
  BY <1>1, SettledCarries
<1>2. ASSUME UNCHANGED <<injects, relays, TxQueue, block, chain, nowDataNum, panicked>> PROVE Carried
  BY <1>1, <1>2, IdleKeeps
<1>3. CASE txSending
  <2>1. /\ Settled /\ \A s \in Shard : Stays(s)
        /\ \A t \in Tx : nowDataNum < t /\ t <= nowDataNum' => Here(From(t), First(t))'
    BY <1>3, SendingKeeps
  <2>2. \A t \in Tx : ~(t <= nowDataNum) => nowDataNum < t
    BY RowsFinite DEF IInv, TypeOK
  <2> QED BY <2>1, <2>2, SettledCarries
<1>4. CASE EndBatch \/ EndOfFile \/ SendStop
  BY <1>2, <1>4 DEF EndBatch, EndOfFile, SendStop, shardVars, netVars
<1>5. ASSUME NEW full \in BOOLEAN, handleBlockInfos(full) PROVE Carried
  BY <1>2, <1>5 DEF handleBlockInfos, shardVars
<1>6. ASSUME NEW m \in injects, handleInjectTx(m) PROVE Carried
  <2>1. /\ injects' = injects \ {m} /\ relays' = relays
        /\ TxQueue' = [TxQueue EXCEPT ![m.to] = @ \o [i \in 1 .. Len(m.txs) |-> [tx |-> m.txs[i], relayed |-> FALSE]]]
        /\ UNCHANGED <<block, chain, nowDataNum, panicked>>
    BY <1>6 DEF handleInjectTx, First, supVars, shardVars
  <2>2. FALSE \in BOOLEAN /\ m \in IF FALSE THEN relays ELSE injects
    OBVIOUS
  <2>3. /\ injects' = IF FALSE THEN injects ELSE injects \ {m}
        /\ relays' = IF FALSE THEN relays \ {m} ELSE relays
    BY <2>1
  <2>4. Settled /\ \A s \in Shard : Stays(s)
    BY <2>1, <2>2, <2>3, DeliveryKeeps
  <2> QED BY <1>1, <2>1, <2>4
<1>7. ASSUME NEW m \in relays, handleRelay(m) PROVE Carried
  <2>1. /\ relays' = relays \ {m} /\ injects' = injects
        /\ TxQueue' = [TxQueue EXCEPT ![m.to] = @ \o [i \in 1 .. Len(m.txs) |-> [tx |-> m.txs[i], relayed |-> TRUE]]]
        /\ UNCHANGED <<block, chain, nowDataNum, panicked>>
    BY <1>7 DEF handleRelay, Second, supVars, shardVars
  <2>2. TRUE \in BOOLEAN /\ m \in IF TRUE THEN relays ELSE injects
    OBVIOUS
  <2>3. /\ injects' = IF TRUE THEN injects ELSE injects \ {m}
        /\ relays' = IF TRUE THEN relays \ {m} ELSE relays
    BY <2>1
  <2>4. Settled /\ \A s \in Shard : Stays(s)
    BY <2>1, <2>2, <2>3, DeliveryKeeps
  <2> QED BY <1>1, <2>1, <2>4
<1>8. ASSUME NEW s \in Shard, Propose(s) PROVE Carried
  <2>1. Settled /\ \A r \in Shard : Stays(r)
    BY <1>8, ProposeKeeps
  <2>2. UNCHANGED nowDataNum
    BY <1>8 DEF Propose, supVars
  <2> QED BY <1>1, <2>1, <2>2
<1>9. ASSUME NEW s \in Shard, HandleinCommit(s) PROVE Carried
  <2>1. AddBlock(s) /\ UNCHANGED <<supVars, halted, injects, TxQueue>>
    BY <1>9 DEF HandleinCommit
  <2>2. block[s] # <<>>
    BY <2>1 DEF AddBlock
  <2>3. \A i \in 1 .. Len(block[s][1]) : ~Incorrect(s, block[s][1][i])
    BY <2>2, BlockCorrect
  <2> DEFINE out == RelaysOf(s, block[s][1])
  <2>4. /\ relays' = relays \cup out /\ UNCHANGED panicked
        /\ out = RelaysOf(s, block[s][1])
    BY <1>9, <2>3 DEF HandleinCommit
  <2>5. UNCHANGED <<injects, TxQueue, nowDataNum, panicked>>
    BY <2>1, <2>4 DEF supVars
  <2> HIDE DEF out
  <2> QED BY <2>1, <2>4, <2>5, AddCarries
<1>10. ASSUME NEW s \in Shard, WaitToStop(s) PROVE Carried
  BY <1>2, <1>10 DEF WaitToStop, netVars
<1>11. CASE UNCHANGED vars
  BY <1>2, <1>11 DEF vars, supVars, shardVars, netVars
<1> QED BY <1>3, <1>4, <1>5, <1>6, <1>7, <1>8, <1>9, <1>10, <1>11 DEF Next

\* No half of an injected transaction disappears between messages, pools, blocks
\* and chains.
THEOREM NoHalfDisappears == Spec => []NothingLost
<1>1. Init => Tracked
  <2> SUFFICES ASSUME Init, NEW t \in Tx, t <= nowDataNum PROVE FALSE
    BY DEF Tracked
  <2>1. nowDataNum = 0 /\ t \in Nat /\ 1 <= t
    BY RowsFinite DEF Init
  <2> QED BY <2>1
<1>2. IInv /\ Tracked /\ [Next]_vars => Tracked'
  BY StepCarries, CarriedTracks
<1>3. IInv /\ Tracked => NothingLost
  <2> SUFFICES ASSUME IInv, Tracked, NEW t \in 1 .. Least(nowDataNum, Len(Rows))
               PROVE  /\ Somewhere(From(t), First(t))
                      /\ t \in Cross /\ Executed(From(t), First(t)) => Somewhere(To(t), Second(t))
    BY DEF NothingLost
  <2>1. t \in Tx /\ t <= nowDataNum
    BY RowsFinite DEF IInv, TypeOK, Least
  <2>2. \A s, x : Here(s, x) <=> Somewhere(s, x)
    BY DEF Here, Somewhere, Mailed, Sent, InPool, InBlock, InChain, Executed, Holds
  <2>3. \A s, x : Executed(s, x) <=> InChain(s, x)
    BY DEF Executed, InChain, Holds
  <2> QED BY <2>1, <2>2, <2>3 DEF Tracked
<1> QED BY <1>1, <1>2, <1>3, InitIInv, StepKeepsIInv, PTL DEF Spec

-----------------------------------------------------------------------------
(* Money.  D are the transactions debited (or, within a shard, executed),  *)
(* C the ones credited by their second half.                               *)

\* Balances and transfers in transit add up, and a sender across shards has at
\* least what its debits have left.
Booked(bal, D, C) ==
  /\ SumFunctionOnSet(bal, Account) + SumFunctionOnSet(Values, (D \cap Cross) \ C)
       = Cardinality(Account) * Init_Balance
  /\ \A t \in Cross :
       bal[Rows[t].sender] + SumFunctionOnSet(Values, D \cap SentBy(Rows[t].sender)) >= Init_Balance

LEMMA ValueSums ==
  /\ \A t \in Tx : Values[t] = Rows[t].value /\ Values[t] \in Nat
  /\ \A U \in SUBSET Tx :
       /\ IsFiniteSet(U) /\ SumFunctionOnSet(Values, U) \in Nat
       /\ \A t \in Tx : t \notin U =>
            SumFunctionOnSet(Values, U \cup {t}) = Values[t] + SumFunctionOnSet(Values, U)
       /\ \A V \in SUBSET U : SumFunctionOnSet(Values, V) <= SumFunctionOnSet(Values, U)
<1>1. \A t \in Tx : Values[t] = Rows[t].value /\ Values[t] \in Nat
  BY RowTypes DEF Values
<1>2. ASSUME NEW U \in SUBSET Tx
      PROVE  /\ IsFiniteSet(U) /\ SumFunctionOnSet(Values, U) \in Nat
             /\ \A t \in Tx : t \notin U =>
                  SumFunctionOnSet(Values, U \cup {t}) = Values[t] + SumFunctionOnSet(Values, U)
             /\ \A V \in SUBSET U : SumFunctionOnSet(Values, V) <= SumFunctionOnSet(Values, U)
  <2>1. IsFiniteSet(U)
    BY RowsFinite, FS_Subset
  <2>2. \A x \in U : Values[x] \in Nat
    BY <1>1
  <2>3. \A V \in SUBSET U : SumFunctionOnSet(Values, V) \in Nat /\ SumFunctionOnSet(Values, V) <= SumFunctionOnSet(Values, U)
    BY <2>1, <2>2, SumOfPart
  <2>4. ASSUME NEW t \in Tx, t \notin U
        PROVE  SumFunctionOnSet(Values, U \cup {t}) = Values[t] + SumFunctionOnSet(Values, U)
    <3>1. \A x \in U \cup {t} : Values[x] \in Int
      BY <1>1
    <3> QED BY <2>1, <2>4, <3>1, SumAdd
  <2> QED BY <2>1, <2>3, <2>4
<1> QED BY <1>1, <1>2

\* One account's balance changes.
LEMMA BalanceChanges ==
  ASSUME IsFiniteSet(Account), NEW bal \in [Account -> Nat], NEW a \in Account, NEW v \in Nat
  PROVE  /\ SumFunctionOnSet(bal, Account) \in Int
         /\ SumFunctionOnSet([bal EXCEPT ![a] = v], Account) = SumFunctionOnSet(bal, Account) - bal[a] + v
<1> DEFINE new == [bal EXCEPT ![a] = v]
<1>1. \A b \in Account : bal[b] \in Int /\ new[b] \in Int /\ (b # a => new[b] = bal[b])
  OBVIOUS
<1>2. SumFunctionOnSet(bal, Account) \in Int
  BY <1>1, SumStep
<1> HIDE DEF new
<1>3. SumFunctionOnSet(new, Account) = SumFunctionOnSet(bal, Account) - bal[a] + new[a]
  <2> DEFINE S == Account
  <2>1. IsFiniteSet(S) /\ a \in S
    OBVIOUS
  <2>2. \A x \in S : bal[x] \in Int /\ new[x] \in Int /\ (x # a => new[x] = bal[x])
    BY <1>1
  <2> HIDE DEF S
  <2> QED BY <2>1, <2>2, SumUpdate DEF S
<1>4. new[a] = v
  BY DEF new
<1> QED BY <1>2, <1>3, <1>4 DEF new

\* The first half of a transfer to another shard: its sender can pay.
LEMMA DebitBooks ==
  ASSUME IsFiniteSet(Account), Funded, NEW s, NEW bal \in [Account -> Nat],
         NEW D \in SUBSET Tx, NEW C \in SUBSET Tx, Booked(bal, D, C),
         NEW t \in Cross, From(t) = s, t \notin D, t \notin C
  PROVE  Booked(Execute(s, bal, First(t)), D \cup {t}, C)
<1> DEFINE a == Rows[t].sender
           v == Rows[t].value
           new == [bal EXCEPT ![a] = @ - v]
           sum(U) == SumFunctionOnSet(Values, U)
<1>1. t \in Tx /\ From(t) # To(t) /\ a \in Account /\ v \in Nat /\ Values[t] = v /\ bal[a] \in Nat
  BY RowTypes, ValueSums DEF Cross
<1>2. Init_Balance \in Nat
  BY ConfigAssumption
<1>3. /\ sum(D \cap SentBy(a)) \in Nat /\ sum(SentBy(a)) \in Nat /\ sum((D \cap Cross) \ C) \in Nat
      /\ sum((D \cap SentBy(a)) \cup {t}) = v + sum(D \cap SentBy(a))
      /\ sum((D \cap SentBy(a)) \cup {t}) <= sum(SentBy(a))
      /\ sum(((D \cap Cross) \ C) \cup {t}) = v + sum((D \cap Cross) \ C)
  <2>1. /\ D \cap SentBy(a) \in SUBSET Tx /\ SentBy(a) \in SUBSET Tx /\ (D \cap Cross) \ C \in SUBSET Tx
        /\ (D \cap SentBy(a)) \cup {t} \in SUBSET SentBy(a)
    BY <1>1 DEF SentBy
  <2>2. t \notin D \cap SentBy(a) /\ t \notin (D \cap Cross) \ C
    OBVIOUS
  <2> HIDE DEF v, a
  <2> QED BY <1>1, <2>1, <2>2, ValueSums
<1>4. /\ (D \cup {t}) \cap SentBy(a) = (D \cap SentBy(a)) \cup {t}
      /\ ((D \cup {t}) \cap Cross) \ C = ((D \cap Cross) \ C) \cup {t}
      /\ \A u \in Cross : Rows[u].sender # a =>
           (D \cup {t}) \cap SentBy(Rows[u].sender) = D \cap SentBy(Rows[u].sender)
  BY <1>1 DEF SentBy
<1>5. bal[a] + sum(D \cap SentBy(a)) >= Init_Balance /\ sum(SentBy(a)) <= Init_Balance
  BY DEF Booked, Funded
<1>6. bal[a] >= v /\ bal[a] - v \in Nat
  <2> HIDE DEF sum, v, a
  <2> QED BY <1>1, <1>2, <1>3, <1>5
<1>7. Execute(s, bal, First(t)) = new
  <2>1. First(t).tx = t /\ ~First(t).relayed /\ ~CreditedHere(s, t) /\ ~(bal[a] < v)
    BY <1>1, <1>6, ItemTypes DEF CreditedHere
  <2> QED BY <1>6, <2>1 DEF Execute
<1>8. /\ new = [bal EXCEPT ![a] = bal[a] - v] /\ new[a] = bal[a] - v
      /\ \A b \in Account : b # a => new[b] = bal[b]
  BY <1>1
<1>9. /\ SumFunctionOnSet(bal, Account) \in Int
      /\ SumFunctionOnSet(new, Account) = SumFunctionOnSet(bal, Account) - bal[a] + (bal[a] - v)
  <2> DEFINE w == bal[a] - v
  <2>1. w \in Nat /\ new = [bal EXCEPT ![a] = w]
    BY <1>6, <1>8
  <2> HIDE DEF w, new, v
  <2>2. /\ SumFunctionOnSet(bal, Account) \in Int
        /\ SumFunctionOnSet(new, Account) = SumFunctionOnSet(bal, Account) - bal[a] + w
    BY <1>1, <2>1, BalanceChanges
  <2> QED BY <2>2 DEF w
<1>10. SumFunctionOnSet(bal, Account) + sum((D \cap Cross) \ C) = Cardinality(Account) * Init_Balance
  BY DEF Booked
<1> HIDE DEF new, v, a, sum
<1>11. SumFunctionOnSet(new, Account) + sum(((D \cup {t}) \cap Cross) \ C) = Cardinality(Account) * Init_Balance
  <2> DEFINE k == Cardinality(Account) * Init_Balance
             transit == sum((D \cap Cross) \ C)
  <2>1. sum(((D \cup {t}) \cap Cross) \ C) = v + transit /\ transit \in Nat /\ v \in Nat
    BY <1>1, <1>3, <1>4
  <2>2. SumFunctionOnSet(bal, Account) + transit = k
    BY <1>10
  <2> HIDE DEF k, transit
  <2>3. SumFunctionOnSet(new, Account) + (v + transit) = k
    BY <1>1, <1>9, <2>1, <2>2
  <2> QED BY <2>1, <2>3 DEF k
<1>12. ASSUME NEW u \in Cross
       PROVE  new[Rows[u].sender] + sum((D \cup {t}) \cap SentBy(Rows[u].sender)) >= Init_Balance
  <2>1. Rows[u].sender \in Account /\ bal[Rows[u].sender] + sum(D \cap SentBy(Rows[u].sender)) >= Init_Balance
    BY RowTypes DEF Booked, Cross, sum
  <2>2. CASE Rows[u].sender = a
    <3> DEFINE p == sum(D \cap SentBy(a))
               q == sum((D \cup {t}) \cap SentBy(a))
    <3>1. q = v + p /\ p \in Nat
      BY <1>3, <1>4
    <3> HIDE DEF p, q
    <3>2. new[a] + q = bal[a] + p
      BY <1>1, <1>8, <3>1
    <3>3. new[a] + sum((D \cup {t}) \cap SentBy(a)) = bal[a] + sum(D \cap SentBy(a))
      BY <3>2 DEF p, q
    <3> QED BY <1>5, <2>2, <3>3
  <2>3. CASE Rows[u].sender # a
    BY <1>4, <1>8, <2>1, <2>3
  <2> QED BY <2>2, <2>3
<1> QED BY <1>7, <1>11, <1>12 DEF Booked, sum

\* A transfer within a shard: paid and credited, or skipped.
LEMMA LocalBooks ==
  ASSUME IsFiniteSet(Account), NEW s, NEW bal \in [Account -> Nat],
         NEW D \in SUBSET Tx, NEW C \in SUBSET Tx, Booked(bal, D, C),
         NEW t \in Tx, t \notin Cross, From(t) = s, t \notin D
  PROVE  Booked(Execute(s, bal, First(t)), D \cup {t}, C)
<1> DEFINE a == Rows[t].sender
           r == Rows[t].recipient
           v == Rows[t].value
           paid == [bal EXCEPT ![a] = @ - v]
           new == [paid EXCEPT ![r] = @ + v]
           sum(U) == SumFunctionOnSet(Values, U)
           all(b) == SumFunctionOnSet(b, Account)
<1>1. a \in Account /\ r \in Account /\ a # r /\ v \in Nat /\ Values[t] = v /\ To(t) = s
  BY RowTypes, ValueSums, ConfigAssumption DEF Cross
<1>2. bal[a] \in Nat /\ bal[r] \in Nat /\ Init_Balance \in Nat
  BY <1>1, ConfigAssumption
<1>3. ((D \cup {t}) \cap Cross) \ C = (D \cap Cross) \ C
  OBVIOUS
<1>4. ASSUME NEW u \in Cross
      PROVE  /\ sum(D \cap SentBy(Rows[u].sender)) \in Nat /\ sum((D \cup {t}) \cap SentBy(Rows[u].sender)) \in Nat
             /\ sum(D \cap SentBy(Rows[u].sender)) <= sum((D \cup {t}) \cap SentBy(Rows[u].sender))
             /\ Rows[u].sender = a => sum((D \cup {t}) \cap SentBy(a)) = v + sum(D \cap SentBy(a))
  <2> DEFINE b == Rows[u].sender
             V == D \cap SentBy(b)
             U == (D \cup {t}) \cap SentBy(b)
  <2>1. V \in SUBSET U /\ U \in SUBSET Tx /\ t \notin V
    BY DEF SentBy
  <2>2. b = a => U = V \cup {t}
    BY DEF SentBy
  <2>3. V \in SUBSET Tx /\ Values[t] = v
    BY <1>1, <2>1
  <2> HIDE DEF U, V, v
  <2>4. sum(V) \in Nat /\ sum(U) \in Nat /\ sum(V) <= sum(U) /\ (b = a => sum(U) = v + sum(V))
    BY <2>1, <2>2, <2>3, ValueSums
  <2> HIDE DEF sum
  <2> QED BY <2>4 DEF U, V
<1>5. /\ all(bal) + sum((D \cap Cross) \ C) = Cardinality(Account) * Init_Balance
      /\ \A u \in Cross : bal[Rows[u].sender] + sum(D \cap SentBy(Rows[u].sender)) >= Init_Balance
  BY DEF Booked
<1>6. \A u \in Cross : Rows[u].sender \in Account /\ bal[Rows[u].sender] \in Nat
  BY RowTypes DEF Cross
<1>7. First(t).tx = t /\ ~First(t).relayed /\ CreditedHere(s, t)
  BY <1>1, ItemTypes DEF CreditedHere
<1>8. CASE bal[a] < v
  <2>1. Execute(s, bal, First(t)) = bal
    <3>1. ~(bal[a] >= v)
      BY <1>1, <1>2, <1>8
    <3> QED BY <1>7, <1>8, <3>1 DEF Execute
  <2> HIDE DEF sum, v, a
  <2>2. ASSUME NEW u \in Cross
        PROVE  bal[Rows[u].sender] + sum((D \cup {t}) \cap SentBy(Rows[u].sender)) >= Init_Balance
    <3> DEFINE m == bal[Rows[u].sender]
               p == sum(D \cap SentBy(Rows[u].sender))
               q == sum((D \cup {t}) \cap SentBy(Rows[u].sender))
    <3>1. m \in Nat /\ p \in Nat /\ q \in Nat /\ p <= q /\ m + p >= Init_Balance
      BY <1>4, <1>5, <1>6
    <3> HIDE DEF m, p, q
    <3>2. m + q >= Init_Balance
      BY <1>2, <3>1
    <3> QED BY <3>2 DEF m, q
  <2> QED BY <1>3, <1>5, <2>1, <2>2 DEF Booked, sum
<1>9. CASE ~(bal[a] < v)
  <2>1. bal[a] >= v /\ bal[a] - v \in Nat /\ bal[r] + v \in Nat
    BY <1>1, <1>2, <1>9
  <2>2. Execute(s, bal, First(t)) = new
    BY <1>7, <1>9, <2>1 DEF Execute
  <2>3. /\ paid = [bal EXCEPT ![a] = bal[a] - v] /\ paid \in [Account -> Nat] /\ paid[r] = bal[r]
        /\ new = [paid EXCEPT ![r] = bal[r] + v]
        /\ new[a] = bal[a] - v /\ new[r] = bal[r] + v
        /\ \A b \in Account : b # a /\ b # r => new[b] = bal[b]
    BY <1>1, <2>1
  <2>4. all(bal) \in Int /\ all(paid) \in Int /\ all(paid) = all(bal) - bal[a] + (bal[a] - v)
        /\ all(new) = all(paid) - paid[r] + (bal[r] + v)
    <3> DEFINE w == bal[a] - v
               z == bal[r] + v
    <3>1. w \in Nat /\ z \in Nat /\ paid = [bal EXCEPT ![a] = w] /\ new = [paid EXCEPT ![r] = z]
          /\ paid \in [Account -> Nat]
      BY <2>1, <2>3
    <3> HIDE DEF w, z, v, a, r, new, paid
    <3>2. all(bal) \in Int /\ all(paid) \in Int /\ all(paid) = all(bal) - bal[a] + w /\ all(new) = all(paid) - paid[r] + z
      BY <1>1, <3>1, BalanceChanges, ZenonT(30)
    <3> QED BY <3>2 DEF w, z
  <2> HIDE DEF new, paid, sum, all, v, a, r
  <2>5. all(new) = all(bal)
    BY <1>1, <1>2, <2>3, <2>4
  <2>6. ASSUME NEW u \in Cross
        PROVE  new[Rows[u].sender] + sum((D \cup {t}) \cap SentBy(Rows[u].sender)) >= Init_Balance
    <3>1. /\ bal[Rows[u].sender] + sum(D \cap SentBy(Rows[u].sender)) >= Init_Balance
          /\ Rows[u].sender \in Account /\ bal[Rows[u].sender] \in Nat
      BY <1>5, <1>6
    <3> DEFINE b == Rows[u].sender
               p == sum(D \cap SentBy(b))
               q == sum((D \cup {t}) \cap SentBy(b))
    <3>2. p \in Nat /\ q \in Nat /\ p <= q /\ (b = a => q = v + p) /\ b \in Account /\ bal[b] \in Nat
          /\ bal[b] + p >= Init_Balance
      BY <1>4, <3>1
    <3> HIDE DEF b, p, q
    <3>3. new[b] + q >= Init_Balance
      <4>1. CASE b = a
        <5>1. new[b] = bal[b] - v
          BY <2>3, <4>1
        <5> QED BY <1>1, <1>2, <3>2, <4>1, <5>1
      <4>2. CASE b # a
        <5>1. new[b] \in {bal[b], bal[b] + v}
          BY <2>3, <3>2, <4>2
        <5> QED BY <1>1, <1>2, <3>2, <5>1
      <4> QED BY <4>1, <4>2
    <3> QED BY <3>3 DEF b, q
  <2> QED BY <1>3, <1>5, <2>2, <2>5, <2>6 DEF Booked, sum, all
<1> QED BY <1>8, <1>9

\* The second half: what was in transit is credited.
LEMMA CreditBooks ==
  ASSUME IsFiniteSet(Account), NEW s, NEW bal \in [Account -> Nat],
         NEW D \in SUBSET Tx, NEW C \in SUBSET Tx, Booked(bal, D, C),
         NEW t \in Cross, To(t) = s, t \in D, t \notin C
  PROVE  Booked(Execute(s, bal, Second(t)), D, C \cup {t})
<1> DEFINE r == Rows[t].recipient
           v == Rows[t].value
           new == [bal EXCEPT ![r] = @ + v]
           sum(U) == SumFunctionOnSet(Values, U)
           all(b) == SumFunctionOnSet(b, Account)
<1>1. t \in Tx /\ r \in Account /\ v \in Nat /\ Values[t] = v /\ bal[r] \in Nat /\ Init_Balance \in Nat
  BY RowTypes, ValueSums, ConfigAssumption DEF Cross
<1>2. Execute(s, bal, Second(t)) = new
  <2>1. Second(t).tx = t /\ Second(t).relayed /\ CreditedHere(s, t)
    BY ItemTypes DEF CreditedHere
  <2> QED BY <2>1 DEF Execute
<1>3. /\ bal[r] + v \in Nat /\ new = [bal EXCEPT ![r] = bal[r] + v] /\ new[r] = bal[r] + v
      /\ \A b \in Account : b # r => new[b] = bal[b]
  BY <1>1
<1>4. all(bal) \in Int /\ all(new) = all(bal) - bal[r] + (bal[r] + v)
  <2> DEFINE w == bal[r] + v
  <2>1. w \in Nat /\ new = [bal EXCEPT ![r] = w]
    BY <1>3
  <2> HIDE DEF w, v, r, new
  <2>2. all(bal) \in Int /\ all(new) = all(bal) - bal[r] + w
    BY <1>1, <2>1, BalanceChanges
  <2> QED BY <2>2 DEF w
<1>5. sum((D \cap Cross) \ C) = v + sum((D \cap Cross) \ (C \cup {t})) /\ sum((D \cap Cross) \ (C \cup {t})) \in Nat
  <2> DEFINE U == (D \cap Cross) \ (C \cup {t})
  <2>1. U \in SUBSET Tx /\ t \notin U /\ U \cup {t} = (D \cap Cross) \ C
    OBVIOUS
  <2> HIDE DEF U, v
  <2>2. sum(U \cup {t}) = v + sum(U) /\ sum(U) \in Nat
    BY <1>1, <2>1, ValueSums
  <2> HIDE DEF sum
  <2> QED BY <2>1, <2>2 DEF U
<1>6. /\ all(bal) + sum((D \cap Cross) \ C) = Cardinality(Account) * Init_Balance
      /\ \A u \in Cross : bal[Rows[u].sender] + sum(D \cap SentBy(Rows[u].sender)) >= Init_Balance
  BY DEF Booked
<1>7. \A u \in Cross : /\ Rows[u].sender \in Account /\ bal[Rows[u].sender] \in Nat
                       /\ sum(D \cap SentBy(Rows[u].sender)) \in Nat
  <2>1. \A u \in Cross : Rows[u].sender \in Account /\ bal[Rows[u].sender] \in Nat
    BY RowTypes DEF Cross
  <2>2. \A b : D \cap SentBy(b) \in SUBSET Tx
    OBVIOUS
  <2> QED BY <2>1, <2>2, ValueSums
<1> HIDE DEF new, sum, all, v, r
<1>8. all(new) + sum((D \cap Cross) \ (C \cup {t})) = Cardinality(Account) * Init_Balance
  BY <1>1, <1>4, <1>5, <1>6
<1>9. ASSUME NEW u \in Cross
      PROVE  new[Rows[u].sender] + sum(D \cap SentBy(Rows[u].sender)) >= Init_Balance
  <2> DEFINE b == Rows[u].sender
             p == sum(D \cap SentBy(b))
  <2>1. b \in Account /\ bal[b] \in Nat /\ p \in Nat /\ bal[b] + p >= Init_Balance
    BY <1>6, <1>7
  <2> HIDE DEF b, p
  <2>2. new[b] \in {bal[b], bal[b] + v}
    BY <1>3, <2>1
  <2>3. new[b] + p >= Init_Balance
    BY <1>1, <2>1, <2>2
  <2> QED BY <2>3 DEF b, p
<1> QED BY <1>2, <1>8, <1>9 DEF Booked, sum, all

Debited == {t \in Tx : InChain(From(t), First(t))}
Credited == {t \in Tx : InChain(To(t), Second(t))}

\* The loop of GetUpdateStatusTrie over a block, transaction by transaction.
LEMMA BlockBooks ==
  ASSUME IsFiniteSet(Account), Funded, IInv, NEW s0 \in Shard, AddBlock(s0),
         \A s \in Shard, x \in Item : InChain(s, x)' <=> InChain(s, x) \/ (s = s0 /\ InBlock(s, x)),
         Booked(balance, Debited, Credited)
  PROVE  Booked(balance', Debited', Credited')
<1> DEFINE txs == block[s0][1]
           n == Len(txs)
           D(i) == Debited \cup {t \in Tx : \E j \in 1 .. i : txs[j] = First(t)}
           C(i) == Credited \cup {t \in Tx : \E j \in 1 .. i : txs[j] = Second(t)}
<1>1. block[s0] # <<>> /\ balance' = GetUpdateStatusTrie(s0, txs)
  BY DEF AddBlock
<1>2. txs \in Seq(Item) /\ Distinct(txs)
  BY <1>1, BlockCorrect
<1>3. \A x : InBlock(s0, x) <=> \E j \in 1 .. n : txs[j] = x
  BY <1>1 DEF InBlock, Holds
<1>4. balance \in [Account -> Nat]
  BY DEF IInv, TypeOK
<1> HIDE DEF txs
<1>5. n \in Nat /\ \A j \in 1 .. n : txs[j] \in Item
  BY <1>2
<1>6. \A i, j \in 1 .. n : txs[i] = txs[j] => i = j
  BY <1>2 DEF Distinct
<1>7. PICK h \in [0 .. n -> [Account -> Nat]] : Ledgers(h, s0, txs)
  BY <1>2, <1>4, ExecutionSteps
<1>8. h[0] = balance /\ h[n] = balance' /\ \A i \in 1 .. n : h[i] = Execute(s0, h[i - 1], txs[i])
  BY <1>1, <1>7 DEF Ledgers
<1> HIDE DEF n
<1>9. ASSUME NEW j \in 1 .. n PROVE InBlock(s0, txs[j]) /\ Belongs(s0, txs[j]) /\ ~InChain(s0, txs[j])
  <2>1. txs[j] \in Item /\ InBlock(s0, txs[j])
    BY <1>3, <1>5
  <2> QED BY <2>1 DEF IInv, Places, OnePlace
<1>10. ASSUME NEW t \in Tx, InChain(To(t), Second(t)) PROVE InChain(From(t), First(t))
  <2>1. To(t) \in Shard /\ Second(t) \in Item /\ Second(t).relayed /\ Second(t).tx = t
    BY RowTypes, ItemTypes
  <2>2. Belongs(To(t), Second(t))
    BY <1>10, <2>1 DEF IInv, Places, OnePlace
  <2> QED BY <2>1, <2>2 DEF Belongs
<1>11. \A i : D(i) \in SUBSET Tx /\ C(i) \in SUBSET Tx
  BY DEF Debited, Credited
<1>12. \A t, u : First(t) # Second(u) /\ (First(t) = First(u) => t = u) /\ (Second(t) = Second(u) => t = u)
  BY ItemTypes
<1>13. ASSUME NEW i \in Nat, i + 1 <= n, Booked(h[i], D(i), C(i))
       PROVE  Booked(h[i + 1], D(i + 1), C(i + 1))
  <2> DEFINE x == txs[i + 1]
             t == x.tx
  <2>1. i + 1 \in 1 .. n /\ i \in 0 .. n /\ 1 .. i \subseteq 1 .. n /\ 1 .. (i + 1) = (1 .. i) \cup {i + 1} /\ i + 1 \notin 1 .. i
    BY <1>5, <1>13
  <2>2. x \in Item /\ t \in Tx /\ h[i] \in [Account -> Nat] /\ h[i + 1] = Execute(s0, h[i], x)
    <3>1. x \in Item /\ h[i] \in [Account -> Nat]
      BY <1>5, <1>7, <2>1
    <3>2. (i + 1) - 1 = i
      BY <1>13
    <3>3. h[i + 1] = Execute(s0, h[i], x)
      BY <1>8, <2>1, <3>2
    <3> QED BY <3>1, <3>3, ItemTypes
  <2>3. Belongs(s0, x) /\ ~InChain(s0, x)
    BY <1>9, <2>1
  <2>4. \A j \in 1 .. i : txs[j] # x
    BY <1>6, <2>1
  <2> HIDE DEF x
  <2>5. \A y : (\E j \in 1 .. (i + 1) : txs[j] = y) <=> (\E j \in 1 .. i : txs[j] = y) \/ y = x
    BY <2>1 DEF x
  <2>6. D(i) \in SUBSET Tx /\ C(i) \in SUBSET Tx
    BY <1>11
  <2>7. CASE ~x.relayed
    <3>1. x = First(t) /\ From(t) = s0 /\ ~InChain(From(t), First(t))
      BY <2>2, <2>3, <2>7, ItemTypes DEF Belongs
    <3>2. t \notin D(i)
      BY <2>4, <3>1 DEF Debited
    <3>3. t \notin C(i)
      <4>1. t \notin Credited
        BY <1>10, <2>2, <3>1 DEF Credited
      <4>2. ASSUME NEW j \in 1 .. i, txs[j] = Second(t) PROVE FALSE
        <5>1. Belongs(s0, Second(t))
          BY <1>9, <2>1, <4>2
        <5> QED BY <3>1, <5>1, ItemTypes DEF Belongs
      <4> QED BY <4>1, <4>2
    <3>4. D(i + 1) = D(i) \cup {t}
      <4>1. \A u \in Tx : First(u) = x <=> u = t
        BY <1>12, <3>1
      <4> QED BY <2>2, <2>5, <4>1 DEF Debited
    <3>5. C(i + 1) = C(i)
      <4>1. \A u \in Tx : Second(u) # x
        BY <1>12, <3>1
      <4> QED BY <2>5, <4>1
    <3> HIDE DEF D, C, t
    <3>6. CASE t \in Cross
      BY <1>13, <2>2, <2>6, <3>1, <3>2, <3>3, <3>4, <3>5, <3>6, DebitBooks
    <3>7. CASE t \notin Cross
      BY <1>13, <2>2, <2>6, <3>1, <3>2, <3>4, <3>5, <3>7, LocalBooks
    <3> QED BY <3>6, <3>7
  <2>8. CASE x.relayed
    <3>1. x = Second(t) /\ t \in Cross /\ To(t) = s0 /\ InChain(From(t), First(t))
      BY <2>2, <2>3, <2>8, ItemTypes DEF Belongs
    <3>2. t \in D(i)
      BY <2>2, <3>1 DEF Debited
    <3>3. t \notin C(i)
      BY <2>3, <2>4, <3>1 DEF Credited
    <3>4. C(i + 1) = C(i) \cup {t}
      <4>1. \A u \in Tx : Second(u) = x <=> u = t
        BY <1>12, <3>1
      <4> QED BY <2>2, <2>5, <4>1 DEF Credited
    <3>5. D(i + 1) = D(i)
      <4>1. \A u \in Tx : First(u) # x
        BY <1>12, <3>1
      <4> QED BY <2>5, <4>1
    <3> HIDE DEF D, C, t
    <3> QED BY <1>13, <2>2, <2>6, <3>1, <3>2, <3>3, <3>4, <3>5, CreditBooks
  <2> QED BY <2>7, <2>8
<1>14. Booked(h[0], D(0), C(0))
  <2>1. D(0) = Debited /\ C(0) = Credited
    <3>1. \A j \in 1 .. 0 : FALSE
      OBVIOUS
    <3> QED BY <3>1
  <2> HIDE DEF D, C
  <2> QED BY <1>8, <2>1
<1>15. D(n) = Debited' /\ C(n) = Credited'
  <2>1. ASSUME NEW t \in Tx PROVE t \in D(n) <=> InChain(From(t), First(t))'
    <3>1. From(t) \in Shard /\ First(t) \in Item /\ ~First(t).relayed /\ First(t).tx = t
      BY RowTypes, ItemTypes
    <3>2. t \in D(n) <=> InChain(From(t), First(t)) \/ InBlock(s0, First(t))
      BY <1>3 DEF Debited
    <3>3. InBlock(s0, First(t)) => From(t) = s0
      BY <3>1 DEF IInv, Places, OnePlace, Belongs
    <3> QED BY <3>1, <3>2, <3>3
  <2>2. ASSUME NEW t \in Tx PROVE t \in C(n) <=> InChain(To(t), Second(t))'
    <3>1. To(t) \in Shard /\ Second(t) \in Item /\ Second(t).relayed /\ Second(t).tx = t
      BY RowTypes, ItemTypes
    <3>2. t \in C(n) <=> InChain(To(t), Second(t)) \/ InBlock(s0, Second(t))
      BY <1>3 DEF Credited
    <3>3. InBlock(s0, Second(t)) => To(t) = s0
      BY <3>1 DEF IInv, Places, OnePlace, Belongs
    <3> QED BY <3>1, <3>2, <3>3
  <2>3. D(n) \in SUBSET Tx /\ C(n) \in SUBSET Tx
    BY <1>11
  <2> HIDE DEF D, C
  <2> QED BY <2>1, <2>2, <2>3 DEF Debited, Credited
<1> DEFINE P == {i \in Nat : i <= n => Booked(h[i], D(i), C(i))}
<1> HIDE DEF D, C
<1>16. 0 \in P
  BY <1>14
<1>17. ASSUME NEW i \in Nat, i \in P PROVE i + 1 \in P
  <2> SUFFICES ASSUME i + 1 <= n PROVE Booked(h[i + 1], D(i + 1), C(i + 1))
    BY <1>17
  <2>1. i <= n
    BY <1>5
  <2>2. Booked(h[i], D(i), C(i))
    BY <1>17, <2>1
  <2> QED BY <1>13, <2>2
<1>18. n \in P
  <2> HIDE DEF P
  <2> QED BY <1>5, <1>16, <1>17, NatSetInduction
<1>19. Booked(h[n], D(n), C(n))
  BY <1>5, <1>18
<1> QED BY <1>8, <1>15, <1>19

\* Balances and transfers in transit add up to what there was at first, if no
\* sender across shards sends more than it has.  Without that premise it is
\* not so: the first half is skipped, the second credited all the same.
THEOREM MoneyConserved ==
  ASSUME IsFiniteSet(Account), Funded
  PROVE  Spec => []Conservation
<1> DEFINE Balanced == Booked(balance, Debited, Credited)
<1>1. Init => Balanced
  <2> SUFFICES ASSUME Init PROVE Balanced
    OBVIOUS
  <2>1. Init_Balance \in Nat /\ balance = [a \in Account |-> Init_Balance]
    BY ConfigAssumption DEF Init
  <2>2. Debited = {}
    <3>1. \A t \in Tx : ~InChain(From(t), First(t))
      BY RowTypes, EmptyHolds DEF Init, InChain
    <3> QED BY <3>1 DEF Debited
  <2>3. SumFunctionOnSet(Values, {}) = 0
    BY SumEmpty
  <2>4. SumFunctionOnSet(balance, Account) = Init_Balance * Cardinality(Account) /\ Cardinality(Account) \in Nat
    <3>1. \A a \in Account : balance[a] = Init_Balance
      BY <2>1
    <3>2. Init_Balance \in Int
      BY <2>1
    <3> QED BY <3>1, <3>2, SumConstant, FS_CardinalityType
  <2>5. SumFunctionOnSet(balance, Account) + SumFunctionOnSet(Values, (Debited \cap Cross) \ Credited)
          = Cardinality(Account) * Init_Balance
    <3>1. (Debited \cap Cross) \ Credited = {}
      BY <2>2
    <3> DEFINE c == Cardinality(Account)
    <3>2. c \in Nat /\ SumFunctionOnSet(balance, Account) = Init_Balance * c
      BY <2>4
    <3> HIDE DEF c
    <3>3. Init_Balance * c + 0 = c * Init_Balance
      BY <2>1, <3>2
    <3> QED BY <2>3, <3>1, <3>2, <3>3 DEF c
  <2>6. ASSUME NEW t \in Cross
        PROVE  balance[Rows[t].sender] + SumFunctionOnSet(Values, Debited \cap SentBy(Rows[t].sender)) >= Init_Balance
    <3>1. Debited \cap SentBy(Rows[t].sender) = {} /\ balance[Rows[t].sender] = Init_Balance
      BY <2>1, <2>2, RowTypes DEF Cross
    <3> QED BY <2>1, <2>3, <3>1
  <2> QED BY <2>5, <2>6 DEF Booked
<1>2. IInv /\ Balanced /\ [Next]_vars => Balanced'
  <2> SUFFICES ASSUME IInv, Balanced, [Next]_vars PROVE Balanced'
    OBVIOUS
  <2>1. ASSUME NEW s \in Shard, AddBlock(s), NEW out, out = RelaysOf(s, block[s][1]),
               relays' = relays \cup out, UNCHANGED <<injects, TxQueue, nowDataNum, panicked>>
        PROVE  Balanced'
    <3>1. \A r \in Shard, x \in Item : InChain(r, x)' <=> InChain(r, x) \/ (r = s /\ InBlock(r, x))
      BY <2>1, AddKeeps
    <3>2. AddBlock(s)
      BY <2>1
    <3> QED BY <3>1, <3>2, BlockBooks
  <2>2. ASSUME UNCHANGED <<chain, balance>> PROVE Balanced'
    <3>1. Debited' = Debited /\ Credited' = Credited
      BY <2>2 DEF Debited, Credited, InChain
    <3> QED BY <2>2, <3>1
  <2>3. ASSUME NEW s \in Shard, HandleinCommit(s) PROVE Balanced'
    <3>1. AddBlock(s) /\ UNCHANGED <<supVars, halted, injects, TxQueue>>
      BY <2>3 DEF HandleinCommit
    <3>2. block[s] # <<>>
      BY <3>1 DEF AddBlock
    <3>3. \A i \in 1 .. Len(block[s][1]) : ~Incorrect(s, block[s][1][i])
      BY <3>2, BlockCorrect
    <3> DEFINE out == RelaysOf(s, block[s][1])
    <3>4. relays' = relays \cup out /\ UNCHANGED panicked /\ out = RelaysOf(s, block[s][1])
      BY <2>3, <3>3 DEF HandleinCommit
    <3> HIDE DEF out, Balanced
    <3> QED BY <2>1, <3>1, <3>4 DEF supVars
  <2>4. CASE \/ txSending \/ EndBatch \/ EndOfFile \/ SendStop \/ UNCHANGED vars
             \/ \E full \in BOOLEAN : handleBlockInfos(full)
             \/ \E m \in injects : handleInjectTx(m)
             \/ \E m \in relays : handleRelay(m)
             \/ \E s \in Shard : Propose(s) \/ WaitToStop(s)
    <3>1. UNCHANGED <<chain, balance>>
      BY <2>4 DEF txSending, EndBatch, EndOfFile, SendStop, handleBlockInfos, handleInjectTx, handleRelay,
                  Propose, WaitToStop, vars, shardVars
    <3> QED BY <2>2, <3>1
  <2> HIDE DEF Balanced
  <2> QED BY <2>3, <2>4 DEF Next
<1>3. IInv /\ Balanced => Conservation
  <2> SUFFICES ASSUME IInv, Balanced PROVE Conservation
    OBVIOUS
  <2>1. InTransit = (Debited \cap Cross) \ Credited
    BY DEF InTransit, Debited, Credited, InChain, Executed, Holds, Cross
  <2>2. DOMAIN balance = Account /\ TypeOK
    BY DEF IInv, TypeOK
  <2>3. SumFunction(balance) = SumFunctionOnSet(balance, Account)
    BY <2>2 DEF SumFunction
  <2> QED BY <2>1, <2>2, <2>3 DEF Conservation, Booked
<1> HIDE DEF Balanced
<1> QED BY <1>1, <1>2, <1>3, InitIInv, StepKeepsIInv, PTL DEF Spec
=============================================================================
