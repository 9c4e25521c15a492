---------------------------- MODULE BrokerProofs ----------------------------
(***************************************************************************)
(* The broker method, for every number of shards, accounts and rows, every *)
(* size of batches, sends and blocks and every order of messages.          *)
(***************************************************************************)
EXTENDS Broker, Folding

(* No handler looks for duplicates: that a half is executed and confirmed  *)
(* once rests on there being one copy of it.  loc[x] is the one place where *)
(* transaction x is; the state does not have it.                           *)

Tx1(t) == [kind |-> "tx1", tx |-> t, copy |-> 0]
Tx2(t) == [kind |-> "tx2", tx |-> t, copy |-> 0]

\* The transactions that are ever made: one tx1 and one tx2 of a transfer.
Made(x) == x \in Item /\ x.copy = 0 /\ (x.kind = "itx" <=> x.tx \notin Raw)

Nowhere == <<"nowhere", 0>>
AtReader == <<"reader", 0>>
AtConfirmer == <<"confirmer", 0>>
ToNote == <<"note", 0>>
Over == <<"over", 0>>
InMsg(m) == <<"message", m>>
InPool(s) == <<"pool", s>>
Reported(kind, r) == <<kind, r>>

\* q is what is in place p.
Slice(q, loc, p) == q \in Seq(Item) /\ Distinct(q) /\ \A x : Holds(q, x) <=> x \in Item /\ loc[x] = p

Exists(p) ==
  \/ p \in {Nowhere, AtReader, AtConfirmer, ToNote, Over}
  \/ \E m \in msgs : p = InMsg(m)
  \/ \E s \in Shard : p = InPool(s)
  \/ \E r \in reports : p = Reported("tx1", r) \/ p = Reported("tx2", r)

Located(loc) ==
  /\ Slice(readerOut, loc, AtReader) /\ Slice(confirmerOut, loc, AtConfirmer) /\ Slice(confirm2s, loc, ToNote)
  /\ \A m \in msgs : m.to \in Shard /\ Slice(m.txs, loc, InMsg(m))
  /\ DOMAIN TxQueue = Shard /\ \A s \in Shard : Slice(TxQueue[s], loc, InPool(s))
  /\ \A r \in reports : /\ Slice(r.broker1Txs, loc, Reported("tx1", r)) /\ Slice(r.broker2Txs, loc, Reported("tx2", r))
                        /\ r.innerShardTxs \in Seq(Item)
  /\ \A x \in Item : Exists(loc[x])

\* Transactions reach the shard txSending chose.
Directed(loc) ==
  \A x \in Item : /\ \A m \in msgs : loc[x] = InMsg(m) => Destination(x) = m.to
                  /\ \A s \in Shard : loc[x] = InPool(s) => Destination(x) = s

\* A half of this kind may be there.
Suits(kind, p) ==
  /\ p[1] \in {"tx1", "tx2"} => kind = p[1]
  /\ p[1] = "reader" => kind # "tx2"
  /\ p[1] \in {"confirmer", "note"} => kind = "tx2"

\* A tx2 is made when its tx1 has been confirmed.
Lives(loc) ==
  /\ \A x \in Item : loc[x] # Nowhere => Made(x) /\ Suits(x.kind, loc[x])
  /\ \A x \in Item : Made(x) /\ x.kind # "tx2" => (loc[x] # Nowhere <=> x.tx <= nowDataNum)
  /\ \A t \in Raw : loc[Tx2(t)] # Nowhere <=> loc[Tx1(t)] = Over

\* What the supervisor has in its books of row t.
Noted(loc, t) == IF t \notin Raw \/ loc[Tx1(t)] # Over THEN <<>>
                 ELSE IF loc[Tx2(t)] # Over THEN <<Tx1(t)>> ELSE <<Tx1(t), Tx2(t)>>

\* The transactions of a kind that were made, and those in blocks.
Known(loc, kind) == {x \in Item : x.kind = kind /\ loc[x] # Nowhere}
Done(loc) == {x \in Item : loc[x][1] \in {"tx1", "tx2", "note", "over"}}

Books(loc) ==
  /\ nowDataNum \in 0 .. Len(Rows) /\ BrokerRawMegs = {t \in Raw : t <= nowDataNum}
  /\ DOMAIN brokerConfirm1Pool = Known(loc, "tx1") /\ DOMAIN brokerConfirm2Pool = Known(loc, "tx2")
  /\ RawTx2BrokerTx = [t \in Tx |-> Noted(loc, t)]
  /\ executed = Done(loc)

Tracked(loc) == Located(loc) /\ Directed(loc) /\ Lives(loc) /\ Books(loc)

-----------------------------------------------------------------------------
(* Rows and transactions.                                                  *)

LEMMA RowFacts ==
  /\ Len(Rows) \in Nat /\ Tx = 1 .. Len(Rows) /\ IsFiniteSet(Tx) /\ Raw \subseteq Tx
  /\ \A t \in Tx : Rows[t].sender \in Account /\ Rows[t].recipient \in Account /\ Rows[t].value \in Nat
  /\ BrokerAddress[1] \in Account /\ IsBroker(BrokerAddress[1])
  /\ \A a \in Account : Addr2Shard[a] \in Shard
  /\ \A t \in Raw : ~IsBroker(Rows[t].sender) /\ ~IsBroker(Rows[t].recipient)
<1> DEFINE R == [sender : Account, recipient : Account, value : Nat]
<1>1. Rows \in Seq(R) /\ BrokerAddress \in Seq(Account) /\ BrokerAddress # <<>> /\ Addr2Shard \in [Account -> Shard]
  BY ConfigAssumption
<1> HIDE DEF R
<1>2. Len(Rows) \in Nat /\ \A t \in Tx : Rows[t] \in R
  BY <1>1 DEF Tx
<1>3. \A t \in Tx : Rows[t].sender \in Account /\ Rows[t].recipient \in Account /\ Rows[t].value \in Nat
  BY <1>2 DEF R
<1>4. IsFiniteSet(Tx)
  BY <1>2, FS_Interval DEF Tx
<1>5. 1 \in DOMAIN BrokerAddress /\ BrokerAddress[1] \in Account
  BY <1>1
<1>6. IsBroker(BrokerAddress[1])
  BY <1>5 DEF IsBroker, ToSet
<1> QED BY <1>1, <1>2, <1>3, <1>4, <1>5, <1>6 DEF Tx, Raw

\* A transaction is its kind and its row.
LEMMA ItemFacts ==
  /\ \A x \in Item : x.kind \in {"itx", "tx1", "tx2"} /\ x.tx \in Tx /\ x.copy \in Nat
  /\ \A t \in Tx : /\ Itx(t) \in Item /\ Itx(t).kind = "itx" /\ Itx(t).tx = t /\ Itx(t).copy = 0
                   /\ Tx1(t) \in Item /\ Tx1(t).kind = "tx1" /\ Tx1(t).tx = t /\ Tx1(t).copy = 0
                   /\ Tx2(t) \in Item /\ Tx2(t).kind = "tx2" /\ Tx2(t).tx = t /\ Tx2(t).copy = 0
  /\ \A x \in Item : x.copy = 0 => /\ x.kind = "itx" => x = Itx(x.tx)
                                   /\ x.kind = "tx1" => x = Tx1(x.tx)
                                   /\ x.kind = "tx2" => x = Tx2(x.tx)
<1>1. \A x \in Item : /\ x.kind \in {"itx", "tx1", "tx2"} /\ x.tx \in Tx /\ x.copy \in Nat
                      /\ x = [kind |-> x.kind, tx |-> x.tx, copy |-> x.copy]
  BY DEF Item
<1>2. \A t \in Tx : Itx(t) \in Item /\ Tx1(t) \in Item /\ Tx2(t) \in Item
  BY DEF Item, Itx, Tx1, Tx2
<1>3. \A t : /\ Itx(t).kind = "itx" /\ Itx(t).tx = t /\ Itx(t).copy = 0
             /\ Tx1(t).kind = "tx1" /\ Tx1(t).tx = t /\ Tx1(t).copy = 0
             /\ Tx2(t).kind = "tx2" /\ Tx2(t).tx = t /\ Tx2(t).copy = 0
  BY DEF Itx, Tx1, Tx2
<1>4. \A x \in Item : x.copy = 0 => /\ x.kind = "itx" => x = Itx(x.tx)
                                    /\ x.kind = "tx1" => x = Tx1(x.tx)
                                    /\ x.kind = "tx2" => x = Tx2(x.tx)
  BY <1>1 DEF Itx, Tx1, Tx2
<1> QED BY <1>1, <1>2, <1>3, <1>4

LEMMA DestinationType == ASSUME NEW x \in Item PROVE Destination(x) \in Shard
<1>1. Sender(x) \in Account /\ Recipient(x) \in Account
  BY RowFacts, ItemFacts DEF Sender, Recipient
<1> QED BY <1>1, RowFacts DEF Destination

\* Which place it is.
LEMMA PlaceFacts ==
  /\ \A a, b, c, d : (<<a, b>> = <<c, d>>) <=> (a = c /\ b = d)
  /\ \A a, b : <<a, b>>[1] = a
  OBVIOUS

\* Others are where they were.
LEMMA SliceStays ==
  ASSUME NEW q, NEW loc, NEW lo, NEW p, Slice(q, loc, p), \A x \in Item : lo[x] = p <=> loc[x] = p
  PROVE  Slice(q, lo, p)
  BY DEF Slice

\* Where some transactions have gone.
Moved(loc, S, p) == [x \in Item |-> IF x \in S THEN p ELSE loc[x]]

\* A sequence of n transactions made from n rows.
LEMMA MadeHold ==
  ASSUME NEW A, NEW q \in Seq(A), NEW B, NEW F, Distinct(q), \A t, u \in A : F[t] = F[u] => t = u,
         NEW r \in Seq(B), Len(r) = Len(q), \A i \in 1 .. Len(q) : r[i] = F[q[i]]
  PROVE  /\ Distinct(r)
         /\ \A x : Holds(r, x) <=> \E t \in A : Holds(q, t) /\ x = F[t]
<1>1. Len(q) \in Nat /\ \A i \in 1 .. Len(q) : q[i] \in A
  OBVIOUS
<1>2. Distinct(r)
  BY <1>1 DEF Distinct
<1>3. \A x : Holds(r, x) <=> \E t \in A : Holds(q, t) /\ x = F[t]
  BY <1>1 DEF Holds
<1> QED BY <1>2, <1>3

-----------------------------------------------------------------------------
(* Transactions on their way to a block.                                   *)

\* How far transfer t is.
PhaseAt(loc, t) ==
  IF Tx1(t) \notin Done(loc) THEN "new" ELSE IF Tx2(t) \notin Done(loc) THEN "paid in"
  ELSE IF loc[Tx2(t)] # Over THEN "paid out" ELSE "finished"
Advances(loc, lo) == \A t \in Raw : PhaseAt(lo, t) = PhaseAt(loc, t) \/ PhaseAt(lo, t) = H!Succ(PhaseAt(loc, t))

Alive(p) == p[1] \in {"reader", "confirmer", "message", "pool"}

\* The books do not change.
Unnoted == UNCHANGED <<nowDataNum, BrokerRawMegs, brokerConfirm1Pool, brokerConfirm2Pool, RawTx2BrokerTx, executed>>

LEMMA AliveStays ==
  ASSUME NEW loc, NEW lo, Lives(loc), Books(loc), Unnoted,
         \A x \in Item : lo[x] = loc[x] \/ (Alive(loc[x]) /\ lo[x][1] \in {"message", "pool"})
  PROVE  Lives(lo)' /\ Books(lo)' /\ Advances(loc, lo)
<1>1. Nowhere[1] = "nowhere" /\ Over[1] = "over"
  BY DEF Nowhere, Over
<1>2. \A x \in Item : /\ lo[x] = Nowhere <=> loc[x] = Nowhere
                      /\ lo[x] = Over <=> loc[x] = Over
                      /\ lo[x][1] \in {"tx1", "tx2", "note", "over"} <=> loc[x][1] \in {"tx1", "tx2", "note", "over"}
                      /\ Suits(x.kind, loc[x]) => Suits(x.kind, lo[x])
  BY <1>1 DEF Alive, Suits
<1>3. \A t \in Raw : Tx1(t) \in Item /\ Tx2(t) \in Item
  BY RowFacts, ItemFacts
<1>4. Known(lo, "tx1") = Known(loc, "tx1") /\ Known(lo, "tx2") = Known(loc, "tx2") /\ Done(lo) = Done(loc)
  BY <1>2 DEF Known, Done
<1>5. \A t \in Tx : Noted(lo, t) = Noted(loc, t)
  BY <1>2, <1>3 DEF Noted
<1>6. Lives(lo)'
  BY <1>2, <1>3 DEF Lives, Unnoted
<1>7. Books(lo)'
  BY <1>4, <1>5 DEF Books, Unnoted
<1>8. Advances(loc, lo)
  BY <1>2, <1>3, <1>4 DEF Advances, PhaseAt
<1> QED BY <1>6, <1>7, <1>8

\* A message is put in the pool.
LEMMA InjectTracked ==
  ASSUME NEW loc, Tracked(loc), NEW m \in msgs, handleInjectTx(m)
  PROVE  \E lo : Tracked(lo)' /\ Advances(loc, lo)
<1> DEFINE r == m.to
           q == TxQueue[r] \o m.txs
           S == {x \in Item : loc[x] = InMsg(m)}
           lo == Moved(loc, S, InPool(r))
<1>1. /\ msgs' = msgs \ {m} /\ TxQueue' = [TxQueue EXCEPT ![r] = q] /\ Unnoted
      /\ UNCHANGED <<readerOut, confirmerOut, confirm2s, reports>>
  BY DEF handleInjectTx, supVars, Unnoted
<1>2. /\ r \in Shard /\ DOMAIN TxQueue = Shard
      /\ Slice(m.txs, loc, InMsg(m)) /\ Slice(TxQueue[r], loc, InPool(r))
  BY DEF Tracked, Located
<1>3. \A x \in Item : /\ loc[x] = InMsg(m) => lo[x] = InPool(r)
                      /\ loc[x] # InMsg(m) => lo[x] = loc[x]
  BY DEF Moved
<1> HIDE DEF lo
<1>4. InMsg(m) # InPool(r) /\ InMsg(m)[1] = "message" /\ InPool(r)[1] = "pool"
  BY DEF InMsg, InPool
<1>5. Slice(q, lo, InPool(r))
  <2>1. /\ TxQueue[r] \in Seq(Item) /\ m.txs \in Seq(Item) /\ Distinct(TxQueue[r]) /\ Distinct(m.txs)
        /\ Disjoint(TxQueue[r], m.txs)
    BY <1>2, <1>4 DEF Slice, Disjoint
  <2>2. q \in Seq(Item) /\ Distinct(q) /\ \A x : Holds(q, x) <=> Holds(TxQueue[r], x) \/ Holds(m.txs, x)
    BY <2>1, ConcatHolds
  <2> HIDE DEF q
  <2> QED BY <1>2, <1>3, <1>4, <2>2 DEF Slice
<1> HIDE DEF q
<1>6. ASSUME NEW p, p # InMsg(m), p # InPool(r) PROVE \A x \in Item : lo[x] = p <=> loc[x] = p
  BY <1>3, <1>6
<1>7. Located(lo)'
  <2>1. Slice(readerOut, lo, AtReader) /\ Slice(confirmerOut, lo, AtConfirmer) /\ Slice(confirm2s, lo, ToNote)
    <3>1. /\ AtReader # InMsg(m) /\ AtReader # InPool(r) /\ AtConfirmer # InMsg(m) /\ AtConfirmer # InPool(r)
          /\ ToNote # InMsg(m) /\ ToNote # InPool(r)
      BY DEF AtReader, AtConfirmer, ToNote, InMsg, InPool
    <3> QED BY <1>6, <3>1, SliceStays DEF Tracked, Located
  <2>2. ASSUME NEW n \in msgs, n # m PROVE n.to \in Shard /\ Slice(n.txs, lo, InMsg(n))
    <3>1. InMsg(n) # InMsg(m) /\ InMsg(n) # InPool(r)
      BY <2>2 DEF InMsg, InPool
    <3> QED BY <1>6, <3>1, SliceStays DEF Tracked, Located
  <2>3. ASSUME NEW s \in Shard PROVE Slice(TxQueue'[s], lo, InPool(s))
    <3>1. CASE s = r
      BY <1>1, <1>2, <1>5, <3>1
    <3>2. CASE s # r
      <4>1. InPool(s) # InMsg(m) /\ InPool(s) # InPool(r) /\ TxQueue'[s] = TxQueue[s]
        BY <1>1, <1>2, <3>2 DEF InMsg, InPool
      <4> QED BY <1>6, <4>1, SliceStays DEF Tracked, Located
    <3> QED BY <3>1, <3>2
  <2>4. ASSUME NEW o \in reports
        PROVE  Slice(o.broker1Txs, lo, Reported("tx1", o)) /\ Slice(o.broker2Txs, lo, Reported("tx2", o))
    <3>1. /\ Reported("tx1", o) # InMsg(m) /\ Reported("tx1", o) # InPool(r)
          /\ Reported("tx2", o) # InMsg(m) /\ Reported("tx2", o) # InPool(r)
      BY DEF Reported, InMsg, InPool
    <3> QED BY <1>6, <3>1, SliceStays DEF Tracked, Located
  <2>5. ASSUME NEW x \in Item PROVE Exists(lo[x])'
    <3>1. CASE loc[x] = InMsg(m)
      BY <1>2, <1>3, <3>1 DEF Exists
    <3>2. CASE loc[x] # InMsg(m)
      <4>1. Exists(loc[x]) /\ lo[x] = loc[x]
        BY <1>3, <3>2 DEF Tracked, Located
      <4>2. \A n \in msgs : loc[x] = InMsg(n) => n \in msgs'
        BY <1>1, <3>2
      <4> QED BY <1>1, <4>1, <4>2 DEF Exists
    <3> QED BY <3>1, <3>2
  <2> QED BY <1>1, <1>2, <2>1, <2>2, <2>3, <2>4, <2>5 DEF Located, Tracked
<1>8. Directed(lo)'
  <2>1. ASSUME NEW x \in Item, NEW n \in msgs', lo[x] = InMsg(n) PROVE Destination(x) = n.to
    <3>1. n \in msgs /\ loc[x] = InMsg(n)
      BY <1>1, <1>3, <2>1 DEF InMsg, InPool
    <3> QED BY <3>1 DEF Tracked, Directed
  <2>2. ASSUME NEW x \in Item, NEW s \in Shard, lo[x] = InPool(s) PROVE Destination(x) = s
    <3>1. loc[x] = InPool(s) \/ (loc[x] = InMsg(m) /\ s = r)
      BY <1>3, <2>2 DEF InPool
    <3> QED BY <3>1 DEF Tracked, Directed
  <2> QED BY <2>1, <2>2 DEF Directed
<1>9. Lives(lo)' /\ Books(lo)' /\ Advances(loc, lo)
  <2>1. \A x \in Item : lo[x] = loc[x] \/ (Alive(loc[x]) /\ lo[x][1] \in {"message", "pool"})
    BY <1>3, <1>4 DEF Alive
  <2> QED BY <1>1, <2>1, AliveStays DEF Tracked
<1> QED BY <1>7, <1>8, <1>9 DEF Tracked

\* The places nothing left or entered hold what they held.
LEMMA OthersStay ==
  ASSUME NEW loc, NEW lo, Located(loc), NEW P, \A x \in Item : \A p : p \notin P => (lo[x] = p <=> loc[x] = p)
  PROVE  /\ AtReader \notin P => Slice(readerOut, lo, AtReader)
         /\ AtConfirmer \notin P => Slice(confirmerOut, lo, AtConfirmer)
         /\ ToNote \notin P => Slice(confirm2s, lo, ToNote)
         /\ \A m \in msgs : m.to \in Shard /\ (InMsg(m) \notin P => Slice(m.txs, lo, InMsg(m)))
         /\ \A s \in Shard : InPool(s) \notin P => Slice(TxQueue[s], lo, InPool(s))
         /\ \A r \in reports : /\ Reported("tx1", r) \notin P => Slice(r.broker1Txs, lo, Reported("tx1", r))
                               /\ Reported("tx2", r) \notin P => Slice(r.broker2Txs, lo, Reported("tx2", r))
                               /\ r.innerShardTxs \in Seq(Item)
<1>1. \A q, p : Slice(q, loc, p) /\ p \notin P => Slice(q, lo, p)
  BY SliceStays
<1> QED BY <1>1 DEF Located

\* The messages of one turn of txSending.
Part(out, s) == Selected(Chunk(out), {x \in Item : Destination(x) = s})
MsgTo(out, s) == [to |-> s, txs |-> Part(out, s)]

LEMMA ChunkHolds ==
  ASSUME NEW out \in Seq(Item), Distinct(out)
  PROVE  /\ Chunk(out) \in Seq(Item) /\ Unsent(out) \in Seq(Item) /\ Distinct(Chunk(out)) /\ Distinct(Unsent(out))
         /\ \A x : Holds(out, x) <=> Holds(Chunk(out), x) \/ Holds(Unsent(out), x)
         /\ Disjoint(Chunk(out), Unsent(out))
<1> DEFINE n == Least(InjectSpeed, OfThisCall(out))
<1>1. InjectSpeed \in Nat /\ Len(out) \in Nat
  BY ConfigAssumption
<1>2. n \in 0 .. Len(out)
  <2> DEFINE S == {i \in DOMAIN out : out[i].kind = out[1].kind}
  <2>1. S \subseteq 1 .. Len(out)
    OBVIOUS
  <2>2. IsFiniteSet(1 .. Len(out)) /\ Cardinality(1 .. Len(out)) = Len(out)
    BY <1>1, FS_Interval
  <2> HIDE DEF S
  <2>3. Cardinality(S) \in Nat /\ Cardinality(S) <= Len(out)
    BY <2>1, <2>2, FS_Subset, FS_CardinalityType
  <2>4. OfThisCall(out) = Cardinality(S)
    BY DEF OfThisCall, S
  <2> QED BY <1>1, <2>3, <2>4 DEF Least
<1> DEFINE p == SubSeq(out, 1, n)
           r == SubSeq(out, n + 1, Len(out))
<1>3. /\ p \in Seq(Item) /\ r \in Seq(Item) /\ Len(p) = n
      /\ \A x : Holds(out, x) <=> Holds(p, x) \/ Holds(r, x)
      /\ Distinct(p) /\ Distinct(r) /\ Disjoint(p, r)
  <2> HIDE DEF n
  <2> QED BY <1>2, SplitHolds
<1>4. Chunk(out) = p
  BY DEF Chunk
<1> HIDE DEF p
<1>5. Unsent(out) = r
  BY <1>3, <1>4 DEF Unsent
<1> QED BY <1>3, <1>4, <1>5

\* A message that is sent is not on its way yet: what it carries is in the hands of
\* the goroutine.
LEMMA PartFacts ==
  ASSUME NEW loc, Located(loc), NEW p, p = AtReader \/ p = AtConfirmer, NEW out, Slice(out, loc, p)
  PROVE  /\ \A s \in Shard : /\ Part(out, s) \in Seq(Item) /\ Distinct(Part(out, s))
                             /\ \A x : Holds(Part(out, s), x) <=> Holds(Chunk(out), x) /\ x \in Item /\ Destination(x) = s
         /\ \A s \in Shard : Part(out, s) # <<>> => MsgTo(out, s) \notin msgs
<1>1. out \in Seq(Item) /\ Distinct(out)
  BY DEF Slice
<1>2. /\ Chunk(out) \in Seq(Item) /\ Distinct(Chunk(out))
      /\ \A x : Holds(Chunk(out), x) => Holds(out, x)
  BY <1>1, ChunkHolds
<1>3. ASSUME NEW s \in Shard
      PROVE  /\ Part(out, s) \in Seq(Item) /\ Distinct(Part(out, s))
             /\ \A x : Holds(Part(out, s), x) <=> Holds(Chunk(out), x) /\ x \in Item /\ Destination(x) = s
  <2> DEFINE T == {x \in Item : Destination(x) = s}
  <2>1. \A x : x \in T <=> x \in Item /\ Destination(x) = s
    OBVIOUS
  <2>2. Part(out, s) = Selected(Chunk(out), T)
    BY DEF Part
  <2> HIDE DEF T
  <2> QED BY <1>2, <2>1, <2>2, SelectedHolds
<1>4. ASSUME NEW s \in Shard, Part(out, s) # <<>> PROVE MsgTo(out, s) \notin msgs
  <2> SUFFICES ASSUME MsgTo(out, s) \in msgs PROVE FALSE
    OBVIOUS
  <2>1. PICK x : Holds(Part(out, s), x)
    <3>1. Part(out, s) \in Seq(Item) /\ Len(Part(out, s)) \in Nat /\ Len(Part(out, s)) # 0
      BY <1>3, <1>4
    <3> QED BY <3>1 DEF Holds
  <2>2. x \in Item /\ loc[x] = p
    BY <1>2, <1>3, <2>1 DEF Slice
  <2>3. Slice(MsgTo(out, s).txs, loc, InMsg(MsgTo(out, s))) /\ MsgTo(out, s).txs = Part(out, s)
    BY DEF Located, MsgTo
  <2>4. loc[x] = InMsg(MsgTo(out, s))
    BY <2>1, <2>3 DEF Slice
  <2> QED BY <2>2, <2>4 DEF InMsg, AtReader, AtConfirmer
<1> QED BY <1>3, <1>4

\* A goroutine sends.
LEMMA SendTracked ==
  ASSUME NEW loc, Tracked(loc), NEW p, NEW out, Slice(out, loc, p), Send(out), Unnoted,
         UNCHANGED <<confirm2s, TxQueue, reports>>,
         \/ p = AtReader /\ readerOut' = Unsent(out) /\ confirmerOut' = confirmerOut
         \/ p = AtConfirmer /\ confirmerOut' = Unsent(out) /\ readerOut' = readerOut
  PROVE  \E lo : Tracked(lo)' /\ Advances(loc, lo)
<1> DEFINE lo == [x \in Item |-> IF Holds(Chunk(out), x) THEN InMsg(MsgTo(out, Destination(x))) ELSE loc[x]]
           New == {s \in Shard : Part(out, s) # <<>>}
           P == {p} \cup {InMsg(MsgTo(out, s)) : s \in New}
<1>0. Located(loc) /\ (p = AtReader \/ p = AtConfirmer)
  BY DEF Tracked
<1>1. msgs' = msgs \cup {MsgTo(out, s) : s \in New}
  BY DEF Send, MsgTo, Part
<1>2. /\ \A s \in Shard : /\ Part(out, s) \in Seq(Item) /\ Distinct(Part(out, s))
                          /\ \A x : Holds(Part(out, s), x) <=> Holds(Chunk(out), x) /\ x \in Item /\ Destination(x) = s
      /\ \A s \in New : MsgTo(out, s) \notin msgs
  BY <1>0, PartFacts
<1>3. /\ Unsent(out) \in Seq(Item) /\ Distinct(Unsent(out))
      /\ \A x : x \in Item /\ loc[x] = p <=> Holds(Chunk(out), x) \/ Holds(Unsent(out), x)
      /\ \A x : ~(Holds(Chunk(out), x) /\ Holds(Unsent(out), x))
  BY ChunkHolds DEF Slice, Disjoint
<1>4. \A x \in Item : /\ Holds(Chunk(out), x) => lo[x] = InMsg(MsgTo(out, Destination(x))) /\ loc[x] = p
                      /\ ~Holds(Chunk(out), x) => lo[x] = loc[x]
  BY <1>3
<1>5. ASSUME NEW x \in Item, Holds(Chunk(out), x) PROVE Destination(x) \in New
  <2>1. Destination(x) \in Shard
    BY DestinationType
  <2>2. Holds(Part(out, Destination(x)), x)
    BY <1>2, <1>5, <2>1
  <2>3. Part(out, Destination(x)) # <<>>
    BY <2>2, EmptyHolds
  <2> QED BY <2>1, <2>3
<1>6. \A x \in Item : \A v : v \notin P => (lo[x] = v <=> loc[x] = v)
  BY <1>4, <1>5
<1>7. \A s, t : InMsg(MsgTo(out, s)) = InMsg(MsgTo(out, t)) => s = t
  <2>1. \A s, t : MsgTo(out, s) = MsgTo(out, t) => s = t
    BY DEF MsgTo
  <2> QED BY <2>1 DEF InMsg
<1>8. \A m \in msgs : InMsg(m) \notin P
  BY <1>0, <1>2 DEF InMsg, AtReader, AtConfirmer
<1>9. /\ ToNote \notin P /\ (p = AtReader => AtConfirmer \notin P) /\ (p = AtConfirmer => AtReader \notin P)
      /\ \A s \in Shard : InPool(s) \notin P
      /\ \A r \in reports : Reported("tx1", r) \notin P /\ Reported("tx2", r) \notin P
  BY <1>0 DEF InMsg, AtReader, AtConfirmer, ToNote, InPool, Reported
<1>10. \A s : p # InMsg(MsgTo(out, s))
  BY <1>0 DEF InMsg, AtReader, AtConfirmer
<1> HIDE DEF lo, P
<1>11. Located(lo)'
  <2>0. /\ AtReader \notin P => Slice(readerOut, lo, AtReader)
        /\ AtConfirmer \notin P => Slice(confirmerOut, lo, AtConfirmer)
        /\ ToNote \notin P => Slice(confirm2s, lo, ToNote)
        /\ \A m \in msgs : m.to \in Shard /\ (InMsg(m) \notin P => Slice(m.txs, lo, InMsg(m)))
        /\ \A s \in Shard : InPool(s) \notin P => Slice(TxQueue[s], lo, InPool(s))
        /\ \A r \in reports : /\ Reported("tx1", r) \notin P => Slice(r.broker1Txs, lo, Reported("tx1", r))
                              /\ Reported("tx2", r) \notin P => Slice(r.broker2Txs, lo, Reported("tx2", r))
                              /\ r.innerShardTxs \in Seq(Item)
    BY <1>0, <1>6, OthersStay
  <2>1. Slice(Unsent(out), lo, p)
    BY <1>3, <1>4, <1>10 DEF Slice
  <2>2. /\ Slice(readerOut', lo, AtReader) /\ Slice(confirmerOut', lo, AtConfirmer)
        /\ Slice(confirm2s', lo, ToNote)
    BY <1>9, <2>0, <2>1
  <2>3. ASSUME NEW s \in New PROVE MsgTo(out, s).to \in Shard /\ Slice(MsgTo(out, s).txs, lo, InMsg(MsgTo(out, s)))
    <3>1. MsgTo(out, s).to = s /\ MsgTo(out, s).txs = Part(out, s)
      BY DEF MsgTo
    <3>2. \A x \in Item : loc[x] # InMsg(MsgTo(out, s))
      <4>1. MsgTo(out, s) \notin msgs
        BY <1>2
      <4>2. ASSUME NEW x \in Item, loc[x] = InMsg(MsgTo(out, s)) PROVE FALSE
        <5>1. Exists(loc[x])
          BY <1>0 DEF Located
        <5> QED BY <4>1, <4>2, <5>1 DEF Exists, Nowhere, AtReader, AtConfirmer, ToNote, Over, InMsg, InPool, Reported
      <4> QED BY <4>2
    <3>3. \A x \in Item : lo[x] = InMsg(MsgTo(out, s)) <=> Holds(Chunk(out), x) /\ Destination(x) = s
      BY <1>4, <1>7, <3>2
    <3>4. Slice(Part(out, s), lo, InMsg(MsgTo(out, s)))
      BY <1>2, <3>3 DEF Slice
    <3> QED BY <3>1, <3>4
  <2>4. \A m \in msgs' : m.to \in Shard /\ Slice(m.txs, lo, InMsg(m))
    BY <1>1, <1>8, <2>0, <2>3
  <2>5. ASSUME NEW x \in Item PROVE Exists(lo[x])'
    <3>1. CASE Holds(Chunk(out), x)
      <4>1. MsgTo(out, Destination(x)) \in msgs' /\ lo[x] = InMsg(MsgTo(out, Destination(x)))
        BY <1>1, <1>4, <1>5, <3>1
      <4> QED BY <4>1 DEF Exists
    <3>2. CASE ~Holds(Chunk(out), x)
      <4>1. Exists(loc[x]) /\ lo[x] = loc[x] /\ msgs \subseteq msgs'
        BY <1>0, <1>1, <1>4, <3>2 DEF Located
      <4> QED BY <4>1 DEF Exists
    <3> QED BY <3>1, <3>2
  <2>6. DOMAIN TxQueue' = Shard /\ \A s \in Shard : Slice(TxQueue'[s], lo, InPool(s))
    BY <1>0, <1>9, <2>0 DEF Located
  <2>7. \A r \in reports' : /\ Slice(r.broker1Txs, lo, Reported("tx1", r)) /\ Slice(r.broker2Txs, lo, Reported("tx2", r))
                            /\ r.innerShardTxs \in Seq(Item)
    BY <1>9, <2>0
  <2> QED BY <2>2, <2>4, <2>5, <2>6, <2>7 DEF Located
<1>12. Directed(lo)'
  <2>1. ASSUME NEW x \in Item, NEW n \in msgs', lo[x] = InMsg(n) PROVE Destination(x) = n.to
    <3>1. CASE Holds(Chunk(out), x)
      <4>1. n = MsgTo(out, Destination(x))
        BY <1>4, <2>1, <3>1 DEF InMsg
      <4> QED BY <4>1 DEF MsgTo
    <3>2. CASE ~Holds(Chunk(out), x)
      <4>1. loc[x] = InMsg(n) /\ Exists(loc[x])
        BY <1>0, <1>4, <2>1, <3>2 DEF Located
      <4>2. n \in msgs
        BY <4>1 DEF Exists, Nowhere, AtReader, AtConfirmer, ToNote, Over, InMsg, InPool, Reported
      <4> QED BY <4>1, <4>2 DEF Tracked, Directed
    <3> QED BY <3>1, <3>2
  <2>2. ASSUME NEW x \in Item, NEW s \in Shard, lo[x] = InPool(s) PROVE Destination(x) = s
    <3>1. loc[x] = InPool(s)
      BY <1>4, <2>2 DEF InPool, InMsg
    <3> QED BY <3>1 DEF Tracked, Directed
  <2> QED BY <2>1, <2>2 DEF Directed
<1>13. Lives(lo)' /\ Books(lo)' /\ Advances(loc, lo)
  <2>1. Alive(p) /\ \A n : InMsg(n)[1] = "message"
    BY <1>0 DEF Alive, AtReader, AtConfirmer, InMsg
  <2>2. \A x \in Item : lo[x] = loc[x] \/ (Alive(loc[x]) /\ lo[x][1] \in {"message", "pool"})
    BY <1>4, <2>1
  <2> QED BY <2>2, AliveStays DEF Tracked
<1> QED BY <1>11, <1>12, <1>13 DEF Tracked

-----------------------------------------------------------------------------
(* New rows.                                                               *)

LEMMA BatchFacts ==
  ASSUME nowDataNum \in 0 .. Len(Rows), HasBatch
  PROVE  /\ Batch \in Seq(Tx) /\ Distinct(Batch) /\ nowDataNum + Len(Batch) \in 0 .. Len(Rows)
         /\ \A t : Holds(Batch, t) <=> t \in Tx /\ nowDataNum < t /\ t <= nowDataNum + Len(Batch)
<1> DEFINE n == nowDataNum
           k == Least(batchDataNum, dataTotalNum - n)
<1>1. Len(Rows) \in Nat /\ Tx = 1 .. Len(Rows) /\ batchDataNum \in Nat /\ dataTotalNum \in Nat /\ n < dataTotalNum
  BY RowFacts, ConfigAssumption DEF HasBatch
<1>2. Batch = [i \in 1 .. k |-> n + i]
  BY DEF Batch
<1>3. n \in Nat /\ k \in Nat /\ n + k <= Len(Rows)
  <2>1. n \in Nat /\ k \in Nat
    BY <1>1 DEF Least
  <2> HIDE DEF k, n
  <2>2. Len(Batch) = k
    BY <1>2, <2>1
  <2> QED BY <2>1, <2>2 DEF HasBatch, n
<1> HIDE DEF n, k
<1>4. Batch \in Seq(Tx) /\ Len(Batch) = k /\ \A i \in 1 .. k : Batch[i] = n + i
  BY <1>1, <1>3, <1>2
<1>5. Distinct(Batch)
  BY <1>3, <1>4 DEF Distinct
<1>6. \A t : Holds(Batch, t) <=> t \in Tx /\ n < t /\ t <= n + k
  <2>1. ASSUME NEW t, Holds(Batch, t) PROVE t \in Tx /\ n < t /\ t <= n + k
    BY <1>1, <1>3, <1>4, <2>1 DEF Holds
  <2>2. ASSUME NEW t \in Tx, n < t, t <= n + k PROVE Holds(Batch, t)
    <3>1. t - n \in 1 .. k /\ n + (t - n) = t
      BY <1>1, <1>3, <2>2
    <3> QED BY <1>4, <3>1 DEF Holds
  <2> QED BY <2>1, <2>2
<1> QED BY <1>1, <1>3, <1>4, <1>5, <1>6 DEF n

\* The elements of a sequence are the set of what it holds.
LEMMA ToSetHolds == ASSUME NEW A, NEW q \in Seq(A) PROVE \A x : x \in ToSet(q) <=> Holds(q, x)
<1>1. DOMAIN q = 1 .. Len(q)
  OBVIOUS
<1> QED BY <1>1 DEF ToSet, Holds

\* The rows of the next batch, with and without a broker.
LEMMA BatchParts ==
  ASSUME nowDataNum \in 0 .. Len(Rows), HasBatch, NEW S \in SUBSET Tx
  PROVE  /\ Selected(Batch, S) \in Seq(Tx) /\ Distinct(Selected(Batch, S))
         /\ \A t : Holds(Selected(Batch, S), t) <=> t \in S /\ nowDataNum < t /\ t <= nowDataNum + Len(Batch)
<1>1. /\ Batch \in Seq(Tx) /\ Distinct(Batch)
      /\ \A t : Holds(Batch, t) <=> t \in Tx /\ nowDataNum < t /\ t <= nowDataNum + Len(Batch)
  BY BatchFacts
<1> QED BY <1>1, SelectedHolds

NewRows(loc, lo) ==
  \A x \in Item : IF Made(x) /\ x.kind # "tx2" /\ nowDataNum < x.tx /\ x.tx <= nowDataNum + Len(Batch)
                    THEN loc[x] = Nowhere /\ lo[x] = AtReader ELSE lo[x] = loc[x]

\* What the reader has when it has read a batch.
LEMMA BatchOut ==
  ASSUME NEW loc, Tracked(loc), NEW lo, NewRows(loc, lo), dealTxByBroker
  PROVE  /\ Slice(readerOut', lo, AtReader)
         /\ DOMAIN brokerConfirm1Pool' = DOMAIN brokerConfirm1Pool
              \cup {x \in Item : Made(x) /\ x.kind = "tx1" /\ nowDataNum < x.tx /\ x.tx <= nowDataNum + Len(Batch)}
         /\ BrokerRawMegs' = {t \in Raw : t <= nowDataNum + Len(Batch)}
<1> DEFINE n == nowDataNum
           k == Len(Batch)
           raws == Selected(Batch, Raw)
           inner == Selected(Batch, Tx \ Raw)
           tx1s == [i \in DOMAIN raws |-> NewTx("tx1", raws[i], brokerConfirm1Pool)]
           itxs == [i \in DOMAIN inner |-> Itx(inner[i])]
           F == [t \in Tx |-> Tx1(t)]
           G == [t \in Tx |-> Itx(t)]
<1>1. /\ readerOut' = tx1s \o itxs /\ brokerConfirm1Pool' = Register(brokerConfirm1Pool, tx1s)
      /\ BrokerRawMegs' = BrokerRawMegs \cup ToSet(raws) /\ readerOut = <<>> /\ HasBatch
  BY DEF dealTxByBroker, handleBrokerRawMag
<1>2. n \in 0 .. Len(Rows) /\ BrokerRawMegs = {t \in Raw : t <= n} /\ DOMAIN brokerConfirm1Pool = Known(loc, "tx1")
  BY DEF Tracked, Books
<1>3. n \in Nat /\ k \in Nat /\ \A t \in Tx : t \in Nat
  BY <1>1, <1>2, BatchFacts, RowFacts
<1>4. /\ raws \in Seq(Tx) /\ Distinct(raws)
      /\ \A t : Holds(raws, t) <=> t \in Raw /\ n < t /\ t <= n + k
  BY <1>1, <1>2, RowFacts, BatchParts
<1>5. /\ inner \in Seq(Tx) /\ Distinct(inner)
      /\ \A t : Holds(inner, t) <=> t \in Tx \ Raw /\ n < t /\ t <= n + k
  BY <1>1, <1>2, RowFacts, BatchParts
<1> HIDE DEF raws, inner, n, k
<1>6. tx1s = [i \in DOMAIN raws |-> F[raws[i]]]
  <2>1. ASSUME NEW i \in DOMAIN raws PROVE NewTx("tx1", raws[i], brokerConfirm1Pool) = F[raws[i]]
    <3>1. Holds(raws, raws[i])
      BY <1>4, <2>1 DEF Holds
    <3>2. raws[i] \in Tx /\ ~(raws[i] <= n)
      BY <1>3, <1>4, <3>1, RowFacts
    <3>3. \A h \in DOMAIN brokerConfirm1Pool : h.tx <= n
      <4>1. ASSUME NEW h \in Item, h.kind = "tx1", loc[h] # Nowhere PROVE h.tx <= n
        <5>1. Made(h)
          BY <4>1 DEF Tracked, Lives
        <5> QED BY <4>1, <5>1 DEF Tracked, Lives, n
      <4> QED BY <1>2, <4>1 DEF Known
    <3>4. {h \in DOMAIN brokerConfirm1Pool : h.tx = raws[i]} = {}
      BY <3>2, <3>3
    <3>5. Cardinality({h \in DOMAIN brokerConfirm1Pool : h.tx = raws[i]}) = 0
      BY <3>4, FS_EmptySet
    <3> QED BY <3>2, <3>5 DEF NewTx, Tx1
  <2> QED BY <2>1
<1>7. itxs = [i \in DOMAIN inner |-> G[inner[i]]]
  <2>1. \A i \in DOMAIN inner : inner[i] \in Tx
    BY <1>5
  <2> QED BY <2>1
<1>8. /\ F \in [Tx -> Item] /\ \A t, u \in Tx : F[t] = F[u] => t = u
      /\ G \in [Tx -> Item] /\ \A t, u \in Tx : G[t] = G[u] => t = u
  <2>1. \A t \in Tx : F[t] = Tx1(t) /\ G[t] = Itx(t)
    OBVIOUS
  <2> QED BY <2>1, ItemFacts
<1>9. \A t \in Tx : F[t] = Tx1(t) /\ G[t] = Itx(t)
  OBVIOUS
<1> HIDE DEF F, G, tx1s, itxs
<1>10. /\ tx1s \in Seq(Item) /\ Distinct(tx1s)
       /\ \A x : Holds(tx1s, x) <=> \E t \in Tx : Holds(raws, t) /\ x = F[t]
  <2>1. tx1s \in Seq(Item) /\ Len(tx1s) = Len(raws) /\ \A i \in 1 .. Len(raws) : tx1s[i] = F[raws[i]]
    BY <1>4, <1>6, <1>8
  <2> QED BY <1>4, <1>8, <2>1, MadeHold
<1>11. /\ itxs \in Seq(Item) /\ Distinct(itxs)
       /\ \A x : Holds(itxs, x) <=> \E t \in Tx : Holds(inner, t) /\ x = G[t]
  <2>1. itxs \in Seq(Item) /\ Len(itxs) = Len(inner) /\ \A i \in 1 .. Len(inner) : itxs[i] = G[inner[i]]
    BY <1>5, <1>7, <1>8
  <2> QED BY <1>5, <1>8, <2>1, MadeHold
<1>12. \A x : Holds(tx1s, x) <=> x \in Item /\ Made(x) /\ x.kind = "tx1" /\ n < x.tx /\ x.tx <= n + k
  <2>1. ASSUME NEW x, Holds(tx1s, x)
        PROVE  x \in Item /\ Made(x) /\ x.kind = "tx1" /\ n < x.tx /\ x.tx <= n + k
    <3>1. PICK t \in Tx : Holds(raws, t) /\ x = Tx1(t)
      BY <2>1, <1>9, <1>10
    <3> QED BY <3>1, <1>4, ItemFacts DEF Made
  <2>2. ASSUME NEW x \in Item, Made(x), x.kind = "tx1", n < x.tx, x.tx <= n + k PROVE Holds(tx1s, x)
    <3>1. x.tx \in Tx /\ x = Tx1(x.tx) /\ Holds(raws, x.tx)
      BY <2>2, <1>4, ItemFacts DEF Made
    <3> QED BY <3>1, <1>9, <1>10
  <2> QED BY <2>1, <2>2
<1>13. \A x : Holds(itxs, x) <=> x \in Item /\ Made(x) /\ x.kind = "itx" /\ n < x.tx /\ x.tx <= n + k
  <2>1. ASSUME NEW x, Holds(itxs, x)
        PROVE  x \in Item /\ Made(x) /\ x.kind = "itx" /\ n < x.tx /\ x.tx <= n + k
    <3>1. PICK t \in Tx : Holds(inner, t) /\ x = Itx(t)
      BY <2>1, <1>9, <1>11
    <3> QED BY <3>1, <1>5, ItemFacts DEF Made
  <2>2. ASSUME NEW x \in Item, Made(x), x.kind = "itx", n < x.tx, x.tx <= n + k PROVE Holds(itxs, x)
    <3>1. x.tx \in Tx /\ x = Itx(x.tx) /\ Holds(inner, x.tx)
      BY <2>2, <1>5, ItemFacts DEF Made
    <3> QED BY <3>1, <1>9, <1>11
  <2> QED BY <2>1, <2>2
<1>14. Slice(tx1s \o itxs, lo, AtReader)
  <2>1. Disjoint(tx1s, itxs)
    BY <1>12, <1>13 DEF Disjoint
  <2>2. /\ tx1s \o itxs \in Seq(Item) /\ Distinct(tx1s \o itxs)
        /\ \A x : Holds(tx1s \o itxs, x) <=> Holds(tx1s, x) \/ Holds(itxs, x)
    BY <1>10, <1>11, <2>1, ConcatHolds
  <2>3. \A x \in Item : loc[x] # AtReader
    <3>1. Slice(<<>>, loc, AtReader)
      BY <1>1 DEF Tracked, Located
    <3> QED BY <3>1, EmptyHolds DEF Slice
  <2>4. ASSUME NEW x \in Item
        PROVE  lo[x] = AtReader <=> Made(x) /\ x.kind # "tx2" /\ n < x.tx /\ x.tx <= n + k
    BY <2>3 DEF NewRows, n, k
  <2>5. \A x : Holds(tx1s \o itxs, x) <=> x \in Item /\ lo[x] = AtReader
    BY <1>12, <1>13, <2>2, <2>4, ItemFacts
  <2> QED BY <2>2, <2>5 DEF Slice
<1>15. DOMAIN Register(brokerConfirm1Pool, tx1s) = DOMAIN brokerConfirm1Pool
              \cup {x \in Item : Made(x) /\ x.kind = "tx1" /\ n < x.tx /\ x.tx <= n + k}
  BY <1>10, <1>12, ToSetHolds DEF Register
<1>16. BrokerRawMegs \cup ToSet(raws) = {t \in Raw : t <= n + k}
  <2>1. \A t : t \in ToSet(raws) <=> t \in Raw /\ n < t /\ t <= n + k
    BY <1>4, ToSetHolds
  <2>2. \A t \in Raw : t \in Nat
    BY <1>3, RowFacts
  <2> QED BY <1>2, <1>3, <2>1, <2>2
<1> QED BY <1>1, <1>14, <1>15, <1>16 DEF n, k

\* The reader has read a batch.
LEMMA DealTracked ==
  ASSUME NEW loc, Tracked(loc), dealTxByBroker
  PROVE  \E lo : Tracked(lo)' /\ Advances(loc, lo)
<1> DEFINE n == nowDataNum
           k == Len(Batch)
           New(x) == Made(x) /\ x.kind # "tx2" /\ n < x.tx /\ x.tx <= n + k
<1>0. /\ Located(loc) /\ n \in 0 .. Len(Rows) /\ n' = n + k /\ HasBatch
      /\ UNCHANGED <<brokerConfirm2Pool, RawTx2BrokerTx, confirmerOut, confirm2s, TxQueue, executed, msgs, reports>>
  BY DEF Tracked, Books, dealTxByBroker, shardVars
<1>1. n \in Nat /\ k \in Nat /\ n + k \in 0 .. Len(Rows) /\ \A x \in Item : x.tx \in Nat
  <2>1. \A t \in Tx : t \in Nat
    BY RowFacts
  <2> QED BY <1>0, <2>1, BatchFacts, RowFacts, ItemFacts
<1>2. \A x \in Item : New(x) => loc[x] = Nowhere
  BY <1>1 DEF Tracked, Lives
<1>3. PICK lo : \A x \in Item : /\ New(x) => lo[x] = AtReader
                                /\ ~New(x) => lo[x] = loc[x]
  <2>1. \A x \in Item : LET lo == [y \in Item |-> IF New(y) THEN AtReader ELSE loc[y]]
                        IN  (New(x) => lo[x] = AtReader) /\ (~New(x) => lo[x] = loc[x])
    OBVIOUS
  <2> QED BY <2>1
<1>4. NewRows(loc, lo)
  BY <1>2, <1>3 DEF NewRows
<1>5. /\ Slice(readerOut', lo, AtReader)
      /\ DOMAIN brokerConfirm1Pool' = DOMAIN brokerConfirm1Pool
           \cup {x \in Item : Made(x) /\ x.kind = "tx1" /\ n < x.tx /\ x.tx <= n + k}
      /\ BrokerRawMegs' = {t \in Raw : t <= n + k}
  BY <1>4, BatchOut
<1> HIDE DEF n, k
<1>6. Located(lo)'
  <2> DEFINE P == {Nowhere, AtReader}
  <2>1. \A x \in Item : \A p : p \notin P => (lo[x] = p <=> loc[x] = p)
    BY <1>2, <1>3
  <2>2. /\ AtConfirmer \notin P /\ ToNote \notin P /\ (\A m \in msgs : InMsg(m) \notin P) /\ (\A s \in Shard : InPool(s) \notin P)
        /\ \A r \in reports : Reported("tx1", r) \notin P /\ Reported("tx2", r) \notin P
    BY DEF Nowhere, AtReader, AtConfirmer, ToNote, InMsg, InPool, Reported
  <2> HIDE DEF P
  <2>3. /\ Slice(confirmerOut, lo, AtConfirmer) /\ Slice(confirm2s, lo, ToNote)
        /\ \A m \in msgs : m.to \in Shard /\ Slice(m.txs, lo, InMsg(m))
        /\ \A s \in Shard : Slice(TxQueue[s], lo, InPool(s))
        /\ \A r \in reports : /\ Slice(r.broker1Txs, lo, Reported("tx1", r)) /\ Slice(r.broker2Txs, lo, Reported("tx2", r))
                              /\ r.innerShardTxs \in Seq(Item)
    BY <1>0, <2>1, <2>2, OthersStay
  <2>4. \A x \in Item : Exists(lo[x])'
    <3>1. \A p : Exists(p) => Exists(p)'
      BY <1>0 DEF Exists
    <3>2. Exists(AtReader)
      BY DEF Exists
    <3> QED BY <1>0, <1>3, <3>1, <3>2 DEF Located
  <2> QED BY <1>0, <1>5, <2>3, <2>4 DEF Located
<1>7. Directed(lo)'
  <2>1. \A x \in Item : /\ \A m : lo[x] = InMsg(m) => loc[x] = InMsg(m)
                        /\ \A s : lo[x] = InPool(s) => loc[x] = InPool(s)
    BY <1>3 DEF InMsg, InPool, AtReader
  <2> QED BY <1>0, <2>1 DEF Tracked, Directed
<1>8. /\ \A x \in Item : /\ lo[x] = Over <=> loc[x] = Over
                         /\ lo[x][1] \in {"tx1", "tx2", "note", "over"} <=> loc[x][1] \in {"tx1", "tx2", "note", "over"}
                         /\ lo[x] = Nowhere <=> loc[x] = Nowhere /\ ~New(x)
      /\ \A x \in Item : x.kind = "tx2" => lo[x] = loc[x]
  BY <1>2, <1>3 DEF Nowhere, AtReader, Over
<1>9. \A t \in Raw : /\ Tx1(t) \in Item /\ Tx2(t) \in Item /\ Tx2(t).kind = "tx2"
  BY RowFacts, ItemFacts
<1>10. Done(lo) = Done(loc)
  BY <1>8 DEF Done
<1>11. Lives(lo)'
  <2>1. ASSUME NEW x \in Item, lo[x] # Nowhere PROVE Made(x) /\ Suits(x.kind, lo[x])
    <3>1. CASE New(x)
      BY <1>3, <3>1 DEF Suits, AtReader
    <3>2. CASE ~New(x)
      BY <1>3, <2>1, <3>2 DEF Tracked, Lives
    <3> QED BY <3>1, <3>2
  <2>2. ASSUME NEW x \in Item, Made(x), x.kind # "tx2" PROVE lo[x] # Nowhere <=> x.tx <= n'
    <3>1. loc[x] # Nowhere <=> x.tx <= n
      BY <2>2 DEF Tracked, Lives, n
    <3> QED BY <1>0, <1>1, <1>8, <2>2, <3>1
  <2>3. ASSUME NEW t \in Raw PROVE lo[Tx2(t)] # Nowhere <=> lo[Tx1(t)] = Over
    BY <1>8, <1>9 DEF Tracked, Lives
  <2>4. \A x : Made(x)' <=> Made(x)
    BY DEF Made
  <2> QED BY <2>1, <2>2, <2>3, <2>4 DEF Lives, n
<1>12. Books(lo)'
  <2>1. Known(lo, "tx2") = Known(loc, "tx2")
    BY <1>8 DEF Known
  <2>2. Known(lo, "tx1") = Known(loc, "tx1") \cup {x \in Item : Made(x) /\ x.kind = "tx1" /\ n < x.tx /\ x.tx <= n + k}
    BY <1>8 DEF Known
  <2>3. \A t \in Tx : Noted(lo, t) = Noted(loc, t)
    BY <1>8, <1>9 DEF Noted
  <2>4. n' \in 0 .. Len(Rows) /\ BrokerRawMegs' = {t \in Raw : t <= n'}
    BY <1>0, <1>1, <1>5
  <2>5. DOMAIN brokerConfirm1Pool' = Known(lo, "tx1") /\ DOMAIN brokerConfirm2Pool' = Known(lo, "tx2")
    BY <1>0, <1>5, <2>1, <2>2 DEF Tracked, Books
  <2>6. RawTx2BrokerTx' = [t \in Tx |-> Noted(lo, t)] /\ executed' = Done(lo)
    BY <1>0, <1>10, <2>3 DEF Tracked, Books
  <2> QED BY <2>4, <2>5, <2>6 DEF Books, n
<1>13. Advances(loc, lo)
  BY <1>8, <1>9, <1>10 DEF Advances, PhaseAt
<1> QED BY <1>6, <1>7, <1>11, <1>12, <1>13 DEF Tracked

-----------------------------------------------------------------------------
(* Confirmations.                                                          *)

\* A sequence that holds one thing once, and one that holds nothing.
LEMMA HoldsOne ==
  ASSUME NEW A, NEW q \in Seq(A), Distinct(q), NEW c, \A x : Holds(q, x) <=> x = c
  PROVE  q = <<c>>
<1>1. Len(q) \in Nat /\ DOMAIN q = 1 .. Len(q)
  OBVIOUS
<1>2. PICK i \in 1 .. Len(q) : q[i] = c
  BY DEF Holds
<1>3. \A j \in 1 .. Len(q) : q[j] = c
  BY DEF Holds
<1>4. \A j \in 1 .. Len(q) : j = i
  BY <1>2, <1>3 DEF Distinct
<1>5. Len(q) = 1
  BY <1>1, <1>2, <1>4
<1> QED BY <1>1, <1>3, <1>5

LEMMA HoldsNone == ASSUME NEW A, NEW q \in Seq(A), \A x : ~Holds(q, x) PROVE q = <<>>
<1>1. Len(q) \in Nat /\ (Len(q) # 0 => 1 \in 1 .. Len(q))
  OBVIOUS
<1>2. 1 \notin 1 .. Len(q)
  BY DEF Holds
<1> QED BY <1>1, <1>2

\* What Record adds for a row of which xs has at most one hash.
OfRow(xs, t) == Selected(xs, {x \in Item : x.tx = t})

LEMMA RecordHolds ==
  ASSUME NEW xs \in Seq(Item), Distinct(xs), NEW t \in Tx
  PROVE  /\ \A c \in Item : c.tx = t /\ Holds(xs, c) /\ (\A x \in Item : Holds(xs, x) /\ x.tx = t => x = c) => OfRow(xs, t) = <<c>>
         /\ (\A x \in Item : Holds(xs, x) => x.tx # t) => OfRow(xs, t) = <<>>
<1> DEFINE T == {x \in Item : x.tx = t}
           q == Selected(xs, T)
<1>1. /\ q \in Seq(Item) /\ Distinct(q)
      /\ \A x : Holds(q, x) <=> Holds(xs, x) /\ x \in T
  BY SelectedHolds
<1>2. \A x : x \in T <=> x \in Item /\ x.tx = t
  OBVIOUS
<1>3. OfRow(xs, t) = q
  BY DEF OfRow
<1> HIDE DEF q, T
<1>4. ASSUME NEW c \in Item, c.tx = t, Holds(xs, c), \A x \in Item : Holds(xs, x) /\ x.tx = t => x = c
      PROVE  q = <<c>>
  <2>1. \A x : Holds(q, x) <=> x = c
    BY <1>1, <1>2, <1>4
  <2> QED BY <1>1, <2>1, HoldsOne
<1>5. ASSUME \A x \in Item : Holds(xs, x) => x.tx # t PROVE q = <<>>
  BY <1>1, <1>2, <1>5, HoldsNone
<1> QED BY <1>3, <1>4, <1>5

\* The halves a report tells of, as the pools have them.
LEMMA ConfirmedHolds ==
  ASSUME NEW loc, Tracked(loc), NEW r \in reports
  PROVE  /\ Slice(Selected(Confirmed(r, brokerConfirm1Pool), {x \in Item : RawKnown(x)}), loc, Reported("tx1", r))
         /\ Slice(Confirmed(r, brokerConfirm2Pool), loc, Reported("tx2", r))
<1> DEFINE b == r.broker1Txs \o r.broker2Txs
           c1 == Confirmed(r, brokerConfirm1Pool)
           c2 == Confirmed(r, brokerConfirm2Pool)
           K == {x \in Item : RawKnown(x)}
<1>1. Slice(r.broker1Txs, loc, Reported("tx1", r)) /\ Slice(r.broker2Txs, loc, Reported("tx2", r))
  BY DEF Tracked, Located
<1>2. /\ Reported("tx1", r) # Reported("tx2", r) /\ Reported("tx1", r) # Nowhere /\ Reported("tx2", r) # Nowhere
      /\ Reported("tx1", r)[1] = "tx1" /\ Reported("tx2", r)[1] = "tx2"
  BY DEF Reported, Nowhere
<1>3. /\ b \in Seq(Item) /\ Distinct(b)
      /\ \A x : Holds(b, x) <=> x \in Item /\ (loc[x] = Reported("tx1", r) \/ loc[x] = Reported("tx2", r))
  <2>1. /\ r.broker1Txs \in Seq(Item) /\ r.broker2Txs \in Seq(Item) /\ Distinct(r.broker1Txs) /\ Distinct(r.broker2Txs)
        /\ Disjoint(r.broker1Txs, r.broker2Txs)
    BY <1>1, <1>2 DEF Slice, Disjoint
  <2>2. /\ b \in Seq(Item) /\ Distinct(b)
        /\ \A x : Holds(b, x) <=> Holds(r.broker1Txs, x) \/ Holds(r.broker2Txs, x)
    BY <2>1, ConcatHolds
  <2> QED BY <1>1, <2>2 DEF Slice
<1>4. /\ c1 = Selected(b, DOMAIN brokerConfirm1Pool) /\ c2 = Selected(b, DOMAIN brokerConfirm2Pool)
  BY DEF Confirmed
<1> HIDE DEF b, c1, c2
<1>5. /\ c1 \in Seq(Item) /\ Distinct(c1) /\ \A x : Holds(c1, x) <=> Holds(b, x) /\ x \in DOMAIN brokerConfirm1Pool
  BY <1>3, <1>4, SelectedHolds
<1>6. /\ c2 \in Seq(Item) /\ Distinct(c2) /\ \A x : Holds(c2, x) <=> Holds(b, x) /\ x \in DOMAIN brokerConfirm2Pool
  BY <1>3, <1>4, SelectedHolds
<1>7. /\ Selected(c1, K) \in Seq(Item) /\ Distinct(Selected(c1, K))
      /\ \A x : Holds(Selected(c1, K), x) <=> Holds(c1, x) /\ x \in K
  <2> HIDE DEF K
  <2> QED BY <1>5, SelectedHolds
<1>8. ASSUME NEW x \in Item, loc[x] = Reported("tx1", r)
      PROVE  x \in DOMAIN brokerConfirm1Pool /\ RawKnown(x)
  <2>1. loc[x] # Nowhere /\ Made(x) /\ x.kind = "tx1"
    BY <1>2, <1>8 DEF Tracked, Lives, Suits
  <2>2. x.tx \in Raw /\ x.tx <= nowDataNum
    BY <2>1, ItemFacts DEF Tracked, Lives, Made
  <2> QED BY <2>1, <2>2 DEF Tracked, Books, Known, RawKnown
<1>9. ASSUME NEW x \in Item, loc[x] = Reported("tx2", r)
      PROVE  x \in DOMAIN brokerConfirm2Pool /\ x \notin DOMAIN brokerConfirm1Pool
  <2>1. loc[x] # Nowhere /\ x.kind = "tx2"
    BY <1>2, <1>9 DEF Tracked, Lives, Suits
  <2> QED BY <2>1 DEF Tracked, Books, Known
<1>10. ASSUME NEW x \in Item, loc[x] = Reported("tx1", r) PROVE x \notin DOMAIN brokerConfirm2Pool
  <2>1. x.kind = "tx1"
    BY <1>2, <1>10 DEF Tracked, Lives, Suits
  <2> QED BY <2>1 DEF Tracked, Books, Known
<1>11. Slice(Selected(c1, K), loc, Reported("tx1", r))
  <2>1. \A x : x \in K <=> x \in Item /\ RawKnown(x)
    OBVIOUS
  <2>2. \A x : Holds(Selected(c1, K), x) <=> x \in Item /\ loc[x] = Reported("tx1", r)
    BY <1>2, <1>3, <1>5, <1>7, <1>8, <1>9, <2>1
  <2> QED BY <1>7, <2>2 DEF Slice
<1>12. Slice(c2, loc, Reported("tx2", r))
  <2>1. \A x : Holds(c2, x) <=> x \in Item /\ loc[x] = Reported("tx2", r)
    BY <1>3, <1>6, <1>9, <1>10
  <2> QED BY <1>6, <2>1 DEF Slice
<1> QED BY <1>11, <1>12 DEF c1, c2

\* The tx2 of transfers whose tx1 a report tells of: they are new.
LEMMA SecondHalves ==
  ASSUME NEW loc, Tracked(loc), NEW r \in reports, NEW mag1, Slice(mag1, loc, Reported("tx1", r)),
         NEW tx2s, tx2s = [i \in DOMAIN mag1 |-> NewTx("tx2", mag1[i].tx, brokerConfirm2Pool)]
  PROVE  /\ tx2s \in Seq(Item) /\ Distinct(tx2s)
         /\ \A x : Holds(tx2s, x) <=> \E t \in Raw : x = Tx2(t) /\ loc[Tx1(t)] = Reported("tx1", r)
<1> DEFINE A == {x \in Item : loc[x] = Reported("tx1", r)}
           F == [x \in A |-> Tx2(x.tx)]
<1>1. Reported("tx1", r) # Nowhere /\ Reported("tx1", r) # Over /\ Reported("tx1", r)[1] = "tx1"
  BY DEF Reported, Nowhere, Over
<1>2. \A x \in A : x \in Item /\ x.tx \in Raw /\ x = Tx1(x.tx) /\ loc[Tx1(x.tx)] = Reported("tx1", r)
  <2>1. ASSUME NEW x \in Item, loc[x] = Reported("tx1", r) PROVE x.tx \in Raw /\ x = Tx1(x.tx)
    <3>1. Made(x) /\ x.kind = "tx1"
      BY <1>1, <2>1 DEF Tracked, Lives, Suits
    <3> QED BY <3>1, ItemFacts DEF Made
  <2> QED BY <2>1
<1>3. \A t \in Raw : loc[Tx1(t)] = Reported("tx1", r) => Tx1(t) \in A
  BY RowFacts, ItemFacts
<1>4. \A x \in A : F[x] = Tx2(x.tx)
  OBVIOUS
<1>5. /\ mag1 \in Seq(Item) /\ Distinct(mag1) /\ Len(mag1) \in Nat /\ DOMAIN mag1 = 1 .. Len(mag1)
      /\ \A x : Holds(mag1, x) <=> x \in A
  BY DEF Slice
<1> HIDE DEF A, F
<1>6. \A i \in 1 .. Len(mag1) : mag1[i] \in A
  BY <1>5 DEF Holds
<1>7. mag1 \in Seq(A)
  BY <1>5, <1>6
<1>8. ASSUME NEW x \in A PROVE NewTx("tx2", x.tx, brokerConfirm2Pool) = F[x] /\ F[x] \in Item
  <2>1. ASSUME NEW h \in DOMAIN brokerConfirm2Pool, h.tx = x.tx PROVE FALSE
    <3>1. h \in Item /\ h.kind = "tx2" /\ loc[h] # Nowhere
      BY <2>1 DEF Tracked, Books, Known
    <3>2. h = Tx2(x.tx)
      BY <2>1, <3>1, ItemFacts DEF Tracked, Lives, Made
    <3>3. loc[Tx1(x.tx)] = Over
      BY <1>2, <3>1, <3>2 DEF Tracked, Lives
    <3> QED BY <1>1, <1>2, <3>3
  <2>2. {h \in DOMAIN brokerConfirm2Pool : h.tx = x.tx} = {}
    BY <2>1
  <2>3. Cardinality({h \in DOMAIN brokerConfirm2Pool : h.tx = x.tx}) = 0
    BY <2>2, FS_EmptySet
  <2> QED BY <1>2, <1>4, <2>3, ItemFacts DEF NewTx, Tx2
<1>9. tx2s \in Seq(Item) /\ Len(tx2s) = Len(mag1) /\ \A i \in 1 .. Len(mag1) : tx2s[i] = F[mag1[i]]
  BY <1>5, <1>6, <1>8
<1>10. \A x, y \in A : F[x] = F[y] => x = y
  <2>1. \A x \in A : F[x].tx = x.tx
    BY <1>2, <1>4, RowFacts, ItemFacts
  <2> QED BY <1>2, <2>1
<1>11. Distinct(tx2s) /\ \A x : Holds(tx2s, x) <=> \E y \in A : Holds(mag1, y) /\ x = F[y]
  BY ONLY <1>5, <1>7, <1>9, <1>10, MadeHold
<1>12. ASSUME NEW x PROVE Holds(tx2s, x) <=> \E t \in Raw : x = Tx2(t) /\ loc[Tx1(t)] = Reported("tx1", r)
  <2>1. ASSUME Holds(tx2s, x) PROVE \E t \in Raw : x = Tx2(t) /\ loc[Tx1(t)] = Reported("tx1", r)
    BY <1>2, <1>4, <1>11, <2>1
  <2>2. ASSUME NEW t \in Raw, x = Tx2(t), loc[Tx1(t)] = Reported("tx1", r) PROVE Holds(tx2s, x)
    <3>1. Tx1(t) \in A /\ Tx1(t).tx = t
      BY <1>3, <2>2, RowFacts, ItemFacts
    <3> QED BY <1>4, <1>5, <1>11, <2>2, <3>1
  <2> QED BY <2>1, <2>2
<1> QED BY <1>9, <1>11, <1>12

\* Where a report that is handled leaves its halves, and what is made for them.
Handled(loc, lo, r) ==
  \A x \in Item :
    /\ loc[x] = Reported("tx1", r) => lo[x] = Over
    /\ loc[x] = Reported("tx2", r) => lo[x] = ToNote
    /\ (\E t \in Raw : x = Tx2(t) /\ loc[Tx1(t)] = Reported("tx1", r)) => loc[x] = Nowhere /\ lo[x] = AtConfirmer
    /\ \/ lo[x] = loc[x] /\ loc[x] # Reported("tx1", r) /\ loc[x] # Reported("tx2", r)
       \/ loc[x] = Reported("tx1", r) \/ loc[x] = Reported("tx2", r)
       \/ \E t \in Raw : x = Tx2(t) /\ loc[Tx1(t)] = Reported("tx1", r)

LEMMA HandledExists ==
  ASSUME NEW loc, Tracked(loc), NEW r PROVE \E lo : Handled(loc, lo, r)
<1> DEFINE First(x) == loc[x] = Reported("tx1", r)
           Second(x) == loc[x] = Reported("tx2", r)
           Next2(x) == \E t \in Raw : x = Tx2(t) /\ First(Tx1(t))
           lo == [x \in Item |-> IF First(x) THEN Over ELSE IF Second(x) THEN ToNote ELSE IF Next2(x) THEN AtConfirmer ELSE loc[x]]
<1>1. Reported("tx1", r) # Over /\ Reported("tx1", r) # Nowhere /\ Reported("tx2", r) # Nowhere /\ Reported("tx1", r) # Reported("tx2", r)
  BY DEF Reported, Over, Nowhere
<1>2. ASSUME NEW x \in Item, Next2(x) PROVE loc[x] = Nowhere
  BY <1>1, <1>2 DEF Tracked, Lives
<1>3. \A x \in Item : lo[x] = IF First(x) THEN Over ELSE IF Second(x) THEN ToNote ELSE IF Next2(x) THEN AtConfirmer ELSE loc[x]
  OBVIOUS
<1> HIDE DEF lo, Next2
<1>4. \A x \in Item : /\ First(x) => lo[x] = Over
                      /\ Second(x) => lo[x] = ToNote
                      /\ Next2(x) => loc[x] = Nowhere /\ lo[x] = AtConfirmer
                      /\ (lo[x] = loc[x] /\ ~First(x) /\ ~Second(x)) \/ First(x) \/ Second(x) \/ Next2(x)
  BY <1>1, <1>2, <1>3
<1> QED BY <1>4 DEF Handled, Next2

\* A report is handled.
LEMMA HandleTracked ==
  ASSUME NEW loc, Tracked(loc), NEW r \in reports, HandleBlockInfo(r)
  PROVE  \E lo : Tracked(lo)' /\ Advances(loc, lo)
<1> DEFINE mag1 == Selected(Confirmed(r, brokerConfirm1Pool), {x \in Item : RawKnown(x)})
           tx2s == [i \in DOMAIN mag1 |-> NewTx("tx2", mag1[i].tx, brokerConfirm2Pool)]
           First(x) == loc[x] = Reported("tx1", r)
           Second(x) == loc[x] = Reported("tx2", r)
           Next2(x) == \E t \in Raw : x = Tx2(t) /\ First(Tx1(t))
<1>0. PICK lo : Handled(loc, lo, r)
  BY HandledExists
<1>1. /\ confirmerOut = <<>> /\ confirm2s = <<>> /\ reports' = reports \ {r} /\ RawTx2BrokerTx' = Record(mag1)
      /\ brokerConfirm2Pool' = Register(brokerConfirm2Pool, tx2s) /\ confirmerOut' = tx2s
      /\ confirm2s' = Confirmed(r, brokerConfirm2Pool)
      /\ UNCHANGED <<nowDataNum, BrokerRawMegs, brokerConfirm1Pool, readerOut, TxQueue, executed, msgs>>
  BY DEF HandleBlockInfo, shardVars
<1>2. Slice(mag1, loc, Reported("tx1", r)) /\ Slice(Confirmed(r, brokerConfirm2Pool), loc, Reported("tx2", r))
  BY ConfirmedHolds
<1> HIDE DEF mag1
<1>3. tx2s \in Seq(Item) /\ Distinct(tx2s) /\ \A x : Holds(tx2s, x) <=> Next2(x)
  BY <1>2, SecondHalves
<1> HIDE DEF tx2s
<1>4. \A x \in Item : /\ First(x) => lo[x] = Over
                      /\ Second(x) => lo[x] = ToNote
                      /\ Next2(x) => loc[x] = Nowhere /\ lo[x] = AtConfirmer
                      /\ (lo[x] = loc[x] /\ ~First(x) /\ ~Second(x)) \/ First(x) \/ Second(x) \/ Next2(x)
  BY <1>0 DEF Handled
<1> HIDE DEF Next2
<1>5. /\ Reported("tx1", r)[1] = "tx1" /\ Reported("tx2", r)[1] = "tx2" /\ Over[1] = "over" /\ ToNote[1] = "note"
      /\ AtConfirmer[1] = "confirmer" /\ Nowhere[1] = "nowhere"
  BY DEF Reported, Over, ToNote, AtConfirmer, Nowhere
<1>6. Located(loc) /\ \A x \in Item : loc[x] # AtConfirmer /\ loc[x] # ToNote
  <2>1. Slice(<<>>, loc, AtConfirmer) /\ Slice(<<>>, loc, ToNote)
    BY <1>1 DEF Tracked, Located
  <2> QED BY <2>1, EmptyHolds DEF Slice, Tracked
<1>7. Located(lo)'
  <2> DEFINE P == {Reported("tx1", r), Reported("tx2", r), Over, ToNote, AtConfirmer, Nowhere}
  <2>1. \A x \in Item : \A p : p \notin P => (lo[x] = p <=> loc[x] = p)
    BY <1>4
  <2>2. /\ AtReader \notin P /\ (\A m \in msgs : InMsg(m) \notin P) /\ (\A s \in Shard : InPool(s) \notin P)
        /\ \A o \in reports' : Reported("tx1", o) \notin P /\ Reported("tx2", o) \notin P
    BY <1>1 DEF Nowhere, AtReader, AtConfirmer, ToNote, InMsg, InPool, Reported, Over
  <2> HIDE DEF P
  <2>3. /\ Slice(readerOut, lo, AtReader)
        /\ \A m \in msgs : m.to \in Shard /\ Slice(m.txs, lo, InMsg(m))
        /\ \A s \in Shard : Slice(TxQueue[s], lo, InPool(s))
        /\ \A o \in reports' : /\ Slice(o.broker1Txs, lo, Reported("tx1", o)) /\ Slice(o.broker2Txs, lo, Reported("tx2", o))
                               /\ o.innerShardTxs \in Seq(Item)
    BY <1>1, <1>6, <2>1, <2>2, OthersStay
  <2>4. Slice(tx2s, lo, AtConfirmer)
    <3>1. \A x \in Item : lo[x] = AtConfirmer <=> Next2(x)
      BY <1>4, <1>5, <1>6
    <3>2. \A x : Next2(x) => x \in Item
      BY RowFacts, ItemFacts DEF Next2
    <3> QED BY <1>3, <3>1, <3>2 DEF Slice
  <2>5. Slice(Confirmed(r, brokerConfirm2Pool), lo, ToNote)
    <3>1. \A x \in Item : lo[x] = ToNote <=> Second(x)
      BY <1>4, <1>5, <1>6
    <3> QED BY <1>2, <3>1 DEF Slice
  <2>6. \A x \in Item : Exists(lo[x])'
    <3>1. \A p : Exists(p) /\ p # Reported("tx1", r) /\ p # Reported("tx2", r) => Exists(p)'
      BY <1>1 DEF Exists
    <3>2. Exists(Over)' /\ Exists(ToNote)' /\ Exists(AtConfirmer)'
      BY DEF Exists
    <3> QED BY <1>4, <1>6, <3>1, <3>2 DEF Located
  <2> QED BY <1>1, <1>6, <2>3, <2>4, <2>5, <2>6 DEF Located
<1>8. Directed(lo)'
  <2>1. \A x \in Item : /\ \A m : lo[x] = InMsg(m) => loc[x] = InMsg(m)
                        /\ \A s : lo[x] = InPool(s) => loc[x] = InPool(s)
    BY <1>4 DEF InMsg, InPool, Over, ToNote, AtConfirmer
  <2> QED BY <1>1, <2>1 DEF Tracked, Directed
<1>9. /\ \A x \in Item : /\ First(x) => Made(x) /\ x.kind = "tx1"
                         /\ Second(x) => Made(x) /\ x.kind = "tx2"
      /\ \A t \in Raw : /\ Tx1(t) \in Item /\ Tx2(t) \in Item /\ Tx1(t).kind = "tx1" /\ Tx2(t).kind = "tx2"
                        /\ Tx1(t).tx = t /\ Tx2(t).tx = t /\ Made(Tx1(t)) /\ Made(Tx2(t))
      /\ \A x : Next2(x) => x.kind = "tx2" /\ Made(x)
  <2>1. \A t \in Raw : /\ Tx1(t) \in Item /\ Tx2(t) \in Item /\ Tx1(t).kind = "tx1" /\ Tx2(t).kind = "tx2"
                       /\ Tx1(t).tx = t /\ Tx2(t).tx = t /\ Made(Tx1(t)) /\ Made(Tx2(t))
    BY RowFacts, ItemFacts DEF Made
  <2>2. \A x \in Item : /\ First(x) => Made(x) /\ x.kind = "tx1"
                        /\ Second(x) => Made(x) /\ x.kind = "tx2"
    BY <1>5 DEF Tracked, Lives, Suits
  <2> QED BY <2>1, <2>2 DEF Next2
<1>10. \A t \in Raw : /\ Next2(Tx2(t)) <=> First(Tx1(t))
                      /\ ~Next2(Tx1(t)) /\ ~Second(Tx1(t)) /\ ~First(Tx2(t))
  <2>1. \A t, u \in Raw : Tx2(t) = Tx2(u) => t = u
    BY <1>9
  <2> QED BY <1>9, <2>1 DEF Next2
<1>11. \A x \in Item : /\ lo[x][1] \in {"tx1", "tx2", "note", "over"} <=> loc[x][1] \in {"tx1", "tx2", "note", "over"}
                       /\ lo[x] = Nowhere <=> loc[x] = Nowhere /\ ~Next2(x)
                       /\ lo[x] = Over <=> loc[x] = Over \/ First(x)
  BY <1>4, <1>5
<1>12. Done(lo) = Done(loc)
  BY <1>11 DEF Done
<1>13. Lives(lo)'
  <2>1. ASSUME NEW x \in Item, lo[x] # Nowhere PROVE Made(x) /\ Suits(x.kind, lo[x])
    <3>1. CASE First(x) \/ Second(x) \/ Next2(x)
      BY <1>4, <1>5, <1>9, <3>1 DEF Suits
    <3>2. CASE ~(First(x) \/ Second(x) \/ Next2(x))
      BY <1>4, <2>1, <3>2 DEF Tracked, Lives
    <3> QED BY <3>1, <3>2
  <2>2. ASSUME NEW x \in Item, Made(x), x.kind # "tx2" PROVE lo[x] # Nowhere <=> x.tx <= nowDataNum
    BY <1>9, <1>11, <2>2 DEF Tracked, Lives
  <2>3. ASSUME NEW t \in Raw PROVE lo[Tx2(t)] # Nowhere <=> lo[Tx1(t)] = Over
    BY <1>9, <1>10, <1>11 DEF Tracked, Lives
  <2>4. \A x : Made(x)' <=> Made(x)
    BY DEF Made
  <2> QED BY <1>1, <2>1, <2>2, <2>3, <2>4 DEF Lives
<1>14. DOMAIN brokerConfirm1Pool' = Known(lo, "tx1") /\ DOMAIN brokerConfirm2Pool' = Known(lo, "tx2")
  <2>1. Known(lo, "tx1") = Known(loc, "tx1")
    BY <1>9, <1>11 DEF Known
  <2>2. \A x : x \in Known(lo, "tx2") <=> x \in Known(loc, "tx2") \/ (x \in Item /\ Next2(x))
    BY <1>9, <1>11 DEF Known
  <2>3. \A x : x \in DOMAIN brokerConfirm2Pool' <=> x \in DOMAIN brokerConfirm2Pool \/ Holds(tx2s, x)
    BY <1>1, <1>3, ToSetHolds DEF Register
  <2>4. \A x : Next2(x) => x \in Item
    BY RowFacts, ItemFacts DEF Next2
  <2> QED BY <1>1, <1>3, <2>1, <2>2, <2>3, <2>4 DEF Tracked, Books
<1>15. RawTx2BrokerTx' = [t \in Tx |-> Noted(lo, t)]
  <2>1. mag1 \in Seq(Item) /\ Distinct(mag1) /\ \A x : Holds(mag1, x) <=> x \in Item /\ First(x)
    BY <1>2 DEF Slice
  <2>2. ASSUME NEW t \in Tx PROVE Noted(loc, t) \o OfRow(mag1, t) = Noted(lo, t)
    <3>1. CASE t \in Raw /\ First(Tx1(t))
      <4>1. OfRow(mag1, t) = <<Tx1(t)>>
        <5>1. \A x \in Item : Holds(mag1, x) /\ x.tx = t => x = Tx1(t)
          BY <1>9, <2>1, ItemFacts DEF Made
        <5> QED BY <1>9, <2>1, <3>1, <5>1, RecordHolds
      <4>2. Noted(loc, t) = <<>>
        BY <1>5, <3>1 DEF Noted
      <4>3. Noted(lo, t) = <<Tx1(t)>>
        BY <1>5, <1>9, <1>10, <1>11, <3>1, <1>4 DEF Noted
      <4> QED BY <4>1, <4>2, <4>3
    <3>2. CASE ~(t \in Raw /\ First(Tx1(t)))
      <4>1. OfRow(mag1, t) = <<>>
        <5>1. \A x \in Item : Holds(mag1, x) => x.tx # t
          <6> SUFFICES ASSUME NEW x \in Item, First(x), x.tx = t PROVE FALSE
            BY <2>1
          <6>1. x = Tx1(t) /\ t \in Raw
            BY <1>9, ItemFacts DEF Made
          <6> QED BY <3>2, <6>1
        <5> QED BY <2>1, <5>1, RecordHolds
      <4>2. Noted(lo, t) = Noted(loc, t)
        BY <1>9, <1>10, <1>11, <3>2 DEF Noted
      <4>3. Noted(loc, t) \in Seq(Item)
        BY <1>9 DEF Noted
      <4> QED BY <4>1, <4>2, <4>3
    <3> QED BY <3>1, <3>2
  <2>3. Record(mag1) = [t \in Tx |-> RawTx2BrokerTx[t] \o OfRow(mag1, t)]
    BY DEF Record, OfRow
  <2>4. \A t \in Tx : RawTx2BrokerTx[t] = Noted(loc, t)
    BY DEF Tracked, Books
  <2> QED BY <1>1, <2>2, <2>3, <2>4
<1>16. Books(lo)'
  BY <1>1, <1>12, <1>14, <1>15 DEF Tracked, Books
<1>17. Advances(loc, lo)
  BY <1>9, <1>10, <1>11, <1>12 DEF Advances, PhaseAt
<1> QED BY <1>7, <1>8, <1>13, <1>16, <1>17 DEF Tracked

LEMMA TwoNotes == ASSUME NEW a, NEW b PROVE <<a>> \o <<b>> = <<a, b>>
<1> DEFINE p == <<a>>
           q == <<b>>
           r == <<a, b>>
           S == {a, b}
<1>1. p \in Seq(S) /\ q \in Seq(S) /\ r \in Seq(S) /\ Len(p) = 1 /\ Len(q) = 1 /\ Len(r) = 2
  OBVIOUS
<1>2. p[1] = a /\ q[1] = b /\ r[1] = a /\ r[2] = b
  OBVIOUS
<1> HIDE DEF p, q, r, S
<1>3. p \o q \in Seq(S) /\ Len(p \o q) = Len(p) + Len(q)
  <2>1. p \in Seq(S) /\ q \in Seq(S)
    BY <1>1
  <2> QED BY ONLY <2>1
<1>4. \A i \in 1 .. Len(p) + Len(q) : (p \o q)[i] = IF i <= Len(p) THEN p[i] ELSE q[i - Len(p)]
  <2>1. p \in Seq(S) /\ q \in Seq(S)
    BY <1>1
  <2> QED BY ONLY <2>1
<1> DEFINE c == p \o q
<1> HIDE DEF c
<1>5. c \in Seq(S) /\ Len(c) = 2 /\ c[1] = p[1] /\ c[2] = q[1]
  BY <1>1, <1>3, <1>4 DEF c
<1>6. \A i \in 1 .. 2 : c[i] = r[i]
  BY <1>2, <1>5
<1>7. c = r
  BY <1>1, <1>5, <1>6
<1> QED BY <1>7 DEF c, p, q, r

\* The confirmed tx2 are noted.
LEMMA NoteTracked ==
  ASSUME NEW loc, Tracked(loc), handleTx2ConfirmMag
  PROVE  \E lo : Tracked(lo)' /\ Advances(loc, lo)
<1> DEFINE Now(x) == loc[x] = ToNote
           lo == [x \in Item |-> IF Now(x) THEN Over ELSE loc[x]]
<1>1. /\ RawTx2BrokerTx' = Record(confirm2s) /\ confirm2s' = <<>>
      /\ UNCHANGED <<nowDataNum, BrokerRawMegs, brokerConfirm1Pool, brokerConfirm2Pool, readerOut,
                     confirmerOut, TxQueue, executed, msgs, reports>>
  BY DEF handleTx2ConfirmMag, shardVars
<1>2. \A x \in Item : /\ Now(x) => lo[x] = Over
                      /\ ~Now(x) => lo[x] = loc[x]
  OBVIOUS
<1> HIDE DEF lo
<1>3. ToNote[1] = "note" /\ Over[1] = "over" /\ Nowhere[1] = "nowhere"
  BY DEF ToNote, Over, Nowhere
<1>4. Located(loc) /\ Slice(confirm2s, loc, ToNote)
  BY DEF Tracked, Located
<1>5. Located(lo)'
  <2> DEFINE P == {Over, ToNote}
  <2>1. \A x \in Item : \A p : p \notin P => (lo[x] = p <=> loc[x] = p)
    BY <1>2
  <2>2. /\ AtReader \notin P /\ AtConfirmer \notin P /\ (\A m \in msgs : InMsg(m) \notin P) /\ (\A s \in Shard : InPool(s) \notin P)
        /\ \A o \in reports : Reported("tx1", o) \notin P /\ Reported("tx2", o) \notin P
    BY DEF AtReader, AtConfirmer, ToNote, InMsg, InPool, Reported, Over
  <2> HIDE DEF P
  <2>3. /\ Slice(readerOut, lo, AtReader) /\ Slice(confirmerOut, lo, AtConfirmer)
        /\ \A m \in msgs : m.to \in Shard /\ Slice(m.txs, lo, InMsg(m))
        /\ \A s \in Shard : Slice(TxQueue[s], lo, InPool(s))
        /\ \A o \in reports : /\ Slice(o.broker1Txs, lo, Reported("tx1", o)) /\ Slice(o.broker2Txs, lo, Reported("tx2", o))
                              /\ o.innerShardTxs \in Seq(Item)
    BY <1>4, <2>1, <2>2, OthersStay
  <2>4. Slice(<<>>, lo, ToNote)
    <3>1. \A x \in Item : lo[x] # ToNote
      BY <1>2, <1>3
    <3> QED BY <3>1, EmptyHolds DEF Slice
  <2>5. \A x \in Item : Exists(lo[x])'
    <3>1. \A p : Exists(p) => Exists(p)'
      BY <1>1 DEF Exists
    <3>2. Exists(Over)
      BY DEF Exists
    <3> QED BY <1>2, <1>4, <3>1, <3>2 DEF Located
  <2> QED BY <1>1, <1>4, <2>3, <2>4, <2>5 DEF Located
<1>6. Directed(lo)'
  <2>1. \A x \in Item : /\ \A m : lo[x] = InMsg(m) => loc[x] = InMsg(m)
                        /\ \A s : lo[x] = InPool(s) => loc[x] = InPool(s)
    BY <1>2 DEF InMsg, InPool, Over
  <2> QED BY <1>1, <2>1 DEF Tracked, Directed
<1>7. /\ \A x \in Item : Now(x) => Made(x) /\ x.kind = "tx2"
      /\ \A t \in Raw : /\ Tx1(t) \in Item /\ Tx2(t) \in Item /\ Tx1(t).kind = "tx1" /\ Tx2(t).tx = t
                        /\ Now(Tx2(t)) => loc[Tx1(t)] = Over
  <2>1. \A x \in Item : Now(x) => Made(x) /\ x.kind = "tx2"
    BY <1>3 DEF Tracked, Lives, Suits
  <2>2. \A t \in Raw : Tx1(t) \in Item /\ Tx2(t) \in Item /\ Tx1(t).kind = "tx1" /\ Tx2(t).tx = t
    BY RowFacts, ItemFacts
  <2> QED BY <1>3, <2>1, <2>2 DEF Tracked, Lives
<1>8. \A x \in Item : /\ lo[x][1] \in {"tx1", "tx2", "note", "over"} <=> loc[x][1] \in {"tx1", "tx2", "note", "over"}
                      /\ lo[x] = Nowhere <=> loc[x] = Nowhere
                      /\ lo[x] = Over <=> loc[x] = Over \/ Now(x)
  BY <1>2, <1>3
<1>9. Done(lo) = Done(loc) /\ Known(lo, "tx1") = Known(loc, "tx1") /\ Known(lo, "tx2") = Known(loc, "tx2")
  BY <1>8 DEF Done, Known
<1>10. Lives(lo)'
  <2>1. ASSUME NEW x \in Item, lo[x] # Nowhere PROVE Made(x) /\ Suits(x.kind, lo[x])
    <3>1. CASE Now(x)
      BY <1>2, <1>3, <1>7, <3>1 DEF Suits
    <3>2. CASE ~Now(x)
      BY <1>2, <2>1, <3>2 DEF Tracked, Lives
    <3> QED BY <3>1, <3>2
  <2>2. ASSUME NEW t \in Raw PROVE lo[Tx2(t)] # Nowhere <=> lo[Tx1(t)] = Over
    BY <1>7, <1>8 DEF Tracked, Lives
  <2>3. \A x : Made(x)' <=> Made(x)
    BY DEF Made
  <2> QED BY <1>1, <1>8, <2>1, <2>2, <2>3 DEF Tracked, Lives
<1>11. RawTx2BrokerTx' = [t \in Tx |-> Noted(lo, t)]
  <2>1. confirm2s \in Seq(Item) /\ Distinct(confirm2s) /\ \A x : Holds(confirm2s, x) <=> x \in Item /\ Now(x)
    BY <1>4 DEF Slice
  <2>2. ASSUME NEW t \in Tx PROVE Noted(loc, t) \o OfRow(confirm2s, t) = Noted(lo, t)
    <3>1. CASE t \in Raw /\ Now(Tx2(t))
      <4>1. OfRow(confirm2s, t) = <<Tx2(t)>>
        <5>1. \A x \in Item : Holds(confirm2s, x) /\ x.tx = t => x = Tx2(t)
          BY <1>7, <2>1, ItemFacts DEF Made
        <5> QED BY <1>7, <2>1, <3>1, <5>1, RecordHolds
      <4>2. Noted(loc, t) = <<Tx1(t)>>
        BY <1>3, <1>7, <3>1 DEF Noted
      <4>3. Noted(lo, t) = <<Tx1(t), Tx2(t)>>
        BY <1>7, <1>8, <3>1 DEF Noted
      <4> QED BY <4>1, <4>2, <4>3, TwoNotes
    <3>2. CASE ~(t \in Raw /\ Now(Tx2(t)))
      <4>1. OfRow(confirm2s, t) = <<>>
        <5>1. \A x \in Item : Holds(confirm2s, x) => x.tx # t
          <6> SUFFICES ASSUME NEW x \in Item, Now(x), x.tx = t PROVE FALSE
            BY <2>1
          <6>1. x = Tx2(t) /\ t \in Raw
            BY <1>7, ItemFacts DEF Made
          <6> QED BY <3>2, <6>1
        <5> QED BY <2>1, <5>1, RecordHolds
      <4>2. Noted(lo, t) = Noted(loc, t)
        BY <1>7, <1>8, <3>2 DEF Noted
      <4>3. Noted(loc, t) \in Seq(Item)
        BY <1>7 DEF Noted
      <4> QED BY <4>1, <4>2, <4>3
    <3> QED BY <3>1, <3>2
  <2>3. Record(confirm2s) = [t \in Tx |-> RawTx2BrokerTx[t] \o OfRow(confirm2s, t)]
    BY DEF Record, OfRow
  <2>4. \A t \in Tx : RawTx2BrokerTx[t] = Noted(loc, t)
    BY DEF Tracked, Books
  <2> QED BY <1>1, <2>2, <2>3, <2>4
<1>12. Books(lo)'
  BY <1>1, <1>9, <1>11 DEF Tracked, Books
<1>13. Advances(loc, lo)
  <2>1. ASSUME NEW t \in Raw, Now(Tx2(t)) PROVE PhaseAt(loc, t) = "paid out" /\ PhaseAt(lo, t) = "finished"
    BY <1>3, <1>7, <1>8, <2>1 DEF PhaseAt, Done
  <2>2. ASSUME NEW t \in Raw, ~Now(Tx2(t)) PROVE PhaseAt(lo, t) = PhaseAt(loc, t)
    BY <1>7, <1>8, <1>9, <2>2 DEF PhaseAt
  <2>3. H!Succ("paid out") = "finished"
    BY DEF H!Succ
  <2> QED BY <2>1, <2>2, <2>3 DEF Advances
<1> QED BY <1>5, <1>6, <1>10, <1>12, <1>13 DEF Tracked

-----------------------------------------------------------------------------
(* Blocks.                                                                 *)

\* What CommitBlock packs, and what it reports.
Packed(s) == SubSeq(TxQueue[s], 1, Least(BlockSize, Len(TxQueue[s])))
Rest(s) == SubSeq(TxQueue[s], Len(Packed(s)) + 1, Len(TxQueue[s]))

FirstKind == {x \in Item : IsBroker1Tx(x) /\ ~IsBroker2Tx(x)}
SecondKind == {x \in Item : IsBroker2Tx(x)}
ReportOf(s, block) ==
  [from |-> s, broker1Txs |-> Selected(block, FirstKind), broker2Txs |-> Selected(block, SecondKind),
   innerShardTxs |-> Selected(block, {x \in Item : ~IsBroker1Tx(x) /\ ~IsBroker2Tx(x)})]

LEMMA PackedHolds ==
  ASSUME NEW s, TxQueue[s] \in Seq(Item), Distinct(TxQueue[s])
  PROVE  /\ Packed(s) \in Seq(Item) /\ Rest(s) \in Seq(Item) /\ Distinct(Packed(s)) /\ Distinct(Rest(s))
         /\ \A x : Holds(TxQueue[s], x) <=> Holds(Packed(s), x) \/ Holds(Rest(s), x)
         /\ Disjoint(Packed(s), Rest(s))
<1> DEFINE q == TxQueue[s]
           n == Least(BlockSize, Len(q))
<1>1. BlockSize \in Nat /\ Len(q) \in Nat
  BY ConfigAssumption
<1>2. n \in 0 .. Len(q)
  BY <1>1 DEF Least
<1> DEFINE p == SubSeq(q, 1, n)
           r == SubSeq(q, n + 1, Len(q))
<1>3. /\ p \in Seq(Item) /\ r \in Seq(Item) /\ Len(p) = n
      /\ \A x : Holds(q, x) <=> Holds(p, x) \/ Holds(r, x)
      /\ Distinct(p) /\ Distinct(r) /\ Disjoint(p, r)
  <2> HIDE DEF n
  <2> QED BY <1>2, SplitHolds
<1>4. Packed(s) = p
  BY DEF Packed
<1> HIDE DEF p
<1>5. Rest(s) = r
  BY <1>3, <1>4 DEF Rest
<1> QED BY <1>3, <1>4, <1>5

\* HandleinCommit tells the halves apart by their parties: neither party of a
\* transfer that needs a broker is one.
LEMMA Classified ==
  ASSUME NEW x \in Item, Made(x)
  PROVE  /\ IsBroker2Tx(x) <=> x.kind = "tx2"
         /\ x.kind = "tx1" => IsBroker1Tx(x)
         /\ IsBroker1Tx(x) => x.kind = "tx1"
<1>1. /\ x.kind \in {"itx", "tx1", "tx2"} /\ x.tx \in Tx
      /\ x.kind # "itx" => x.tx \in Raw
  BY ItemFacts DEF Made
<1>2. IsBroker(BrokerAddress[1]) /\ (x.tx \in Raw => ~IsBroker(Rows[x.tx].sender) /\ ~IsBroker(Rows[x.tx].recipient))
  BY RowFacts
<1> QED BY <1>1, <1>2 DEF IsBroker1Tx, IsBroker2Tx, Sender, Recipient

\* Where a block leaves what it holds.
Left(x, r) == IF x.kind = "itx" THEN Over ELSE Reported(x.kind, r)

\* What a report tells of a block; the report tells of nothing else.
LEMMA ReportHolds ==
  ASSUME NEW loc, Tracked(loc), NEW s \in Shard, NEW b \in Seq(Item), Distinct(b), \A x : Holds(b, x) => loc[x] = InPool(s)
  PROVE  LET r == ReportOf(s, b)
         IN  /\ r.broker1Txs \in Seq(Item) /\ Distinct(r.broker1Txs)
             /\ \A x : Holds(r.broker1Txs, x) <=> Holds(b, x) /\ x.kind = "tx1"
             /\ r.broker2Txs \in Seq(Item) /\ Distinct(r.broker2Txs)
             /\ \A x : Holds(r.broker2Txs, x) <=> Holds(b, x) /\ x.kind = "tx2"
             /\ r.innerShardTxs \in Seq(Item)
             /\ \A x \in Item : loc[x] # Reported("tx1", r) /\ loc[x] # Reported("tx2", r)
<1> DEFINE r == ReportOf(s, b)
           T == {x \in Item : ~IsBroker1Tx(x) /\ ~IsBroker2Tx(x)}
<1>1. \A x : Holds(b, x) => x \in Item /\ Made(x)
  <2>1. \A x : Holds(b, x) => x \in Item
    BY DEF Holds
  <2>2. InPool(s) # Nowhere
    BY DEF InPool, Nowhere
  <2> QED BY <2>1, <2>2 DEF Tracked, Lives
<1>2. /\ r.broker1Txs = Selected(b, FirstKind) /\ r.broker2Txs = Selected(b, SecondKind)
      /\ r.innerShardTxs = Selected(b, T)
  BY DEF ReportOf
<1>3. \A x : Holds(b, x) => /\ x \in FirstKind <=> x.kind = "tx1"
                            /\ x \in SecondKind <=> x.kind = "tx2"
  BY <1>1, Classified DEF FirstKind, SecondKind
<1> HIDE DEF T, r
<1>4. /\ r.broker1Txs \in Seq(Item) /\ Distinct(r.broker1Txs)
      /\ \A x : Holds(r.broker1Txs, x) <=> Holds(b, x) /\ x.kind = "tx1"
  BY <1>2, <1>3, SelectedHolds
<1>5. /\ r.broker2Txs \in Seq(Item) /\ Distinct(r.broker2Txs)
      /\ \A x : Holds(r.broker2Txs, x) <=> Holds(b, x) /\ x.kind = "tx2"
  BY <1>2, <1>3, SelectedHolds
<1>6. r.innerShardTxs \in Seq(Item)
  BY <1>2, SelectedHolds
<1>7. ASSUME NEW x \in Item, loc[x] = Reported("tx1", r) \/ loc[x] = Reported("tx2", r) PROVE FALSE
  <2>1. Exists(loc[x])
    BY DEF Tracked, Located
  <2>2. r \in reports
    BY <1>7, <2>1 DEF Exists, Nowhere, AtReader, AtConfirmer, ToNote, Over, InMsg, InPool, Reported
  <2>3. Slice(r.broker1Txs, loc, Reported("tx1", r)) /\ Slice(r.broker2Txs, loc, Reported("tx2", r))
    BY <2>2 DEF Tracked, Located
  <2>4. Holds(b, x)
    BY <1>4, <1>5, <1>7, <2>3 DEF Slice
  <2> QED BY <1>7, <2>4 DEF Reported, InPool
<1> QED BY <1>4, <1>5, <1>6, <1>7 DEF r

\* A block.
LEMMA CommitTracked ==
  ASSUME NEW loc, Tracked(loc), NEW s \in Shard, CommitBlock(s)
  PROVE  \E lo : Tracked(lo)' /\ Advances(loc, lo)
<1>0. PICK b : b = Packed(s)
  OBVIOUS
<1> DEFINE r == ReportOf(s, b)
           In(x) == Holds(b, x)
           lo == [x \in Item |-> IF In(x) THEN Left(x, r) ELSE loc[x]]
           Finished == {"tx1", "tx2", "note", "over"}
<1>1. /\ TxQueue' = [TxQueue EXCEPT ![s] = Rest(s)] /\ executed' = executed \cup ToSet(b) /\ reports' = reports \cup {r}
      /\ UNCHANGED <<nowDataNum, BrokerRawMegs, brokerConfirm1Pool, brokerConfirm2Pool, RawTx2BrokerTx,
                     readerOut, confirmerOut, confirm2s, msgs>>
  BY <1>0 DEF CommitBlock, supVars, Packed, Rest, ReportOf, FirstKind, SecondKind
<1>2. Located(loc) /\ DOMAIN TxQueue = Shard /\ Slice(TxQueue[s], loc, InPool(s))
  BY DEF Tracked, Located
<1>3. /\ b \in Seq(Item) /\ Rest(s) \in Seq(Item) /\ Distinct(b) /\ Distinct(Rest(s))
      /\ \A x : x \in Item /\ loc[x] = InPool(s) <=> In(x) \/ Holds(Rest(s), x)
      /\ \A x : ~(In(x) /\ Holds(Rest(s), x))
  BY <1>0, <1>2, PackedHolds DEF Slice, Disjoint
<1>4. /\ r.broker1Txs \in Seq(Item) /\ Distinct(r.broker1Txs)
      /\ \A x : Holds(r.broker1Txs, x) <=> In(x) /\ x.kind = "tx1"
      /\ r.broker2Txs \in Seq(Item) /\ Distinct(r.broker2Txs)
      /\ \A x : Holds(r.broker2Txs, x) <=> In(x) /\ x.kind = "tx2"
      /\ r.innerShardTxs \in Seq(Item)
      /\ \A x \in Item : loc[x] # Reported("tx1", r) /\ loc[x] # Reported("tx2", r)
  BY <1>3, ReportHolds
<1>5. \A x \in Item : /\ In(x) => lo[x] = Left(x, r)
                      /\ ~In(x) => lo[x] = loc[x]
  OBVIOUS
<1> HIDE DEF r, lo, In
<1>6. \A x : In(x) => x \in Item /\ loc[x] = InPool(s) /\ Made(x) /\ x.kind \in {"itx", "tx1", "tx2"}
  <2>1. \A x : In(x) => x \in Item /\ loc[x] = InPool(s)
    BY <1>3
  <2>2. InPool(s) # Nowhere
    BY DEF InPool, Nowhere
  <2> QED BY <2>1, <2>2, ItemFacts DEF Tracked, Lives
<1>7. \A x : x.kind \in {"itx", "tx1", "tx2"} => /\ Left(x, r)[1] \in Finished /\ Left(x, r) # Nowhere
                                                 /\ Left(x, r) = Over <=> x.kind = "itx"
                                                 /\ Left(x, r) # InPool(s)
                                                 /\ Left(x, r) = Reported("tx1", r) <=> x.kind = "tx1"
                                                 /\ Left(x, r) = Reported("tx2", r) <=> x.kind = "tx2"
                                                 /\ Suits(x.kind, Left(x, r))
  BY DEF Left, Over, Reported, Nowhere, InPool, Suits
<1>8. Located(lo)'
  <2> DEFINE P == {InPool(s), Over, Reported("tx1", r), Reported("tx2", r)}
  <2>1. \A x \in Item : \A p : p \notin P => (lo[x] = p <=> loc[x] = p)
    <3>1. \A x : x.kind \in {"itx", "tx1", "tx2"} => Left(x, r) \in P
      BY DEF Left
    <3> QED BY <1>5, <1>6, <3>1
  <2>2. /\ AtReader \notin P /\ AtConfirmer \notin P /\ ToNote \notin P /\ (\A m \in msgs : InMsg(m) \notin P)
        /\ \A v \in Shard \ {s} : InPool(v) \notin P
        /\ \A o \in reports \ {r} : Reported("tx1", o) \notin P /\ Reported("tx2", o) \notin P
    BY DEF AtReader, AtConfirmer, ToNote, InMsg, InPool, Reported, Over
  <2> HIDE DEF P
  <2>3. /\ Slice(readerOut, lo, AtReader) /\ Slice(confirmerOut, lo, AtConfirmer) /\ Slice(confirm2s, lo, ToNote)
        /\ \A m \in msgs : m.to \in Shard /\ Slice(m.txs, lo, InMsg(m))
        /\ \A v \in Shard \ {s} : Slice(TxQueue[v], lo, InPool(v))
        /\ \A o \in reports \ {r} : /\ Slice(o.broker1Txs, lo, Reported("tx1", o)) /\ Slice(o.broker2Txs, lo, Reported("tx2", o))
                                    /\ o.innerShardTxs \in Seq(Item)
    BY <1>2, <2>1, <2>2, OthersStay
  <2>4. Slice(Rest(s), lo, InPool(s))
    <3>1. \A x \in Item : lo[x] = InPool(s) <=> Holds(Rest(s), x)
      BY <1>3, <1>5, <1>6, <1>7
    <3> QED BY <1>3, <3>1 DEF Slice
  <2>5. Slice(r.broker1Txs, lo, Reported("tx1", r)) /\ Slice(r.broker2Txs, lo, Reported("tx2", r))
    <3>1. \A x \in Item : /\ lo[x] = Reported("tx1", r) <=> In(x) /\ x.kind = "tx1"
                          /\ lo[x] = Reported("tx2", r) <=> In(x) /\ x.kind = "tx2"
      BY <1>4, <1>5, <1>6, <1>7
    <3>2. \A x : In(x) => x \in Item
      BY <1>6
    <3> QED BY <1>4, <3>1, <3>2 DEF Slice
  <2>6. ASSUME NEW x \in Item PROVE Exists(lo[x])'
    <3>1. CASE In(x)
      BY <1>1, <1>5, <1>6, <3>1 DEF Exists, Left
    <3>2. CASE ~In(x)
      <4>1. Exists(loc[x]) /\ lo[x] = loc[x]
        BY <1>2, <1>5, <3>2 DEF Located
      <4> QED BY <1>1, <4>1 DEF Exists
    <3> QED BY <3>1, <3>2
  <2>7. DOMAIN TxQueue' = Shard /\ \A v \in Shard : Slice(TxQueue'[v], lo, InPool(v))
    <3>1. DOMAIN TxQueue' = Shard /\ TxQueue'[s] = Rest(s) /\ \A v \in Shard \ {s} : TxQueue'[v] = TxQueue[v]
      BY <1>1, <1>2
    <3> QED BY <2>3, <2>4, <3>1
  <2>8. \A o \in reports' : /\ Slice(o.broker1Txs, lo, Reported("tx1", o)) /\ Slice(o.broker2Txs, lo, Reported("tx2", o))
                            /\ o.innerShardTxs \in Seq(Item)
    BY <1>1, <1>4, <2>3, <2>5
  <2> QED BY <1>1, <2>3, <2>6, <2>7, <2>8 DEF Located
<1>9. Directed(lo)'
  <2>1. \A x \in Item : /\ \A m : lo[x] = InMsg(m) => loc[x] = InMsg(m)
                        /\ \A v : lo[x] = InPool(v) => loc[x] = InPool(v)
    <3>1. \A m, v : InMsg(m)[1] = "message" /\ InPool(v)[1] = "pool"
      BY DEF InMsg, InPool
    <3> QED BY <1>5, <1>6, <1>7, <3>1
  <2> QED BY <1>1, <2>1 DEF Tracked, Directed
<1>10. InPool(s) # Nowhere /\ InPool(s) # Over /\ InPool(s)[1] \notin Finished
  BY DEF InPool, Nowhere, Over
<1>11. /\ \A x \in Item : /\ lo[x] = Nowhere <=> loc[x] = Nowhere
                          /\ lo[x][1] \in Finished <=> loc[x][1] \in Finished \/ In(x)
                          /\ x.kind # "itx" => (lo[x] = Over <=> loc[x] = Over)
  BY <1>5, <1>6, <1>7, <1>10
<1>12. \A t \in Raw : /\ Tx1(t) \in Item /\ Tx2(t) \in Item /\ Tx1(t).kind = "tx1" /\ Tx2(t).kind = "tx2"
                      /\ lo[Tx1(t)] = Over <=> loc[Tx1(t)] = Over
                      /\ lo[Tx2(t)] = Over <=> loc[Tx2(t)] = Over
  <2>1. \A t \in Raw : Tx1(t) \in Item /\ Tx2(t) \in Item /\ Tx1(t).kind = "tx1" /\ Tx2(t).kind = "tx2"
    BY RowFacts, ItemFacts
  <2> QED BY <1>11, <2>1
<1>13. Lives(lo)'
  <2>1. ASSUME NEW x \in Item, lo[x] # Nowhere PROVE Made(x) /\ Suits(x.kind, lo[x])
    <3>1. CASE In(x)
      BY <1>5, <1>6, <1>7, <3>1
    <3>2. CASE ~In(x)
      BY <1>5, <2>1, <3>2 DEF Tracked, Lives
    <3> QED BY <3>1, <3>2
  <2>2. ASSUME NEW t \in Raw PROVE lo[Tx2(t)] # Nowhere <=> lo[Tx1(t)] = Over
    BY <1>11, <1>12 DEF Tracked, Lives
  <2>3. \A x : Made(x)' <=> Made(x)
    BY DEF Made
  <2> QED BY <1>1, <1>11, <2>1, <2>2, <2>3 DEF Tracked, Lives
<1>14. Books(lo)'
  <2>1. Known(lo, "tx1") = Known(loc, "tx1") /\ Known(lo, "tx2") = Known(loc, "tx2")
    BY <1>11 DEF Known
  <2>2. \A t \in Tx : Noted(lo, t) = Noted(loc, t)
    BY <1>12 DEF Noted
  <2>3. executed' = Done(lo)
    <3>1. \A x : x \in ToSet(b) <=> In(x)
      BY <1>3, ToSetHolds DEF In
    <3>2. executed = Done(loc)
      BY DEF Tracked, Books
    <3> QED BY <1>1, <1>6, <1>11, <3>1, <3>2 DEF Done
  <2> QED BY <1>1, <2>1, <2>2, <2>3 DEF Tracked, Books
<1>15. Advances(loc, lo)
  <2>1. \A x \in Item : x \in Done(lo) <=> x \in Done(loc) \/ In(x)
    BY <1>11 DEF Done
  <2>2. H!Succ("new") = "paid in" /\ H!Succ("paid in") = "paid out"
    BY DEF H!Succ
  <2>3. ASSUME NEW t \in Raw PROVE PhaseAt(lo, t) = PhaseAt(loc, t) \/ PhaseAt(lo, t) = H!Succ(PhaseAt(loc, t))
    <3>1. CASE In(Tx1(t))
      <4>1. Tx1(t) \notin Done(loc) /\ loc[Tx1(t)] # Over
        BY <1>6, <1>10, <3>1 DEF Done
      <4>2. loc[Tx2(t)] = Nowhere
        BY <4>1 DEF Tracked, Lives
      <4>3. Tx2(t) \notin Done(loc) /\ ~In(Tx2(t))
        <5>1. Nowhere[1] = "nowhere"
          BY DEF Nowhere
        <5> QED BY <1>6, <1>10, <4>2, <5>1 DEF Done
      <4> QED BY <1>12, <2>1, <2>2, <3>1, <4>1, <4>3 DEF PhaseAt
    <3>2. CASE In(Tx2(t))
      <4>1. Tx2(t) \notin Done(loc) /\ loc[Tx2(t)] # Nowhere /\ loc[Tx2(t)] # Over
        BY <1>6, <1>10, <3>2 DEF Done
      <4>2. loc[Tx1(t)] = Over
        BY <4>1 DEF Tracked, Lives
      <4>3. Tx1(t) \in Done(loc)
        <5>1. Over[1] = "over"
          BY DEF Over
        <5> QED BY <1>12, <4>2, <5>1 DEF Done
      <4> QED BY <1>12, <2>1, <2>2, <3>2, <4>1, <4>3 DEF PhaseAt
    <3>3. CASE ~In(Tx1(t)) /\ ~In(Tx2(t))
      BY <1>12, <2>1, <3>3 DEF PhaseAt
    <3> QED BY <3>1, <3>2, <3>3
  <2> QED BY <2>3 DEF Advances
<1> QED BY <1>8, <1>9, <1>13, <1>14, <1>15 DEF Tracked

-----------------------------------------------------------------------------
(* One copy of everything, always.                                         *)

BrokerInv == \E loc : Tracked(loc)

LEMMA BrokerInit == ASSUME Init PROVE Tracked([x \in Item |-> Nowhere])
<1> DEFINE loc == [x \in Item |-> Nowhere]
<1>1. /\ nowDataNum = 0 /\ BrokerRawMegs = {} /\ brokerConfirm1Pool = <<>> /\ brokerConfirm2Pool = <<>>
      /\ RawTx2BrokerTx = [t \in Tx |-> <<>>] /\ readerOut = <<>> /\ confirmerOut = <<>> /\ confirm2s = <<>>
      /\ msgs = {} /\ reports = {} /\ TxQueue = [s \in Shard |-> <<>>] /\ executed = {}
  BY DEF Init
<1>2. \A x \in Item : loc[x] = Nowhere
  OBVIOUS
<1> HIDE DEF loc
<1>3. Nowhere[1] = "nowhere" /\ Nowhere # Over
  BY DEF Nowhere, Over
<1>4. \A p : p # Nowhere => Slice(<<>>, loc, p)
  BY <1>2, EmptyHolds DEF Slice
<1>5. Located(loc)
  <2>1. AtReader # Nowhere /\ AtConfirmer # Nowhere /\ ToNote # Nowhere /\ \A s : InPool(s) # Nowhere
    BY DEF AtReader, AtConfirmer, ToNote, InPool, Nowhere
  <2>2. Exists(Nowhere)
    BY DEF Exists
  <2> QED BY <1>1, <1>2, <1>4, <2>1, <2>2 DEF Located
<1>6. Directed(loc)
  <2>1. \A s : InPool(s) # Nowhere
    BY DEF InPool, Nowhere
  <2> QED BY <1>1, <1>2, <2>1 DEF Directed
<1>7. \A t \in Tx : t \in Nat /\ t >= 1
  BY RowFacts
<1>8. \A t \in Raw : Tx1(t) \in Item /\ Tx2(t) \in Item
  BY RowFacts, ItemFacts
<1>9. Lives(loc)
  <2>1. \A x \in Item : ~(x.tx <= 0)
    BY <1>7, ItemFacts
  <2> QED BY <1>1, <1>2, <1>3, <1>8, <2>1 DEF Lives
<1>10. Books(loc)
  <2>1. \A t \in Tx : Noted(loc, t) = <<>>
    BY <1>2, <1>3, <1>8 DEF Noted
  <2>2. Known(loc, "tx1") = {} /\ Known(loc, "tx2") = {} /\ Done(loc) = {}
    BY <1>2, <1>3 DEF Known, Done
  <2>3. DOMAIN <<>> = {}
    OBVIOUS
  <2>4. \A t \in Raw : ~(t <= 0)
    BY <1>7, RowFacts
  <2>5. {t \in Raw : t <= 0} = {} /\ 0 \in 0 .. Len(Rows)
    <3>1. Len(Rows) \in Nat
      BY RowFacts
    <3> QED BY ONLY <2>4, <3>1
  <2> QED BY <1>1, <2>1, <2>2, <2>3, <2>5 DEF Books
<1> QED BY <1>5, <1>6, <1>9, <1>10 DEF Tracked, loc

LEMMA BrokerStep ==
  ASSUME NEW loc, Tracked(loc), [Next]_vars PROVE \E lo : Tracked(lo)' /\ Advances(loc, lo)
<1>1. CASE dealTxByBroker
  BY <1>1, DealTracked
<1>2. CASE readerSends
  <2>1. Slice(readerOut, loc, AtReader)
    BY DEF Tracked, Located
  <2>2. /\ Send(readerOut) /\ Unnoted /\ UNCHANGED <<confirm2s, TxQueue, reports>>
        /\ readerOut' = Unsent(readerOut) /\ confirmerOut' = confirmerOut
    BY <1>2 DEF readerSends, shardVars, Unnoted
  <2> QED BY <2>1, <2>2, SendTracked
<1>3. ASSUME NEW r \in reports, HandleBlockInfo(r) PROVE \E lo : Tracked(lo)' /\ Advances(loc, lo)
  BY <1>3, HandleTracked
<1>4. CASE confirmerSends
  <2>1. Slice(confirmerOut, loc, AtConfirmer)
    BY DEF Tracked, Located
  <2>2. /\ Send(confirmerOut) /\ Unnoted /\ UNCHANGED <<confirm2s, TxQueue, reports>>
        /\ confirmerOut' = Unsent(confirmerOut) /\ readerOut' = readerOut
    BY <1>4 DEF confirmerSends, shardVars, Unnoted
  <2> QED BY <2>1, <2>2, SendTracked
<1>5. CASE handleTx2ConfirmMag
  BY <1>5, NoteTracked
<1>6. ASSUME NEW m \in msgs, handleInjectTx(m) PROVE \E lo : Tracked(lo)' /\ Advances(loc, lo)
  BY <1>6, InjectTracked
<1>7. ASSUME NEW s \in Shard, CommitBlock(s) PROVE \E lo : Tracked(lo)' /\ Advances(loc, lo)
  BY <1>7, CommitTracked
<1>8. CASE UNCHANGED vars \/ \E s \in Shard : Stop(s)
  <2>1. UNCHANGED <<supVars, TxQueue, executed, msgs, reports>>
    BY <1>8 DEF vars, shardVars, Stop
  <2>2. Tracked(loc)'
    BY <2>1 DEF supVars, Tracked, Located, Directed, Lives, Books, Exists
  <2>3. Advances(loc, loc)
    BY DEF Advances
  <2> QED BY <2>2, <2>3
<1> QED BY <1>1, <1>2, <1>3, <1>4, <1>5, <1>6, <1>7, <1>8 DEF Next, Reader, Confirmer

LEMMA BrokerAlways == Spec => []BrokerInv
<1>1. Init => BrokerInv
  BY BrokerInit DEF BrokerInv
<1>2. BrokerInv /\ [Next]_vars => BrokerInv'
  <2> SUFFICES ASSUME BrokerInv, [Next]_vars PROVE BrokerInv'
    OBVIOUS
  <2>1. PICK loc : Tracked(loc)
    BY DEF BrokerInv
  <2>2. PICK lo : Tracked(lo)'
    BY <2>1, BrokerStep
  <2> QED BY <2>2 DEF BrokerInv
<1> QED BY <1>1, <1>2, PTL DEF Spec

-----------------------------------------------------------------------------
(* What follows.                                                           *)

\* What is at a place is on its way, or waits to be confirmed.
LEMMA PlaceMeans ==
  ASSUME NEW loc, Tracked(loc), NEW x \in Item
  PROVE  \/ loc[x] = Nowhere \/ loc[x] = Over \/ OnTheWay(x)
         \/ ToConfirm(x) /\ loc[x][1] \in {"tx1", "tx2", "note"}
<1>1. Exists(loc[x])
  BY DEF Tracked, Located
<1>2. CASE loc[x] = AtReader \/ loc[x] = AtConfirmer
  BY <1>2, ToSetHolds DEF Tracked, Located, Slice, OnTheWay
<1>3. CASE loc[x] = ToNote
  BY <1>3, ToSetHolds DEF Tracked, Located, Slice, ToConfirm, ToNote
<1>4. ASSUME NEW m \in msgs, loc[x] = InMsg(m) PROVE OnTheWay(x)
  BY <1>4, ToSetHolds DEF Tracked, Located, Slice, OnTheWay
<1>5. ASSUME NEW s \in Shard, loc[x] = InPool(s) PROVE OnTheWay(x)
  BY <1>5, ToSetHolds DEF Tracked, Located, Slice, OnTheWay
<1>6. ASSUME NEW r \in reports, loc[x] = Reported("tx1", r) \/ loc[x] = Reported("tx2", r)
      PROVE  ToConfirm(x) /\ loc[x][1] \in {"tx1", "tx2", "note"}
  <2>1. r.broker1Txs \in Seq(Item) /\ r.broker2Txs \in Seq(Item) /\ (Holds(r.broker1Txs, x) \/ Holds(r.broker2Txs, x))
    BY <1>6 DEF Tracked, Located, Slice
  <2>2. r.broker1Txs \o r.broker2Txs \in Seq(Item) /\ Holds(r.broker1Txs \o r.broker2Txs, x)
    BY <2>1, ConcatHolds
  <2>3. x \in ToSet(r.broker1Txs \o r.broker2Txs)
    BY <2>2, ToSetHolds
  <2> QED BY <1>6, <2>3 DEF ToConfirm, Reported
<1> QED BY <1>1, <1>2, <1>3, <1>4, <1>5, <1>6 DEF Exists

\* No transfer is stuck between its halves, and no row is lost: while the supervisor
\* has not both halves in its books, one of them is in the hands of a goroutine, in a
\* message, in a pool or in a report, and the pool of confirmations expects it.
THEOREM NoTransferStuck == Spec => []NothingStuck
<1>1. BrokerInv => NothingStuck
  <2> SUFFICES ASSUME NEW loc, Tracked(loc), NEW t \in 1 .. nowDataNum
               PROVE  IF t \notin Raw
                        THEN Itx(t) \in executed \/ OnTheWay(Itx(t))
                        ELSE \/ Len(RawTx2BrokerTx[t]) = 2
                             \/ \E h \in DOMAIN brokerConfirm1Pool \cup DOMAIN brokerConfirm2Pool :
                                  h.tx = t /\ (OnTheWay(h) \/ ToConfirm(h))
    BY DEF BrokerInv, NothingStuck
  <2>1. nowDataNum \in 0 .. Len(Rows) /\ t \in Tx /\ t <= nowDataNum
    BY RowFacts DEF Tracked, Books
  <2>2. CASE t \notin Raw
    <3>1. Itx(t) \in Item /\ Made(Itx(t)) /\ Itx(t).kind = "itx" /\ Itx(t).tx = t
      BY <2>1, <2>2, ItemFacts DEF Made
    <3>2. loc[Itx(t)] # Nowhere /\ Suits("itx", loc[Itx(t)])
      BY <2>1, <3>1 DEF Tracked, Lives
    <3>3. ASSUME loc[Itx(t)] = Over PROVE Itx(t) \in executed
      BY <3>1, <3>3 DEF Tracked, Books, Done, Over
    <3> QED BY <2>2, <3>1, <3>2, <3>3, PlaceMeans DEF Suits
  <2>3. CASE t \in Raw
    <3>1. /\ Tx1(t) \in Item /\ Made(Tx1(t)) /\ Tx1(t).kind = "tx1" /\ Tx1(t).tx = t
          /\ Tx2(t) \in Item /\ Made(Tx2(t)) /\ Tx2(t).kind = "tx2" /\ Tx2(t).tx = t
      BY <2>1, <2>3, ItemFacts DEF Made
    <3>2. loc[Tx1(t)] # Nowhere
      BY <2>1, <3>1 DEF Tracked, Lives
    <3>3. CASE loc[Tx1(t)] # Over
      <4>1. Tx1(t) \in DOMAIN brokerConfirm1Pool
        BY <3>1, <3>2 DEF Tracked, Books, Known
      <4> QED BY <2>3, <3>1, <3>2, <3>3, <4>1, PlaceMeans
    <3>4. CASE loc[Tx1(t)] = Over /\ loc[Tx2(t)] # Over
      <4>1. loc[Tx2(t)] # Nowhere
        BY <2>3, <3>4 DEF Tracked, Lives
      <4>2. Tx2(t) \in DOMAIN brokerConfirm2Pool
        BY <3>1, <4>1 DEF Tracked, Books, Known
      <4> QED BY <2>3, <3>1, <3>4, <4>1, <4>2, PlaceMeans
    <3>5. CASE loc[Tx1(t)] = Over /\ loc[Tx2(t)] = Over
      <4>1. RawTx2BrokerTx[t] = <<Tx1(t), Tx2(t)>>
        BY <2>1, <2>3, <3>5 DEF Tracked, Books, Noted
      <4>2. Len(RawTx2BrokerTx[t]) = 2
        BY <4>1
      <4> QED BY <2>3, <4>2
    <3> QED BY <3>3, <3>4, <3>5
  <2> QED BY <2>2, <2>3
<1> QED BY <1>1, BrokerAlways, PTL

LEMMA OneNote == ASSUME NEW a, NEW q, q = <<a>> PROVE [i \in DOMAIN q |-> q[i].kind] = <<a.kind>>
<1>1. DOMAIN q = {1} /\ q[1] = a
  OBVIOUS
<1>2. [i \in {1} |-> a.kind] = <<a.kind>>
  OBVIOUS
<1> QED BY <1>1, <1>2

LEMMA BothNotes == ASSUME NEW a, NEW b, NEW q, q = <<a, b>> PROVE [i \in DOMAIN q |-> q[i].kind] = <<a.kind, b.kind>>
<1> DEFINE r == <<a.kind, b.kind>>
           f == [i \in DOMAIN q |-> q[i].kind]
<1>1. DOMAIN q = {1, 2} /\ q[1] = a /\ q[2] = b
  OBVIOUS
<1>2. DOMAIN r = {1, 2} /\ r[1] = a.kind /\ r[2] = b.kind /\ r \in Seq({a.kind, b.kind}) /\ Len(r) = 2
  OBVIOUS
<1>3. f \in Seq({a.kind, b.kind}) /\ Len(f) = 2 /\ f[1] = a.kind /\ f[2] = b.kind
  <2>1. \A i \in {1, 2} : f[i] = q[i].kind
    BY <1>1
  <2>2. 1 .. 2 = {1, 2}
    OBVIOUS
  <2> QED BY <1>1, <2>1, <2>2
<1> HIDE DEF f, r
<1>4. \A i \in 1 .. 2 : f[i] = r[i]
  BY <1>2, <1>3
<1>5. f = r
  BY <1>2, <1>3, <1>4
<1> QED BY <1>5 DEF f, r

\* What the blocks and the books say agrees with where the halves are.
LEMMA PhaseIs == ASSUME NEW loc, Tracked(loc), NEW t \in Raw PROVE Phase(t) = PhaseAt(loc, t)
<1> DEFINE n1 == Cardinality(Halves("tx1", t))
           n2 == Cardinality(Halves("tx2", t))
           q == RawTx2BrokerTx[t]
           books == [i \in DOMAIN q |-> q[i].kind]
           a == Tx1(t)
           b == Tx2(t)
           e0 == <<>>
           e1 == <<"tx1">>
           e2 == <<"tx1", "tx2">>
<1>1. /\ a \in Item /\ a.kind = "tx1" /\ a.tx = t /\ a.copy = 0
      /\ b \in Item /\ b.kind = "tx2" /\ b.tx = t /\ b.copy = 0
  BY RowFacts, ItemFacts
<1>2. /\ executed = Done(loc) /\ q = Noted(loc, t)
      /\ (loc[b] # Nowhere <=> loc[a] = Over)
  BY RowFacts DEF Tracked, Books, Lives
<1>3. Nowhere[1] = "nowhere" /\ Over[1] = "over"
  BY DEF Nowhere, Over
<1>4. \A x \in Done(loc) : x \in Item /\ x.copy = 0
  BY <1>3 DEF Done, Tracked, Lives, Made
<1> HIDE DEF a, b
<1>5. Halves("tx1", t) = IF a \in Done(loc) THEN {a} ELSE {}
  <2>1. \A x : x \in Halves("tx1", t) <=> x \in Done(loc) /\ x.kind = "tx1" /\ x.tx = t
    BY <1>2 DEF Halves
  <2>2. \A x \in Halves("tx1", t) : x = a
    BY <1>4, <2>1, ItemFacts DEF a
  <2> QED BY <1>1, <2>1, <2>2
<1>6. Halves("tx2", t) = IF b \in Done(loc) THEN {b} ELSE {}
  <2>1. \A x : x \in Halves("tx2", t) <=> x \in Done(loc) /\ x.kind = "tx2" /\ x.tx = t
    BY <1>2 DEF Halves
  <2>2. \A x \in Halves("tx2", t) : x = b
    BY <1>4, <2>1, ItemFacts DEF b
  <2> QED BY <1>1, <2>1, <2>2
<1>7. n1 = (IF a \in Done(loc) THEN 1 ELSE 0) /\ n2 = (IF b \in Done(loc) THEN 1 ELSE 0)
  BY <1>5, <1>6, FS_EmptySet, FS_Singleton
<1>8. /\ loc[a] # Over => books = e0
      /\ loc[a] = Over /\ loc[b] # Over => books = e1
      /\ loc[a] = Over /\ loc[b] = Over => books = e2
  <2>1. ASSUME loc[a] # Over PROVE books = <<>>
    <3>1. q = <<>>
      BY <1>2, <2>1 DEF Noted, a
    <3>2. DOMAIN q = {}
      BY <3>1
    <3> QED BY <3>2
  <2>2. ASSUME loc[a] = Over, loc[b] # Over PROVE books = <<"tx1">>
    <3>1. q = <<a>>
      BY <1>2, <2>2 DEF Noted, a, b
    <3> HIDE DEF q
    <3>2. books = <<a.kind>>
      BY <3>1, OneNote
    <3> QED BY <1>1, <3>2
  <2>3. ASSUME loc[a] = Over, loc[b] = Over PROVE books = <<"tx1", "tx2">>
    <3>1. q = <<a, b>>
      BY <1>2, <2>3 DEF Noted, a, b
    <3> HIDE DEF q
    <3>2. books = <<a.kind, b.kind>>
      BY <3>1, BothNotes
    <3> QED BY <1>1, <3>2
  <2> QED BY <2>1, <2>2, <2>3
<1>9. /\ loc[a] = Over => a \in Done(loc)
      /\ b \in Done(loc) => loc[a] = Over
      /\ loc[b] = Over => b \in Done(loc)
  BY <1>1, <1>2, <1>3 DEF Done
<1>10. e0 # e1 /\ e0 # e2 /\ e1 # e2
  OBVIOUS
<1>11. Phase(t) = CASE n1 = 0 /\ n2 = 0 /\ books = e0 -> "new"
                    [] n1 = 1 /\ n2 = 0 /\ books \in {e0, e1} -> "paid in"
                    [] n1 = 1 /\ n2 = 1 /\ books = e1 -> "paid out"
                    [] n1 = 1 /\ n2 = 1 /\ books = e2 -> "finished"
                    [] OTHER -> "broken"
  BY DEF Phase
<1> HIDE DEF n1, n2, books, e0, e1, e2
<1>12. PhaseAt(loc, t) = IF a \notin Done(loc) THEN "new" ELSE IF b \notin Done(loc) THEN "paid in"
                         ELSE IF loc[b] # Over THEN "paid out" ELSE "finished"
  BY DEF PhaseAt, a, b
<1>13. CASE a \notin Done(loc)
  BY <1>7, <1>8, <1>9, <1>11, <1>12, <1>13
<1>14. CASE a \in Done(loc) /\ b \notin Done(loc)
  <2>1. n1 = 1 /\ n2 = 0 /\ books \in {e0, e1}
    BY <1>7, <1>8, <1>9, <1>14
  <2>2. n1 # 0 /\ n2 # 1
    BY <1>10, <2>1
  <2>3. Phase(t) = "paid in"
    BY ONLY <1>11, <2>1, <2>2, Zenon
  <2> QED BY <1>12, <1>14, <2>3
<1>15. CASE a \in Done(loc) /\ b \in Done(loc) /\ loc[b] # Over
  <2>1. n1 = 1 /\ n2 = 1 /\ books = e1
    BY <1>7, <1>8, <1>9, <1>15
  <2>2. n1 # 0 /\ n2 # 0 /\ books # e2
    BY <1>10, <2>1
  <2>3. Phase(t) = "paid out"
    BY ONLY <1>11, <2>1, <2>2, Zenon
  <2> QED BY <1>12, <1>15, <2>3
<1>16. CASE a \in Done(loc) /\ b \in Done(loc) /\ loc[b] = Over
  <2>1. n1 = 1 /\ n2 = 1 /\ books = e2
    BY <1>7, <1>8, <1>9, <1>16
  <2>2. n1 # 0 /\ n2 # 0 /\ books # e1
    BY <1>10, <2>1
  <2>3. Phase(t) = "finished"
    BY ONLY <1>11, <2>1, <2>2, Zenon
  <2> QED BY <1>12, <1>16, <2>3
<1> QED BY <1>13, <1>14, <1>15, <1>16

PhasesAgree == \A loc : Tracked(loc) => \A t \in Raw : Phase(t) = PhaseAt(loc, t)

\* The broker method does what TwoHalves says: a transfer is paid in, then paid out,
\* then finished in the books, once each, however the two goroutines, the messages and
\* the blocks interleave.  A step moves each transfer by at most one phase.
THEOREM BrokerRefinesTwoHalves == Spec => ImplementsTwoHalves
<1> DEFINE ph == [t \in Raw |-> Phase(t)]
<1>1. Init => H!Init
  <2> SUFFICES ASSUME Init PROVE ph = [t \in Raw |-> "new"]
    BY DEF H!Init
  <2> DEFINE loc == [x \in Item |-> Nowhere]
  <2>1. Tracked(loc)
    BY BrokerInit
  <2>2. \A x \in Item : loc[x][1] = "nowhere"
    BY DEF Nowhere
  <2> HIDE DEF loc
  <2>3. \A t \in Raw : PhaseAt(loc, t) = "new"
    BY <2>2 DEF PhaseAt, Done
  <2>4. \A t \in Raw : Phase(t) = "new"
    BY <2>1, <2>3, PhaseIs
  <2> QED BY <2>4
<1>2. PhasesAgree
  BY PhaseIs DEF PhasesAgree
<1>3. BrokerInv /\ PhasesAgree' /\ [Next]_vars => [H!Next]_ph
  <2> SUFFICES ASSUME BrokerInv, PhasesAgree', [Next]_vars PROVE H!Next \/ ph' = ph
    OBVIOUS
  <2>1. PICK loc : Tracked(loc)
    BY DEF BrokerInv
  <2>2. PICK lo : Tracked(lo)' /\ Advances(loc, lo)
    BY <2>1, BrokerStep
  <2>3. \A t \in Raw : Phase(t) = PhaseAt(loc, t)
    BY <2>1, PhaseIs
  <2>4. \A t \in Raw : Phase(t)' = PhaseAt(lo, t)
    BY <2>2 DEF PhasesAgree
  <2> DEFINE T == {t \in Raw : Phase(t)' # Phase(t)}
  <2>5. \A t \in T : Phase(t)' = H!Succ(Phase(t))
    BY <2>2, <2>3, <2>4 DEF Advances
  <2>6. ph' = [t \in Raw |-> IF t \in T THEN H!Succ(ph[t]) ELSE ph[t]]
    BY <2>5
  <2>7. CASE T = {}
    BY <2>6, <2>7
  <2>8. CASE T # {}
    <3>1. T \in (SUBSET Raw) \ {{}}
      BY <2>8
    <3> QED BY <2>6, <3>1 DEF H!Next
  <2> QED BY <2>7, <2>8
<1> QED BY <1>1, <1>2, <1>3, BrokerAlways, PTL DEF Spec, ImplementsTwoHalves, H!Spec

-----------------------------------------------------------------------------
(* Money.                                                                  *)

\* The ordinary accounts of a shard.
Home(s) == {a \in Account : ~IsBroker(a) /\ Addr2Shard[a] = s}
Held(s, st) == SumFunctionOnSet(st, Home(s))

One(b) == IF b THEN 1 ELSE 0

\* What executing x is worth to ordinary accounts.
Gain(x) == Rows[x.tx].value * (One(~IsBroker(Recipient(x))) - One(~IsBroker(Sender(x))))

LEMMA HomeFinite == ASSUME NEW s PROVE IsFiniteSet(Home(s)) /\ Home(s) \subseteq Account
<1>1. Home(s) \subseteq Account
  BY DEF Home
<1> QED BY <1>1, FS_Subset, ConfigAssumption

\* One account changes.
LEMMA HeldUpdate ==
  ASSUME NEW s, NEW st \in [Account -> Int], NEW tt \in [Account -> Int], NEW y \in Account, NEW d \in Int,
         tt[y] = st[y] + d, \A a \in Account : a # y => tt[a] = st[a]
  PROVE  Held(s, tt) = Held(s, st) + (IF y \in Home(s) THEN d ELSE 0) /\ Held(s, st) \in Int
<1>1. /\ IsFiniteSet(Home(s)) /\ Home(s) \subseteq Account
      /\ \A a \in Home(s) : st[a] \in Int /\ tt[a] \in Int /\ (a # y => tt[a] = st[a])
  BY HomeFinite
<1>2. Held(s, st) \in Int /\ Held(s, tt) \in Int
  BY <1>1, SumStep DEF Held
<1>3. CASE y \in Home(s)
  <2>1. Held(s, tt) = Held(s, st) - st[y] + tt[y]
    BY <1>1, <1>3, SumUpdate DEF Held
  <2>2. st[y] \in Int
    OBVIOUS
  <2> QED BY <1>2, <1>3, <2>1, <2>2
<1>4. CASE y \notin Home(s)
  <2>1. \A a \in Home(s) : st[a] \in Int /\ tt[a] = st[a]
    BY <1>1, <1>4
  <2>2. Held(s, tt) = Held(s, st)
    BY <1>1, <2>1, SumEqual DEF Held
  <2> QED BY <1>2, <1>4, <2>2
<1> QED BY <1>3, <1>4

\* The parties of a transaction that is in the shard txSending chose: an ordinary one
\* has its home there, and pays or receives.
LEMMA Parties ==
  ASSUME NEW s \in Shard, NEW x \in Item, Made(x), Destination(x) = s
  PROVE  /\ Sender(x) \in Account /\ Recipient(x) \in Account /\ Rows[x.tx].value \in Nat
         /\ Sender(x) \in Home(s) <=> ~IsBroker(Sender(x))
         /\ Recipient(x) \in Home(s) <=> ~IsBroker(Recipient(x))
         /\ ~IsBroker(Sender(x)) => Pays(s, x)
         /\ ~IsBroker(Recipient(x)) => Receives(s, x)
<1>1. /\ x.kind \in {"itx", "tx1", "tx2"} /\ x.tx \in Tx
      /\ x.kind = "itx" <=> x.tx \notin Raw
  BY ItemFacts DEF Made
<1>2. Sender(x) \in Account /\ Recipient(x) \in Account /\ Rows[x.tx].value \in Nat
  BY <1>1, RowFacts DEF Sender, Recipient
<1>3. ASSUME ~IsBroker(Sender(x)) PROVE Addr2Shard[Sender(x)] = s
  BY <1>3 DEF Destination
<1>4. ASSUME ~IsBroker(Recipient(x)) PROVE Addr2Shard[Recipient(x)] = s
  <2>1. CASE IsBroker(Sender(x))
    BY <2>1 DEF Destination
  <2>2. CASE ~IsBroker(Sender(x))
    <3>1. x.kind = "itx"
      BY <1>1, <1>4, <2>2, RowFacts DEF Sender, Recipient
    <3>2. Sender(x) = Rows[x.tx].sender /\ Recipient(x) = Rows[x.tx].recipient
      BY <3>1 DEF Sender, Recipient
    <3>3. Addr2Shard[Rows[x.tx].sender] = Addr2Shard[Rows[x.tx].recipient]
      BY <1>1, <1>4, <2>2, <3>1, <3>2 DEF Raw
    <3> QED BY <1>3, <2>2, <3>2, <3>3
  <2> QED BY <2>1, <2>2
<1> QED BY <1>2, <1>3, <1>4 DEF Home, Pays, Receives

\* One turn of the loop of GetUpdateStatusTrie.
LEMMA ExecuteHeld ==
  ASSUME NEW s \in Shard, NEW x \in Item, Made(x), Destination(x) = s, NEW st \in [Account -> Nat]
  PROVE  /\ Execute(s, st, x) \in [Account -> Nat] /\ Held(s, st) \in Int /\ Gain(x) \in Int
         /\ Held(s, Execute(s, st, x)) = Held(s, st) + (IF Pays(s, x) /\ ~Funded(st, x) THEN 0 ELSE Gain(x))
<1> DEFINE v == Rows[x.tx].value
           a == Sender(x)
           b == Recipient(x)
           paid == IF Pays(s, x) THEN [st EXCEPT ![a] = @ - v] ELSE st
           got == IF Receives(s, x) THEN [paid EXCEPT ![b] = @ + v] ELSE paid
           oa == One(~IsBroker(a))
           ob == One(~IsBroker(b))
<1>1. /\ a \in Account /\ b \in Account /\ v \in Nat
      /\ a \in Home(s) <=> ~IsBroker(a)
      /\ b \in Home(s) <=> ~IsBroker(b)
      /\ ~IsBroker(a) => Pays(s, x)
      /\ ~IsBroker(b) => Receives(s, x)
  BY Parties
<1>2. /\ Gain(x) = v * (ob - oa) /\ oa \in {0, 1} /\ ob \in {0, 1}
      /\ oa = 1 <=> ~IsBroker(a)
      /\ ob = 1 <=> ~IsBroker(b)
  BY DEF Gain, One
<1>3. Execute(s, st, x) = IF Pays(s, x) /\ ~(st[a] >= v) THEN st ELSE got
  BY DEF Execute, Funded
<1>4. Funded(st, x) <=> st[a] >= v
  BY DEF Funded
<1> HIDE DEF v, a, b, oa, ob
<1>5. st \in [Account -> Int] /\ \A c \in Account : st[c] \in Nat
  OBVIOUS
<1>6. Held(s, st) \in Int
  <2>1. \A c \in Home(s) : st[c] \in Int
    BY <1>5, HomeFinite
  <2> QED BY <2>1, HomeFinite, SumStep DEF Held
<1>7. Gain(x) \in Int
  BY <1>1, <1>2
<1>8. CASE Pays(s, x) /\ ~(st[a] >= v)
  BY <1>3, <1>4, <1>6, <1>7, <1>8
<1>9. CASE ~(Pays(s, x) /\ ~(st[a] >= v))
  <2>1. paid \in [Account -> Nat] /\ Held(s, paid) = Held(s, st) - v * oa
    <3>1. CASE Pays(s, x)
      <4>1. st[a] \in Nat /\ st[a] >= v /\ st[a] - v \in Nat
        BY <1>1, <1>5, <1>9, <3>1
      <4>2. /\ paid \in [Account -> Nat] /\ paid[a] = st[a] - v
            /\ \A c \in Account : c # a => paid[c] = st[c]
        BY <1>1, <1>5, <3>1, <4>1
      <4> HIDE DEF paid
      <4>3. paid \in [Account -> Int] /\ paid[a] = st[a] + (-v) /\ -v \in Int
        BY <1>1, <4>1, <4>2
      <4>4. Held(s, paid) = Held(s, st) + (IF a \in Home(s) THEN -v ELSE 0)
        BY <1>1, <1>5, <4>2, <4>3, HeldUpdate
      <4>5. (IF a \in Home(s) THEN -v ELSE 0) = - (v * oa)
        BY <1>1, <1>2
      <4> QED BY <1>1, <1>2, <1>6, <4>2, <4>4, <4>5
    <3>2. CASE ~Pays(s, x)
      BY <1>1, <1>2, <1>6, <3>2
    <3> QED BY <3>1, <3>2
  <2> HIDE DEF paid
  <2>2. got \in [Account -> Nat] /\ Held(s, got) = Held(s, paid) + v * ob
    <3>0. Held(s, paid) \in Int
      BY <1>1, <1>2, <1>6, <2>1
    <3>1. CASE Receives(s, x)
      <4>1. paid[b] \in Nat /\ paid[b] + v \in Nat
        BY <1>1, <2>1
      <4>2. /\ got \in [Account -> Nat] /\ got[b] = paid[b] + v
            /\ \A c \in Account : c # b => got[c] = paid[c]
        BY <1>1, <2>1, <3>1, <4>1
      <4> HIDE DEF got
      <4>3. Held(s, got) = Held(s, paid) + (IF b \in Home(s) THEN v ELSE 0)
        BY <1>1, <2>1, <4>2, HeldUpdate
      <4>4. (IF b \in Home(s) THEN v ELSE 0) = v * ob
        BY <1>1, <1>2
      <4> QED BY <4>2, <4>3, <4>4
    <3>2. CASE ~Receives(s, x)
      BY <1>1, <1>2, <2>1, <3>0, <3>2
    <3> QED BY <3>1, <3>2
  <2> HIDE DEF got
  <2>3. Held(s, got) = Held(s, st) + v * (ob - oa)
    <3>1. v * (ob - oa) = v * ob - v * oa /\ v * ob \in Int /\ v * oa \in Int
      BY <1>1, <1>2
    <3> QED BY <1>6, <2>1, <2>2, <3>1
  <2> QED BY <1>2, <1>3, <1>4, <1>6, <1>7, <1>9, <2>2, <2>3
<1> QED BY <1>8, <1>9

\* One more trie: after the next transaction of the block.
Further(s, sts, x) == Append(sts, Execute(s, Last(sts), x))

\* The tries of a block: the first is the trie of the shard, and each leads to the next.
LEMMA TriesSteps ==
  ASSUME NEW s \in Shard, NEW b \in Seq(Item), NEW A, state[s] \in A,
         \A i \in 1 .. Len(b), v \in A : Execute(s, v, b[i]) \in A
  PROVE  /\ Tries(s, b) \in Seq(A) /\ Len(Tries(s, b)) = Len(b) + 1 /\ Tries(s, b)[1] = state[s]
         /\ \A i \in 1 .. Len(b) : Tries(s, b)[i + 1] = Execute(s, Tries(s, b)[i], b[i])
<1> DEFINE n == Len(b)
           D == 1 .. n
           X == {q \in Seq(A) : Len(q) # 0}
           base == <<state[s]>>
           F == [i \in 1 .. n |-> [v \in X |-> Further(s, v, b[i])]]
           R(g) == g = [u \in SUBSET DOMAIN b |->
                          IF u = {} THEN base ELSE Further(s, g[u \ {Max(u)}], b[Max(u)])]
           iter == CHOOSE g : R(g)
<1>1. Tries(s, b) = iter[DOMAIN b]
  BY DEF Tries, FoldLeft, MapThenFoldSet, Further
<1>2. n \in Nat /\ DOMAIN b = D
  OBVIOUS
<1>3. base \in X /\ Len(base) = 1 /\ base[1] = state[s]
  OBVIOUS
<1>4. ASSUME NEW i \in 1 .. n, NEW v \in X
      PROVE  /\ Further(s, v, b[i]) \in X /\ Len(Further(s, v, b[i])) = Len(v) + 1
             /\ Further(s, v, b[i])[Len(v) + 1] = Execute(s, v[Len(v)], b[i])
             /\ \A j \in 1 .. Len(v) : Further(s, v, b[i])[j] = v[j]
  <2>1. v \in Seq(A) /\ Len(v) \in Nat /\ Len(v) # 0 /\ v[Len(v)] \in A
    OBVIOUS
  <2> DEFINE e == Execute(s, v[Len(v)], b[i])
  <2>2. e \in A
    BY <2>1
  <2> HIDE DEF e
  <2>3. Further(s, v, b[i]) = Append(v, e)
    BY DEF Further, Last, e
  <2>4. /\ Append(v, e) \in Seq(A) /\ Len(Append(v, e)) = Len(v) + 1 /\ Append(v, e)[Len(v) + 1] = e
        /\ \A j \in 1 .. Len(v) : Append(v, e)[j] = v[j]
    BY ONLY <2>1, <2>2
  <2>5. Len(v) + 1 # 0
    BY <2>1
  <2> QED BY <2>3, <2>4, <2>5 DEF e
<1> HIDE DEF X, base
<1>5. F \in [1 .. n -> [X -> X]]
  <2>1. \A i \in 1 .. n, v \in X : Further(s, v, b[i]) \in X
    BY <1>4
  <2> HIDE DEF n
  <2> QED BY <2>1
<1>6. PICK g \in [SUBSET (1 .. n) -> X], h \in [0 .. n -> X] : LeftFolds(g, h, n, base, F)
  <2> HIDE DEF n, F
  <2> QED BY <1>2, <1>3, <1>5, LeftFold, Zenon
<1>7. \A u \in SUBSET D : u # {} => Max(u) \in u
  BY <1>2, LastIndex
<1>8. \A i \in D, v \in X : F[i][v] = Further(s, v, b[i])
  <2> HIDE DEF n
  <2> QED OBVIOUS
<1>9. IsFiniteSet(D)
  BY <1>2, LastIndex
<1> HIDE DEF F, n
<1>10. ASSUME NEW u \in SUBSET D
       PROVE  g[u] = IF u = {} THEN base ELSE Further(s, g[u \ {Max(u)}], b[Max(u)])
  <2>1. g[u] = IF u = {} THEN base ELSE F[Max(u)][g[u \ {Max(u)}]]
    BY <1>6 DEF LeftFolds
  <2>2. CASE u = {}
    BY <2>1, <2>2
  <2>3. CASE u # {}
    <3> DEFINE k == Max(u)
    <3>1. k \in D /\ u \ {k} \in SUBSET D
      BY <1>7, <2>3
    <3> HIDE DEF k
    <3>2. g[u \ {k}] \in X
      BY <1>6, <3>1
    <3>3. F[k][g[u \ {k}]] = Further(s, g[u \ {k}], b[k])
      BY <1>8, <3>1, <3>2
    <3>4. g[u] = F[k][g[u \ {k}]]
      BY <2>1, <2>3 DEF k
    <3>5. g[u] = Further(s, g[u \ {k}], b[k])
      BY <3>3, <3>4
    <3> QED BY <2>3, <3>5 DEF k
  <2> QED BY <2>2, <2>3
<1>11. R(g)
  BY <1>2, <1>6, <1>10
<1>12. R(iter)
  <2> HIDE DEF R
  <2> QED BY <1>11, Zenon
<1>13. iter[D] = g[D]
  <2> DEFINE P == {u \in SUBSET D : iter[u] = g[u]}
  <2> HIDE DEF iter, D
  <2>1. ASSUME NEW u \in SUBSET D, \A x \in u : u \ {x} \in P
        PROVE  u \in P
    <3>1. iter[u] = IF u = {} THEN base ELSE Further(s, iter[u \ {Max(u)}], b[Max(u)])
      BY <1>2, <1>12
    <3>2. CASE u = {}
      BY <1>10, <3>1, <3>2
    <3>3. CASE u # {}
      <4> DEFINE k == Max(u)
                 w == u \ {k}
      <4>1. iter[w] = g[w]
        BY <1>7, <2>1, <3>3
      <4> HIDE DEF k
      <4>2. iter[u] = Further(s, iter[w], b[k])
        BY <3>1, <3>3 DEF k
      <4>3. g[u] = Further(s, g[w], b[k])
        BY <1>10, <3>3 DEF k
      <4> HIDE DEF w
      <4>4. iter[u] = g[u]
        BY <4>1, <4>2, <4>3
      <4> QED BY <4>4
    <3> QED BY <3>2, <3>3
  <2>2. D \in P
    <3> HIDE DEF P
    <3> QED BY <1>9, <2>1, SubsetInduction
  <2> QED BY <2>2
<1>14. h[0] = base /\ h[n] = Tries(s, b)
  BY <1>1, <1>2, <1>6, <1>13 DEF LeftFolds
<1>15. ASSUME NEW i \in 1 .. n
       PROVE  /\ h[i - 1] \in X /\ i - 1 \in 0 .. n
              /\ h[i] = Further(s, h[i - 1], b[i])
  <2>1. i - 1 \in 0 .. n
    BY <1>2
  <2>2. h[i] = F[i][h[i - 1]] /\ h[i - 1] \in X
    BY <1>6, <2>1 DEF LeftFolds
  <2> QED BY <1>8, <2>1, <2>2
<1> DEFINE Good(i) == /\ h[i] \in X /\ Len(h[i]) = i + 1 /\ h[i][1] = state[s]
                      /\ \A j \in 1 .. i : h[i][j + 1] = Execute(s, h[i][j], b[j])
           Q == {i \in Nat : i <= n => Good(i)}
<1>16. 0 \in Q
  BY <1>2, <1>3, <1>14
<1>17. ASSUME NEW i \in Nat, i \in Q PROVE i + 1 \in Q
  <2> SUFFICES ASSUME i + 1 <= n PROVE Good(i + 1)
    OBVIOUS
  <2>1. i + 1 \in 1 .. n /\ (i + 1) - 1 = i /\ i <= n
    BY <1>2
  <2>2. Good(i)
    BY <1>17, <2>1
  <2> DEFINE p == h[i]
             q == h[i + 1]
  <2>3. p \in X /\ Len(p) = i + 1 /\ p[1] = state[s] /\ \A j \in 1 .. i : p[j + 1] = Execute(s, p[j], b[j])
    BY <2>2
  <2>4. q = Further(s, p, b[i + 1])
    BY <1>15, <2>1
  <2> HIDE DEF p, q, Good
  <2>5. /\ q \in X /\ Len(q) = (i + 1) + 1 /\ q[(i + 1) + 1] = Execute(s, p[i + 1], b[i + 1])
        /\ \A j \in 1 .. i + 1 : q[j] = p[j]
    <3> DEFINE k == i + 1
    <3>1. k \in 1 .. n /\ p \in X /\ Len(p) = k /\ q = Further(s, p, b[k])
      BY <2>1, <2>3, <2>4
    <3> HIDE DEF k
    <3>2. /\ q \in X /\ Len(q) = k + 1 /\ q[k + 1] = Execute(s, p[k], b[k])
          /\ \A j \in 1 .. k : q[j] = p[j]
      BY <1>4, <3>1
    <3> QED BY <3>2 DEF k
  <2>6. q[1] = state[s]
    BY <2>3, <2>5
  <2>7. ASSUME NEW j \in 1 .. i + 1 PROVE q[j + 1] = Execute(s, q[j], b[j])
    <3>1. CASE j = i + 1
      BY <2>5, <3>1
    <3>2. CASE j # i + 1
      <4>1. j \in 1 .. i /\ j + 1 \in 1 .. i + 1
        BY <3>2
      <4> QED BY <2>3, <2>5, <4>1
    <3> QED BY <3>1, <3>2
  <2> QED BY <2>5, <2>6, <2>7 DEF Good, q
<1>18. \A i \in Nat : i \in Q
  <2> HIDE DEF Q
  <2> QED BY <1>16, <1>17, NatSetInduction
<1>19. Good(n)
  BY <1>2, <1>18
<1> QED BY <1>14, <1>19 DEF X, n

\* By how much the halves in D have changed what ordinary accounts have, for a row and in all.
NetOf(D, t) ==
  One(Tx2(t) \in D) - One(Tx1(t) \in D)
  + One(Itx(t) \in D /\ ~IsBroker(Rows[t].recipient)) - One(Itx(t) \in D /\ ~IsBroker(Rows[t].sender))
Worth(D) == [t \in Tx |-> Rows[t].value * NetOf(D, t)]
Worths(D) == SumFunctionOnSet(Worth(D), Tx)

LEMMA WorthInt == ASSUME NEW D PROVE /\ \A t \in Tx : Worth(D)[t] = Rows[t].value * NetOf(D, t) /\ Worth(D)[t] \in Int
                                     /\ Worths(D) \in Int
<1>1. ASSUME NEW t PROVE NetOf(D, t) \in Int
  BY DEF NetOf, One
<1>2. \A t \in Tx : NetOf(D, t) \in Int
  BY <1>1
<1>3. \A t \in Tx : Rows[t].value \in Int
  BY RowFacts
<1>4. \A t \in Tx : Rows[t].value * NetOf(D, t) \in Int
  BY <1>2, <1>3
<1>5. \A t \in Tx : Worth(D)[t] = Rows[t].value * NetOf(D, t)
  BY DEF Worth
<1>6. \A t \in Tx : Worth(D)[t] \in Int
  BY <1>4, <1>5
<1> QED BY <1>5, <1>6, RowFacts, SumStep DEF Worths

\* One transaction more.
LEMMA WorthsAdd ==
  ASSUME NEW D, NEW x \in Item, Made(x), x \notin D
  PROVE  Worths(D \cup {x}) = Worths(D) + Gain(x) /\ Gain(x) \in Int
<1> DEFINE E == D \cup {x}
           y == x.tx
           v == Rows[y].value
           w == One(~IsBroker(Recipient(x))) - One(~IsBroker(Sender(x)))
<1>1. /\ x.kind \in {"itx", "tx1", "tx2"} /\ y \in Tx /\ v \in Nat
      /\ x.kind = "itx" => x = Itx(y)
      /\ x.kind = "tx1" => x = Tx1(y) /\ y \in Raw
      /\ x.kind = "tx2" => x = Tx2(y) /\ y \in Raw
  BY ItemFacts, RowFacts DEF Made
<1>2. \A t \in Tx : /\ Itx(t).kind = "itx" /\ Itx(t).tx = t /\ Tx1(t).kind = "tx1" /\ Tx1(t).tx = t
                    /\ Tx2(t).kind = "tx2" /\ Tx2(t).tx = t
  BY ItemFacts
<1>3. ASSUME NEW t \in Tx, t # y PROVE NetOf(E, t) = NetOf(D, t)
  <2>1. Itx(t) # x /\ Tx1(t) # x /\ Tx2(t) # x
    BY <1>2, <1>3
  <2>2. (Itx(t) \in E <=> Itx(t) \in D) /\ (Tx1(t) \in E <=> Tx1(t) \in D) /\ (Tx2(t) \in E <=> Tx2(t) \in D)
    BY <2>1
  <2> HIDE DEF E
  <2> QED BY <2>2 DEF NetOf, One
<1>4. NetOf(E, y) = NetOf(D, y) + w
  <2>1. /\ Itx(y) # Tx1(y) /\ Itx(y) # Tx2(y) /\ Tx1(y) # Tx2(y)
    BY <1>1, <1>2
  <2>2. IsBroker(BrokerAddress[1]) /\ (y \in Raw => ~IsBroker(Rows[y].sender) /\ ~IsBroker(Rows[y].recipient))
    BY RowFacts
  <2>3. CASE x.kind = "itx"
    <3>1. x = Itx(y) /\ Sender(x) = Rows[y].sender /\ Recipient(x) = Rows[y].recipient
      BY <1>1, <2>3 DEF Sender, Recipient
    <3>2. Itx(y) \notin D /\ Itx(y) \in E /\ (Tx1(y) \in E <=> Tx1(y) \in D) /\ (Tx2(y) \in E <=> Tx2(y) \in D)
      BY <2>1, <3>1
    <3> HIDE DEF E, y
    <3> QED BY <3>1, <3>2 DEF NetOf, One
  <2>4. CASE x.kind = "tx1"
    <3>1. x = Tx1(y) /\ ~IsBroker(Sender(x)) /\ IsBroker(Recipient(x))
      BY <1>1, <2>2, <2>4 DEF Sender, Recipient
    <3>2. Tx1(y) \notin D /\ Tx1(y) \in E /\ (Itx(y) \in E <=> Itx(y) \in D) /\ (Tx2(y) \in E <=> Tx2(y) \in D)
      BY <2>1, <3>1
    <3> HIDE DEF E, y
    <3> QED BY <3>1, <3>2 DEF NetOf, One
  <2>5. CASE x.kind = "tx2"
    <3>1. x = Tx2(y) /\ IsBroker(Sender(x)) /\ ~IsBroker(Recipient(x))
      BY <1>1, <2>2, <2>5 DEF Sender, Recipient
    <3>2. Tx2(y) \notin D /\ Tx2(y) \in E /\ (Itx(y) \in E <=> Itx(y) \in D) /\ (Tx1(y) \in E <=> Tx1(y) \in D)
      BY <2>1, <3>1
    <3> HIDE DEF E, y
    <3> QED BY <3>1, <3>2 DEF NetOf, One
  <2> QED BY <1>1, <2>3, <2>4, <2>5
<1>5. NetOf(D, y) \in Int /\ w \in Int /\ Gain(x) = v * w
  BY DEF NetOf, One, Gain
<1> DEFINE m == NetOf(D, y)
<1>6. v * (m + w) = v * m + v * w /\ v * w \in Int
  <2> HIDE DEF m, w, v
  <2> QED BY <1>1, <1>5 DEF m
<1>7. /\ \A t \in Tx : Worth(D)[t] = Rows[t].value * NetOf(D, t) /\ Worth(D)[t] \in Int
      /\ \A t \in Tx : Worth(E)[t] = Rows[t].value * NetOf(E, t) /\ Worth(E)[t] \in Int
      /\ Worths(D) \in Int
  <2> HIDE DEF E
  <2> QED BY WorthInt
<1> HIDE DEF E, w, y
<1>8. \A t \in Tx : t # y => Worth(E)[t] = Worth(D)[t]
  BY <1>3, <1>7
<1>9. Worth(E)[y] = Worth(D)[y] + Gain(x)
  BY <1>1, <1>4, <1>5, <1>6, <1>7
<1>10. Worths(E) = Worths(D) - Worth(D)[y] + Worth(E)[y]
  <2> DEFINE f == Worth(D)
             g == Worth(E)
  <2>1. /\ IsFiniteSet(Tx) /\ y \in Tx
        /\ \A t \in Tx : f[t] \in Int /\ g[t] \in Int /\ (t # y => g[t] = f[t])
    BY <1>1, <1>7, <1>8, RowFacts
  <2> HIDE DEF f, g
  <2>2. SumFunctionOnSet(g, Tx) = SumFunctionOnSet(f, Tx) - f[y] + g[y]
    BY ONLY <2>1, SumUpdate
  <2> QED BY <2>2 DEF f, g, Worths
<1>11. Worth(D)[y] \in Int /\ Gain(x) \in Int
  BY <1>1, <1>5, <1>6, <1>7
<1> QED BY <1>7, <1>9, <1>10, <1>11 DEF E

\* Each is executed once, so Net says the same.
LEMMA NetIs == ASSUME NEW loc, Tracked(loc), NEW t \in Tx PROVE Net(t) = NetOf(executed \ refused, t)
<1> DEFINE done(kind) == \E x \in Halves(kind, t) \ refused : TRUE
           D == executed \ refused
<1>1. \A x \in executed : x \in Item /\ Made(x)
  <2>1. Nowhere[1] = "nowhere"
    BY DEF Nowhere
  <2> QED BY <2>1 DEF Tracked, Books, Lives, Done
<1>2. \A x \in executed : x.tx = t => /\ x.kind = "itx" => x = Itx(t)
                                      /\ x.kind = "tx1" => x = Tx1(t)
                                      /\ x.kind = "tx2" => x = Tx2(t)
  BY <1>1, ItemFacts DEF Made
<1>3. /\ Itx(t).kind = "itx" /\ Itx(t).tx = t /\ Tx1(t).kind = "tx1" /\ Tx1(t).tx = t
      /\ Tx2(t).kind = "tx2" /\ Tx2(t).tx = t
  BY ItemFacts
<1>4. (done("itx") <=> Itx(t) \in D) /\ (done("tx1") <=> Tx1(t) \in D) /\ (done("tx2") <=> Tx2(t) \in D)
  BY <1>2, <1>3 DEF Halves
<1>5. Net(t) = One(done("tx2")) - One(done("tx1"))
               + One(done("itx") /\ ~IsBroker(Rows[t].recipient)) - One(done("itx") /\ ~IsBroker(Rows[t].sender))
  BY DEF Net, One
<1> HIDE DEF done, D
<1>6. NetOf(D, t) = One(done("tx2")) - One(done("tx1"))
               + One(done("itx") /\ ~IsBroker(Rows[t].recipient)) - One(done("itx") /\ ~IsBroker(Rows[t].sender))
  BY <1>4 DEF NetOf, One
<1> QED BY <1>5, <1>6 DEF D

\* What the first i transactions of a block that were not refused add to D.
Kept(s, b, tr, i) == {b[j] : j \in {j \in 1 .. i : ~(Pays(s, b[j]) /\ ~Funded(tr[j], b[j]))}}

\* A block changes what the ordinary accounts of its shard have by what its transactions say.
LEMMA BlockHeld ==
  ASSUME NEW s \in Shard, NEW b \in Seq(Item), Distinct(b), state[s] \in [Account -> Nat], NEW D,
         \A i \in 1 .. Len(b) : Made(b[i]) /\ Destination(b[i]) = s /\ b[i] \notin D
  PROVE  LET tr == Tries(s, b)
         IN  /\ tr \in Seq([Account -> Nat]) /\ Len(tr) = Len(b) + 1
             /\ Held(s, tr[Len(b) + 1]) = Held(s, state[s]) + Worths(D \cup Kept(s, b, tr, Len(b))) - Worths(D)
<1> DEFINE A == [Account -> Nat]
           n == Len(b)
<1>1. n \in Nat /\ \A i \in 1 .. n : b[i] \in Item
  OBVIOUS
<1>2. \A i \in 1 .. n, v \in A : Execute(s, v, b[i]) \in A
  BY <1>1, ExecuteHeld
<1>3. PICK tr : tr = Tries(s, b)
  OBVIOUS
<1>4. /\ tr \in Seq(A) /\ Len(tr) = n + 1 /\ tr[1] = state[s]
      /\ \A i \in 1 .. n : tr[i + 1] = Execute(s, tr[i], b[i])
  <2> HIDE DEF A
  <2>1. state[s] \in A
    BY DEF A
  <2> QED BY <1>2, <1>3, <2>1, TriesSteps
<1>5. \A i \in 1 .. n + 1 : tr[i] \in A
  BY <1>1, <1>4
<1> DEFINE K(i) == Kept(s, b, tr, i)
           Good(i) == Held(s, tr[i + 1]) = Held(s, state[s]) + Worths(D \cup K(i)) - Worths(D)
           Q == {i \in Nat : i <= n => Good(i)}
<1>6. \A E : Worths(E) \in Int
  BY WorthInt
<1>7. \A i \in 1 .. n + 1 : Held(s, tr[i]) \in Int
  <2>1. \A i \in 1 .. n + 1 : \A a \in Home(s) : tr[i][a] \in Int
    BY <1>5, HomeFinite
  <2> QED BY <2>1, HomeFinite, SumStep DEF Held
<1>8. 0 \in Q
  <2>1. K(0) = {}
    BY DEF Kept
  <2>2. D \cup K(0) = D
    BY <2>1
  <2>3. 1 \in 1 .. n + 1 /\ 0 + 1 = 1
    BY <1>1
  <2>4. Held(s, tr[0 + 1]) = Held(s, state[s]) /\ Held(s, state[s]) \in Int /\ Worths(D) \in Int
    BY <1>4, <1>6, <1>7, <2>3
  <2>5. Held(s, state[s]) = Held(s, state[s]) + Worths(D) - Worths(D)
    <3> DEFINE h == Held(s, state[s])
               w == Worths(D)
    <3>1. h \in Int /\ w \in Int
      BY <2>4
    <3> HIDE DEF h, w
    <3>2. h = h + w - w
      BY <3>1
    <3> QED BY <3>2 DEF h, w
  <2> QED BY <2>2, <2>4, <2>5
<1>9. ASSUME NEW i \in Nat, i \in Q PROVE i + 1 \in Q
  <2> SUFFICES ASSUME i + 1 <= n PROVE Good(i + 1)
    OBVIOUS
  <2> DEFINE k == i + 1
             x == b[k]
             E == D \cup K(i)
             no == Pays(s, x) /\ ~Funded(tr[k], x)
  <2>1. Good(i) /\ k \in 1 .. n /\ k \in 1 .. n + 1 /\ k + 1 \in 1 .. n + 1 /\ 1 \in 1 .. n + 1
    BY <1>1, <1>9
  <2>2. /\ x \in Item /\ Made(x) /\ Destination(x) = s /\ x \notin D /\ tr[k] \in A
        /\ tr[k + 1] = Execute(s, tr[k], x)
    BY <1>1, <1>4, <1>5, <2>1
  <2>3. x \notin E
    <3>1. \A j \in 1 .. i : b[j] # b[k]
      <4>1. \A j \in 1 .. i : j \in 1 .. n /\ j # k
        BY <1>1, <2>1
      <4> QED BY <2>1, <4>1 DEF Distinct
    <3> QED BY <2>2, <3>1 DEF Kept
  <2>4. D \cup K(k) = IF no THEN E ELSE E \cup {x}
    <3>1. \A j : j \in 1 .. k <=> j \in 1 .. i \/ j = k
      BY <2>1
    <3> QED BY <3>1 DEF Kept
  <2>5. Held(s, tr[k + 1]) = Held(s, tr[k]) + (IF no THEN 0 ELSE Gain(x))
    <3> HIDE DEF k, x
    <3> QED BY <2>2, ExecuteHeld
  <2>6. Worths(E \cup {x}) = Worths(E) + Gain(x) /\ Gain(x) \in Int
    <3> HIDE DEF E, x
    <3> QED BY <2>2, <2>3, WorthsAdd
  <2>7. Held(s, tr[k]) = Held(s, state[s]) + Worths(E) - Worths(D)
    BY <2>1
  <2>8. /\ Held(s, tr[k]) \in Int /\ Held(s, state[s]) \in Int /\ Worths(E) \in Int /\ Worths(D) \in Int
        /\ Worths(D \cup K(k)) \in Int
    BY <1>4, <1>6, <1>7, <2>1
  <2> DEFINE h0 == Held(s, state[s])
             h1 == Held(s, tr[k])
             h2 == Held(s, tr[k + 1])
             w0 == Worths(D)
             w1 == Worths(E)
             w2 == Worths(D \cup K(k))
             g == Gain(x)
  <2>9. w2 = IF no THEN w1 ELSE w1 + g
    BY <2>4, <2>6
  <2>10. /\ h2 = h1 + (IF no THEN 0 ELSE g) /\ h1 = h0 + w1 - w0
         /\ h0 \in Int /\ h1 \in Int /\ w0 \in Int /\ w1 \in Int /\ w2 \in Int /\ g \in Int
    BY <2>5, <2>6, <2>7, <2>8
  <2> HIDE DEF h0, h1, h2, w0, w1, w2, g, no
  <2>11. h2 = h0 + w2 - w0
    BY <2>9, <2>10
  <2> QED BY <2>11 DEF h0, h2, w0, w2
<1>10. n \in Q
  <2> HIDE DEF Q
  <2> QED BY <1>1, <1>8, <1>9, NatSetInduction
<1>11. Good(n)
  BY <1>1, <1>10
<1> QED BY <1>3, <1>4, <1>11

-----------------------------------------------------------------------------
\* What all ordinary accounts have, each in its home.
Ordinary == {a \in Account : ~IsBroker(a)}
Wealth(st) == [a \in Ordinary |-> st[Addr2Shard[a]][a]]
Total(st) == SumFunctionOnSet(Wealth(st), Ordinary)

LEMMA TotalUpdate ==
  ASSUME NEW s \in Shard, NEW st \in [Shard -> [Account -> Nat]], NEW v \in [Account -> Nat],
         NEW tt, tt = [st EXCEPT ![s] = v]
  PROVE  /\ Total(tt) = Total(st) - Held(s, st[s]) + Held(s, v)
         /\ Total(st) \in Int /\ Held(s, st[s]) \in Int /\ Held(s, v) \in Int
<1> DEFINE f == Wealth(st)
           g == Wealth(tt)
           O == Ordinary \ Home(s)
           H0 == Home(s)
<1>1. IsFiniteSet(Ordinary) /\ IsFiniteSet(O) /\ IsFiniteSet(H0) /\ O \cup H0 = Ordinary /\ O \cap H0 = {}
  <2>1. IsFiniteSet(Account) /\ Ordinary \subseteq Account /\ H0 \subseteq Ordinary
    BY ConfigAssumption DEF Ordinary, Home
  <2>2. IsFiniteSet(Ordinary) /\ O \subseteq Ordinary
    BY <2>1, FS_Subset
  <2> QED BY <2>1, <2>2, FS_Subset
<1>2. \A a \in Ordinary : a \in Account /\ Addr2Shard[a] \in Shard
  BY RowFacts DEF Ordinary
<1>3. tt \in [Shard -> [Account -> Nat]] /\ tt[s] = v /\ \A u \in Shard : u # s => tt[u] = st[u]
  OBVIOUS
<1>4. \A a \in Ordinary : /\ f[a] = st[Addr2Shard[a]][a] /\ f[a] \in Int
                          /\ g[a] = tt[Addr2Shard[a]][a] /\ g[a] \in Int
  BY <1>2, <1>3 DEF Wealth
<1>5. /\ \A a \in O : Addr2Shard[a] # s
      /\ \A a \in H0 : Addr2Shard[a] = s /\ a \in Ordinary
  BY <1>2 DEF Home, Ordinary
<1> HIDE DEF f, g, O, H0
<1>6. \A a \in O : f[a] \in Int /\ g[a] = f[a]
  BY <1>1, <1>2, <1>3, <1>4, <1>5
<1>7. \A a \in H0 : f[a] = st[s][a] /\ st[s][a] \in Int /\ g[a] = v[a] /\ v[a] \in Int
  BY <1>2, <1>3, <1>4, <1>5
<1>8. SumFunctionOnSet(f, Ordinary) = SumFunctionOnSet(f, O) + SumFunctionOnSet(f, H0)
  <2>1. \A a \in O \cup H0 : f[a] \in Int
    BY <1>1, <1>4
  <2>2. SumFunctionOnSet(f, O \cup H0) = SumFunctionOnSet(f, O) + SumFunctionOnSet(f, H0)
    BY <1>1, <2>1, SumUnion
  <2> QED BY <1>1, <2>2
<1>9. SumFunctionOnSet(g, Ordinary) = SumFunctionOnSet(g, O) + SumFunctionOnSet(g, H0)
  <2>1. \A a \in O \cup H0 : g[a] \in Int
    BY <1>1, <1>4
  <2>2. SumFunctionOnSet(g, O \cup H0) = SumFunctionOnSet(g, O) + SumFunctionOnSet(g, H0)
    BY <1>1, <2>1, SumUnion
  <2> QED BY <1>1, <2>2
<1>10. SumFunctionOnSet(g, O) = SumFunctionOnSet(f, O) /\ SumFunctionOnSet(f, O) \in Int
  BY <1>1, <1>6, SumEqual, SumStep
<1>11. SumFunctionOnSet(f, H0) = SumFunctionOnSet(st[s], H0) /\ SumFunctionOnSet(st[s], H0) \in Int
  BY <1>1, <1>7, SumEqual, SumStep
<1>12. SumFunctionOnSet(g, H0) = SumFunctionOnSet(v, H0) /\ SumFunctionOnSet(v, H0) \in Int
  BY <1>1, <1>7, SumEqual, SumStep
<1>13. /\ Total(st) = SumFunctionOnSet(f, Ordinary) /\ Total(tt) = SumFunctionOnSet(g, Ordinary)
       /\ Held(s, st[s]) = SumFunctionOnSet(st[s], H0) /\ Held(s, v) = SumFunctionOnSet(v, H0)
  BY DEF Total, Held, f, g, H0
<1> QED BY <1>8, <1>9, <1>10, <1>11, <1>12, <1>13

-----------------------------------------------------------------------------
\* What the places do not say: types, and the sum of what accounts have.
Typed ==
  /\ TxQueue \in [Shard -> Seq(Item)] /\ state \in [Shard -> [Account -> Nat]] /\ refused \subseteq executed
  /\ stopped \subseteq Shard
  /\ \A h \in DOMAIN brokerConfirm1Pool : brokerConfirm1Pool[h] = h.tx
  /\ \A h \in DOMAIN brokerConfirm2Pool : brokerConfirm2Pool[h] = h.tx
Balanced == Total(state) = Init_Balance * Cardinality(Ordinary) + Worths(executed \ refused)

MoneyInv == BrokerInv /\ Typed /\ Balanced

LEMMA OrdinaryFinite == IsFiniteSet(Ordinary) /\ Ordinary \subseteq Account /\ Cardinality(Ordinary) \in Nat
<1>1. Ordinary \subseteq Account /\ IsFiniteSet(Account)
  BY ConfigAssumption DEF Ordinary
<1>2. IsFiniteSet(Ordinary)
  BY <1>1, FS_Subset
<1> QED BY <1>1, <1>2, FS_CardinalityType

LEMMA MoneyInit == ASSUME Init PROVE MoneyInv
<1>1. BrokerInv
  BY BrokerInit DEF BrokerInv
<1>2. Init_Balance \in Nat
  BY ConfigAssumption
<1>3. /\ state = [s \in Shard |-> [a \in Account |-> Init_Balance]] /\ executed = {} /\ refused = {}
      /\ TxQueue = [s \in Shard |-> <<>>] /\ brokerConfirm1Pool = <<>> /\ brokerConfirm2Pool = <<>> /\ stopped = {}
  BY DEF Init
<1>4. Typed
  <2>1. DOMAIN <<>> = {}
    OBVIOUS
  <2> QED BY <1>2, <1>3, <2>1 DEF Typed
<1>5. Balanced
  <2> DEFINE W == Wealth(state)
             D == executed \ refused
             V == Worth(D)
  <2>1. \A a \in Ordinary : W[a] = Init_Balance
    BY <1>3, RowFacts DEF Wealth, Ordinary
  <2>2. \A t \in Tx : V[t] = 0
    <3>1. \A t \in Tx : V[t] = Rows[t].value * NetOf(D, t) /\ Rows[t].value \in Nat
      BY WorthInt, RowFacts
    <3>2. ASSUME NEW t \in Tx PROVE NetOf(D, t) = 0
      <4>1. Tx1(t) \notin D /\ Tx2(t) \notin D /\ Itx(t) \notin D
        BY <1>3
      <4> QED BY <4>1 DEF NetOf, One
    <3>3. \A v \in Nat : v * 0 = 0
      OBVIOUS
    <3> HIDE DEF V
    <3> QED BY <3>1, <3>2, <3>3
  <2> HIDE DEF W, V, D
  <2>3. SumFunctionOnSet(W, Ordinary) = Init_Balance * Cardinality(Ordinary)
    BY <1>2, <2>1, OrdinaryFinite, SumConstant
  <2>4. SumFunctionOnSet(V, Tx) = 0 * Cardinality(Tx) /\ Cardinality(Tx) \in Nat
    <3>1. IsFiniteSet(Tx) /\ 0 \in Int
      BY RowFacts
    <3> QED BY ONLY <2>2, <3>1, SumConstant, FS_CardinalityType
  <2>5. Init_Balance * Cardinality(Ordinary) \in Int
    BY <1>2, OrdinaryFinite
  <2> QED BY <2>3, <2>4, <2>5 DEF Balanced, Total, Worths, W, V, D
<1> QED BY <1>1, <1>4, <1>5 DEF MoneyInv

\* A block.
LEMMA CommitMoney ==
  ASSUME NEW loc, Tracked(loc), Typed, Balanced, NEW s \in Shard, CommitBlock(s)
  PROVE  Typed' /\ Balanced'
<1> DEFINE b == Packed(s)
           n == Len(b)
           tr == Tries(s, b)
           D == executed \ refused
           A == [Account -> Nat]
<1>1. /\ TxQueue' = [TxQueue EXCEPT ![s] = Rest(s)] /\ executed' = executed \cup ToSet(b)
      /\ state' = [state EXCEPT ![s] = Last(tr)]
      /\ refused' = refused \cup {b[i] : i \in {i \in DOMAIN b : Pays(s, b[i]) /\ ~Funded(tr[i], b[i])}}
      /\ UNCHANGED <<brokerConfirm1Pool, brokerConfirm2Pool, stopped>>
  BY DEF CommitBlock, supVars, Packed, Rest
<1>2. /\ TxQueue \in [Shard -> Seq(Item)] /\ state \in [Shard -> A] /\ refused \subseteq executed
      /\ Slice(TxQueue[s], loc, InPool(s)) /\ executed = Done(loc)
  BY DEF Typed, Tracked, Located, Books
<1>3. /\ b \in Seq(Item) /\ Rest(s) \in Seq(Item) /\ Distinct(b)
      /\ \A x : Holds(b, x) => Holds(TxQueue[s], x)
  BY <1>2, PackedHolds DEF Slice
<1> HIDE DEF b
<1>4. n \in Nat /\ DOMAIN b = 1 .. n /\ \A i \in 1 .. n : b[i] \in Item /\ Holds(b, b[i])
  BY <1>3 DEF Holds
<1>5. ASSUME NEW i \in 1 .. n
      PROVE  Made(b[i]) /\ Destination(b[i]) = s /\ b[i] \notin executed
  <2>1. b[i] \in Item /\ loc[b[i]] = InPool(s)
    BY <1>2, <1>3, <1>4 DEF Slice
  <2>2. InPool(s) # Nowhere /\ InPool(s)[1] = "pool"
    BY DEF InPool, Nowhere
  <2> QED BY <1>2, <2>1, <2>2 DEF Tracked, Lives, Directed, Done
<1>6. state[s] \in A
  BY <1>2
<1>7. /\ tr \in Seq(A) /\ Len(tr) = n + 1
      /\ Held(s, tr[n + 1]) = Held(s, state[s]) + Worths(D \cup Kept(s, b, tr, n)) - Worths(D)
  <2>1. \A i \in 1 .. n : Made(b[i]) /\ Destination(b[i]) = s /\ b[i] \notin D
    BY <1>5
  <2> HIDE DEF D
  <2> QED BY <1>3, <1>6, <2>1, BlockHeld
<1> HIDE DEF tr
<1>8. Last(tr) = tr[n + 1] /\ tr[n + 1] \in A
  BY <1>4, <1>7 DEF Last
<1>9. \A x : x \in ToSet(b) <=> \E i \in 1 .. n : x = b[i]
  BY <1>4 DEF ToSet
<1> HIDE DEF A
<1>10. Typed'
  <2>1. TxQueue' \in [Shard -> Seq(Item)]
    BY <1>1, <1>2, <1>3
  <2>2. state' \in [Shard -> A]
    BY <1>1, <1>2, <1>8
  <2>3. refused' \subseteq executed'
    BY <1>1, <1>2, <1>4, <1>9
  <2> QED BY <1>1, <2>1, <2>2, <2>3 DEF Typed, A
<1>11. executed' \ refused' = D \cup Kept(s, b, tr, n)
  <2> DEFINE No(i) == Pays(s, b[i]) /\ ~Funded(tr[i], b[i])
  <2>1. \A x : x \in refused' <=> x \in refused \/ \E i \in 1 .. n : No(i) /\ x = b[i]
    BY <1>1, <1>4
  <2>2. \A x : x \in Kept(s, b, tr, n) <=> \E i \in 1 .. n : ~No(i) /\ x = b[i]
    BY DEF Kept
  <2>3. \A i, j \in 1 .. n : b[i] = b[j] => i = j
    BY <1>3 DEF Distinct
  <2>4. \A i \in 1 .. n : b[i] \notin executed
    BY <1>5
  <2> HIDE DEF No
  <2>5. \A x : x \in executed' <=> x \in executed \/ \E i \in 1 .. n : x = b[i]
    BY <1>1, <1>9
  <2>6. ASSUME NEW x PROVE x \in executed' \ refused' <=> x \in D \/ x \in Kept(s, b, tr, n)
    <3>1. CASE \E i \in 1 .. n : x = b[i]
      <4>1. PICK i \in 1 .. n : x = b[i]
        BY <3>1
      <4>2. x \notin executed /\ x \notin refused /\ x \notin D
        BY <1>2, <2>4, <4>1
      <4>3. (x \in refused' <=> No(i)) /\ (x \in Kept(s, b, tr, n) <=> ~No(i)) /\ x \in executed'
        BY <2>1, <2>2, <2>3, <2>5, <4>1, <4>2
      <4> QED BY <4>2, <4>3
    <3>2. CASE ~ \E i \in 1 .. n : x = b[i]
      BY <2>1, <2>2, <2>5, <3>2
    <3> QED BY <3>1, <3>2
  <2> QED BY <2>6
<1>12. /\ Total(state') = Total(state) - Held(s, state[s]) + Held(s, tr[n + 1])
       /\ Total(state) \in Int /\ Held(s, state[s]) \in Int /\ Held(s, tr[n + 1]) \in Int
  <2>1. state' = [state EXCEPT ![s] = tr[n + 1]]
    BY <1>1, <1>8
  <2> QED BY <1>2, <1>8, <2>1, TotalUpdate DEF A
<1>13. Balanced'
  <2> DEFINE c == Init_Balance * Cardinality(Ordinary)
             E == D \cup Kept(s, b, tr, n)
  <2>1. Total(state) = c + Worths(D) /\ c \in Int
    BY OrdinaryFinite, ConfigAssumption DEF Balanced
  <2>2. Worths(D) \in Int /\ Worths(E) \in Int
    BY WorthInt
  <2> HIDE DEF c, D, E
  <2>3. Total(state') = c + Worths(E)
    BY <1>7, <1>12, <2>1, <2>2 DEF E
  <2>4. Balanced' <=> Total(state') = c + Worths(executed' \ refused')
    BY DEF Balanced, Total, Wealth, Worths, Worth, c
  <2> QED BY <1>11, <2>3, <2>4 DEF E
<1> QED BY <1>10, <1>13

\* Any other step leaves the tries alone.
LEMMA OtherMoney ==
  ASSUME Typed, Balanced, UNCHANGED <<state, executed, refused>>, TxQueue' \in [Shard -> Seq(Item)],
         stopped' \subseteq Shard,
         \A h \in DOMAIN brokerConfirm1Pool' : brokerConfirm1Pool'[h] = h.tx,
         \A h \in DOMAIN brokerConfirm2Pool' : brokerConfirm2Pool'[h] = h.tx
  PROVE  Typed' /\ Balanced'
<1>1. Typed'
  BY DEF Typed
<1>2. Balanced'
  BY DEF Balanced, Total, Wealth, Worths, Worth
<1> QED BY <1>1, <1>2

LEMMA MoneyStep == ASSUME MoneyInv, [Next]_vars PROVE Typed' /\ Balanced'
<1>0. Typed /\ Balanced
  BY DEF MoneyInv
<1>1. PICK loc : Tracked(loc)
  BY DEF MoneyInv, BrokerInv
<1>2. /\ TxQueue \in [Shard -> Seq(Item)]
      /\ \A h \in DOMAIN brokerConfirm1Pool : brokerConfirm1Pool[h] = h.tx
      /\ \A h \in DOMAIN brokerConfirm2Pool : brokerConfirm2Pool[h] = h.tx
      /\ stopped \subseteq Shard
  BY <1>0 DEF Typed
<1>3. ASSUME NEW pool, NEW xs, \A h \in DOMAIN pool : pool[h] = h.tx
      PROVE  \A h \in DOMAIN Register(pool, xs) : Register(pool, xs)[h] = h.tx
  BY <1>3 DEF Register
<1>4. CASE dealTxByBroker
  <2>1. PICK xs : brokerConfirm1Pool' = Register(brokerConfirm1Pool, xs)
    BY <1>4 DEF dealTxByBroker
  <2>2. UNCHANGED <<state, stopped, executed, refused, TxQueue, brokerConfirm2Pool>>
    BY <1>4 DEF dealTxByBroker, shardVars
  <2> QED BY <1>0, <1>2, <1>3, <2>1, <2>2, OtherMoney
<1>5. ASSUME NEW r \in reports, HandleBlockInfo(r) PROVE Typed' /\ Balanced'
  <2>1. PICK xs : brokerConfirm2Pool' = Register(brokerConfirm2Pool, xs)
    BY <1>5 DEF HandleBlockInfo
  <2>2. UNCHANGED <<state, stopped, executed, refused, TxQueue, brokerConfirm1Pool>>
    BY <1>5 DEF HandleBlockInfo, shardVars
  <2> QED BY <1>0, <1>2, <1>3, <2>1, <2>2, OtherMoney
<1>6. ASSUME NEW m \in msgs, handleInjectTx(m) PROVE Typed' /\ Balanced'
  <2>1. /\ TxQueue' = [TxQueue EXCEPT ![m.to] = @ \o m.txs]
        /\ UNCHANGED <<state, stopped, executed, refused, brokerConfirm1Pool, brokerConfirm2Pool>>
    BY <1>6 DEF handleInjectTx, supVars
  <2>2. m.to \in Shard /\ m.txs \in Seq(Item)
    BY <1>1 DEF Tracked, Located, Slice
  <2>3. TxQueue' \in [Shard -> Seq(Item)]
    BY <1>2, <2>1, <2>2
  <2> QED BY <1>0, <1>2, <2>1, <2>3, OtherMoney
<1>7. ASSUME NEW s \in Shard, CommitBlock(s) PROVE Typed' /\ Balanced'
  BY <1>0, <1>1, <1>7, CommitMoney
<1>8. CASE readerSends \/ confirmerSends \/ handleTx2ConfirmMag \/ UNCHANGED vars
  <2>1. UNCHANGED <<state, stopped, executed, refused, TxQueue, brokerConfirm1Pool, brokerConfirm2Pool>>
    BY <1>8 DEF readerSends, confirmerSends, handleTx2ConfirmMag, vars, supVars, shardVars
  <2> QED BY <1>0, <1>2, <2>1, OtherMoney
<1>9. ASSUME NEW s \in Shard, Stop(s) PROVE Typed' /\ Balanced'
  <2>1. /\ UNCHANGED <<state, executed, refused, TxQueue, brokerConfirm1Pool, brokerConfirm2Pool>>
        /\ stopped' \subseteq Shard
    BY <1>2, <1>9 DEF Stop, supVars
  <2> QED BY <1>0, <1>2, <2>1, OtherMoney
<1> QED BY <1>4, <1>5, <1>6, <1>7, <1>8, <1>9 DEF Next, Reader, Confirmer

\* Nothing is created or destroyed: what ordinary accounts have is what they were given
\* and what the executed halves moved, whatever was refused, and no balance is
\* negative.  It rests on one copy of each half being executed in the shard of its
\* ordinary party.
THEOREM BrokerConserves == Spec => []Conservation
<1>1. MoneyInv => Conservation
  <2> SUFFICES ASSUME MoneyInv PROVE Conservation
    OBVIOUS
  <2>1. PICK loc : Tracked(loc)
    BY DEF MoneyInv, BrokerInv
  <2>2. Typed /\ Balanced
    BY DEF MoneyInv
  <2>3. \A q \in {readerOut, confirmerOut, confirm2s} : q \in Seq(Item)
    BY <2>1 DEF Tracked, Located, Slice
  <2>4. /\ \A m \in msgs : m.to \in Shard /\ m.txs \in Seq(Item)
        /\ \A r \in reports : r.broker1Txs \in Seq(Item) /\ r.broker2Txs \in Seq(Item) /\ r.innerShardTxs \in Seq(Item)
    BY <2>1 DEF Tracked, Located, Slice
  <2>5. /\ nowDataNum \in 0 .. Len(Rows) /\ BrokerRawMegs \subseteq Raw
        /\ DOMAIN brokerConfirm1Pool \subseteq Item /\ DOMAIN brokerConfirm2Pool \subseteq Item
        /\ executed \subseteq Item
    BY <2>1 DEF Tracked, Books, Known, Done
  <2>6. RawTx2BrokerTx \in [Tx -> Seq(Item)]
    <3>1. \A t \in Tx : Tx1(t) \in Item /\ Tx2(t) \in Item
      BY ItemFacts
    <3>2. \A t \in Tx : Noted(loc, t) \in Seq(Item)
      BY <3>1 DEF Noted
    <3>3. RawTx2BrokerTx = [t \in Tx |-> Noted(loc, t)]
      BY <2>1 DEF Tracked, Books
    <3> QED BY <3>2, <3>3
  <2>7. TypeOK
    <3>1. \A pool \in {brokerConfirm1Pool, brokerConfirm2Pool} :
            DOMAIN pool \subseteq Item /\ \A h \in DOMAIN pool : pool[h] = h.tx
      BY <2>2, <2>5 DEF Typed
    <3>2. {readerOut, confirmerOut, confirm2s} \subseteq Seq(Item)
      BY <2>3
    <3>3. \A r \in reports : {r.broker1Txs, r.broker2Txs, r.innerShardTxs} \subseteq Seq(Item)
      BY <2>4
    <3> QED BY <2>2, <2>4, <2>5, <2>6, <3>1, <3>2, <3>3 DEF TypeOK, Typed
  <2>8. [t \in Tx |-> Rows[t].value * Net(t)] = Worth(executed \ refused)
    BY <2>1, NetIs DEF Worth
  <2> QED BY <2>2, <2>7, <2>8 DEF Conservation, Balanced, Total, Wealth, Worths, Ordinary
<1>2. MoneyInv /\ BrokerInv' /\ [Next]_vars => MoneyInv'
  BY MoneyStep DEF MoneyInv
<1>3. Init => MoneyInv
  BY MoneyInit
<1> QED BY <1>1, <1>2, <1>3, BrokerAlways, PTL DEF Spec
=============================================================================
