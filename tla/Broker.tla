-------------------------------- MODULE Broker --------------------------------
(***************************************************************************)
(* The broker method: the supervisor replaces a transfer between two       *)
(* shards by two transactions, tx1 from the sender to a broker and, once   *)
(* the shard of the sender reports tx1, tx2 from the broker to the         *)
(* recipient.                                                              *)
(*                                                                         *)
(* The supervisor is two goroutines: MsgSendingControl, which reads the    *)
(* data and sends it (`reader'), and the handling of block reports, one at *)
(* a time under tcpLock (`confirmer').  Both sleep while they send, so the *)
(* steps of one interleave with those of the other.  What a goroutine      *)
(* prepares before its first send is one step: nobody can ask for it yet.  *)
(* A shard is its leader, and a block is one step; an empty block changes  *)
(* nothing here.  Messages are delivered in any order.  SeqIDinfo messages *)
(* only set seqIDMap, which nothing reads without re-sharding.             *)
(*                                                                         *)
(* When the data is sent the supervisor counts empty blocks and then stops *)
(* the nodes (Relay has that protocol).  Nothing here depends on when it   *)
(* does, so a node may be stopped at any time once the data is sent.       *)
(***************************************************************************)
EXTENDS Slices

CONSTANTS
  Shard, Account, Addr2Shard,
  BrokerAddress,       \* the accounts of the brokers
  Rows,                \* the rows of the data file: sender, recipient, value
  dataTotalNum,        \* how many rows the supervisor is to send
  batchDataNum, InjectSpeed, BlockSize, Init_Balance

Tx == 1 .. Len(Rows)
IsBroker(a) == a \in ToSet(BrokerAddress)

\* The transfers that need a broker.
Raw == {t \in Tx : /\ Addr2Shard[Rows[t].sender] # Addr2Shard[Rows[t].recipient]
                   /\ ~IsBroker(Rows[t].sender) /\ ~IsBroker(Rows[t].recipient)}

\* A transaction, which is also its hash: the time of its creation tells apart
\* two that are made for the same row (`copy').
Item == [kind : {"itx", "tx1", "tx2"}, tx : Tx, copy : Nat]

ASSUME ConfigAssumption ==
  /\ Addr2Shard \in [Account -> Shard] /\ IsFiniteSet(Account)
  /\ BrokerAddress \in Seq(Account) /\ BrokerAddress # <<>>
  /\ Rows \in Seq([sender : Account, recipient : Account, value : Nat])
  /\ {dataTotalNum, batchDataNum, InjectSpeed, BlockSize} \subseteq Nat \ {0} /\ Init_Balance \in Nat

VARIABLES
  nowDataNum,
  BrokerRawMegs,                            \* the rows handed to the broker
  brokerConfirm1Pool, brokerConfirm2Pool,   \* hash of a half -> its row
  RawTx2BrokerTx,                           \* row -> the hashes confirmed
  readerOut,                                \* what the reader has still to send
  confirmerOut, confirm2s,                  \* what the confirmer has still to send, to record
  msgs, reports,                            \* InjectTxs and BlockInfoMsg on their way
  TxQueue, state,                           \* the pool and the account trie of a shard
  stopped,                                  \* the shards whose leader got the stop message
  executed, refused                         \* history: what blocks hold, and what was not paid

supVars == <<nowDataNum, BrokerRawMegs, brokerConfirm1Pool, brokerConfirm2Pool, RawTx2BrokerTx,
             readerOut, confirmerOut, confirm2s>>
shardVars == <<TxQueue, state, stopped, executed, refused>>
vars == <<supVars, shardVars, msgs, reports>>

Init ==
  /\ nowDataNum = 0 /\ BrokerRawMegs = {}
  /\ brokerConfirm1Pool = <<>> /\ brokerConfirm2Pool = <<>>
  /\ RawTx2BrokerTx = [t \in Tx |-> <<>>]
  /\ readerOut = <<>> /\ confirmerOut = <<>> /\ confirm2s = <<>>
  /\ msgs = {} /\ reports = {}
  /\ TxQueue = [s \in Shard |-> <<>>]
  /\ state = [s \in Shard |-> [a \in Account |-> Init_Balance]]
  /\ stopped = {} /\ executed = {} /\ refused = {}

-----------------------------------------------------------------------------
(* Transactions.                                                           *)

\* A row as it is read, and NewTransaction for the broker's halves; they carry OriginalSender,
\* FinalRecipient and RawTxHash, and not HasBroker.
Itx(t) == [kind |-> "itx", tx |-> t, copy |-> 0]
NewTx(kind, t, pool) == [kind |-> kind, tx |-> t, copy |-> Cardinality({h \in DOMAIN pool : h.tx = t})]

Sender(x) == IF x.kind = "tx2" THEN BrokerAddress[1] ELSE Rows[x.tx].sender
Recipient(x) == IF x.kind = "tx1" THEN BrokerAddress[1] ELSE Rows[x.tx].recipient
HasBroker(x) == x.kind = "itx" /\ (IsBroker(Sender(x)) \/ IsBroker(Recipient(x)))

\* A map with the keys of xs added, each with its row.
Register(pool, xs) ==
  [h \in DOMAIN pool \cup ToSet(xs) |-> IF h \in DOMAIN pool THEN pool[h] ELSE h.tx]

-----------------------------------------------------------------------------
(* The supervisor.                                                         *)

\* Wrong: a broker's transactions go to the broker's own shard.
DestinationOfSender(x) == Addr2Shard[Sender(x)]

\* The shard txSending chooses: a broker pays in the shard of the recipient.
Destination(x) == Addr2Shard[IF IsBroker(Sender(x)) THEN Recipient(x) ELSE Sender(x)]

Least(a, b) == IF a < b THEN a ELSE b

\* The tx1 and the other rows of a batch are sent by a call of txSending each: how
\* many transactions of the first call are left.
OfThisCall(out) == Cardinality({i \in DOMAIN out : out[i].kind = out[1].kind})

\* One turn of txSending: InjectSpeed transactions, one message to each shard.
\* The messages without a transaction do nothing and are left out.
Chunk(out) == SubSeq(out, 1, Least(InjectSpeed, OfThisCall(out)))
Unsent(out) == SubSeq(out, Len(Chunk(out)) + 1, Len(out))
Send(out) ==
  LET txsTo(s) == Selected(Chunk(out), {x \in Item : Destination(x) = s}) IN
  msgs' = msgs \cup {[to |-> s, txs |-> txsTo(s)] : s \in {s \in Shard : txsTo(s) # <<>>}}

\* The rows of the next batch: batchDataNum of them, or those missing of dataTotalNum.
Batch == [i \in 1 .. Least(batchDataNum, dataTotalNum - nowDataNum) |-> nowDataNum + i]

\* The file has them all; the rows of a batch it has only the beginning of are dropped.
HasBatch == nowDataNum < dataTotalNum /\ nowDataNum + Len(Batch) <= Len(Rows)

\* The transfers are noted, so that their tx1 can be confirmed.
handleBrokerRawMag(raws) == BrokerRawMegs' = BrokerRawMegs \cup ToSet(raws)

\* Wrong: the broker is asked for both halves at once.
DealTxByBrokerBoth ==
  LET raws == Selected(Batch, Raw)
      tx1s == [i \in DOMAIN raws |-> NewTx("tx1", raws[i], brokerConfirm1Pool)]
      tx2s == [i \in DOMAIN raws |-> NewTx("tx2", raws[i], brokerConfirm2Pool)]
      inner == Selected(Batch, Tx \ Raw)
  IN
  /\ readerOut = <<>> /\ HasBatch
  /\ nowDataNum' = nowDataNum + Len(Batch)
  /\ handleBrokerRawMag(raws)
  /\ brokerConfirm1Pool' = Register(brokerConfirm1Pool, tx1s)
  /\ brokerConfirm2Pool' = Register(brokerConfirm2Pool, tx2s)
  /\ readerOut' = tx1s \o tx2s \o [i \in DOMAIN inner |-> Itx(inner[i])]
  /\ UNCHANGED <<RawTx2BrokerTx, confirmerOut, confirm2s, shardVars, msgs, reports>>

\* MsgSendingControl reads a batch, dealTxByBroker sorts out the transfers that
\* need a broker, handleBrokerRawMag notes them, handleBrokerType1Mes makes their
\* tx1 and expects its confirmation; the tx1 are sent before the other rows.
dealTxByBroker ==
  LET raws == Selected(Batch, Raw)
      tx1s == [i \in DOMAIN raws |-> NewTx("tx1", raws[i], brokerConfirm1Pool)]
      inner == Selected(Batch, Tx \ Raw)
  IN
  /\ readerOut = <<>> /\ HasBatch
  /\ nowDataNum' = nowDataNum + Len(Batch)
  /\ handleBrokerRawMag(raws)
  /\ brokerConfirm1Pool' = Register(brokerConfirm1Pool, tx1s)
  /\ readerOut' = tx1s \o [i \in DOMAIN inner |-> Itx(inner[i])]
  /\ UNCHANGED <<brokerConfirm2Pool, RawTx2BrokerTx, confirmerOut, confirm2s, shardVars, msgs, reports>>

readerSends ==
  /\ readerOut # <<>>
  /\ Send(readerOut)
  /\ readerOut' = Unsent(readerOut)
  /\ UNCHANGED <<nowDataNum, BrokerRawMegs, brokerConfirm1Pool, brokerConfirm2Pool, RawTx2BrokerTx,
                 confirmerOut, confirm2s, shardVars, reports>>

\* createConfirm: what the pools expect of the reported halves.
Confirmed(r, pool) == Selected(r.broker1Txs \o r.broker2Txs, DOMAIN pool)

\* Every hash of xs is noted with its row.
Record(xs) == [t \in Tx |-> RawTx2BrokerTx[t] \o Selected(xs, {x \in Item : x.tx = t})]

\* Wrong: the test the wrong way round.
RawKnownNot(x) == x.tx \notin BrokerRawMegs
\* The check of handleTx1ConfirmMag.
RawKnown(x) == x.tx \in BrokerRawMegs

\* HandleBlockInfo, createConfirm, handleTx1ConfirmMag and handleBrokerType2Mes:
\* the tx1 are noted, their tx2 are made and expected; the confirmed tx2 wait
\* until these have been sent.
HandleBlockInfo(r) ==
  LET mag1 == Selected(Confirmed(r, brokerConfirm1Pool), {x \in Item : RawKnown(x)})
      tx2s == [i \in DOMAIN mag1 |-> NewTx("tx2", mag1[i].tx, brokerConfirm2Pool)]
  IN
  /\ confirmerOut = <<>> /\ confirm2s = <<>>
  /\ r \in reports
  /\ reports' = reports \ {r}
  /\ RawTx2BrokerTx' = Record(mag1)
  /\ brokerConfirm2Pool' = Register(brokerConfirm2Pool, tx2s)
  /\ confirmerOut' = tx2s
  /\ confirm2s' = Confirmed(r, brokerConfirm2Pool)
  /\ UNCHANGED <<nowDataNum, BrokerRawMegs, brokerConfirm1Pool, readerOut, shardVars, msgs>>

confirmerSends ==
  /\ confirmerOut # <<>>
  /\ Send(confirmerOut)
  /\ confirmerOut' = Unsent(confirmerOut)
  /\ UNCHANGED <<nowDataNum, BrokerRawMegs, brokerConfirm1Pool, brokerConfirm2Pool, RawTx2BrokerTx,
                 readerOut, confirm2s, shardVars, reports>>

handleTx2ConfirmMag ==
  /\ confirmerOut = <<>> /\ confirm2s # <<>>
  /\ RawTx2BrokerTx' = Record(confirm2s)
  /\ confirm2s' = <<>>
  /\ UNCHANGED <<nowDataNum, BrokerRawMegs, brokerConfirm1Pool, brokerConfirm2Pool, readerOut,
                 confirmerOut, shardVars, msgs, reports>>

-----------------------------------------------------------------------------
(* A shard.                                                                *)

handleInjectTx(m) ==
  /\ m \in msgs /\ m.to \notin stopped
  /\ msgs' = msgs \ {m}
  /\ TxQueue' = [TxQueue EXCEPT ![m.to] = @ \o m.txs]
  /\ UNCHANGED <<supVars, state, stopped, executed, refused, reports>>

Pays(s, x) == Addr2Shard[Sender(x)] = s \/ HasBroker(x)
Receives(s, x) == Addr2Shard[Recipient(x)] = s \/ HasBroker(x)

Funded(st, x) == st[Sender(x)] >= Rows[x.tx].value

\* One turn of the loop of GetUpdateStatusTrie: an unfunded transaction is
\* skipped, both sides of it; the block keeps it.
Execute(s, st, x) ==
  LET v == Rows[x.tx].value
      paid == IF Pays(s, x) THEN [st EXCEPT ![Sender(x)] = @ - v] ELSE st
  IN IF Pays(s, x) /\ ~Funded(st, x) THEN st
     ELSE IF Receives(s, x) THEN [paid EXCEPT ![Recipient(x)] = @ + v]
     ELSE paid

\* The tries before each transaction of the block, and after the last.
Tries(s, block) ==
  FoldLeft(LAMBDA sts, x : Append(sts, Execute(s, Last(sts), x)), <<state[s]>>, block)

\* Wrong: compared with the broker in place of the original sender.
IsBroker1TxOfBroker(x) == x.kind # "itx" /\ IsBroker(Sender(x))

\* The classification in HandleinCommit: by the original sender and the final recipient.
IsBroker1Tx(x) == x.kind # "itx" /\ Sender(x) = Rows[x.tx].sender
IsBroker2Tx(x) == x.kind # "itx" /\ Recipient(x) = Rows[x.tx].recipient

\* HandleinPropose and HandleinCommit: pack, execute, classify, report.
CommitBlock(s) ==
  LET block == SubSeq(TxQueue[s], 1, Least(BlockSize, Len(TxQueue[s])))
      tries == Tries(s, block)
  IN
  /\ s \notin stopped /\ block # <<>>
  /\ TxQueue' = [TxQueue EXCEPT ![s] = SubSeq(@, Len(block) + 1, Len(@))]
  /\ state' = [state EXCEPT ![s] = Last(tries)]
  /\ executed' = executed \cup ToSet(block)
  /\ refused' = refused \cup {block[i] : i \in {i \in DOMAIN block :
                                Pays(s, block[i]) /\ ~Funded(tries[i], block[i])}}
  /\ reports' = reports \cup {[from |-> s,
       broker1Txs |-> Selected(block, {x \in Item : IsBroker1Tx(x) /\ ~IsBroker2Tx(x)}),
       broker2Txs |-> Selected(block, {x \in Item : IsBroker2Tx(x)}),
       innerShardTxs |-> Selected(block, {x \in Item : ~IsBroker1Tx(x) /\ ~IsBroker2Tx(x)})]}
  /\ UNCHANGED <<supVars, stopped, msgs>>

\* The stop message, sent some time after the reader is done.
Stop(s) ==
  /\ readerOut = <<>> /\ ~HasBatch
  /\ s \notin stopped
  /\ stopped' = stopped \cup {s}
  /\ UNCHANGED <<supVars, TxQueue, state, executed, refused, msgs, reports>>

-----------------------------------------------------------------------------
Reader == dealTxByBroker \/ readerSends
Confirmer == (\E r \in reports : HandleBlockInfo(r)) \/ confirmerSends \/ handleTx2ConfirmMag

Next ==
  \/ Reader \/ Confirmer
  \/ \E m \in msgs : handleInjectTx(m)
  \/ \E s \in Shard : CommitBlock(s) \/ Stop(s)

Spec == Init /\ [][Next]_vars

\* Goroutines and leaders go on, and messages arrive; nothing says when a leader is stopped.
FairSpec ==
  /\ Spec /\ WF_vars(Reader) /\ WF_vars(Confirmer)
  /\ WF_vars(\E m \in msgs : handleInjectTx(m))
  /\ \A s \in Shard : WF_vars(CommitBlock(s))

-----------------------------------------------------------------------------
(* Properties.                                                             *)

\* Every variable has its type; no balance in a trie is negative.
TypeOK ==
  /\ nowDataNum \in 0 .. Len(Rows) /\ BrokerRawMegs \subseteq Raw
  /\ \A pool \in {brokerConfirm1Pool, brokerConfirm2Pool} :
       DOMAIN pool \subseteq Item /\ \A h \in DOMAIN pool : pool[h] = h.tx
  /\ RawTx2BrokerTx \in [Tx -> Seq(Item)]
  /\ {readerOut, confirmerOut, confirm2s} \subseteq Seq(Item)
  /\ \A m \in msgs : m.to \in Shard /\ m.txs \in Seq(Item)
  /\ \A r \in reports : {r.broker1Txs, r.broker2Txs, r.innerShardTxs} \subseteq Seq(Item)
  /\ TxQueue \in [Shard -> Seq(Item)] /\ stopped \subseteq Shard /\ state \in [Shard -> [Account -> Nat]]
  /\ refused \subseteq executed /\ executed \subseteq Item

Halves(kind, t) == {x \in executed : x.kind = kind /\ x.tx = t}

\* How far the blocks and the books say transfer t is; the books must have the
\* halves that were executed, tx1 first.
Phase(t) ==
  LET n1 == Cardinality(Halves("tx1", t))
      n2 == Cardinality(Halves("tx2", t))
      books == [i \in DOMAIN RawTx2BrokerTx[t] |-> RawTx2BrokerTx[t][i].kind]
  IN CASE n1 = 0 /\ n2 = 0 /\ books = <<>> -> "new"
       [] n1 = 1 /\ n2 = 0 /\ books \in {<<>>, <<"tx1">>} -> "paid in"
       [] n1 = 1 /\ n2 = 1 /\ books = <<"tx1">> -> "paid out"
       [] n1 = 1 /\ n2 = 1 /\ books = <<"tx1", "tx2">> -> "finished"
       [] OTHER -> "broken"

H == INSTANCE TwoHalves WITH Transfer <- Raw, phase <- [t \in Raw |-> Phase(t)]

\* tx2 is executed only after tx1, each once whatever is confirmed in which
\* order, and RawTx2BrokerTx is complete only when both are in blocks.
ImplementsTwoHalves == H!Spec

\* x is in the hands of a goroutine, in a message or in a pool.
OnTheWay(x) ==
  \/ x \in ToSet(readerOut) \cup ToSet(confirmerOut)
  \/ \E m \in msgs : x \in ToSet(m.txs)
  \/ \E s \in Shard : x \in ToSet(TxQueue[s])

\* An executed half the supervisor has yet to hear of, or to note.
ToConfirm(x) ==
  \/ \E r \in reports : x \in ToSet(r.broker1Txs \o r.broker2Txs)
  \/ x \in ToSet(confirm2s)

\* No transfer is stuck between its halves: as long as it is not finished, one
\* of them is on its way, or waits to be confirmed in the pool it is looked up in.
NothingStuck ==
  \A t \in 1 .. nowDataNum :
    IF t \notin Raw
      THEN Itx(t) \in executed \/ OnTheWay(Itx(t))
      ELSE \/ Len(RawTx2BrokerTx[t]) = 2
           \/ \E h \in DOMAIN brokerConfirm1Pool \cup DOMAIN brokerConfirm2Pool :
                h.tx = t /\ (OnTheWay(h) \/ ToConfirm(h))

\* By how much row t has changed what ordinary accounts have at home.
Net(t) ==
  LET done(kind) == \E x \in Halves(kind, t) \ refused : TRUE
      one(b) == IF b THEN 1 ELSE 0
  IN one(done("tx2")) - one(done("tx1"))
     + one(done("itx") /\ ~IsBroker(Rows[t].recipient)) - one(done("itx") /\ ~IsBroker(Rows[t].sender))

\* Ordinary accounts gain and lose what the executed halves say: each is executed
\* in the shard that has the ordinary party, although a broker's home is elsewhere.
\* No balance is negative.
Conservation ==
  LET ordinary == {a \in Account : ~IsBroker(a)} IN
  /\ TypeOK
  /\ SumFunctionOnSet([a \in ordinary |-> state[Addr2Shard[a]][a]], ordinary)
       = Init_Balance * Cardinality(ordinary) + SumFunctionOnSet([t \in Tx |-> Rows[t].value * Net(t)], Tx)

\* The rows that are sent: all the supervisor is to send, or the whole batches of a shorter file.
SentRows ==
  IF Len(Rows) >= dataTotalNum THEN dataTotalNum ELSE (Len(Rows) \div batchDataNum) * batchDataNum

\* Every row that is sent is executed, and every transfer between shards among
\* them is finished in the books, although the goroutines wait for each other's
\* messages, unless a leader gets the stop message first.
AllFinished ==
  <>(\/ stopped # {}
     \/ /\ nowDataNum = SentRows
        /\ \A t \in 1 .. SentRows :
             IF t \in Raw THEN Len(RawTx2BrokerTx[t]) = 2 ELSE Halves("itx", t) # {})
=============================================================================
