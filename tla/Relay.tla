-------------------------------- MODULE Relay --------------------------------
(***************************************************************************)
(* Cross-shard transactions of the relay method (the RawRelay handlers),   *)
(* from the supervisor that injects them to the supervisor that stops the  *)
(* system.  A transaction between two shards is executed in two halves:    *)
(* the sender's shard debits and relays it, the recipient's shard credits. *)
(*                                                                         *)
(* A shard is its replicated log here (module ShardLog): chain[s] grows by *)
(* the blocks that node 0 proposes, and each is relayed and reported once, *)
(* as module Pbft shows for a shard whose first leader is in office        *)
(* (ImplementsLog, RelayedOnce).  View changes are not part of this        *)
(* module: the repository provides them for a single shard only; in module *)
(* Pbft a second leader may relay a block again, or one its shard dropped. *)
(*                                                                         *)
(* All injected and relayed transactions go to node 0 of a shard.          *)
(* Messages are delivered in any order; one never handled is a lost one.   *)
(* handleRelay also notes SenderSeq in seqIDMap, which no handler of the   *)
(* relay method reads.                                                     *)
(***************************************************************************)
EXTENDS Slices

CONSTANTS
  ShardNum,
  Account, Addr2Shard,         \* Addr2Shard[a]: the shard of account a
  Rows,                        \* the rows of the data file: sender, recipient, value
  dataTotalNum, batchDataNum, InjectSpeed,
  BlockSize, Init_Balance,
  MaxInfos                     \* bound: empty blocks not yet reported

Shard == 0 .. ShardNum - 1
Tx == 1 .. Len(Rows)

ASSUME ConfigAssumption ==
  /\ {ShardNum, dataTotalNum, batchDataNum, InjectSpeed, BlockSize} \subseteq Nat \ {0}
  /\ {Init_Balance, MaxInfos} \subseteq Nat
  /\ Addr2Shard \in [Account -> Shard]
  /\ Rows \in Seq([sender : Account, recipient : Account, value : Nat])
  /\ \A t \in Tx : Rows[t].sender # Rows[t].recipient

From(t) == Addr2Shard[Rows[t].sender]
To(t) == Addr2Shard[Rows[t].recipient]
Cross == {t \in Tx : From(t) # To(t)}

\* A transaction as a pool or a block holds it.
Item == [tx : Tx, relayed : BOOLEAN]
First(t) == [tx |-> t, relayed |-> FALSE]
Second(t) == [tx |-> t, relayed |-> TRUE]

VARIABLES
  nowDataNum,   \* rows injected so far
  phase,        \* where SupervisorTxHandling is
  injects,      \* InjectTxs on their way
  relays,       \* Relay messages on their way
  TxQueue,      \* TxQueue[s]: the pool of node 0 of shard s
  block,        \* block[s]: the proposals under consensus, at most one
  chain,        \* chain[s]: the transactions of the committed blocks
  balance,      \* the account states; a missing account has Init_Balance
  panicked,     \* the shards whose leader died of log.Panic("incorrect tx")
  emptyInfos, fullInfos, \* BlockInfoMsgs on their way, without and with transactions
  stopGap,
  stops,        \* the shards whose stop message is on its way
  halted        \* the shards that handled it

supVars == <<nowDataNum, phase, stopGap, stops>>
shardVars == <<block, chain, balance, panicked, halted>>
netVars == <<injects, relays, emptyInfos, fullInfos>>
vars == <<supVars, shardVars, netVars, TxQueue>>

Init ==
  /\ nowDataNum = 0 /\ phase = "reading"
  /\ injects = {} /\ relays = {} /\ emptyInfos = 0 /\ fullInfos = 0
  /\ TxQueue = [s \in Shard |-> <<>>]
  /\ block = [s \in Shard |-> <<>>]
  /\ chain = [s \in Shard |-> <<>>]
  /\ balance = [a \in Account |-> Init_Balance]
  /\ panicked = {} /\ halted = {} /\ stops = {}
  /\ stopGap = 0

-----------------------------------------------------------------------------
(* The supervisor.                                                         *)

Least(a, b) == IF a < b THEN a ELSE b

\* The last row of the batch that row k belongs to.  A batch is sent once it
\* is complete; the rows after the last complete one are read and dropped.
BatchEnd(k) == Least(((k - 1) \div batchDataNum + 1) * batchDataNum, dataTotalNum)
\* txSending cuts a batch in pieces of InjectSpeed rows.
PieceEnd(k) ==
  LET first == ((k - 1) \div batchDataNum) * batchDataNum IN
  Least(first + ((k - 1 - first) \div InjectSpeed + 1) * InjectSpeed, BatchEnd(k))

RowsOf(s, first, last) ==
  Selected([i \in 1 .. last - first + 1 |-> first + i - 1], {t \in Tx : From(t) = s})

\* Send the next piece: to each shard the rows whose sender lives there.
txSending ==
  LET first == nowDataNum + 1
      last == PieceEnd(first)
  IN
  /\ phase = "reading"
  /\ nowDataNum < dataTotalNum /\ BatchEnd(first) <= Len(Rows)
  /\ injects' = injects \cup {[to |-> s, txs |-> RowsOf(s, first, last)] :
                                s \in {From(t) : t \in first .. last}}
  /\ nowDataNum' = last
  /\ phase' = IF last = BatchEnd(first) THEN "sent" ELSE "reading"
  /\ UNCHANGED <<stopGap, stops, shardVars, relays, emptyInfos, fullInfos, TxQueue>>

\* After a batch MsgSendingControl resets the gap.
EndBatch ==
  /\ phase = "sent"
  /\ stopGap' = 0
  /\ phase' = IF nowDataNum = dataTotalNum THEN "waiting" ELSE "reading"
  /\ UNCHANGED <<nowDataNum, stops, shardVars, netVars, TxQueue>>

\* The file ends before dataTotalNum rows.
EndOfFile ==
  /\ phase = "reading"
  /\ nowDataNum < dataTotalNum /\ BatchEnd(nowDataNum + 1) > Len(Rows)
  /\ phase' = "waiting"
  /\ UNCHANGED <<nowDataNum, stopGap, stops, shardVars, netVars, TxQueue>>

stopThreshold == 3 * ShardNum
GapEnough == stopGap >= stopThreshold

\* Wrong: the two cases are swapped.
NextGapSwapped(full) == IF full THEN Least(stopGap + 1, stopThreshold) ELSE 0

\* StopGap_Reset and StopGap_Inc; beyond the threshold the count is all one.
NextGap(full) == IF full THEN 0 ELSE Least(stopGap + 1, stopThreshold)

handleBlockInfos(full) ==
  /\ phase # "stopped"
  /\ IF full THEN fullInfos > 0 /\ fullInfos' = fullInfos - 1 /\ UNCHANGED emptyInfos
             ELSE emptyInfos > 0 /\ emptyInfos' = emptyInfos - 1 /\ UNCHANGED fullInfos
  /\ stopGap' = NextGap(full)
  /\ UNCHANGED <<nowDataNum, phase, stops, shardVars, injects, relays, TxQueue>>

\* SupervisorTxHandling: enough empty blocks in a row, stop everybody.
SendStop ==
  /\ phase = "waiting" /\ GapEnough
  /\ phase' = "stopped"
  /\ stops' = Shard
  /\ UNCHANGED <<nowDataNum, stopGap, shardVars, netVars, TxQueue>>

-----------------------------------------------------------------------------
(* A shard.                                                                *)

Running(s) == s \notin halted /\ s \notin panicked

handleInjectTx(m) ==
  /\ m \in injects /\ Running(m.to)
  /\ injects' = injects \ {m}
  /\ TxQueue' = [TxQueue EXCEPT ![m.to] = @ \o [i \in 1 .. Len(m.txs) |-> First(m.txs[i])]]
  /\ UNCHANGED <<supVars, shardVars, relays, emptyInfos, fullInfos>>

handleRelay(m) ==
  /\ m \in relays /\ Running(m.to)
  /\ relays' = relays \ {m}
  /\ TxQueue' = [TxQueue EXCEPT ![m.to] = @ \o [i \in 1 .. Len(m.txs) |-> Second(m.txs[i])]]
  /\ UNCHANGED <<supVars, shardVars, injects, emptyInfos, fullInfos>>

\* PackTxs on the pool of the leader.
Packed(s) == SubSeq(TxQueue[s], 1, Least(BlockSize, Len(TxQueue[s])))

\* Wrong: relayed transactions are relayed on.
RelayedAgain(s, x) == To(x.tx) # s \/ x.relayed
\* Wrong: nothing is relayed.
NotRelayed(s, x) == FALSE
\* The recipient lives in another shard.
MustRelay(s, x) == To(x.tx) # s

\* Wrong: to the shard after the recipient's.
RelayTargetOff(x) == (To(x.tx) + 1) % ShardNum
RelayTarget(x) == To(x.tx)

\* RelayMsgSend: one Relay message for each other shard.
RelaysOf(s, txs) ==
  LET out == Selected(txs, {x \in Item : MustRelay(s, x)})
      txsTo(r) == Selected(out, {x \in Item : RelayTarget(x) = r})
  IN {[to |-> r, txs |-> [i \in 1 .. Len(txsTo(r)) |-> txsTo(r)[i].tx]] :
        r \in {RelayTarget(out[i]) : i \in 1 .. Len(out)}}

\* Wrong: relay when the block is proposed, not when it is committed.
ProposeRelaying(s) ==
  LET txs == Packed(s) IN
  /\ Running(s) /\ block[s] = <<>> /\ txs # <<>>
  /\ block' = [block EXCEPT ![s] = <<txs>>]
  /\ TxQueue' = [TxQueue EXCEPT ![s] = SubSeq(@, Len(txs) + 1, Len(@))]
  /\ relays' = relays \cup RelaysOf(s, txs)
  /\ UNCHANGED <<supVars, chain, balance, panicked, halted, injects, emptyInfos, fullInfos>>

\* HandleinPropose, GenerateBlock: the packed transactions leave the pool.
Propose(s) ==
  LET txs == Packed(s) IN
  /\ Running(s) /\ block[s] = <<>>
  /\ txs = <<>> => emptyInfos < MaxInfos
  /\ block' = [block EXCEPT ![s] = <<txs>>]
  /\ TxQueue' = [TxQueue EXCEPT ![s] = SubSeq(@, Len(txs) + 1, Len(@))]
  /\ UNCHANGED <<supVars, chain, balance, panicked, halted, netVars>>

\* Wrong: the recipient is credited in every shard that executes the block.
CreditedAnywhere(s, t) == TRUE
\* The recipient's account belongs to the shard that executes the block.
CreditedHere(s, t) == To(t) = s

\* One turn of the loop of GetUpdateStatusTrie.  A first half whose sender
\* cannot pay is skipped.
Execute(s, bal, x) ==
  LET r == Rows[x.tx]
      debit == ~x.relayed /\ From(x.tx) = s
      paid == [bal EXCEPT ![r.sender] = @ - r.value]
      credit(b) == IF CreditedHere(s, x.tx)
                     THEN [b EXCEPT ![r.recipient] = @ + r.value] ELSE b
  IN CASE debit /\ bal[r.sender] < r.value -> bal
       [] debit /\ bal[r.sender] >= r.value -> credit(paid)
       [] OTHER -> credit(bal)

GetUpdateStatusTrie(s, txs) ==
  FoldLeft(LAMBDA bal, x : Execute(s, bal, x), balance, txs)

\* HandleinCommit takes the transactions of a foreign sender, or relayed ones
\* of a foreign recipient, for a programming error.
Incorrect(s, x) == IF x.relayed THEN To(x.tx) # s ELSE From(x.tx) # s

\* AddBlock of a block that follows, as all blocks of the first leader do.
AddBlock(s) ==
  /\ Running(s) /\ block[s] # <<>>
  /\ block' = [block EXCEPT ![s] = <<>>]
  /\ chain' = [chain EXCEPT ![s] = @ \o block[s][1]]
  /\ balance' = GetUpdateStatusTrie(s, block[s][1])

\* HandleinCommit at the leader: add the block, relay, report to the supervisor.
HandleinCommit(s) ==
  LET txs == block[s][1] IN
  /\ AddBlock(s)
  /\ IF \E i \in 1 .. Len(txs) : Incorrect(s, txs[i])
       THEN /\ panicked' = panicked \cup {s}
            /\ UNCHANGED <<relays, emptyInfos, fullInfos>>
       ELSE /\ relays' = relays \cup RelaysOf(s, txs)
            /\ IF txs = <<>> THEN emptyInfos' = emptyInfos + 1 /\ UNCHANGED fullInfos
                             ELSE fullInfos' = fullInfos + 1 /\ UNCHANGED emptyInfos
            /\ UNCHANGED panicked
  /\ UNCHANGED <<supVars, halted, injects, TxQueue>>

\* The stop message reached the shard.
WaitToStop(s) ==
  /\ s \in stops
  /\ stops' = stops \ {s}
  /\ halted' = halted \cup {s}
  /\ UNCHANGED <<nowDataNum, phase, stopGap, block, chain, balance, panicked,
                 netVars, TxQueue>>

Next ==
  \/ txSending \/ EndBatch \/ EndOfFile \/ SendStop
  \/ \E full \in BOOLEAN : handleBlockInfos(full)
  \/ \E m \in injects : handleInjectTx(m)
  \/ \E m \in relays : handleRelay(m)
  \/ \E s \in Shard : Propose(s) \/ HandleinCommit(s) \/ WaitToStop(s)

Spec == Init /\ [][Next]_vars

\* Connections deliver, the goroutines that handle messages run, leaders go on
\* proposing and their shards go on committing.
Fairness ==
  /\ WF_vars(txSending) /\ WF_vars(EndBatch) /\ WF_vars(EndOfFile) /\ WF_vars(SendStop)
  /\ \A full \in BOOLEAN : WF_vars(handleBlockInfos(full))
  /\ WF_vars(\E m \in injects : handleInjectTx(m))
  /\ WF_vars(\E m \in relays : handleRelay(m))
  /\ \A s \in Shard : WF_vars(Propose(s)) /\ WF_vars(HandleinCommit(s)) /\ WF_vars(WaitToStop(s))

FairSpec == Spec /\ Fairness

-----------------------------------------------------------------------------
(* Properties.                                                             *)

\* Every variable has its type: no balance is negative, and there is at most one
\* block under consensus.
TypeOK ==
  /\ nowDataNum \in 0 .. dataTotalNum
  /\ phase \in {"reading", "sent", "waiting", "stopped"}
  /\ injects \cup relays \subseteq [to : Shard, txs : Seq(Tx)]
  /\ TxQueue \in [Shard -> Seq(Item)] /\ chain \in [Shard -> Seq(Item)]
  /\ block \in [Shard -> Seq(Seq(Item))] /\ \A s \in Shard : Len(block[s]) <= 1
  /\ balance \in [Account -> Nat]
  /\ panicked \cup halted \cup stops \subseteq Shard
  /\ {emptyInfos, fullInfos} \subseteq Nat /\ stopGap \in 0 .. stopThreshold

Executed(s, x) == \E i \in 1 .. Len(chain[s]) : chain[s][i] = x

\* Both halves of a transaction, or its only one, are in the chains.
Done(t) == Executed(From(t), First(t)) /\ (t \in Cross => Executed(To(t), Second(t)))

\* No half of a transaction is executed twice, whatever is relayed when: nothing
\* in the handlers looks for duplicates.
ExactlyOnce ==
  \A s \in Shard : \A i, j \in 1 .. Len(chain[s]) :
    chain[s][i] = chain[s][j] => i = j

\* A recipient is credited only after the sender's shard has committed the
\* first half, in whatever order injected and relayed transactions arrive.
CreditAfterDebit ==
  \A t \in Cross : Executed(To(t), Second(t)) => Executed(From(t), First(t))

\* HandleinCommit never meets an "incorrect tx": injecting and relaying bring
\* each half to the shard that executes it.
RightShard == panicked = {}

\* The halves that were debited and not yet credited.
InTransit == {t \in Cross : Executed(From(t), First(t)) /\ ~Executed(To(t), Second(t))}

Values == [t \in Tx |-> Rows[t].value]
SentBy(a) == {t \in Tx : Rows[t].sender = a}

\* Whoever sends to another shard can pay all it sends from what it has at first.
Funded == \A t \in Cross : SumFunctionOnSet(Values, SentBy(Rows[t].sender)) <= Init_Balance

\* Balances, none of them negative, and transfers in transit always add up to
\* what there was at first, of a data set that is Funded.
Conservation ==
  /\ TypeOK
  /\ SumFunction(balance) + SumFunctionOnSet(Values, InTransit)
       = Cardinality(Account) * Init_Balance

\* Item x is on its way to shard s, in its pool, in its block or in its chain.
Somewhere(s, x) ==
  \/ \E m \in IF x.relayed THEN relays ELSE injects : m.to = s /\ Holds(m.txs, x.tx)
  \/ Holds(TxQueue[s], x) \/ (block[s] # <<>> /\ Holds(block[s][1], x))
  \/ Executed(s, x)

\* No half of an injected transaction disappears between messages, pools, blocks
\* and chains: neither the first, nor, once that is executed, the second.
NothingLost ==
  \A t \in 1 .. Least(nowDataNum, Len(Rows)) :
    /\ Somewhere(From(t), First(t))
    /\ t \in Cross /\ Executed(From(t), First(t)) => Somewhere(To(t), Second(t))

\* The emulation comes to its end: every shard is stopped, however the reports
\* of empty and full blocks are interleaved.
Terminates == <>(halted = Shard)

(* A statement of the source that the code does not keep.                  *)

\* "the balance is less than the transfer amount", and the transfer is skipped:
\* so no money appears from nowhere.
NothingMinted ==
  SumFunction(balance) <= Cardinality(Account) * Init_Balance
=============================================================================
