------------------------------- MODULE Reshard -------------------------------
(***************************************************************************)
(* Re-sharding with CLPA: the supervisor sends a new partition, the shards *)
(* stop at a barrier, exchange the accounts that move and the transactions *)
(* that wait for them, agree on the transfer and go on.                    *)
(*                                                                         *)
(* A shard is its leader, node 0, to which all messages between shards go. *)
(* Between proposing and committing a block nothing the two steps use can  *)
(* change, so a block is one step; a round of re-sharding is four, since   *)
(* messages handled in between do change what the next one sees.  Messages *)
(* are delivered in any order.  A log.Panic ends the leader (stage         *)
(* "halted").  The proofs of RelayWithProof are always right between       *)
(* honest shards and left out, and so is the fee synchronisation (module   *)
(* Scheduler).                                                             *)
(***************************************************************************)
EXTENDS Slices

CONSTANTS
  ShardNum,
  Account, Addr2Shard,   \* Addr2Shard[a]: the shard of account a by its address
  Rows,                  \* the rows of the data file: sender, recipient, value
  Partitions,            \* Partitions[r]: the maps CLPA_Partition may return in round r
  BlockSize, Init_Balance,
  MaxBlocks              \* bound: blocks a shard commits

Shard == 0 .. ShardNum - 1
Tx == 1 .. Len(Rows)
\* A transaction as a pool or a block holds it.
Item == [tx : Tx, relayed : BOOLEAN]
First(t) == [tx |-> t, relayed |-> FALSE]
Second(t) == [tx |-> t, relayed |-> TRUE]
MaxRounds == Len(Partitions)   \* bound: partitions the supervisor sends
PartialMap == UNION {[D -> Shard] : D \in SUBSET Account}

ASSUME ConfigAssumption ==
  /\ ShardNum \in Nat /\ ShardNum > 1
  /\ {BlockSize, Init_Balance, MaxBlocks} \subseteq Nat
  /\ IsFiniteSet(Account) /\ Addr2Shard \in [Account -> Shard]
  /\ Rows \in Seq([sender : Account, recipient : Account, value : Nat])
  /\ Partitions \in Seq(SUBSET PartialMap)

VARIABLES
  \* the supervisor
  nowDataNum,           \* rows injected so far
  modifiedMap,          \* fetchModifiedMap as a function: where a sender's transactions go
  clpaCnt,              \* partitions sent
  curEpoch,             \* the latest epoch a block was reported of
  \* the leader of shard s
  stage,                \* where HandleinPropose and the consensus on its request are
  sequenceID, lastBlock, \* the next sequence number, and that of the last block
  TxQueue,              \* the pool
  state,                \* the account trie; a missing account has Init_Balance
  PartitionMap,         \* Get_PartitionMap as a function
  ModifiedMap, AccountTransferRound, PartitionOn, PartitionReady, ReadySeq, AccountStateTx,
  seqIDMap,             \* the last relay sequence handled; 0 stands for none, in ReadySeq too
  request,              \* the AccountTransferMsg under consensus
  \* the messages on their way
  msgs, reports,
  \* history: the transactions in committed blocks, and the mishaps so far
  executed, mishaps

supVars == <<nowDataNum, modifiedMap, clpaCnt, curEpoch>>
chainVars == <<sequenceID, lastBlock, state, PartitionMap, executed>>
cdmVars == <<ModifiedMap, AccountTransferRound, PartitionOn, PartitionReady, ReadySeq,
             AccountStateTx, seqIDMap, request>>
vars == <<supVars, stage, chainVars, TxQueue, cdmVars, msgs, reports, mishaps>>

None == 0    \* no sequence number: they begin with 1
PerShard(x) == [s \in Shard |-> x]

Init ==
  /\ nowDataNum = 0 /\ modifiedMap = Addr2Shard /\ clpaCnt = 0 /\ curEpoch = 0
  /\ stage = PerShard("idle")
  /\ sequenceID = PerShard(1) /\ lastBlock = PerShard(None)
  /\ TxQueue = PerShard(<<>>)
  /\ state = PerShard([a \in Account |-> Init_Balance])
  /\ PartitionMap = PerShard(Addr2Shard)
  /\ ModifiedMap = PerShard(<<>>) /\ AccountTransferRound = PerShard(0)
  /\ PartitionOn = PerShard(FALSE) /\ PartitionReady = PerShard({})
  /\ ReadySeq = PerShard(PerShard(None)) /\ seqIDMap = PerShard(PerShard(None))
  /\ AccountStateTx = PerShard(<<>>)
  /\ request = PerShard(<<>>)
  /\ msgs = {} /\ reports = {} /\ executed = {} /\ mishaps = {}

\* f with the values of g where g has one.
Override(f, g) == [a \in DOMAIN f |-> IF a \in DOMAIN g THEN g[a] ELSE f[a]]

Others(s) == Shard \ {s}
Owns(s, a) == PartitionMap[s][a] = s

\* The account a transaction waits for in a pool.
Waits(x) == IF x.relayed THEN Rows[x.tx].recipient ELSE Rows[x.tx].sender

\* The shard has left the barrier and is still in the old epoch.
AccountsSent(s) == stage[s] \in {"collecting", "transferring"}

(* The mishaps: events the code does not provide for.                      *)
Tag(happens, tag) == IF happens THEN {tag} ELSE {}
\* Transactions reach s when their account no longer waits for them there.
LateTag(s, items) ==
  LET pmap == IF AccountsSent(s) THEN Override(PartitionMap[s], Last(ModifiedMap[s]))
              ELSE PartitionMap[s]
  IN Tag(\E x \in items : pmap[Waits(x)] # s, "tx late")

-----------------------------------------------------------------------------
(* The supervisor.                                                         *)

\* MsgSendingControl waits for the epoch of the partition it sent.
EpochReached == curEpoch = clpaCnt

\* The next row goes to the shard that now has its sender.
txSending ==
  /\ EpochReached /\ nowDataNum < Len(Rows)
  /\ nowDataNum' = nowDataNum + 1
  /\ msgs' = msgs \cup {[type |-> "inject", tx |-> nowDataNum',
                         to |-> modifiedMap[Rows[nowDataNum'].sender]]}
  /\ UNCHANGED <<modifiedMap, clpaCnt, curEpoch, stage, chainVars, TxQueue, cdmVars, reports, mishaps>>

\* CLPA runs on the graph of the reported transfers and its result is sent.
clpaMapSend(mmap) ==
  /\ EpochReached /\ nowDataNum > 0 /\ clpaCnt < MaxRounds /\ mmap \in Partitions[clpaCnt + 1]
  /\ clpaCnt' = clpaCnt + 1
  /\ modifiedMap' = Override(modifiedMap, mmap)
  /\ msgs' = msgs \cup {[type |-> "partition", map |-> mmap, nr |-> clpaCnt', to |-> s] : s \in Shard}
  /\ UNCHANGED <<nowDataNum, curEpoch, stage, chainVars, TxQueue, cdmVars, reports, mishaps>>

\* The compare-and-swap of HandleBlockInfo; a report of epoch 0 changes nothing.
HandleBlockInfo(e) ==
  /\ e \in reports
  /\ reports' = reports \ {e}
  /\ curEpoch' = IF curEpoch = e - 1 THEN e ELSE curEpoch
  /\ UNCHANGED <<nowDataNum, modifiedMap, clpaCnt, stage, chainVars, TxQueue, cdmVars, msgs, mishaps>>

-----------------------------------------------------------------------------
(* Messages to the leader of a shard.                                      *)

Receive(m, type) == m \in msgs /\ m.type = type /\ stage[m.to] # "halted"

handleInjectTx(m) ==
  /\ Receive(m, "inject")
  /\ TxQueue' = [TxQueue EXCEPT ![m.to] = Append(@, First(m.tx))]
  /\ mishaps' = mishaps \cup LateTag(m.to, {First(m.tx)})
  /\ msgs' = msgs \ {m}
  /\ UNCHANGED <<supVars, stage, chainVars, cdmVars, reports>>

handleRelay(m) ==
  /\ Receive(m, "relay")
  /\ TxQueue' = [TxQueue EXCEPT ![m.to] = @ \o m.txs]
  /\ seqIDMap' = [seqIDMap EXCEPT ![m.to][m.from] = m.seq]
  /\ mishaps' = mishaps \cup LateTag(m.to, ToSet(m.txs))
                     \cup Tag(m.seq < seqIDMap[m.to][m.from], "relay overtaken")
  /\ msgs' = msgs \ {m}
  /\ UNCHANGED <<supVars, stage, chainVars, reports, ModifiedMap, AccountTransferRound,
                 PartitionOn, PartitionReady, ReadySeq, AccountStateTx, request>>

handlePartitionMsg(m) ==
  /\ Receive(m, "partition")
  /\ ModifiedMap' = [ModifiedMap EXCEPT ![m.to] = Append(@, m.map)]
  /\ PartitionOn' = [PartitionOn EXCEPT ![m.to] = TRUE]
  /\ mishaps' = mishaps \cup Tag(PartitionOn[m.to], "map early")
  /\ msgs' = msgs \ {m}
  /\ UNCHANGED <<supVars, stage, chainVars, TxQueue, reports, AccountTransferRound,
                 PartitionReady, ReadySeq, AccountStateTx, seqIDMap, request>>

handlePartitionReady(m) ==
  /\ Receive(m, "ready")
  /\ PartitionReady' = [PartitionReady EXCEPT ![m.to] = @ \cup {m.from}]
  /\ ReadySeq' = [ReadySeq EXCEPT ![m.to][m.from] = m.seq]
  /\ mishaps' = mishaps \cup Tag(AccountsSent(m.to), "ready early")
  /\ msgs' = msgs \ {m}
  /\ UNCHANGED <<supVars, stage, chainVars, TxQueue, reports, ModifiedMap,
                 AccountTransferRound, PartitionOn, AccountStateTx, seqIDMap, request>>

handleAccountStateAndTxMsg(m) ==
  /\ Receive(m, "accounts")
  /\ AccountStateTx' = [AccountStateTx EXCEPT ![m.to] =
       [t \in DOMAIN @ \cup {m.from} |->
          IF t = m.from THEN [accounts |-> m.accounts, txs |-> m.txs] ELSE @[t]]]
  /\ msgs' = msgs \ {m}
  /\ UNCHANGED <<supVars, stage, chainVars, TxQueue, reports, mishaps, ModifiedMap,
                 AccountTransferRound, PartitionOn, PartitionReady, ReadySeq, seqIDMap, request>>

-----------------------------------------------------------------------------
(* A block.                                                                *)

Packed(s) == SubSeq(TxQueue[s], 1, IF BlockSize < Len(TxQueue[s]) THEN BlockSize ELSE Len(TxQueue[s]))

\* One turn of the loop of GetUpdateStatusTrie.
Execute(s, st, x) ==
  LET r == Rows[x.tx]
      pays == ~x.relayed /\ Owns(s, r.sender)
      paid == IF pays THEN [st EXCEPT ![r.sender] = @ - r.value] ELSE st
  IN IF pays /\ st[r.sender] < r.value THEN st
     ELSE IF Owns(s, r.recipient) THEN [paid EXCEPT ![r.recipient] = @ + r.value]
     ELSE paid

\* The accounts of s after a block.
GetUpdateStatusTrie(s, block) == FoldLeft(LAMBDA st, x : Execute(s, st, x), state[s], block)

\* What HandleinCommit calls an "incorrect tx".
Incorrect(s, x) == ~Owns(s, Waits(x))

\* RelayMsgSend: to every other shard, also when there is nothing to relay.
RelaysOf(s, block) ==
  LET txsTo(t) == Selected(block, {x \in Item : PartitionMap[s][Rows[x.tx].recipient] = t}) IN
  {[type |-> "relay", from |-> s, to |-> t, seq |-> sequenceID[s],
    txs |-> [i \in 1 .. Len(txsTo(t)) |-> Second(txsTo(t)[i].tx)]] :
      t \in Others(s)}

\* HandleinPropose and HandleinCommit for a block: execute, relay, report.
CommitBlock(s) ==
  LET block == Packed(s) IN
  /\ stage[s] = "idle" /\ ~PartitionOn[s]
  /\ sequenceID[s] - AccountTransferRound[s] <= MaxBlocks
  /\ TxQueue' = [TxQueue EXCEPT ![s] = SubSeq(@, Len(block) + 1, Len(@))]
  /\ state' = [state EXCEPT ![s] = GetUpdateStatusTrie(s, block)]
  /\ executed' = executed \cup ToSet(block)
  /\ IF \E i \in DOMAIN block : Incorrect(s, block[i])
       THEN stage' = [stage EXCEPT ![s] = "halted"] /\ UNCHANGED <<msgs, reports, sequenceID, lastBlock>>
       ELSE /\ msgs' = msgs \cup RelaysOf(s, block)
            /\ reports' = reports \cup ({AccountTransferRound[s]} \ {0})
            /\ sequenceID' = [sequenceID EXCEPT ![s] = @ + 1]
            /\ lastBlock' = [lastBlock EXCEPT ![s] = sequenceID[s]]
            /\ UNCHANGED stage
  /\ UNCHANGED <<supVars, PartitionMap, cdmVars, mishaps>>

-----------------------------------------------------------------------------
(* A round of re-sharding.                                                 *)

sendPartitionReady(s) ==
  /\ stage[s] = "idle" /\ PartitionOn[s]
  /\ stage' = [stage EXCEPT ![s] = "ready"]
  /\ PartitionReady' = [PartitionReady EXCEPT ![s] = @ \cup {s}]
  /\ msgs' = msgs \cup {[type |-> "ready", from |-> s, to |-> t, seq |-> sequenceID[s]] : t \in Others(s)}
  /\ mishaps' = mishaps \cup Tag(lastBlock[s] # sequenceID[s] - 1, "no block")
  /\ UNCHANGED <<supVars, chainVars, TxQueue, reports, ModifiedMap, AccountTransferRound,
                 PartitionOn, ReadySeq, AccountStateTx, seqIDMap, request>>

\* Wrong: compared with the announced number itself.
GetPartitionReadyOff(s) ==
  /\ PartitionReady[s] = Shard
  /\ \A t \in Others(s) : seqIDMap[s][t] # None => ReadySeq[s][t] = seqIDMap[s][t]

\* Every shard is ready, and what each relayed last has been handled.
getPartitionReady(s) ==
  /\ PartitionReady[s] = Shard
  /\ \A t \in Others(s) : seqIDMap[s][t] # None => ReadySeq[s][t] = seqIDMap[s][t] + 1

\* Wrong: the transactions are taken out of the pool and not sent.
TransferTxsNone(q, addrs) == <<>>
\* Wrong: the transactions are sent and stay in the pool.
RemainingTxsAll(q, addrs) == q

\* The transactions of the leaving senders, one sender after the other, and what
\* stays in the pool.  The relay pool is empty by now.
TransferTxs(q, addrs) ==
  Concatenated([i \in DOMAIN addrs |-> Selected(q, {x \in Item : Rows[x.tx].sender = addrs[i]})])
RemainingTxs(q, addrs) == Selected(q, {x \in Item : Rows[x.tx].sender \notin ToSet(addrs)})
FetchAccounts(s, addrs) == [a \in ToSet(addrs) |-> state[s][a]]

\* The accounts the newest map takes away from s.
AccountToFetch(s) ==
  LET mmap == Last(ModifiedMap[s]) IN {a \in DOMAIN mmap : mmap[a] # s /\ Owns(s, a)}

\* The accounts that leave s for t, their states and the waiting transactions
\* of these senders go to t; every shard is sent a message.  `accounts' is the
\* order in which the range over the map meets the accounts.
sendAccounts_and_Txs(s, accounts) ==
  LET leaving(t) == Selected(accounts, {a \in AccountToFetch(s) : Last(ModifiedMap[s])[a] = t}) IN
  /\ stage[s] = "ready" /\ getPartitionReady(s)
  /\ stage' = [stage EXCEPT ![s] = "collecting"]
  /\ msgs' = msgs \cup {[type |-> "accounts", from |-> s, to |-> t,
                         accounts |-> FetchAccounts(s, leaving(t)),
                         txs |-> TransferTxs(TxQueue[s], leaving(t))] : t \in Others(s)}
  /\ TxQueue' = [TxQueue EXCEPT ![s] = RemainingTxs(@, accounts)]
  \* TransferTxs looks at the sender only, also where a second half waits.
  /\ mishaps' = mishaps \cup Tag(\E x \in ToSet(TxQueue[s]) :
       x.relayed /\ {Rows[x.tx].sender, Rows[x.tx].recipient} \cap ToSet(accounts) # {}, "half left behind")
  /\ UNCHANGED <<supVars, chainVars, cdmVars, reports>>

\* Wrong: no waiting for the other shards.
GetCollectOverNever(s) == TRUE

getCollectOver(s) == DOMAIN AccountStateTx[s] = Others(s)

\* A look-up in a Go map: 0 for a missing key.
Lookup(mmap, a) == IF a \in DOMAIN mmap THEN mmap[a] ELSE 0

\* What proposePartition calls an "error tx".
ErrorTx(s, mmap, x) == Lookup(mmap, Waits(x)) # s

\* The received transactions enter the pool, the received accounts are proposed.
proposePartition(s, order) ==
  LET got == AccountStateTx[s]
      txs == Concatenated([i \in DOMAIN order |-> got[order[i]].txs])
      addrs == UNION {DOMAIN got[t].accounts : t \in DOMAIN got}
      mmap == ModifiedMap[s][AccountTransferRound[s] + 1]
  IN
  /\ stage[s] = "collecting" /\ getCollectOver(s)
  /\ IF \E i \in DOMAIN txs : ErrorTx(s, mmap, txs[i])
       THEN stage' = [stage EXCEPT ![s] = "halted"] /\ UNCHANGED <<TxQueue, request>>
       ELSE /\ stage' = [stage EXCEPT ![s] = "transferring"]
            /\ TxQueue' = [TxQueue EXCEPT ![s] = @ \o txs]
            /\ request' = [request EXCEPT ![s] =
                 [map |-> mmap, ATid |-> Len(ModifiedMap[s]),
                  accounts |-> [a \in addrs |->
                    LET t == CHOOSE t \in DOMAIN got : a \in DOMAIN got[t].accounts
                    IN got[t].accounts[a]]]]
  /\ UNCHANGED <<supVars, chainVars, msgs, reports, mishaps, ModifiedMap, AccountTransferRound,
                 PartitionOn, PartitionReady, ReadySeq, AccountStateTx, seqIDMap>>

\* Wrong: the received states are dropped.
AddAccountsNone(s, pmap, accounts) == state[s]

\* AddAccounts keeps what now belongs to s.
AddAccounts(s, pmap, accounts) ==
  Override(state[s], Restrict(accounts, {a \in DOMAIN accounts : pmap[a] = s}))

\* The request is committed: the partition changes, the accounts are added.
accountTransfer_do(s) ==
  LET atm == request[s]
      pmap == Override(PartitionMap[s], atm.map)
  IN
  /\ stage[s] = "transferring"
  /\ stage' = [stage EXCEPT ![s] = "idle"]
  /\ sequenceID' = [sequenceID EXCEPT ![s] = @ + 1]
  /\ PartitionMap' = [PartitionMap EXCEPT ![s] = pmap]
  /\ state' = [state EXCEPT ![s] = AddAccounts(s, pmap, atm.accounts)]
  /\ ModifiedMap' = [ModifiedMap EXCEPT ![s] = IF Len(@) # atm.ATid THEN Append(@, atm.map) ELSE @]
  /\ AccountTransferRound' = [AccountTransferRound EXCEPT ![s] = atm.ATid]
  /\ PartitionOn' = [PartitionOn EXCEPT ![s] = FALSE]
  /\ PartitionReady' = [PartitionReady EXCEPT ![s] = {}]
  /\ AccountStateTx' = [AccountStateTx EXCEPT ![s] = <<>>]
  /\ request' = [request EXCEPT ![s] = <<>>]
  /\ UNCHANGED <<supVars, lastBlock, executed, TxQueue, msgs, reports, mishaps, ReadySeq, seqIDMap>>

-----------------------------------------------------------------------------
HandleMessage ==
  \E m \in msgs : \/ handleInjectTx(m) \/ handleRelay(m) \/ handlePartitionMsg(m)
                  \/ handlePartitionReady(m) \/ handleAccountStateAndTxMsg(m)

HandleinPropose(s) ==
  \/ CommitBlock(s)
  \/ sendPartitionReady(s)
  \/ stage[s] = "ready" /\ \E accounts \in SetToSeqs(AccountToFetch(s)) : sendAccounts_and_Txs(s, accounts)
  \/ \E order \in SetToSeqs(DOMAIN AccountStateTx[s]) : proposePartition(s, order)

Next ==
  \/ txSending
  \/ \E mmap \in PartialMap : clpaMapSend(mmap)
  \/ \E e \in reports : HandleBlockInfo(e)
  \/ HandleMessage
  \/ \E s \in Shard : HandleinPropose(s) \/ accountTransfer_do(s)

Spec == Init /\ [][Next]_vars

\* Messages arrive, leaders go on proposing, their shards go on committing; the
\* supervisor need not send another partition.
Fairness ==
  /\ WF_vars(txSending) /\ WF_vars(\E e \in reports : HandleBlockInfo(e))
  /\ WF_vars(HandleMessage)
  /\ \A s \in Shard : WF_vars(HandleinPropose(s)) /\ WF_vars(accountTransfer_do(s))

FairSpec == Spec /\ Fairness

-----------------------------------------------------------------------------
(* Properties.                                                             *)

Halted == \E s \in Shard : stage[s] = "halted"

\* Every variable has its type; no balance is negative.
TypeOK ==
  /\ nowDataNum \in 0 .. Len(Rows) /\ modifiedMap \in [Account -> Shard]
  /\ clpaCnt \in 0 .. MaxRounds /\ curEpoch \in 0 .. clpaCnt
  /\ stage \in [Shard -> {"idle", "ready", "collecting", "transferring", "halted"}]
  /\ sequenceID \in [Shard -> Nat] /\ lastBlock \in [Shard -> Nat]
  /\ TxQueue \in [Shard -> Seq(Item)]
  /\ state \in [Shard -> [Account -> Nat]]
  /\ PartitionMap \in [Shard -> [Account -> Shard]]
  /\ ModifiedMap \in [Shard -> Seq(PartialMap)]
  /\ PartitionReady \in [Shard -> SUBSET Shard]
  /\ {ReadySeq, seqIDMap} \subseteq [Shard -> [Shard -> Nat]]

\* x is in a message, in a pool, or received and not yet in the pool.
OnTheWay(x) ==
  \/ \E m \in msgs : \/ m.type = "inject" /\ x = First(m.tx)
                     \/ m.type \in {"relay", "accounts"} /\ x \in ToSet(m.txs)
  \/ \E s \in Shard : \/ x \in ToSet(TxQueue[s])
                      \/ \E t \in DOMAIN AccountStateTx[s] : x \in ToSet(AccountStateTx[s][t].txs)

\* Where the state of account a counts: with its owner in the newest epoch, or,
\* as long as that shard has not entered the epoch, where that shard thinks it is.
Holder(a) ==
  LET newest == CHOOSE s \in Shard : \A t \in Shard : AccountTransferRound[t] <= AccountTransferRound[s]
  IN PartitionMap[PartitionMap[newest][a]][a]

\* The halves that were debited and not yet credited.
InTransit == {t \in 1 .. nowDataNum : OnTheWay(Second(t)) /\ Second(t) \notin executed}

\* Moving accounts between the tries of shards neither creates nor destroys money,
\* whatever is relayed while they move: each account counts where it is held, and
\* none is negative.  A shard that takes two maps for one loses track of the epochs.
Conservation ==
  /\ TypeOK
  /\ Halted \/ "map early" \in mishaps \/
     MapThenSumSet(LAMBDA a : state[Holder(a)][a], Account)
       + MapThenSumSet(LAMBDA t : Rows[t].value, InTransit)
       = Cardinality(Account) * Init_Balance

\* No transaction disappears when the pools of the moving accounts are emptied
\* and sent on: it is on its way until a block has it.
NothingLost == \A t \in 1 .. nowDataNum : First(t) \in executed \/ OnTheWay(First(t))

\* A leader ends with "incorrect tx" or "error tx" only after a transaction
\* arrived late, a second half stayed behind, or a map came too early: first
\* halves that are in the pool in time follow their sender.
HaltExplained == Halted => mishaps \cap {"tx late", "half left behind", "map early"} # {}

E == INSTANCE Epochs WITH epoch <- AccountTransferRound, frozen <- {s \in Shard : AccountsSent(s)}

\* The barrier works: no shard executes blocks of an epoch while another is
\* already in the next one.
EpochsDoNotOverlap ==
  E!Init /\ [][E!Next \/ "map early" \in mishaps \/ Halted' \/
               UNCHANGED <<AccountTransferRound, {s \in Shard : AccountsSent(s)}>>]_vars

\* Every partition that is sent is carried out by all shards, unless one of the
\* events the barrier does not provide for has happened.
RoundsComplete ==
  \A r \in 1 .. MaxRounds :
    clpaCnt >= r ~> \/ \A s \in Shard : AccountTransferRound[s] >= r
                    \/ Halted \/ mishaps \cap {"relay overtaken", "map early", "ready early", "no block"} # {}
=============================================================================
