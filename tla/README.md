# A TLA+ model of Justitia / BlockEmulator

The repository is a sharded-blockchain emulator in Go: every node of every shard is a
process that runs PBFT with its shard, a supervisor process injects a data set of
transactions and collects measurements, and the Justitia extension decides, from
average fees and subsidies, which cross-shard transactions a leader puts in a block.
The modules here model that program from its source, TLC checks them on small
instances, and TLAPS proves the most important properties for every instance.
`PROJECT.json` lists the runs, the source lines behind every definition (`map`), the
mutants that show each property can fail, the hazards and the theorems.

## 1. Inventory

| Component (source) | State | Operations | Hard behaviour | What makes it correct |
|---|---|---|---|---|
| Shard consensus (`consensus_shard/pbft_all`: `messageHandle.go`, `view_change.go`, `pbft.go`) | sequence, view, stage, request pool, vote maps, two mutexes, a condition variable | proposing routine; PrePrepare, Prepare, Commit; catch-up by old sequences; view change; restart | handlers run in goroutines and wait on a condition variable; messages overtake each other; the stage is written by two goroutines; view changes carry no prepared block | one chain per shard, a quorum behind each block, lock discipline, progress |
| Chain of a node (`chain/blockchain.go`) | `CurrentBlock`, state trie, pool, partition map | `GenerateBlock`, `AddBlock`, `GetUpdateStatusTrie`, `NewBlockChain`, `AddAccounts` | state committed before agreement; reload after a crash | chains linked; money conserved |
| Storage (`storage/storage.go`) | three bolt buckets | block, header, newest: three transactions per block | crash between two transactions | what is on disk can be loaded; reported blocks survive |
| Relay method (`pbftInside_module.go`, `pbftOutside_module.go`, `toolFuncs.go`) | relay pool, messages | inject, pack, execute, commit, relay, report | two halves of a transfer in two shards; nothing detects duplicates | each half once, credit after debit, conservation, nothing lost |
| Supervisor (`supervisor/supervisor.go`, `signal`, `committee/committee_relay.go`) | rows read, stop gap | read and send batches, count block reports, stop | "finished" is guessed from empty blocks | the run ends; nothing is pending when it does |
| Pools (`core/txpool.go`, `core/txpool_justitia.go`) | FIFO queue; heap | add, pack, transfer, filter | the priority pool unlocks in the middle of packing | no transaction lost or doubled |
| Justitia mechanism (`incentive/justitia/justitia.go`) | shadow price, PID state | subsidy, split, classification, shadow price | rounding, thresholds that meet or cross | fair split, monotone in the fee, parity of local and cross-shard |
| Scheduler (`txpool/scheduler/select.go`) | epoch counters | score, three phases, end of epoch | starvation of the lowest phase; counters spread over blocks | a transaction is put off only by full blocks; price defends the budget |
| Fee tracker (`fees`) | window and average per shard | finalize a block, take a remote average | messages out of order; partial windows | averages within the fees seen; trackers agree |
| Re-sharding with CLPA (`accountTransfer_module.go`, `*CLPA*.go`, `committee_clpa.go`) | partition map, readiness maps, relay sequences, account states, the supervisor's epoch | partition, readiness, account transfer | a barrier across shards built on two kinds of messages; relays and injected transactions still on their way | epochs do not overlap, accounts move with their money and their transactions, every round ends |
| CLPA algorithm (`partition`) | graph, partition, weights kept move by move | add an edge, move a vertex, reset | incremental weights, a division by the smallest weight, counts over resets | weights and sizes are those of the graph, no shard is emptied, the supervisor's map agrees |
| Broker method (`broker`, `committee_broker.go`, `*Broker*.go`) | raw messages, two confirmation pools, the books | split, send, confirm, follow up | two goroutines of the supervisor that sleep while they send; confirmations in any order | each half once and in order, none stuck between them |
| Broker method with CLPA (`committee_clpa_broker.go`, `*CLPABroker.go`, `accountTransfermod_Broker.go`) | both of the above | both, and transfers within a shard that become cross-shard ones | the two protocols at once | not modelled |
| Pending ledger, subsidy budget (`crossshard/pending`, `economics/subsidy_budget`) | maps under a mutex; bounds | add, settle, clean up; scale | entries that come back; 64-bit products, rounding | each reward paid once, the bounds kept; called by their tests only |
| Network (`networks`) | connection pool, rate limiters | `TcpDial`, `Broadcast` | every send in a goroutine, delayed at random, dropped on error | modelled as messages in any order, or never |
| Merkle proofs, queries, build, configuration, ingestion, VRF, measurement, logs | | sequential input and output | | not modelled |

Interactions: the supervisor sends `InjectTxs` to node 0 of each shard; a shard's leader
packs its pool into a block, the consensus commits it at every node, and the commit
handler of the leader stores it, relays the second halves (`Relay`) to the leaders of
other shards, broadcasts its average fee (`FeeInfoSync`) and reports to the supervisor
(`BlockInfoMsg`), which resets or advances the stop gap and finally sends `CStop`.

## 2. Modules

| Module | Models | Uses |
|---|---|---|
| `Pbft` | one shard's consensus, all nodes, all messages | `ShardLog` (abstract log) |
| `ShardLog` | what a shard promises: one replicated log | |
| `Relay` | supervisor, pools, cross-shard transfers, stop signal | a shard as the log of `ShardLog`; `Slices` |
| `Reshard` | rounds of re-sharding beside relayed transfers, the supervisor's epochs | `Epochs` (abstract barrier), `Slices` |
| `Epochs` | what the barrier promises: a shard enters an epoch when all have left the last one | |
| `Clpa` | the partition algorithm, reports, runs and resets | |
| `Broker` | the broker committee's goroutines and the broker shards | `TwoHalves` (abstract transfer), `Slices` |
| `TwoHalves` | what the broker method promises of a transfer: paid in, paid out, finished, once each | |
| `Slices` | the loops that sort transactions by shard or by account into slices | |
| `Storage` | a node's disk, crash and reload; its definitions are named so that it can be extended beside `Pbft` | |
| `Justitia` | the pure functions of the incentive mechanism | |
| `Settlement` | pending ledger and budget of a block, with averages that move | `Justitia` |
| `Scheduler` | priority pool, selection, fee tracker, fee messages, epochs | `Justitia` |
| `PbftProofs` | theorems about a node: `Pbft` and `Storage` | |
| `RelayProofs`, `ReshardProofs`, `BrokerProofs`, `ClpaProofs`, `SchedulerProofs` | theorems | the module of that name, `Folding` |
| `JustitiaProofs` | theorems about `Justitia` and `Settlement` | `Folding` |
| `Folding` | lemmas: induction over finite sets and numbers, sums, folds over sequences, what slices hold | `Slices` |
| `MCPbft`, `MCRelay`, `MCReshard`, `MCClpa`, `MCBroker`, `MCStorage`, `MCScheduler` | instances for TLC (`Settlement` needs none) | |

**Pbft.** A digest is the number of a proposal; `blocks` records the parent, the height
and the SeqID of each, `chain[n]` the digests in node `n`'s chain. The other variables
carry the names of the fields of `PbftConsensusNode`. `handlePrePrepare`,
`handlePrepare` and `handleCommit` hold `pbftLock` and are one action each, enabled
when the wait loop lets them pass. The proposing goroutine is three actions
(`BeginRound`, `SendPrePrepare`, `StoreStage`): it checks the view, then waits for
`sequenceLock`, and writes the stage after it has sent, and anything may happen in
between. `handleCommit` that must ask for old blocks while `askForLock` is taken is
`parked` and keeps `pbftLock`. The catch-up loop adds one block per step because its
handler does not hold `pbftLock`. Votes are counted per message, as the code's maps are
keyed by pointers. Sync of `lastCommitTime`, pStop and logging are left out: a
timeout can happen at any time. `relayed[d]` counts how often a leader, in `HandleinCommit`,
relayed and reported block `d`, which it does whether or not `AddBlock` took it. One
proposing goroutine per node is followed, and `handleSendOldSeq`, which writes `sequenceID`
before it reads the answer, is one step up to its loop; no property looks at the difference.

**Relay.** One state per shard: the replicated log of `ShardLog`, each block of which is
relayed and reported once by node 0. That is what `Pbft` shows of a shard whose first leader
is in office (`ImplementsLog`, `RelayedOnce`, both proved), and it is the scope of this
module: no view change happens in it, and `AddBlock` refuses no block. The repository offers
view changes for a single shard only (`docs/versionUpdate.md:22`, "only provide this
mechanism for only one shard now"), where nothing is relayed; what they would do to relaying is shown in `Pbft`
itself (section 6: two leaders relay one block, or a leader relays a block its shard goes
on without). Node 0's pool is a sequence, blocks are sequences of
items, `balance` is per account. `HandleinCommit` is the leader's handler with all its
calls. `txSending` follows the batch and piece arithmetic of the committee, with the rows at
the end of a short file that are read and never sent; the stop gap is saturated at its
threshold because only `>=` is asked of it.

**Reshard.** A shard is its leader, node 0, to which every message between shards goes.
A block is one step: nothing that proposing and committing it use can change in between.
A round of re-sharding is four steps, which are the phases of `HandleinPropose` and the
commit of the transfer: `sendPartitionReady`, `sendAccounts_and_Txs` once
`getPartitionReady` holds, `proposePartition` once `getCollectOver` does,
`accountTransfer_do`. `stage` says which comes next; a `log.Panic` ends the leader
(`"halted"`). `accountTransfer_do` is one step, although a map could be handled between its
assignments, which is the mishap `map early` with another outcome. `seqIDMap` and `ReadySeq` are the two sides of the barrier. Orders of Go
maps (`accounts`, `order`) are parameters. Which map CLPA returns is any of
`Partitions[r]`; `Clpa` is about which ones it can be. The history variable `mishaps`
records the events the protocol does not provide for, so that properties can say exactly
which of them are needed for a failure.

**Clpa.** `EdgeSet[v][u]` is how often `u` occurs in the list of `v`. One visit of the inner
loop is one step, in any order, as the range over a Go map is; with the penalty 1/2 the
float scores are compared as exact fractions, and of equal ones any may win.

**Broker.** The reader goroutine (`dealTxByBroker`, `readerSends`) and the handling of
reports (`HandleBlockInfo`, `confirmerSends`, `handleTx2ConfirmMag`) interleave wherever
`txSending` sleeps; the tx1s of a batch and its other rows are two calls of it, cut into
pieces apart. A batch is sent when it is full or when `dataTotalNum` rows are read, so that the
rest of a shorter file is dropped. `Stop(s)` is the supervisor's stop message, at any time
after the reader is done, when confirmations may be pending. A transaction is its hash: kind, row and which copy of that row it is.
Blocks execute as in `GetUpdateStatusTrie` with its `HasBroker` exceptions; unfunded
halves are skipped and reported all the same.

**Settlement.** `Add` splits with the averages of its moment, `Settle` pays both
proposers, `CleanupOld` drops entries, all three again and again; the budget's functions
are applied to whatever is pending. The two shares of a split add up to fee and subsidy, less
one when halving leaves a rest, and less what a negative share is cut by; `SplitIsFair` says
exactly when. Amounts of a budget are taken modulo `Word`.

**Storage.** The set `Block` with `Parent` and `StateRoot` is a tree of all blocks that
might be built. `BeginAddBlock` is `AddBlock` up to its first bolt transaction, then `PutBlock`,
`AddBlockHeader`, `UpdateNewestBlock`, `Added`; `Crash` anywhere. A block with another
parent than the newest is refused: `AddBlock` returns, nothing is stored, and
`HandleinCommit` reports the block all the same.

**Justitia, Scheduler.** Amounts are unbounded integers as in `math/big`. The Lagrangian
mode's floats are fixed-point numbers in hundredths. `Drain` and `Select` are the two
critical sections of `packTxsWithScheduler`; the averages a selection reads do not
change while it runs (the code reads them anew for every transaction). Fees above `FeeCap` (1e14 wei) are capped before they are averaged. Transactions that tie are ordered by arrival. `issued` is a
history variable: what the transactions really packed were granted.

## 3. Runs

All runs but `Storage_crash` set `CHECK_DEADLOCK FALSE`: with bounded proposals, timeouts,
transactions and rounds the system really comes to rest.

| Run | Bounds | Shows |
|---|---|---|
| `Pbft_recovery` | 2 nodes, 2 blocks, 1 restart or 1 timeout | the second block starts while the first is under way; a restart at any point, the leader's too, which is then asked for blocks it has forgotten; two leaders at once. `TypeOK`, `AgreementUndisturbed`, `ChainLinked`, `OneQuestion`, `RelayedOnce`, and `ImplementsLog`: the consensus refines `ShardLog` while its first leader is in office. `RoundCompletes`: a node stops short of a block only if it filed a PrePrepare ahead of its turn, counted a Commit of a later block, or was set back by its own late `Store(2)`; each of the three occurs, and without it the property fails (522 thousand states) |
| `Pbft_viewchange` | 4 nodes, f = 1, 1 block, 3 timeouts | a block by itself, every order of 4 PrePrepares, 16 Prepares and 16 Commits: `LeaderInStep`, `CommitCertificate`, `RoundCompletes`. A view change by itself, and one while the Commits of a block are handled node by node, before, between and after its messages: not without 2f+1 complaints (`NoSpuriousViewChange`), and complete once all messages are handled (`ViewChangeCompletes`) unless they name two sequences; then it need not be, and TLC finds it incomplete (1.1 million) |
| `Pbft_fork` | 4 nodes, 2 blocks, 3 timeouts | counterexample, section 6 |
| `Relay_transfer` | 2 shards, 4 rows of 6 announced, one batch of 3 in two pieces and a row never sent, blocks of up to 2, fair | `RightShard`, `ExactlyOnce`, `CreditAfterDebit`, `NothingLost`, `Conservation`, `Terminates`; one of the transfers can be paid only after another has arrived (165 thousand) |
| `Relay_unfunded` | 2 crossing transfers, balances of 1 | counterexample, section 6 |
| `Reshard_rounds` | 2 shards, 2 accounts, 1 transfer between them, 2 rounds, the accounts moving together and apart, fair | `Conservation`, `NothingLost`, `EpochsDoNotOverlap` (refines `Epochs`), `HaltExplained`, `RoundsComplete`; every mishap occurs, and leaving any of them out of a property gives a counterexample |
| `Broker_transfer` | 2 shards, 7 rows of 9 announced: two batches of 3 in pieces of 2, and a row never sent; transfers that need a broker, that are a broker's own and that are within a shard, one unfunded; stop messages at any time, fair | `NothingStuck`, `Conservation`, `ImplementsTwoHalves` (refines `TwoHalves`), `AllFinished` (68 thousand) |
| `Clpa_rounds` | 3 shards, 4 accounts, up to 5 transfers, 2 runs of 3 iterations, at most 2 moves of a vertex | `WeightsExact`, `MapsAgree`, `MovesGuarded`; three shards are needed for edges to a third one |
| `Storage_crash` | a tree of 5 blocks, any number of crashes and of refused blocks | `Recoverable`, `ReportedKept` (24 thousand) |
| `Justitia_rewards` | 2 pairs, averages and subsidies 0..3, words of 16 | `Fair` and `FeeDecides` at all averages the blocks can reach; the functions are piecewise linear with coefficients 1/2, so 0..3 meets every case and both parities, and the proofs cover the rest. `PaidOnce`, `BudgetKept` (114 thousand) |
| `Justitia_conservation` | the same | counterexample, section 6 |
| `Scheduler_pool` | 2 shards, 4 transactions, blocks of 1, `Lagrangian`, epochs of 2 blocks, empty ones too, a window of 2, fees over the cap | `NoTxLost`, `BudgetDefended`, `AverageInRange` with windows empty, partial and sliding, and `DelayedNotDropped`: only full blocks put a transaction off (941 thousand) |

Two nodes give f = 0 and a quorum of 1. That is small, but it is where each node can run
ahead of the others most freely, so catch-up, restarts and two leaders happen with few
messages; the runs with 4 nodes have f = 1. `CONSTRAINT`s in `MCPbft` cut behaviours
off and change no definition. `BlockAndViewChange` has a block (`NoViewChange`), a view change
(`NoBlock`; nodes 2 and 3, which are alike, do not overtake each other), or the Commits of a block beside a view change (`CommitsDuringViewChange`, in one
order of nodes and senders); `OneFault` has a
restart or a timeout but not both, and keeps node 0 in its view: no view change is
delivered, or node 1 takes over, after node 0 committed a block, and both lead;
`ForkSchedule` guides the search to a long counterexample, which is an ordinary behaviour of
`Pbft`. One transfer is enough in `Reshard_rounds` because its two halves meet
both accounts' moves in both rounds, before, at and after the barrier.

The type invariants of `Relay`, `Reshard`, `Broker`, `Clpa`, `Settlement` and `Scheduler`
are conjuncts of a property about amounts (`Conservation`, `WeightsExact`, `PaidOnce`,
`AverageInRange`), which would be meaningless without them.

**Fairness.** Weak fairness of each handler and of the proposing routine: TCP connections
of the running emulation deliver, Go's scheduler runs every runnable goroutine, and a
handler that waits is woken by the `Broadcast` deferred in each of them. Timeouts, view
changes, restarts and stop messages are never forced. In `Pbft` every message is handled once
and there are finitely many, so that progress is stated of the states in which nothing is left
to do (`AtRest`, no action of `Working` is enabled): weak fairness of the handlers leads there.
The two excuses of `RoundCompletes` are what the code does (hazards at `messageHandle.go:77`
and `:116`), and there is no third.
`RoundsComplete` assumes that messages between shards and reports arrive, that leaders go
on proposing (a goroutine that loops for ever) and that their shards go on committing; the
supervisor is never forced to send a partition. `AllFinished` assumes the same of the
broker shards, and that both goroutines of the supervisor run.

## 4. Proofs

All theorems are of the form `Spec => []Inv`, `Spec => [][A]_vars` or a refinement, for
every value of the constants that satisfies the named assumptions.

| Theorem | Statement | Argument |
|---|---|---|
| `PbftProofs!TypeCorrect` | `Spec => []TypeOK` | one lemma per group of actions; a chain's elements stay digests because only proposed digests are ever voted on or sent |
| `PbftProofs!OneChain` | `Spec => []SingleChain` | the inductive invariant below |
| `PbftProofs!AgreementHolds`, `LeaderHolds` | `Spec => []AgreementUndisturbed`, `[]LeaderInStep` | from `SingleChain` |
| `PbftProofs!ShardIsLog` | `Spec => ImplementsLog`: every step of `Pbft` while undisturbed is a step of `ShardLog` or leaves the chains alone | from `SingleChain` and the next-state relation |
| `PbftProofs!LeaderRelaysOnce` | `Spec => []RelayedOnce`: while the first leader is in office the blocks relayed and reported are those of its chain, each once | from `SingleChain`: no backup leads, and the leader only commits the block that is next |
| `PbftProofs!CertificatesHold` | `Spec => []CommitCertificate` | `CertificatesKept`: Commits on their way and counted are as many as their senders (`Fresh`: nobody votes twice), and a fetched block was committed by the node that sends it |
| `PbftProofs!ChainsLinked` | `Spec => []ChainLinked` | parent and height of a proposal are fixed when it is made, and `AddBlock` compares both |
| `PbftProofs!QuestionsGuarded` | `Spec => []OneQuestion` | `QuestionsApart`: a request, its answer and the lock are never there twice |
| `PbftProofs!ViewChangeNeedsQuorum` | `Spec => []NoSpuriousViewChange` | `ViewChangesCounted`: complaints on their way and counted are at most the nodes that timed out |
| `PbftProofs!CrashSafe`, `DiskGrows` | `StorageSpec => []Recoverable`, `StorageSpec => GrowsByOne` | `StorageInv` (types, `Recoverable` and `Orderly`) is inductive; that the newest block on the disk only moves to a child is proved and has no run |
| `PbftProofs!ReportedSurvives` | `StorageSpec => []ReportedKept`: of the blocks reported, those that `AddBlock` took; that the first leader has no others is `LeaderRelaysOnce` | the chain loaded is the newest block's ancestry, which only grows |
| `RelayProofs!EachInItsShard`, `ExecutedOnce`, `DebitedFirst` | `Spec => []RightShard`, `[]ExactlyOnce`, `[]CreditAfterDebit` | `IInv`: one place per half |
| `RelayProofs!NoHalfDisappears` | `Spec => []NothingLost` | `Tracked`, beside `IInv` |
| `RelayProofs!MoneyConserved` | `Funded` and finitely many accounts: `Spec => []Conservation` | `Booked`, carried through the loop of `GetUpdateStatusTrie` |
| `ReshardProofs!EpochsNeverOverlap` | `Spec => EpochsDoNotOverlap`: every step of `Reshard` is a step of `Epochs`, unless a map came early or a leader panicked | `EpochInv`, the barrier seen by each pair of shards |
| `ReshardProofs!ReshardLosesNothing` | `Spec => []NothingLost`, whatever goes wrong | `LostInv`: an injected row is executed or has a place |
| `ReshardProofs!HaltsExplained` | `Spec => []HaltExplained` | `HaltInv`: until one of the three mishaps, pools, messages and maps agree |
| `BrokerProofs!NoTransferStuck` | `Spec => []NothingStuck` | `BrokerInv`: one place per transaction |
| `BrokerProofs!BrokerRefinesTwoHalves` | `Spec => ImplementsTwoHalves`: every step of `Broker` is a step of `TwoHalves` or leaves all phases alone | a step moves a transaction at most one place on (`Advances`) |
| `BrokerProofs!BrokerConserves` | `Spec => []Conservation`, funded or not | `MoneyInv`: each turn of the loop changes the home balances by what the half says |
| `ClpaProofs!MapsAgreeAlways` | `Spec => []MapsAgree` | `MapsInv` is inductive |
| `ClpaProofs!WeightsAlwaysExact`, `SizesAlwaysExact`, `MovesAlwaysGuarded` | `Spec => []WeightsExact`, `[]SizesExact`, `Spec => MovesGuarded` | `GraphInv`; the sizes of the shards, on which `MovesGuarded` rests, are proved only; what `changeShardRecompute` adds and takes is the difference of two sums over the neighbours of the moved vertex |
| `JustitiaProofs!SplitFair`, `FeeMonotone`, `DestAvgFair` | the promises of `Justitia` for all natural amounts, the unit that halving loses and the cut of a negative share included | linear arithmetic over the three cases of `Split2` |
| `JustitiaProofs!AlwaysFair`, `FeeAlwaysDecides` | `Spec => []Fair`, `[]FeeDecides` | from the three above at whatever averages are reached |
| `JustitiaProofs!RewardsPaidOnce` | `Spec => []PaidOnce` | `EntriesKept`, `CreditsTraced` |
| `JustitiaProofs!BudgetAlwaysKept` | `Spec => []BudgetKept` | rounding down loses less than a unit per pair: bounds on a sum of quotients |
| `SchedulerProofs!NothingLostInThePool` | `Spec => []NoTxLost` | `Whereabouts`: a half is pending, in the queue, in the drained copy, in flight or committed, and in one of them |
| `SchedulerProofs!AveragesInRange` | `Spec => []AverageInRange` | `AveragesTraced`: every average in a window, a tracker or a message is between two capped fees of its shard; `IssuedCounted` |
| `SchedulerProofs!PriceDefendsBudget` | `Spec => BudgetDefended` | the price is compared before the total is reset |

**Pbft.** Agreement is not inductive: nothing in it says which block a pending Commit is
about. `SingleChain` says it: as long as node 0 leads and has not restarted, proposal `d` has
height, number and SeqID `d` and parent `d - 1` (`ProposalsInOrder`), every chain is
`1, 2, ...` (`ChainsInOrder`), and the leader is in step with its lock, is never behind
and never asks for old blocks (`FirstLeader`). No quorum argument is needed: with a
single honest leader the height and parent checks of `AddBlock` alone force agreement,
which is also why agreement is lost as soon as a second leader appears (`Pbft_fork`).
The certificate needs one: messages are counted, so a message must stand for a node.
`AddBlock`'s parent check is what `Orderly` rests on in `Storage`.

**Relay.** The theorems are about shards as `LeaderRelaysOnce` and `ShardIsLog` show them, each
a log that its first leader relays once. Nothing in the handlers looks for duplicates, so that
each half is executed once rests on there being one copy of it. `OnePlace(s, x)` says that item `x` is on its way to
shard `s`, in its pool, in its block or in its chain, in one of them only, and only if it
belongs there: a first half in its sender's shard, a second in the recipient's and only
once the first is in a chain. `NoRepeats` says that no message, pool, block or chain has an
item twice and no two messages share one. With the types these are inductive; each action
moves items from one place to the next, and `Selected`, the slices that `txSending` and
`RelayMsgSend` build, keeps order and membership (`SelectedHolds`). `Tracked` is
`NothingLost` in terms of places. Conservation is not true of every data set: a first half
that cannot be paid is skipped and its second half credited (`Relay_unfunded`).
`MoneyConserved` has the premise `Funded`: whoever sends to another shard can pay all its
rows from `Init_Balance`, as the default of the configuration makes sure by a wide margin.
Then `Booked` is kept by each turn of the loop: balances and transfers in transit add
up, and a sender across shards has at least `Init_Balance` less what it was debited. The rows
of `Relay_transfer` are `Funded`, with a local transfer that is skipped at first.

**Reshard.** That a shard enters an epoch only when all others have stopped has to be
inferred from messages, without any number of the round in them. `EpochInv` says what they mean,
for each pair of shards. It is stated of two things the state does not have, which transfers
each shard has carried out (`ep`) and in which stage it was when it panicked (`st`); the
invariant says that such histories exist. An announcement on its way or noted is of the round its receiver is
in, or, once the receiver has left the barrier, of the next one; there is never a second
(`Announcements`). An AccountStateAndTx on its way or noted comes from a shard that has left
the receiver's epoch (`Deliveries`). Epochs are equal, or differ by one across the barrier (`InStep`),
and the maps a shard has are one per epoch and the one under way (`Own`), so that the
`ATid` of a transfer, which is the length of that list, is the next epoch. The last part fails when
a map arrives before the one under way is carried out, hence the exception in the
property; a lost announcement (`"ready early"`) or an overtaken relay stops the round but lets no
epochs overlap, and the theorem needs no exception for them.

`NothingLost` needs no exception at all. `Placed(x)` says that `x` is in a message, in a
pool, or received with accounts and not yet merged. The moments at which a transaction could
disappear are three: the pool is emptied for the leaving senders (each sender that leaves goes
to one shard, so that what is taken out is what is sent, `TransferTxs` and `RemainingTxs`);
a second AccountStateAndTx from a shard replaces the first (`Deliveries`: the first was
carried out before); and the received ones are wiped out after the transfer (`Merged`: they are in the
pool by then).

`HaltExplained` says that the code's two panics have no other cause than the three events. Until
one of them happens, every transaction in a pool waits for an account of that shard under the map the
shard will go by next (`InPlace`), what is sent with accounts is what the receiver's own
map brings there (`Addressed`), and the map of a request is the newest (`Requested`). Sender and
receiver must have been given the same map, which is the supervisor's doing: it sends a map only when
the epoch of the last one was reported, a report means that some shard carried it out
(`Reports`), and that means that every shard had received it, since the barrier waits for
all. `Sent` says so: there is one list of maps, of which every shard has the same beginning.

**Broker.** Nothing looks for duplicates here either, and the confirmations go through two
goroutines. `Tracked(loc)` says that `loc` gives each transaction one place: the reader's or
the confirmer's slice, a message, a pool, a report, the slice of confirmed tx2, or nowhere any
more. Each of these is exactly what `loc` says (`Located`), on the way to or in the shard
`txSending` chose (`Directed`), a tx2 exists from the moment its tx1 is confirmed (`Lives`),
and the pools of confirmations, the books and the blocks are functions of `loc` (`Books`).
`BrokerInv` says that there is such a `loc`. The phase of a transfer can be read off it
(`PhaseIs`), and each step gives a `loc` in which no phase has moved by more than one,
which is the refinement. For `Conservation` the blocks have to be followed transaction by
transaction: the ordinary party of a half is at home where the half is executed (`Parties`),
so that a turn of the loop changes what that shard's ordinary accounts have by what the half
says (`ExecuteHeld`), or refuses it; the transactions of a block are different, so that the
block changes it by the sum (`BlockHeld`).

**Clpa.** `MapsAgree` speaks of the vertices of the graph only, and a reset empties the graph;
`MapsInv` says the same of every account the partition has an entry for, graph or not,
which is what the next report's `AddVertex` relies on. `GraphSimple` (edges in both
directions, none to oneself) is what makes the incremental weights right: moving a vertex
turns an edge to its old shard into a cross-shard one and counts it once at each end.

**Induction.** The library's induction theorems take a predicate as an operator, which
the provers cannot instantiate. `Folding` restates them with the predicate as a set
(`NatSetInduction`, `SubsetInduction`, from the well-foundedness of `<` and of the strict
subset order), derives that `MapThenFoldSet` satisfies its recursion on every finite set
(`FoldExists`), and from there the laws of `SumFunctionOnSet` (one element more, an updated
summand, unions, bounds) and of `FoldLeft` over a sequence, with what `Selected` and
`Concatenated` hold. That is why sums in the models
are `SumFunctionOnSet`, and loops `FoldLeft`, without `RECURSIVE` operators.

**Assumptions.** `NAssumption` (at least one node), `BoundAssumption` (bounds are naturals),
`TreeAssumption` (the genesis block is its own parent, `None` is no block),
`ConfigAssumption` of `Relay` (positive sizes, rows between different accounts of the
shards), that of `Reshard` (at least two shards, finitely many accounts, partial maps) and of
`Broker` (at least one broker, positive sizes, finitely many accounts), and those of `Clpa`,
`Settlement` and `Scheduler`, which say what types the
parameters have, and that 0 is an amount, since `GetAvgITXFee` answers 0 before the first
block. TLC evaluates them in every run.

**Only model-checked.** The liveness properties (`Terminates`,
`RoundsComplete`, `AllFinished`), since fairness and `ENABLED` are beyond
the prover; `RoundCompletes`, which uses `ENABLED`; `ViewChangeCompletes`, which is about its run,
without new proposals in the new view, and no invariant of `Spec`; `DelayedNotDropped`; and `Conservation` of `Reshard`. Like that of `Relay` it is not true of
every data set, since a first half that cannot be paid is relayed all the same; under `Funded` a
proof would add to `EpochInv` that there is one copy of each half, as in `Relay`, and that the states
sent with accounts stay those of their old shard until the new one has them.

## 5. Mutants

For every property of a passing run `PROJECT.json` names a wrong version of one
operator, kept beside the right one with a comment that begins "Wrong:", under which TLC
finds the property violated: dropped checks, off-by-one comparisons, resets in the wrong
order, a relay that happens too early. They are not used by the specifications.

## 6. Where code and comments disagree

Three runs end in a counterexample:

- `Pbft_fork`: after a view change two nodes can hold different blocks at a height,
  because a NewView carries no prepared block; `pbft.go` says that all nodes of a shard
  maintain the same blockchain.
- `Relay_unfunded`: a transfer the sender could not pay is skipped in the sender's shard,
  relayed all the same and credited in the recipient's.
- `Justitia_conservation`: both shares of a split are rounded down; comments, `docs/fees.md`
  and `TestSplit2_Conservation` say that they add up to fee and subsidy.

Other statements of the repository that the code does not keep are named where a property
meets them:

- `pbft.go:183` says that a pre-arrival message will not be aborted; a PrePrepare ahead of
  its sequence is stored and never prepared (`Overtaken` in `RoundCompletes`).
- `FEE_SYNC_IMPLEMENTATION.md:401` says that only the leader broadcasts, to avoid repeated
  messages. Votes are not bound to a view, so a new leader that handles the messages of a
  block only after the view change commits and relays it after the old leader did:
  `relayed[d]` is 2 then. `RelayedOnce` is about the first leader.
- `avg_test.go:238` (`TestTracker_LargeValues`) and `docs/fees.md:179` average the fees
  themselves; the code caps each at 1e14 wei first, so that the average of larger fees is
  below all of them. `AverageInRange` is about the capped fees.
- `FEE_SYNC_IMPLEMENTATION.md:161` gives one block interval as the delay of a remote average;
  an older one handled last overwrites a newer one and stays until the shard's next message
  (`handleFeeInfoSync`). `AverageInRange` holds of old copies too.
- `docs/fees.md:242` lists Case2 as excluded; room that is left in a block is filled with it,
  "delayed but not dropped" as `select.go:108` says (`DelayedNotDropped`). As long as better
  transactions leave no room, one of Case2 waits for ever.

Others are plain in the model, and the properties are stated so as not to hide them: the
stage number is written last by the proposing goroutine and need not name the phase
(`StoreStage`, `SetBack`); complaints of nodes at different sequences never add up
(`SequencesDiffer`); a block `AddBlock` refuses is relayed and reported; a new leader that
commits its predecessor's block unlocks a free mutex and dies (`fatal`); `sequenceID` and height
part after a catch-up (`handleSendOldSeq`); the stop message may come while relays or
confirmations are pending (`SendStop`, `Stop`); with `EB > EA`
a utility of 0 is in the lowest phase although it is above `EA - EB` (`Classify`); the
epoch total counts a waiting transaction once per block, `issued` only when it is packed.

Re-sharding (`Reshard`). The barrier compares the last relay handled from a shard with the
sequence that shard announced. Each of these, recorded in `mishaps`, makes a round hang or
a leader panic, and only these do: relays of one shard handled out of order
(`relay overtaken`), since the older one is what `seqIDMap` then holds; a ready message that
arrives after the accounts were sent and is wiped out with `PartitionReady`
(`ready early`); a shard that goes into the next round without having committed a block in
between, whose announced sequence no relay carries (`no block`); the next map, which the
supervisor sends as soon as one shard has reported, arriving before the round is over
(`map early`); transactions that reach a shard after the account they wait for has left
(`tx late`); second halves in the pool when their sender or recipient moves, because
`TransferTxs` goes by the sender (`half left behind`). Money is conserved in all of them as
long as no leader has panicked, but for `map early`: a shard that takes two maps for one
transfer counts two epochs at once, and accounts can then be where no map says.

Broker (`Broker`). The halves are made without `HasBroker`, so a broker's balance changes
only when a half is executed in the broker's home shard; a half that is refused for lack of
funds is confirmed like any other, and its tx2 credited. `NothingStuck` and `AllFinished`
are about the books, and `Conservation` about ordinary accounts and the halves that were
not refused.

CLPA (`Clpa`). A shard without any edge makes the divisor of all scores zero, and no vertex
moves until it has one (`MovesGuarded`). Transfers to oneself would break the incremental
weights; `data2tx` keeps them out. Settlement: a reward that was cleaned up can be added
again, and a scaled subsidy is right only as long as the product fits in 64 bits
(`BudgetKept` says so).

That every transfer settles is not claimed, of relays or of brokers: the stop message may
come first.

## 7. Plan

Modelled: consensus, storage, relay, re-sharding, CLPA, broker, the incentive mechanism, its
scheduler, ledger and budget, and the proofs above.

Left, in this order:

1. Proofs: `Conservation` of `Reshard` under `Funded` (section 4).
2. The broker method with re-sharding: `FilterTxs`, transfers within a shard that become
   cross-shard ones and go back to the supervisor (`InnerTx2CrossTx`), a barrier that goes by
   `SeqIDinfo`.
3. Packing by bytes, and the Justitia pool's `TransferTxs`.

Not modelled, and why: the Merkle proofs of relays, which between honest shards always
verify; the catch-up of re-sharding and broker shards' backups (`Pbft` has the relay method's, and
`pbftInside_moduleBroker.go` subtracts the heights the wrong way round, so that an answer is
never accepted there).

Not planned: measurement, plotting, queries, build scripts, configuration and CSV parsing,
logging and the unused VRF (sequential input and output), and the PID controller (a float
function of wall-clock time).
