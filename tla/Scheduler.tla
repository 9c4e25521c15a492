------------------------------ MODULE Scheduler ------------------------------
(***************************************************************************)
(* The Justitia transaction pool and scheduler at work: the leader of each *)
(* shard drains its PriorityTxPool, lets the Scheduler choose a block by   *)
(* the utilities that module Justitia computes, and puts the rest back.    *)
(* A committed block moves the shard's average fee, which is sent to the   *)
(* other shards, and every EpochInterval blocks the shadow price of the    *)
(* Lagrangian mode.                                                        *)
(*                                                                         *)
(* Each shard is its leader, node 0, in a process of its own; consensus on *)
(* a block is one step (module ShardLog), and the data file and the        *)
(* balances are left to module Relay.  Messages arrive in any order.       *)
(***************************************************************************)
EXTENDS Justitia, Sequences, FiniteSets, Functions

CONSTANTS
  Shard,
  Txs,                  \* the transactions by arrival: from, to, fee
  BlockSize,
  JustitiaSubsidyMode,
  JustitiaWindowBlocks,
  FeeCap,               \* the cap of OnBlockFinalized, 10^14 wei in the code
  Fixed, Congestion,    \* the fixed subsidy; the congestion factor in hundredths
  Alpha, MinLambda, MaxLambda, MaxInflation, \* prices in hundredths
  EpochInterval,        \* 10 in the code
  MaxHeight             \* bound: empty blocks are packed below this height only

Tx == 1 .. Len(Txs)

ASSUME SchedulerAssumption ==
  /\ Txs \in Seq([from : Shard, to : Shard, fee : Nat \ {0}])
  /\ {BlockSize, JustitiaWindowBlocks, FeeCap, EpochInterval, MinLambda} \subseteq Nat \ {0}
  /\ {Fixed, Congestion, Alpha, MaxLambda, MaxInflation, MaxHeight} \subseteq Nat
  /\ MinLambda <= 100 /\ 100 <= MaxLambda
  /\ JustitiaSubsidyMode \in {"None", "DestAvg", "SumAvg", "Custom", "ExtremeFixed", "Lagrangian"}

Item == [tx : Tx, relayed : BOOLEAN]
IsCrossShard(x) == Txs[x.tx].from # Txs[x.tx].to
FeeToProposer(x) == Txs[x.tx].fee
\* The shard whose pool the item is sent to.
Home(x) == IF x.relayed THEN Txs[x.tx].to ELSE Txs[x.tx].from

VARIABLES
  arriving,     \* items in InjectTxs and Relay messages on their way
  TxQueue,      \* TxQueue[s]: the priority queue, a set: selection does not see its order
  step,         \* step[s]: where the leader is: idle, packing or proposed
  allTxs,       \* allTxs[s]: what packTxsWithScheduler took out of the queue
  block,        \* block[s]: the proposal under consensus
  committed,    \* the items in committed blocks
  height,
  itxWindow,    \* itxWindow[s]: averages of the last blocks of s, at s
  avg,          \* avg[s][r]: E(f_r) as the tracker of s has it
  feeMsgs,      \* FeeInfoSync messages on their way
  lambda,       \* lambda[s]: the shadow price, in hundredths
  epochSubsidyTotal,
  issued        \* history: the subsidies of the items packed in this epoch

poolVars == <<arriving, TxQueue, step, allTxs, block>>
feeVars == <<itxWindow, avg, feeMsgs>>
epochVars == <<lambda, epochSubsidyTotal, issued>>
vars == <<poolVars, committed, height, feeVars, epochVars>>

Init ==
  /\ arriving = [tx : Tx, relayed : {FALSE}]
  /\ TxQueue = [s \in Shard |-> {}]
  /\ step = [s \in Shard |-> "idle"]
  /\ allTxs = [s \in Shard |-> {}] /\ block = [s \in Shard |-> {}]
  /\ committed = {} /\ height = [s \in Shard |-> 0]
  /\ itxWindow = [s \in Shard |-> <<>>]
  /\ avg = [s \in Shard |-> [r \in Shard |-> 0]]
  /\ feeMsgs = {}
  /\ lambda = [s \in Shard |-> 100]
  /\ epochSubsidyTotal = [s \in Shard |-> 0] /\ issued = [s \in Shard |-> 0]

-----------------------------------------------------------------------------
(* Packing a block.                                                        *)

\* handleInjectTx, handleRelay.
AddTxs2Pool(x) ==
  /\ x \in arriving
  /\ arriving' = arriving \ {x}
  /\ TxQueue' = [TxQueue EXCEPT ![Home(x)] = @ \cup {x}]
  /\ UNCHANGED <<step, allTxs, block, committed, height, feeVars, epochVars>>

\* The subsidy as the scheduler of s computes it, from the averages it has.
SubsidyR(s, x) ==
  CalculateRAB(JustitiaSubsidyMode, avg[s][Txs[x.tx].from], avg[s][Txs[x.tx].to],
               Fixed, Congestion, lambda[s])

\* Score and phase of a cross-shard item, seen from its source or its destination.
scoreCTX(s, x) ==
  LET EA == avg[s][Txs[x.tx].from]
      EB == avg[s][Txs[x.tx].to]
      u == Split2(FeeToProposer(x), SubsidyR(s, x), EA, EB)
  IN IF Txs[x.tx].from = s
       THEN [score |-> u.uA, phase |-> Phase(Classify(u.uA, EA, EB))]
       ELSE [score |-> u.uB, phase |-> Phase(Classify(u.uB, EB, EA))]

Scored(s, x) ==
  IF IsCrossShard(x) THEN scoreCTX(s, x)
  ELSE [score |-> FeeToProposer(x),
        phase |-> IF FeeToProposer(x) >= avg[s][s] THEN 1 ELSE 2]

\* The phases in turn, each by descending score and then by arrival time.
Before(s, x, y) ==
  LET a == Scored(s, x)
      b == Scored(s, y)
  IN \/ a.phase < b.phase
     \/ a.phase = b.phase /\ a.score > b.score
     \/ a.phase = b.phase /\ a.score = b.score /\ x.tx < y.tx

\* packTxsWithScheduler up to its first Unlock: the queue is empty now, and
\* whatever arrives before the second Lock is not considered.
Drain(s) ==
  /\ step[s] = "idle"
  /\ TxQueue[s] # {} \/ height[s] < MaxHeight
  /\ step' = [step EXCEPT ![s] = "packing"]
  /\ allTxs' = [allTxs EXCEPT ![s] = TxQueue[s]]
  /\ TxQueue' = [TxQueue EXCEPT ![s] = {}]
  /\ UNCHANGED <<arriving, block, committed, height, feeVars, epochVars>>

\* Wrong: the lowest phase is left out.
SelectTwoPhases(s, items) ==
  {x \in items : Scored(s, x).phase < 3 /\ Cardinality({y \in items : Before(s, y, x)}) < BlockSize}

\* The first BlockSize items in this order.
SelectForBlock(s, items) ==
  {x \in items : Cardinality({y \in items : Before(s, y, x)}) < BlockSize}

\* Wrong: the queue is set to the items not selected.
PutBackOver(s, selected) == allTxs[s] \ selected
\* The items not selected join what arrived in the meantime.
PutBack(s, selected) == TxQueue[s] \cup (allTxs[s] \ selected)

SumOfSubsidies(s, items) ==
  SumFunction([x \in {y \in items : IsCrossShard(y)} |-> SubsidyR(s, x)])

\* The rest of packTxsWithScheduler.  Every cross-shard item that is scored,
\* selected or not, counts in epochSubsidyTotal.
Select(s) ==
  LET selected == SelectForBlock(s, allTxs[s]) IN
  /\ step[s] = "packing"
  /\ step' = [step EXCEPT ![s] = "proposed"]
  /\ block' = [block EXCEPT ![s] = selected]
  /\ TxQueue' = [TxQueue EXCEPT ![s] = PutBack(s, selected)]
  /\ allTxs' = [allTxs EXCEPT ![s] = {}]
  /\ epochSubsidyTotal' = [epochSubsidyTotal EXCEPT
       ![s] = @ + IF JustitiaSubsidyMode = "Lagrangian" THEN SumOfSubsidies(s, allTxs[s]) ELSE 0]
  /\ issued' = [issued EXCEPT
       ![s] = @ + IF JustitiaSubsidyMode = "Lagrangian" THEN SumOfSubsidies(s, selected) ELSE 0]
  /\ UNCHANGED <<arriving, committed, height, feeVars, lambda>>

-----------------------------------------------------------------------------
(* Committing a block.                                                     *)

Clamp(x, low, high) == IF x < low THEN low ELSE IF x > high THEN high ELSE x

\* The new shadow price after an epoch with this total.
UpdateShadowPrice(price, total) ==
  LET violation == IF MaxInflation = 0 THEN 0
                   ELSE (Alpha * (total - MaxInflation)) \div MaxInflation
  IN Clamp(price + violation, MinLambda, MaxLambda)

\* Wrong: the counters are reset before the price is updated.
UpdateEpochLate(s) ==
  /\ lambda' = [lambda EXCEPT ![s] = UpdateShadowPrice(@, 0)]
  /\ epochSubsidyTotal' = [epochSubsidyTotal EXCEPT ![s] = 0]
  /\ issued' = [issued EXCEPT ![s] = 0]

UpdateEpoch(s) ==
  /\ lambda' = [lambda EXCEPT ![s] = UpdateShadowPrice(@, epochSubsidyTotal[s])]
  /\ epochSubsidyTotal' = [epochSubsidyTotal EXCEPT ![s] = 0]
  /\ issued' = [issued EXCEPT ![s] = 0]

EpochEnds(s) == JustitiaSubsidyMode = "Lagrangian" /\ (height[s] + 1) % EpochInterval = 0

\* updateFeeTracker: the items whose fees count.
IntraShard(items) == {x \in items : ~IsCrossShard(x) /\ ~x.relayed}

Capped(x) == IF FeeToProposer(x) > FeeCap THEN FeeCap ELSE FeeToProposer(x)
BlockAvg(items) == SumFunction([x \in items |-> Capped(x)]) \div Cardinality(items)

\* Wrong: the sum is divided by the size of the window, full or not.
RecomputeAvgFull(window) == SumFunction(window) \div JustitiaWindowBlocks
recomputeAvg(window) == SumFunction(window) \div Len(window)

\* OnBlockFinalized, only called for a block with intra-shard transactions.
OnBlockFinalized(s, items) ==
  LET w == Append(itxWindow[s], BlockAvg(items))
      window == IF Len(w) > JustitiaWindowBlocks THEN Tail(w) ELSE w
  IN IF items = {} THEN UNCHANGED <<itxWindow, avg>>
     ELSE /\ itxWindow' = [itxWindow EXCEPT ![s] = window]
          /\ avg' = [avg EXCEPT ![s][s] = recomputeAvg(window)]

\* HandleinCommit at the leader: AddBlock, which ends the epoch, updateFeeTracker,
\* broadcastFeeInfo, and relay.
Commit(s) ==
  /\ step[s] = "proposed"
  /\ step' = [step EXCEPT ![s] = "idle"]
  /\ block' = [block EXCEPT ![s] = {}]
  /\ height' = [height EXCEPT ![s] = @ + 1]
  /\ committed' = committed \cup block[s]
  /\ IF EpochEnds(s) THEN UpdateEpoch(s) ELSE UNCHANGED epochVars
  /\ OnBlockFinalized(s, IntraShard(block[s]))
  /\ feeMsgs' = feeMsgs \cup [shard : {s}, to : Shard \ {s}, avg : {avg'[s][s]},
                              height : {height'[s]}]
  /\ arriving' = arriving \cup
       [tx : {x.tx : x \in {y \in block[s] : Txs[y.tx].to # s}}, relayed : {TRUE}]
  /\ UNCHANGED <<TxQueue, allTxs>>

\* UpdateRemoteShardFee: the message's height is only logged.
handleFeeInfoSync(m) ==
  /\ m \in feeMsgs
  /\ feeMsgs' = feeMsgs \ {m}
  /\ avg' = [avg EXCEPT ![m.to][m.shard] = m.avg]
  /\ UNCHANGED <<poolVars, committed, height, itxWindow, epochVars>>

Next ==
  \/ \E x \in arriving : AddTxs2Pool(x)
  \/ \E s \in Shard : Drain(s) \/ Select(s) \/ Commit(s)
  \/ \E m \in feeMsgs : handleFeeInfoSync(m)

Spec == Init /\ [][Next]_vars

-----------------------------------------------------------------------------
(* Properties.                                                             *)

PoolTyped ==
  /\ arriving \subseteq Item /\ committed \subseteq Item
  /\ TxQueue \in [Shard -> SUBSET Item] /\ allTxs \in [Shard -> SUBSET Item]
  /\ block \in [Shard -> SUBSET Item]
  /\ step \in [Shard -> {"idle", "packing", "proposed"}]
FeesTyped ==
  /\ height \in [Shard -> Nat]
  /\ itxWindow \in [Shard -> Seq(Nat)]
  /\ avg \in [Shard -> [Shard -> Nat]]
  /\ feeMsgs \subseteq [shard : Shard, to : Shard, avg : Nat, height : Nat]
PricesTyped ==
  /\ lambda \in [Shard -> MinLambda .. MaxLambda]
  /\ epochSubsidyTotal \in [Shard -> Nat] /\ issued \in [Shard -> Nat]
Bounded ==
  \A s \in Shard : /\ Cardinality(block[s]) <= BlockSize
                   /\ Len(itxWindow[s]) <= JustitiaWindowBlocks

\* Types; the shadow price, a divisor, keeps within its bounds, a window never
\* outgrows JustitiaWindowBlocks, and a block never outgrows BlockSize.
TypeOK == PoolTyped /\ FeesTyped /\ PricesTyped /\ Bounded

\* The item is under way or done: the first half of a transaction is from the
\* start, the second one of a cross-shard transaction once the first is committed.
Due(x) == ~x.relayed \/ (IsCrossShard(x) /\ [x EXCEPT !.relayed = FALSE] \in committed)

\* Nothing is lost or doubled between the two critical sections of
\* packTxsWithScheduler, whatever arrives in between: each half of a
\* transaction that is due is in exactly one place.
NoTxLost ==
  \A x \in Item :
    LET places == Cardinality({s \in Shard : x \in TxQueue[s]})
                    + Cardinality({s \in Shard : x \in allTxs[s]})
                    + Cardinality({s \in Shard : x \in block[s]})
                    + Cardinality({x} \cap arriving) + Cardinality({x} \cap committed)
    IN places = IF Due(x) THEN 1 ELSE 0

\* Why: an item is only ever at its home shard, the three places of a shard
\* exclude each other, and Drain and Select find the place they fill empty.
Held(s) == TxQueue[s] \cup allTxs[s] \cup block[s]
AtHome ==
  \A s \in Shard : /\ \A x \in Held(s) : Home(x) = s
                   /\ step[s] # "packing" => allTxs[s] = {}
                   /\ step[s] # "proposed" => block[s] = {}
Apart ==
  /\ arriving \cap committed = {}
  /\ \A s \in Shard : /\ (arriving \cup committed) \cap Held(s) = {}
                      /\ TxQueue[s] \cap (allTxs[s] \cup block[s]) = {}
AllThere == \A x \in Item : Due(x) <=> x \in arriving \cup committed \cup Held(Home(x))
Whereabouts == AtHome /\ Apart /\ AllThere

\* The capped fees of the intra-shard transactions committed in r; a lies
\* between two of them.
Fees(r) == {Capped(x) : x \in {y \in IntraShard(committed) : Home(y) = r}}
Between(a, r) == \E f, g \in Fees(r) : f <= a /\ a <= g

\* A shard's average, its own or a remote copy, lies between the least and the
\* greatest capped fee of the intra-shard transactions it has committed; it is
\* 0 before there is one, and remote copies may still be 0 afterwards.  All
\* variables, the clamped price too, keep their types.  The cap is in
\* OnBlockFinalized only: docs/fees.md and TestTracker_LargeValues average the
\* fees themselves.  A remote copy need not be the newest average: of two
\* FeeInfoSync messages the one handled last stays.
AverageInRange ==
  /\ TypeOK
  /\ \A s, r \in Shard :
       IF Fees(r) = {} THEN avg[s][r] = 0
       ELSE Between(avg[s][r], r) \/ (s # r /\ avg[s][r] = 0)

\* Why: so does every block average in the window, and what is on its way.
AveragesTraced ==
  /\ \A s \in Shard : /\ itxWindow[s] = <<>> <=> Fees(s) = {}
                      /\ \A i \in 1 .. Len(itxWindow[s]) : Between(itxWindow[s][i], s)
                      /\ (avg[s][s] = 0 /\ Fees(s) = {}) \/ Between(avg[s][s], s)
  /\ \A s, r \in Shard : avg[s][r] = 0 \/ Between(avg[s][r], r)
  /\ \A m \in feeMsgs : m.shard # m.to /\ (m.avg = 0 \/ Between(m.avg, m.shard))

\* "delayed but not dropped" (select.go): a selection leaves a transaction out only
\* if the block is full, for others of its phase or a better one, and puts it
\* back.  So one of Case2 is packed when there is room, where docs/fees.md lists
\* it as excluded, and is put off for ever if better ones never leave any.
DelayedNotDropped ==
  [][\A s \in Shard : step[s] = "packing" /\ step'[s] = "proposed" =>
       \A x \in allTxs[s] \ block'[s] :
         /\ x \in TxQueue'[s]
         /\ Cardinality({y \in block'[s] : Scored(s, y).phase <= Scored(s, x).phase}) = BlockSize]_vars

\* Why the price knows: what was packed was scored, and counted, before.
IssuedCounted == \A s \in Shard : issued[s] <= epochSubsidyTotal[s]

\* An epoch whose packed transactions were given more than MaxInflation never
\* ends with a lower shadow price.
BudgetDefended ==
  [][\A s \in Shard : lambda'[s] < lambda[s] => issued[s] <= MaxInflation]_vars
=============================================================================
