---------------------------- MODULE ReshardProofs ----------------------------
(***************************************************************************)
(* The barrier of re-sharding, for every number of shards, accounts and    *)
(* rounds and every order of messages, and what follows from it.           *)
(***************************************************************************)
EXTENDS Reshard, Folding

(* The barrier is described with two histories that the state does not     *)
(* have: ep[s], the number of transfers shard s has carried out, and st[s],*)
(* its stage, which stays what it was when a leader panics.                *)

Stages == {"idle", "ready", "collecting", "transferring", "halted"}
Busy(st, s) == st[s] \in {"ready", "collecting", "transferring"}
Frozen(st, s) == st[s] \in {"collecting", "transferring"}

ReadyFrom(s, t, m) == m.type = "ready" /\ m.from = s /\ m.to = t
Announced(s, t) == \E m \in msgs : ReadyFrom(s, t, m)
AccountsFrom(s, t, m) == m.type = "accounts" /\ m.from = s /\ m.to = t
Delivering(s, t) == \E m \in msgs : AccountsFrom(s, t, m)
Delivered(s, t) == s \in DOMAIN AccountStateTx[t]

\* Shard s has left the round of t, or is about to.
Gone(ep, st, s, t) == (Frozen(st, s) /\ ep[s] = ep[t]) \/ ep[s] = ep[t] + 1

\* A shard transfers when all others have sent it their accounts.
Own(st, s) ==
  /\ Busy(st, s) => PartitionOn[s]
  /\ st[s] = "transferring" => DOMAIN AccountStateTx[s] = Others(s)

\* Two shards' rounds: t behind the barrier and s before, at or past it.
InStep(ep, st, s, t) ==
  /\ Frozen(st, t) => (Busy(st, s) /\ ep[s] = ep[t]) \/ ep[s] = ep[t] + 1
  /\ ~Frozen(st, t) => ep[s] = ep[t] \/ (Frozen(st, s) /\ ep[t] = ep[s] + 1)

\* The announcements of s to t are of the round t is in, or of the next one.
Announcements(ep, st, s, t) ==
  /\ st[s] = "idle" => ~Announced(s, t)
  /\ ~Frozen(st, t) /\ (Announced(s, t) \/ s \in PartitionReady[t]) => Busy(st, s) /\ ep[s] = ep[t]
  /\ ~Frozen(st, t) => ~(Announced(s, t) /\ s \in PartitionReady[t])
  /\ Frozen(st, t) /\ Announced(s, t) => ep[s] = ep[t] + 1
  /\ \A m, n \in msgs : ReadyFrom(s, t, m) /\ ReadyFrom(s, t, n) => m = n

\* What s sends t behind the barrier arrives in the same round.
Deliveries(ep, st, s, t) ==
  /\ Delivering(s, t) \/ Delivered(s, t) => Gone(ep, st, s, t)
  /\ ~(Delivering(s, t) /\ Delivered(s, t))
  /\ \A m, n \in msgs : AccountsFrom(s, t, m) /\ AccountsFrom(s, t, n) => m = n

Letter(m) ==
  /\ m.type \in {"ready", "accounts"} => m.from \in Shard /\ m.to \in Shard /\ m.from # m.to
  /\ m.type = "partition" => m.to \in Shard /\ m.map \in PartialMap

Shapes ==
  /\ PartitionOn \in [Shard -> BOOLEAN] /\ PartitionReady \in [Shard -> SUBSET Shard]
  /\ DOMAIN AccountStateTx = Shard
  /\ \A m \in msgs : Letter(m)

Barrier(ep, st) ==
  /\ Shapes /\ ep \in [Shard -> Nat] /\ st \in [Shard -> Stages \ {"halted"}]
  /\ \A s \in Shard : Own(st, s)
  /\ \A s, t \in Shard : s # t => /\ InStep(ep, st, s, t) /\ Announcements(ep, st, s, t)
                                  /\ Deliveries(ep, st, s, t)

\* The stages, until a leader panics.
Remembers(st) ==
  /\ stage \in [Shard -> Stages]
  /\ \A s \in Shard : stage[s] # "halted" => st[s] = stage[s]

\* The map to carry out is there, and so is the one under consensus.
Kept ==
  /\ ModifiedMap \in [Shard -> Seq(PartialMap)] /\ AccountTransferRound \in [Shard -> Nat] /\ DOMAIN request = Shard
  /\ \A s \in Shard :
       /\ AccountTransferRound[s] + (IF PartitionOn[s] THEN 1 ELSE 0) <= Len(ModifiedMap[s])
       /\ stage[s] = "transferring" => /\ request[s].ATid \in Nat /\ request[s].ATid <= Len(ModifiedMap[s])
                                       /\ request[s].map \in PartialMap

\* The maps a shard received are one per round, and the one under way.
InTime(ep) ==
  /\ AccountTransferRound = ep
  /\ \A s \in Shard : /\ Len(ModifiedMap[s]) = ep[s] + (IF PartitionOn[s] THEN 1 ELSE 0)
                      /\ stage[s] = "transferring" => request[s].ATid = ep[s] + 1

Related(ep, st) == Remembers(st) /\ Barrier(ep, st) /\ Kept /\ ("map early" \in mishaps \/ InTime(ep))

EpochInv == \E ep, st : Related(ep, st)

-----------------------------------------------------------------------------
(* Stages.                                                                 *)

\* The stages after a step in which shard s goes from stage a to stage b, and
\* what it did in stage a.
Moves(s, a, b) == stage[s] = a /\ stage' = [stage EXCEPT ![s] = b]

LEMMA MoveRemembered ==
  ASSUME NEW st, st \in [Shard -> Stages \ {"halted"}], Remembers(st), NEW s \in Shard,
         NEW a \in Stages \ {"halted"}, NEW b \in Stages \ {"halted"}, Moves(s, a, b)
  PROVE  /\ st[s] = a /\ [st EXCEPT ![s] = b] \in [Shard -> Stages \ {"halted"}]
         /\ Remembers([st EXCEPT ![s] = b])'
<1> DEFINE S == Stages
           su == [st EXCEPT ![s] = b]
<1>1. stage \in [Shard -> S] /\ st \in [Shard -> S \ {"halted"}] /\ a \in S /\ b \in S /\ a # "halted" /\ b # "halted"
      /\ stage[s] = a /\ stage' = [stage EXCEPT ![s] = b]
      /\ \A u \in Shard : stage[u] # "halted" => st[u] = stage[u]
  BY DEF Remembers, Moves
<1> HIDE DEF S
<1>2. st[s] = a /\ su \in [Shard -> S \ {"halted"}] /\ stage' \in [Shard -> S]
  BY <1>1
<1>3. \A u \in Shard : stage'[u] # "halted" => su[u] = stage'[u]
  BY <1>1
<1> QED BY <1>2, <1>3 DEF Remembers, S

\* A leader panics.
LEMMA HaltRemembered ==
  ASSUME NEW st, Remembers(st), NEW s \in Shard, stage' = [stage EXCEPT ![s] = "halted"]
  PROVE  Remembers(st)'
  BY DEF Remembers, Stages

\* Every step leaves the stages well formed, forgets no mishap and revives no
\* leader that a log.Panic ended.
LEMMA StageChange ==
  ASSUME stage \in [Shard -> Stages], [Next]_vars
  PROVE  /\ stage' \in [Shard -> Stages] /\ mishaps \subseteq mishaps'
         /\ \A s \in Shard : stage[s] = "halted" => stage'[s] = "halted"
<1> DEFINE Sound == /\ stage' \in [Shard -> Stages]
                    /\ \A t \in Shard : stage[t] = "halted" => stage'[t] = "halted"
<1>1. ASSUME NEW s \in Shard, NEW a \in Stages \ {"halted"}, NEW b \in Stages, Moves(s, a, b)
      PROVE  Sound
  BY <1>1 DEF Moves
<1>2. CASE \/ txSending \/ \E mmap \in PartialMap : clpaMapSend(mmap)
           \/ \E e \in reports : HandleBlockInfo(e)
  <2>1. UNCHANGED <<stage, mishaps>>
    BY <1>2 DEF txSending, clpaMapSend, HandleBlockInfo
  <2> QED BY <2>1
<1>3. CASE HandleMessage
  <2>1. UNCHANGED stage /\ mishaps \subseteq mishaps'
    BY <1>3 DEF HandleMessage, handleInjectTx, handleRelay, handlePartitionMsg, handlePartitionReady,
                handleAccountStateAndTxMsg
  <2> QED BY <2>1
<1> USE DEF Stages, Moves
<1>4. ASSUME NEW s \in Shard, CommitBlock(s)
      PROVE  Sound /\ mishaps' = mishaps
  <2>1. UNCHANGED mishaps /\ (UNCHANGED stage \/ Moves(s, "idle", "halted"))
    BY <1>4 DEF CommitBlock
  <2>2. CASE UNCHANGED stage
    BY <2>1, <2>2
  <2>3. CASE Moves(s, "idle", "halted")
    <3> HIDE DEF Moves, Sound
    <3> QED BY <1>1, <2>1, <2>3
  <2> QED BY <2>1, <2>2, <2>3
<1>5. ASSUME NEW s \in Shard, sendPartitionReady(s)
      PROVE  Sound /\ mishaps \subseteq mishaps'
  <2>1. mishaps \subseteq mishaps' /\ Moves(s, "idle", "ready")
    BY <1>5 DEF sendPartitionReady
  <2> HIDE DEF Moves, Sound
  <2> QED BY <1>1, <2>1
<1>6. ASSUME NEW s \in Shard, NEW accounts, sendAccounts_and_Txs(s, accounts)
      PROVE  Sound /\ mishaps \subseteq mishaps'
  <2>1. mishaps \subseteq mishaps' /\ Moves(s, "ready", "collecting")
    BY <1>6 DEF sendAccounts_and_Txs
  <2> HIDE DEF Moves, Sound
  <2> QED BY <1>1, <2>1
<1>7. ASSUME NEW s \in Shard, NEW order, proposePartition(s, order)
      PROVE  Sound /\ mishaps' = mishaps
  <2>1. mishaps' = mishaps /\ (Moves(s, "collecting", "transferring") \/ Moves(s, "collecting", "halted"))
    BY <1>7 DEF proposePartition
  <2> HIDE DEF Moves, Sound
  <2> QED BY <1>1, <2>1
<1>8. ASSUME NEW s \in Shard, accountTransfer_do(s)
      PROVE  Sound /\ mishaps' = mishaps
  <2>1. mishaps' = mishaps /\ Moves(s, "transferring", "idle")
    BY <1>8 DEF accountTransfer_do
  <2> HIDE DEF Moves, Sound
  <2> QED BY <1>1, <2>1
<1>9. CASE UNCHANGED vars
  BY <1>9 DEF vars
<1> HIDE DEF Stages, Moves
<1> QED BY <1>2, <1>3, <1>4, <1>5, <1>6, <1>7, <1>8, <1>9 DEF Next, HandleinPropose

-----------------------------------------------------------------------------
(* The barrier is kept, action by action.                                  *)

\* Steps that the barrier does not see.
LEMMA UnseenKeeps ==
  ASSUME NEW ep, NEW st, Barrier(ep, st),
         UNCHANGED <<PartitionOn, PartitionReady, AccountStateTx>>,
         \A m \in msgs' : m.type \in {"ready", "accounts"} => m \in msgs,
         \A m \in msgs : m.type \in {"ready", "accounts"} => m \in msgs',
         \A m \in msgs' : m.type = "partition" => m.to \in Shard /\ m.map \in PartialMap
  PROVE  Barrier(ep, st)'
<1>1. Shapes'
  BY DEF Barrier, Shapes, Letter
<1>2. \A s \in Shard : Own(st, s)'
  BY DEF Barrier, Own
<1>3. ASSUME NEW s, NEW t
      PROVE  /\ Announced(s, t)' <=> Announced(s, t)
             /\ Delivering(s, t)' <=> Delivering(s, t)
             /\ \A m, n \in msgs' : ReadyFrom(s, t, m) /\ ReadyFrom(s, t, n) => m \in msgs /\ n \in msgs
             /\ \A m, n \in msgs' : AccountsFrom(s, t, m) /\ AccountsFrom(s, t, n) => m \in msgs /\ n \in msgs
  BY DEF Announced, Delivering, ReadyFrom, AccountsFrom
<1>4. ASSUME NEW s \in Shard, NEW t \in Shard, s # t
      PROVE  InStep(ep, st, s, t) /\ Announcements(ep, st, s, t)' /\ Deliveries(ep, st, s, t)'
  <2>1. InStep(ep, st, s, t) /\ Announcements(ep, st, s, t) /\ Deliveries(ep, st, s, t)
    BY <1>4 DEF Barrier
  <2>2. Announcements(ep, st, s, t)'
    BY <1>3, <2>1 DEF Announcements, ReadyFrom
  <2>3. Deliveries(ep, st, s, t)'
    BY <1>3, <2>1 DEF Deliveries, Delivered, AccountsFrom
  <2> QED BY <2>1, <2>2, <2>3
<1> QED BY <1>1, <1>2, <1>4 DEF Barrier

\* A map arrives.
LEMMA MapKeeps ==
  ASSUME NEW ep, NEW st, Barrier(ep, st), NEW m \in msgs, handlePartitionMsg(m)
  PROVE  Barrier(ep, st)'
<1> DEFINE r == m.to
<1>1. /\ m.type = "partition" /\ msgs' = msgs \ {m}
      /\ PartitionOn' = [PartitionOn EXCEPT ![r] = TRUE]
      /\ UNCHANGED <<PartitionReady, AccountStateTx>>
  BY DEF handlePartitionMsg, Receive
<1>2. /\ PartitionOn' \in [Shard -> BOOLEAN]
      /\ \A s \in Shard : PartitionOn[s] => PartitionOn'[s]
  BY <1>1 DEF Barrier, Shapes
<1>3. Shapes'
  BY <1>1, <1>2 DEF Barrier, Shapes
<1>4. \A s \in Shard : Own(st, s)'
  BY <1>1, <1>2 DEF Barrier, Own
<1>5. \A s, t : (Announced(s, t)' <=> Announced(s, t)) /\ (Delivering(s, t)' <=> Delivering(s, t))
  BY <1>1 DEF Announced, Delivering, ReadyFrom, AccountsFrom
<1>6. ASSUME NEW s \in Shard, NEW t \in Shard, s # t
      PROVE  InStep(ep, st, s, t) /\ Announcements(ep, st, s, t)' /\ Deliveries(ep, st, s, t)'
  <2>1. InStep(ep, st, s, t) /\ Announcements(ep, st, s, t) /\ Deliveries(ep, st, s, t)
    BY <1>6 DEF Barrier
  <2>2. Announcements(ep, st, s, t)'
    BY <1>1, <1>5, <2>1 DEF Announcements, ReadyFrom
  <2>3. Deliveries(ep, st, s, t)'
    BY <1>1, <1>5, <2>1 DEF Deliveries, Delivered, AccountsFrom
  <2> QED BY <2>1, <2>2, <2>3
<1> QED BY <1>3, <1>4, <1>6 DEF Barrier

\* A shard announces that it is at the barrier.
LEMMA AnnounceKeeps ==
  ASSUME NEW ep, NEW st, NEW su, Barrier(ep, st), NEW s \in Shard, sendPartitionReady(s),
         st[s] = "idle", su = [st EXCEPT ![s] = "ready"]
  PROVE  Barrier(ep, su)'
<1> DEFINE new(t) == [type |-> "ready", from |-> s, to |-> t, seq |-> sequenceID[s]]
<1>1. /\ PartitionOn[s] /\ PartitionReady' = [PartitionReady EXCEPT ![s] = @ \cup {s}]
      /\ msgs' = msgs \cup {new(t) : t \in Others(s)}
      /\ UNCHANGED <<PartitionOn, AccountStateTx>>
  BY DEF sendPartitionReady
<1>2. /\ su \in [Shard -> Stages \ {"halted"}]
      /\ su[s] = "ready" /\ \A u \in Shard : u # s => su[u] = st[u]
      /\ \A u \in Shard : Frozen(su, u) <=> Frozen(st, u)
      /\ ~Busy(st, s) /\ Busy(su, s) /\ ~Frozen(st, s)
      /\ \A u \in Shard : u # s => (Busy(su, u) <=> Busy(st, u))
  BY DEF Frozen, Busy, Barrier, Stages
<1>3. /\ PartitionReady \in [Shard -> SUBSET Shard] /\ PartitionReady' \in [Shard -> SUBSET Shard]
      /\ \A u, v \in Shard : u # v => (u \in PartitionReady'[v] <=> u \in PartitionReady[v])
  BY <1>1 DEF Barrier, Shapes
<1>4. \A m \in msgs' : m \notin msgs => \E t \in Shard : t # s /\ m = new(t)
  BY <1>1 DEF Others
<1>5. \A t \in Shard : t # s => new(t) \in msgs'
  BY <1>1 DEF Others
<1>6. \A t : /\ new(t).type = "ready" /\ new(t).from = s /\ new(t).to = t
  OBVIOUS
<1>7. msgs \subseteq msgs'
  BY <1>1
<1> HIDE DEF new
<1>8. Shapes'
  <2>1. ASSUME NEW m \in msgs' PROVE Letter(m)
    <3>1. CASE m \in msgs
      BY <3>1 DEF Barrier, Shapes
    <3>2. CASE m \notin msgs
      BY <1>4, <1>6, <3>2 DEF Letter
    <3> QED BY <3>1, <3>2
  <2> QED BY <1>1, <1>3, <2>1 DEF Barrier, Shapes, Letter
<1>9. ASSUME NEW u \in Shard PROVE Own(su, u)'
  BY <1>1, <1>2 DEF Barrier, Own
<1>10. ASSUME NEW u \in Shard, NEW v \in Shard, u # v
       PROVE  InStep(ep, su, u, v) /\ Announcements(ep, su, u, v)' /\ Deliveries(ep, su, u, v)'
  <2>1. InStep(ep, st, u, v) /\ Announcements(ep, st, u, v) /\ Deliveries(ep, st, u, v)
    BY <1>10 DEF Barrier
  <2>2. InStep(ep, su, u, v)
    BY <1>1, <1>2, <2>1 DEF InStep
  <2>3. Deliveries(ep, su, u, v)'
    <3>1. \A m \in msgs' : AccountsFrom(u, v, m) => m \in msgs
      BY <1>4, <1>6 DEF AccountsFrom
    <3>2. Delivering(u, v)' <=> Delivering(u, v)
      BY <1>7, <3>1 DEF Delivering, AccountsFrom
    <3> QED BY <1>1, <1>2, <2>1, <3>1, <3>2 DEF Deliveries, Delivered, Gone, AccountsFrom
  <2>4. CASE u = s
    <3>1. ~Announced(s, v)
      BY <1>1, <2>1, <2>4 DEF Announcements
    <3>2. ~(~Frozen(st, v) /\ s \in PartitionReady[v])
      BY <1>2, <2>1, <2>4 DEF Announcements
    <3>3. \A m \in msgs' : ReadyFrom(s, v, m) => m = new(v)
      BY <1>4, <1>6, <3>1 DEF Announced, ReadyFrom
    <3>4. Frozen(st, v) => ep[s] = ep[v] + 1
      BY <1>2, <2>1, <2>4 DEF InStep
    <3>5. ~Frozen(st, v) => ep[s] = ep[v]
      BY <1>2, <2>1, <2>4 DEF InStep
    <3>6. (s \in PartitionReady[v])' <=> s \in PartitionReady[v]
      BY <1>3, <1>10, <2>4
    <3>7. Announcements(ep, su, s, v)'
      BY <1>1, <1>2, <3>2, <3>3, <3>4, <3>5, <3>6, ZenonT(60) DEF Announcements, ReadyFrom
    <3> QED BY <2>2, <2>3, <2>4, <3>7
  <2>5. CASE u # s
    <3>1. \A m \in msgs' : ReadyFrom(u, v, m) => m \in msgs
      BY <1>4, <1>6, <2>5 DEF ReadyFrom
    <3>2. Announced(u, v)' <=> Announced(u, v)
      BY <1>7, <3>1 DEF Announced, ReadyFrom
    <3>3. (u \in PartitionReady[v])' <=> u \in PartitionReady[v]
      BY <1>3, <1>10
    <3>4. Announcements(ep, su, u, v)'
      BY <1>1, <1>2, <2>1, <2>5, <3>1, <3>2, <3>3 DEF Announcements, ReadyFrom
    <3> QED BY <2>2, <2>3, <3>4
  <2> QED BY <2>4, <2>5
<1>11. ep \in [Shard -> Nat]
  BY DEF Barrier
<1> QED BY <1>2, <1>8, <1>9, <1>10, <1>11 DEF Barrier

\* An announcement is noted.
LEMMA HeardKeeps ==
  ASSUME NEW ep, NEW st, Barrier(ep, st), NEW m \in msgs, handlePartitionReady(m)
  PROVE  Barrier(ep, st)'
<1> DEFINE f == m.from
           r == m.to
<1>1. /\ m.type = "ready" /\ msgs' = msgs \ {m}
      /\ PartitionReady' = [PartitionReady EXCEPT ![r] = @ \cup {f}]
      /\ UNCHANGED <<PartitionOn, AccountStateTx>>
  BY DEF handlePartitionReady, Receive
<1>2. f \in Shard /\ r \in Shard /\ f # r
  BY <1>1 DEF Barrier, Shapes, Letter
<1>3. ReadyFrom(f, r, m)
  BY <1>1 DEF ReadyFrom
<1>4. /\ PartitionReady' \in [Shard -> SUBSET Shard]
      /\ \A u, v \in Shard : u \in PartitionReady'[v] <=> (u \in PartitionReady[v] \/ (u = f /\ v = r))
  BY <1>1, <1>2 DEF Barrier, Shapes
<1>5. Shapes'
  BY <1>1, <1>4 DEF Barrier, Shapes
<1>6. \A u \in Shard : Own(st, u)'
  BY <1>1 DEF Barrier, Own
<1>7. ASSUME NEW u \in Shard, NEW v \in Shard, u # v
      PROVE  InStep(ep, st, u, v) /\ Announcements(ep, st, u, v)' /\ Deliveries(ep, st, u, v)'
  <2>1. InStep(ep, st, u, v) /\ Announcements(ep, st, u, v) /\ Deliveries(ep, st, u, v)
    BY <1>7 DEF Barrier
  <2>3. Delivering(u, v)' <=> Delivering(u, v)
    BY <1>1 DEF Delivering, AccountsFrom
  <2>4. Deliveries(ep, st, u, v)'
    BY <1>1, <2>1, <2>3 DEF Deliveries, Delivered, AccountsFrom
  <2>5. (u \in PartitionReady[v])' <=> (u \in PartitionReady[v] \/ (u = f /\ v = r))
    BY <1>4
  <2>6. CASE u = f /\ v = r
    <3>1. Announced(u, v)
      BY <1>3, <2>6 DEF Announced
    <3>2. ~Announced(u, v)'
      BY <1>1, <1>3, <2>1, <2>6 DEF Announced, Announcements, ReadyFrom
    <3>3. \A x, y \in msgs' : ReadyFrom(u, v, x) /\ ReadyFrom(u, v, y) => x = y
      BY <1>1, <2>1 DEF Announcements
    <3>4. Announcements(ep, st, u, v)'
      BY <1>1, <2>1, <3>1, <3>2, <3>3 DEF Announcements, ReadyFrom
    <3> QED BY <2>1, <2>4, <3>4
  <2>7. CASE ~(u = f /\ v = r)
    <3>1. Announced(u, v)' <=> Announced(u, v)
      BY <1>1, <2>7 DEF Announced, ReadyFrom
    <3>2. Announcements(ep, st, u, v)'
      BY <1>1, <2>1, <2>5, <2>7, <3>1 DEF Announcements, ReadyFrom
    <3> QED BY <2>1, <2>4, <3>2
  <2> QED BY <2>6, <2>7
<1> QED BY <1>5, <1>6, <1>7 DEF Barrier

\* Every shard is at the barrier when one leaves it.
LEMMA AllAtBarrier ==
  ASSUME NEW ep, NEW st, Barrier(ep, st), NEW s \in Shard, st[s] = "ready", getPartitionReady(s)
  PROVE  \A u \in Shard : u # s => /\ Busy(st, u) /\ ep[u] = ep[s]
                                   /\ ~Announced(u, s)
                                   /\ ~Delivering(s, u) /\ ~Delivered(s, u)
<1> SUFFICES ASSUME NEW u \in Shard, u # s
             PROVE  /\ Busy(st, u) /\ ep[u] = ep[s] /\ ~Announced(u, s)
                    /\ ~Delivering(s, u) /\ ~Delivered(s, u)
  OBVIOUS
<1>1. u \in PartitionReady[s] /\ ~Frozen(st, s)
  BY DEF getPartitionReady, Frozen
<1>2. Announcements(ep, st, u, s) /\ Deliveries(ep, st, s, u) /\ ep[u] \in Nat
  BY DEF Barrier
<1>3. Busy(st, u) /\ ep[u] = ep[s] /\ ~Announced(u, s)
  BY <1>1, <1>2 DEF Announcements
<1>4. ~Gone(ep, st, s, u)
  BY <1>1, <1>2, <1>3 DEF Gone
<1> QED BY <1>2, <1>3, <1>4 DEF Deliveries

\* A shard leaves the barrier and sends its accounts.
LEMMA FreezeKeeps ==
  ASSUME NEW ep, NEW st, NEW su, Barrier(ep, st), NEW s \in Shard, NEW accounts,
         sendAccounts_and_Txs(s, accounts), st[s] = "ready", su = [st EXCEPT ![s] = "collecting"]
  PROVE  Barrier(ep, su)'
<1> DEFINE leaving(t) == Selected(accounts, {a \in AccountToFetch(s) : Last(ModifiedMap[s])[a] = t})
           new(t) == [type |-> "accounts", from |-> s, to |-> t,
                      accounts |-> FetchAccounts(s, leaving(t)), txs |-> TransferTxs(TxQueue[s], leaving(t))]
<1>1. /\ getPartitionReady(s) /\ msgs' = msgs \cup {new(t) : t \in Others(s)}
      /\ UNCHANGED <<PartitionOn, PartitionReady, AccountStateTx>>
  BY DEF sendAccounts_and_Txs, cdmVars
<1>2. /\ su \in [Shard -> Stages \ {"halted"}]
      /\ su[s] = "collecting" /\ \A u \in Shard : u # s => su[u] = st[u]
      /\ \A u \in Shard : Busy(su, u) <=> Busy(st, u)
      /\ \A u \in Shard : u # s => (Frozen(su, u) <=> Frozen(st, u))
      /\ ~Frozen(st, s) /\ Frozen(su, s) /\ Busy(st, s)
  BY DEF Frozen, Busy, Barrier, Stages
<1>3. \A t : new(t).type = "accounts" /\ new(t).from = s /\ new(t).to = t
  OBVIOUS
<1> HIDE DEF new, leaving
<1>4. \A m \in msgs' : m \notin msgs => \E t \in Shard : t # s /\ m = new(t)
  BY <1>1 DEF Others
<1>5. msgs \subseteq msgs'
  BY <1>1
<1>6. \A u \in Shard : u # s => /\ Busy(st, u) /\ ep[u] = ep[s]
                                /\ ~Announced(u, s) /\ ~Delivering(s, u) /\ ~Delivered(s, u)
  BY <1>1, AllAtBarrier
<1>7. Shapes'
  <2>1. ASSUME NEW m \in msgs' PROVE Letter(m)
    <3>1. CASE m \in msgs
      BY <3>1 DEF Barrier, Shapes
    <3>2. CASE m \notin msgs
      BY <1>3, <1>4, <3>2 DEF Letter
    <3> QED BY <3>1, <3>2
  <2> QED BY <1>1, <2>1 DEF Barrier, Shapes, Letter
<1>8. \A u \in Shard : Own(su, u)'
  BY <1>1, <1>2 DEF Barrier, Own
<1>9. ASSUME NEW u \in Shard, NEW v \in Shard, u # v
      PROVE  InStep(ep, su, u, v) /\ Announcements(ep, su, u, v)' /\ Deliveries(ep, su, u, v)'
  <2>1. InStep(ep, st, u, v) /\ Announcements(ep, st, u, v) /\ Deliveries(ep, st, u, v)
    BY <1>9 DEF Barrier
  <2>2. InStep(ep, su, u, v)
    BY <1>2, <1>6, <1>9, <2>1 DEF InStep
  <2>3. \A m \in msgs' : ReadyFrom(u, v, m) => m \in msgs
    BY <1>3, <1>4 DEF ReadyFrom
  <2>4. Announced(u, v)' <=> Announced(u, v)
    BY <1>5, <2>3 DEF Announced, ReadyFrom
  <2>5. Announcements(ep, su, u, v)'
    <3>1. \A m, n \in msgs' : ReadyFrom(u, v, m) /\ ReadyFrom(u, v, n) => m = n
      BY <2>1, <2>3 DEF Announcements
    <3>2. CASE v = s
      <4>1. ~Announced(u, v)'
        BY <1>6, <1>9, <2>4, <3>2
      <4> QED BY <1>2, <3>1, <3>2, <4>1 DEF Announcements, ReadyFrom
    <3>3. CASE v # s
      <4>1. /\ Frozen(su, v) <=> Frozen(st, v)
            /\ Busy(su, u) <=> Busy(st, u)
            /\ su[u] = "idle" => st[u] = "idle"
        BY <1>2, <3>3
      <4> QED BY <1>1, <2>1, <2>4, <3>1, <4>1 DEF Announcements, ReadyFrom
    <3> QED BY <3>2, <3>3
  <2>6. CASE u = s
    <3>1. \A m \in msgs' : AccountsFrom(s, v, m) => m = new(v)
      BY <1>3, <1>4, <1>6, <1>9, <2>6 DEF Delivering, AccountsFrom
    <3>2. ~Delivered(s, v)'
      BY <1>1, <1>6, <1>9, <2>6 DEF Delivered
    <3>3. Gone(ep, su, s, v)
      BY <1>1, <1>2, <1>6, <1>9, <2>6 DEF Gone
    <3>4. Deliveries(ep, su, s, v)'
      BY <3>1, <3>2, <3>3 DEF Deliveries, AccountsFrom
    <3> QED BY <2>2, <2>5, <2>6, <3>4
  <2>7. CASE u # s
    <3>1. \A m \in msgs' : AccountsFrom(u, v, m) => m \in msgs
      BY <1>3, <1>4, <2>7 DEF AccountsFrom
    <3>2. Delivering(u, v)' <=> Delivering(u, v)
      BY <1>5, <3>1 DEF Delivering, AccountsFrom
    <3>3. Gone(ep, su, u, v) <=> Gone(ep, st, u, v)
      BY <1>1, <1>2, <2>7 DEF Gone
    <3>4. Deliveries(ep, su, u, v)'
      BY <1>1, <2>1, <3>1, <3>2, <3>3 DEF Deliveries, Delivered, AccountsFrom
    <3> QED BY <2>2, <2>5, <3>4
  <2> QED BY <2>6, <2>7
<1>10. ep \in [Shard -> Nat]
  BY DEF Barrier
<1> QED BY <1>2, <1>7, <1>8, <1>9, <1>10 DEF Barrier

\* What another shard sent is noted.
LEMMA DeliveryKeeps ==
  ASSUME NEW ep, NEW st, Barrier(ep, st), NEW m \in msgs, handleAccountStateAndTxMsg(m)
  PROVE  Barrier(ep, st)'
<1> DEFINE f == m.from
           r == m.to
           got == [t \in DOMAIN AccountStateTx[r] \cup {f} |->
                     IF t = f THEN [accounts |-> m.accounts, txs |-> m.txs] ELSE AccountStateTx[r][t]]
<1>1. /\ m.type = "accounts" /\ msgs' = msgs \ {m}
      /\ AccountStateTx' = [AccountStateTx EXCEPT ![r] = got]
      /\ UNCHANGED <<PartitionOn, PartitionReady>>
  BY DEF handleAccountStateAndTxMsg, Receive
<1>2. f \in Shard /\ r \in Shard /\ f # r
  BY <1>1 DEF Barrier, Shapes, Letter
<1>3. AccountsFrom(f, r, m)
  BY <1>1 DEF AccountsFrom
<1>4. DOMAIN got = DOMAIN AccountStateTx[r] \cup {f}
  OBVIOUS
<1> HIDE DEF got
<1>5. /\ DOMAIN AccountStateTx' = Shard /\ DOMAIN AccountStateTx'[r] = DOMAIN AccountStateTx[r] \cup {f}
      /\ \A u \in Shard : u # r => AccountStateTx'[u] = AccountStateTx[u]
  BY <1>1, <1>2, <1>4 DEF Barrier, Shapes
<1>6. Delivering(f, r) /\ ~Delivered(f, r) /\ Gone(ep, st, f, r)
  BY <1>2, <1>3 DEF Barrier, Deliveries, Delivering
<1>7. st[r] # "transferring"
  BY <1>2, <1>6 DEF Barrier, Own, Delivered, Others
<1>8. Shapes'
  BY <1>1, <1>5 DEF Barrier, Shapes
<1>9. ASSUME NEW u \in Shard PROVE Own(st, u)'
  BY <1>1, <1>5, <1>7 DEF Barrier, Own
<1>10. ASSUME NEW u \in Shard, NEW v \in Shard, u # v
       PROVE  InStep(ep, st, u, v) /\ Announcements(ep, st, u, v)' /\ Deliveries(ep, st, u, v)'
  <2>1. InStep(ep, st, u, v) /\ Announcements(ep, st, u, v) /\ Deliveries(ep, st, u, v)
    BY <1>10 DEF Barrier
  <2>3. Announced(u, v)' <=> Announced(u, v)
    BY <1>1 DEF Announced, ReadyFrom
  <2>4. Announcements(ep, st, u, v)'
    BY <1>1, <2>1, <2>3 DEF Announcements, ReadyFrom
  <2>6. \A x, y \in msgs' : AccountsFrom(u, v, x) /\ AccountsFrom(u, v, y) => x = y
    BY <1>1, <2>1 DEF Deliveries
  <2>7. CASE u = f /\ v = r
    <3>1. ~Delivering(u, v)'
      BY <1>1, <1>3, <2>1, <2>7 DEF Delivering, Deliveries, AccountsFrom
    <3>2. Deliveries(ep, st, u, v)'
      BY <1>6, <2>6, <2>7, <3>1 DEF Deliveries, AccountsFrom
    <3> QED BY <2>1, <2>4, <3>2
  <2>8. CASE ~(u = f /\ v = r)
    <3>1. Delivering(u, v)' <=> Delivering(u, v)
      BY <1>1, <2>8 DEF Delivering, AccountsFrom
    <3>2. Delivered(u, v)' <=> Delivered(u, v)
      BY <1>5, <2>8 DEF Delivered
    <3>3. Deliveries(ep, st, u, v)'
      BY <2>1, <2>6, <3>1, <3>2 DEF Deliveries, AccountsFrom
    <3> QED BY <2>1, <2>4, <3>3
  <2> QED BY <2>7, <2>8
<1> QED BY <1>8, <1>9, <1>10 DEF Barrier

\* Everything has arrived and the transfer is proposed.
LEMMA ProposeKeeps ==
  ASSUME NEW ep, NEW st, NEW su, Barrier(ep, st), NEW s \in Shard, NEW order, proposePartition(s, order),
         st[s] = "collecting", su = [st EXCEPT ![s] = "transferring"]
  PROVE  Barrier(ep, su)'
<1>1. /\ DOMAIN AccountStateTx[s] = Others(s)
      /\ UNCHANGED <<msgs, PartitionOn, PartitionReady, AccountStateTx>>
  BY DEF proposePartition, getCollectOver
<1>2. /\ su \in [Shard -> Stages \ {"halted"}]
      /\ \A u \in Shard : (Busy(su, u) <=> Busy(st, u)) /\ (Frozen(su, u) <=> Frozen(st, u))
      /\ \A u \in Shard : u # s => su[u] = st[u]
      /\ Busy(st, s) /\ su[s] = "transferring"
  BY DEF Busy, Frozen, Barrier, Stages
<1>3. Shapes'
  BY <1>1 DEF Barrier, Shapes
<1>4. ASSUME NEW u \in Shard PROVE Own(su, u)'
  BY <1>1, <1>2 DEF Barrier, Own
<1>5. ASSUME NEW u \in Shard, NEW v \in Shard, u # v
      PROVE  InStep(ep, su, u, v) /\ Announcements(ep, su, u, v)' /\ Deliveries(ep, su, u, v)'
  <2>1. InStep(ep, st, u, v) /\ Announcements(ep, st, u, v) /\ Deliveries(ep, st, u, v)
    BY <1>5 DEF Barrier
  <2>2. InStep(ep, su, u, v)
    BY <1>2, <2>1 DEF InStep
  <2>3. su[u] = "idle" => st[u] = "idle"
    BY <1>2
  <2>4. Announcements(ep, su, u, v)'
    BY <1>1, <1>2, <2>1, <2>3 DEF Announcements, Announced, ReadyFrom
  <2>5. Deliveries(ep, su, u, v)'
    BY <1>1, <1>2, <2>1 DEF Deliveries, Delivering, Delivered, Gone, AccountsFrom
  <2> QED BY <2>2, <2>4, <2>5
<1>6. ep \in [Shard -> Nat]
  BY DEF Barrier
<1> QED BY <1>2, <1>3, <1>4, <1>5, <1>6 DEF Barrier

\* Every other shard has left the round when one completes it, and nothing
\* of the round is still on its way to that shard or from it unread.
LEMMA AllGone ==
  ASSUME NEW ep, NEW st, Barrier(ep, st), NEW s \in Shard, st[s] = "transferring"
  PROVE  \A u \in Shard : u # s =>
           /\ Gone(ep, st, u, s) /\ ~Delivering(u, s)
           /\ ~Announced(s, u) /\ (s \in PartitionReady[u] => Frozen(st, u))
           /\ Announced(u, s) => Busy(st, u) /\ ep[u] = ep[s] + 1
           /\ Delivering(s, u) \/ Delivered(s, u) => ep[u] = ep[s]
<1> SUFFICES ASSUME NEW u \in Shard, u # s
             PROVE  /\ Gone(ep, st, u, s) /\ ~Delivering(u, s)
                    /\ ~Announced(s, u) /\ (s \in PartitionReady[u] => Frozen(st, u))
                    /\ Announced(u, s) => Busy(st, u) /\ ep[u] = ep[s] + 1
                    /\ Delivering(s, u) \/ Delivered(s, u) => ep[u] = ep[s]
  OBVIOUS
<1>1. Delivered(u, s) /\ Frozen(st, s)
  BY DEF Barrier, Own, Delivered, Others, Frozen
<1>2. Gone(ep, st, u, s) /\ ~Delivering(u, s)
  BY <1>1 DEF Barrier, Deliveries
<1>3. ep[u] \in Nat /\ ep[s] \in Nat
  BY DEF Barrier
<1>4. Announcements(ep, st, s, u) /\ Announcements(ep, st, u, s) /\ Deliveries(ep, st, s, u)
  BY DEF Barrier
<1>5. ~Announced(s, u) /\ (s \in PartitionReady[u] => Frozen(st, u))
  BY <1>2, <1>3, <1>4 DEF Announcements, Gone
<1>6. Busy(st, u) \/ st[u] = "idle"
  BY DEF Barrier, Stages, Busy
<1>7. Announced(u, s) => Busy(st, u) /\ ep[u] = ep[s] + 1
  BY <1>1, <1>4, <1>6 DEF Announcements
<1>8. Delivering(s, u) \/ Delivered(s, u) => ep[u] = ep[s]
  BY <1>2, <1>3, <1>4 DEF Deliveries, Gone
<1> QED BY <1>2, <1>5, <1>7, <1>8

\* A shard completes the round.
LEMMA EnterKeeps ==
  ASSUME NEW ep, NEW st, NEW eq, NEW su, Barrier(ep, st), NEW s \in Shard, accountTransfer_do(s),
         st[s] = "transferring", su = [st EXCEPT ![s] = "idle"], eq = [ep EXCEPT ![s] = @ + 1]
  PROVE  Barrier(eq, su)'
<1> DEFINE e == ep[s]
<1>1. /\ UNCHANGED msgs
      /\ PartitionOn' = [PartitionOn EXCEPT ![s] = FALSE]
      /\ PartitionReady' = [PartitionReady EXCEPT ![s] = {}]
      /\ AccountStateTx' = [AccountStateTx EXCEPT ![s] = <<>>]
  BY DEF accountTransfer_do
<1>2. /\ su \in [Shard -> Stages \ {"halted"}]
      /\ su[s] = "idle" /\ ~Busy(su, s) /\ ~Frozen(su, s) /\ Frozen(st, s)
      /\ \A u \in Shard : u # s => /\ su[u] = st[u] /\ (Busy(su, u) <=> Busy(st, u))
                                   /\ (Frozen(su, u) <=> Frozen(st, u))
  BY DEF Busy, Frozen, Barrier, Stages
<1>3. /\ ep \in [Shard -> Nat] /\ eq \in [Shard -> Nat] /\ eq[s] = e + 1 /\ e \in Nat
      /\ \A u \in Shard : u # s => eq[u] = ep[u]
  BY DEF Barrier
<1>4. /\ PartitionReady' \in [Shard -> SUBSET Shard] /\ PartitionReady'[s] = {}
      /\ \A u \in Shard : u # s => PartitionReady'[u] = PartitionReady[u]
  BY <1>1 DEF Barrier, Shapes
<1>5. /\ PartitionOn' \in [Shard -> BOOLEAN] /\ PartitionOn'[s] = FALSE
      /\ \A u \in Shard : u # s => PartitionOn'[u] = PartitionOn[u]
  BY <1>1 DEF Barrier, Shapes
<1>6. /\ DOMAIN AccountStateTx' = Shard /\ AccountStateTx'[s] = <<>>
      /\ \A u \in Shard : u # s => AccountStateTx'[u] = AccountStateTx[u]
  BY <1>1 DEF Barrier, Shapes
<1>7. \A u \in Shard : u # s =>
        /\ Gone(ep, st, u, s) /\ ~Delivering(u, s)
        /\ ~Announced(s, u) /\ (s \in PartitionReady[u] => Frozen(st, u))
        /\ Announced(u, s) => Busy(st, u) /\ ep[u] = e + 1
        /\ Delivering(s, u) \/ Delivered(s, u) => ep[u] = e
  BY <1>1, AllGone
<1>8. \A u, v : (Announced(u, v)' <=> Announced(u, v)) /\ (Delivering(u, v)' <=> Delivering(u, v))
  BY <1>1 DEF Announced, Delivering, ReadyFrom, AccountsFrom
<1>9. Shapes'
  BY <1>1, <1>4, <1>5, <1>6 DEF Barrier, Shapes
<1>10. ASSUME NEW u \in Shard PROVE Own(su, u)'
  <2>1. CASE u = s
    BY <1>2, <1>5, <2>1 DEF Own
  <2>2. CASE u # s
    BY <1>2, <1>5, <1>6, <2>2 DEF Barrier, Own
  <2> QED BY <2>1, <2>2
<1> HIDE DEF e
<1>11. ASSUME NEW u \in Shard, NEW v \in Shard, u # v
       PROVE  InStep(eq, su, u, v) /\ Announcements(eq, su, u, v)' /\ Deliveries(eq, su, u, v)'
  <2>1. /\ InStep(ep, st, u, v) /\ Announcements(ep, st, u, v) /\ Deliveries(ep, st, u, v)
        /\ ep[u] \in Nat /\ ep[v] \in Nat
        /\ \A m, n \in msgs' : ReadyFrom(u, v, m) /\ ReadyFrom(u, v, n) => m = n
        /\ \A m, n \in msgs' : AccountsFrom(u, v, m) /\ AccountsFrom(u, v, n) => m = n
    BY <1>1, <1>3, <1>11 DEF Barrier, Announcements, Deliveries
  <2>2. CASE u = s
    <3>1. Gone(ep, st, v, s) /\ InStep(ep, st, s, v)
      BY <1>7, <1>11, <2>1, <2>2
    <3>2. \/ Frozen(st, v) /\ ep[v] = e
          \/ ~Frozen(st, v) /\ ep[v] = e + 1
      BY <1>3, <2>1, <3>1 DEF Gone, InStep, e
    <3>3. InStep(eq, su, s, v)
      BY <1>2, <1>3, <1>11, <2>2, <3>2 DEF InStep
    <3>4. Announcements(eq, su, s, v)'
      BY <1>2, <1>4, <1>7, <1>8, <1>11, <2>1, <2>2 DEF Announcements, ReadyFrom
    <3>5. Delivering(s, v)' \/ Delivered(s, v)' => Gone(eq, su, s, v)
      BY <1>3, <1>6, <1>7, <1>8, <1>11, <2>2 DEF Delivered, Gone
    <3>6. ~(Delivering(s, v)' /\ Delivered(s, v)')
      BY <1>6, <1>8, <1>11, <2>1, <2>2 DEF Delivered, Deliveries
    <3>7. Deliveries(eq, su, s, v)'
      BY <2>1, <2>2, <3>5, <3>6 DEF Deliveries, AccountsFrom
    <3> QED BY <2>2, <3>3, <3>4, <3>7
  <2>3. CASE v = s
    <3>1. Gone(ep, st, u, s)
      BY <1>7, <1>11, <2>3
    <3>2. InStep(eq, su, u, s)
      BY <1>2, <1>3, <1>11, <2>1, <2>3, <3>1 DEF InStep, Gone, e
    <3>3. Announcements(eq, su, u, s)'
      BY <1>2, <1>3, <1>4, <1>7, <1>8, <1>11, <2>1, <2>3 DEF Announcements, ReadyFrom
    <3>4. ~Delivering(u, s)' /\ ~Delivered(u, s)'
      BY <1>6, <1>7, <1>8, <1>11, <2>3 DEF Delivered
    <3>5. Deliveries(eq, su, u, s)'
      BY <2>1, <2>3, <3>4 DEF Deliveries, AccountsFrom
    <3> QED BY <2>3, <3>2, <3>3, <3>5
  <2>4. CASE u # s /\ v # s
    <3>1. InStep(eq, su, u, v)
      BY <1>2, <1>3, <2>1, <2>4 DEF InStep
    <3>2. Announcements(eq, su, u, v)'
      BY <1>2, <1>3, <1>4, <1>8, <2>1, <2>4 DEF Announcements, ReadyFrom
    <3>3. Deliveries(eq, su, u, v)'
      BY <1>2, <1>3, <1>6, <1>8, <2>1, <2>4 DEF Deliveries, Delivered, Gone, AccountsFrom
    <3> QED BY <3>1, <3>2, <3>3
  <2> QED BY <2>2, <2>3, <2>4
<1> QED BY <1>2, <1>3, <1>9, <1>10, <1>11 DEF Barrier

-----------------------------------------------------------------------------
(* The maps.                                                               *)

\* Steps that leave the maps alone.
LEMMA MapsUnseen ==
  ASSUME Kept, UNCHANGED <<ModifiedMap, AccountTransferRound, PartitionOn, request>>,
         \A s \in Shard : stage'[s] = "transferring" => stage[s] = "transferring"
  PROVE  Kept' /\ \A ep : InTime(ep) => InTime(ep)'
<1>1. Kept'
  BY DEF Kept
<1>2. ASSUME NEW ep, InTime(ep) PROVE InTime(ep)'
  BY <1>2 DEF InTime
<1> QED BY <1>1, <1>2

\* A map arrives.
LEMMA MapsReceived ==
  ASSUME Kept, PartitionOn \in [Shard -> BOOLEAN], NEW m \in msgs, handlePartitionMsg(m),
         m.to \in Shard, m.map \in PartialMap
  PROVE  /\ Kept' /\ mishaps \subseteq mishaps'
         /\ \A ep : InTime(ep) => InTime(ep)' \/ "map early" \in mishaps'
<1> DEFINE r == m.to
           M == Seq(PartialMap)
           q == ModifiedMap[r]
           p == Append(q, m.map)
<1>1. /\ ModifiedMap' = [ModifiedMap EXCEPT ![r] = p]
      /\ PartitionOn' = [PartitionOn EXCEPT ![r] = TRUE]
      /\ mishaps' = mishaps \cup Tag(PartitionOn[r], "map early")
      /\ UNCHANGED <<stage, AccountTransferRound, request>> /\ r \in Shard
  BY DEF handlePartitionMsg
<1>2. /\ ModifiedMap \in [Shard -> M] /\ AccountTransferRound \in [Shard -> Nat] /\ DOMAIN request = Shard
  BY DEF Kept
<1>3. q \in M /\ p \in M /\ Len(p) = Len(q) + 1 /\ Len(q) \in Nat
  <2>1. q \in Seq(PartialMap)
    BY <1>1, <1>2
  <2> QED BY <2>1
<1>4. \A s \in Shard : Len(ModifiedMap[s]) \in Nat
  <2>1. \A s \in Shard : ModifiedMap[s] \in Seq(PartialMap)
    BY <1>2
  <2> QED BY <2>1
<1> HIDE DEF M, p, q
<1>5. /\ ModifiedMap' \in [Shard -> M] /\ ModifiedMap'[r] = p
      /\ \A s \in Shard : s # r => ModifiedMap'[s] = ModifiedMap[s]
  BY <1>1, <1>2, <1>3
<1>6. /\ PartitionOn'[r] = TRUE /\ \A s \in Shard : s # r => PartitionOn'[s] = PartitionOn[s]
  BY <1>1
<1>7. \A s \in Shard : Len(ModifiedMap[s]) <= Len(ModifiedMap'[s]) /\ Len(ModifiedMap'[s]) \in Nat
  BY <1>3, <1>4, <1>5 DEF q
<1>8. ASSUME NEW s \in Shard
      PROVE  /\ AccountTransferRound'[s] + (IF PartitionOn'[s] THEN 1 ELSE 0) <= Len(ModifiedMap'[s])
             /\ stage'[s] = "transferring" => /\ request'[s].ATid \in Nat /\ request'[s].ATid <= Len(ModifiedMap'[s])
                                              /\ request'[s].map \in PartialMap
  <2>1. /\ AccountTransferRound[s] + (IF PartitionOn[s] THEN 1 ELSE 0) <= Len(ModifiedMap[s])
        /\ stage[s] = "transferring" => /\ request[s].ATid \in Nat /\ request[s].ATid <= Len(ModifiedMap[s])
                                        /\ request[s].map \in PartialMap
    BY DEF Kept
  <2>2. AccountTransferRound'[s] + (IF PartitionOn'[s] THEN 1 ELSE 0) <= Len(ModifiedMap'[s])
    <3>1. CASE s = r
      <4>1. AccountTransferRound[r] \in Nat /\ AccountTransferRound[r] <= Len(q)
        <5>1. AccountTransferRound[r] \in Nat
          BY <1>1, <1>2
        <5>2. AccountTransferRound[r] + (IF PartitionOn[r] THEN 1 ELSE 0) <= Len(q)
          BY <2>1, <3>1 DEF q
        <5>3. AccountTransferRound[r] + 0 <= Len(q) \/ AccountTransferRound[r] + 1 <= Len(q)
          BY <5>2
        <5> QED BY <1>3, <5>1, <5>3
      <4>2. AccountTransferRound[r] + 1 <= Len(p)
        BY <1>3, <4>1
      <4> QED BY <1>1, <1>5, <1>6, <3>1, <4>2
    <3>2. CASE s # r
      BY <1>1, <1>2, <1>5, <1>6, <2>1, <3>2
    <3> QED BY <3>1, <3>2
  <2>3. request[s].ATid \in Nat /\ request[s].ATid <= Len(ModifiedMap[s]) => request[s].ATid <= Len(ModifiedMap'[s])
    BY <1>4, <1>7
  <2> QED BY <1>1, <2>1, <2>2, <2>3
<1>9. Kept'
  BY <1>1, <1>2, <1>5, <1>8 DEF Kept, M
<1>10. ASSUME NEW ep, InTime(ep), ~PartitionOn[r] PROVE InTime(ep)'
  <2>1. ASSUME NEW s \in Shard
        PROVE  /\ Len(ModifiedMap'[s]) = ep[s] + (IF PartitionOn'[s] THEN 1 ELSE 0)
               /\ stage'[s] = "transferring" => request'[s].ATid = ep[s] + 1
    <3>1. /\ Len(ModifiedMap[s]) = ep[s] + (IF PartitionOn[s] THEN 1 ELSE 0) /\ ep[s] \in Nat
          /\ stage[s] = "transferring" => request[s].ATid = ep[s] + 1
      BY <1>2, <1>10 DEF InTime
    <3>2. CASE s = r
      <4>1. Len(q) = ep[r]
        BY <1>10, <3>1, <3>2 DEF q
      <4>2. Len(p) = ep[r] + 1
        BY <1>3, <4>1
      <4> QED BY <1>1, <1>5, <1>6, <3>1, <3>2, <4>2
    <3>3. CASE s # r
      BY <1>1, <1>5, <1>6, <3>1, <3>3
    <3> QED BY <3>2, <3>3
  <2>2. AccountTransferRound' = ep
    BY <1>1, <1>10 DEF InTime
  <2> QED BY <2>1, <2>2 DEF InTime
<1>11. PartitionOn[r] => "map early" \in mishaps'
  BY <1>1 DEF Tag
<1>12. mishaps \subseteq mishaps'
  BY <1>1
<1> QED BY <1>9, <1>10, <1>11, <1>12

\* The map of the round is proposed.
LEMMA MapsProposed ==
  ASSUME Kept, NEW s \in Shard, NEW order, proposePartition(s, order), PartitionOn[s], stage \in [Shard -> Stages]
  PROVE  Kept' /\ \A ep : InTime(ep) => InTime(ep)'
<1>1. /\ UNCHANGED <<ModifiedMap, AccountTransferRound, PartitionOn>> /\ stage[s] = "collecting"
      /\ \/ stage' = [stage EXCEPT ![s] = "halted"] /\ UNCHANGED request
         \/ /\ stage' = [stage EXCEPT ![s] = "transferring"]
            /\ \E y : request' = [request EXCEPT ![s] = [map |-> ModifiedMap[s][AccountTransferRound[s] + 1],
                                                         ATid |-> Len(ModifiedMap[s]), accounts |-> y]]
  BY DEF proposePartition
<1>2. CASE stage' = [stage EXCEPT ![s] = "halted"] /\ UNCHANGED request
  <2>1. \A u \in Shard : stage'[u] = "transferring" => stage[u] = "transferring"
    BY <1>1, <1>2
  <2> QED BY <1>1, <1>2, <2>1, MapsUnseen
<1>3. ASSUME stage' = [stage EXCEPT ![s] = "transferring"], NEW y,
             request' = [request EXCEPT ![s] = [map |-> ModifiedMap[s][AccountTransferRound[s] + 1],
                                                ATid |-> Len(ModifiedMap[s]), accounts |-> y]]
      PROVE  Kept' /\ \A ep : InTime(ep) => InTime(ep)'
  <2>1. /\ \A u \in Shard : u # s => stage'[u] = stage[u] /\ request'[u] = request[u]
        /\ request'[s].ATid = Len(ModifiedMap[s]) /\ request'[s].map = ModifiedMap[s][AccountTransferRound[s] + 1]
        /\ DOMAIN request' = Shard
    BY <1>3 DEF Kept
  <2>2. /\ ModifiedMap[s] \in Seq(PartialMap) /\ AccountTransferRound[s] \in Nat
        /\ AccountTransferRound[s] + 1 <= Len(ModifiedMap[s])
    BY DEF Kept
  <2>3. Len(ModifiedMap[s]) \in Nat /\ ModifiedMap[s][AccountTransferRound[s] + 1] \in PartialMap
    BY <2>2
  <2>4. ASSUME NEW u \in Shard
        PROVE  /\ AccountTransferRound'[u] + (IF PartitionOn'[u] THEN 1 ELSE 0) <= Len(ModifiedMap'[u])
               /\ stage'[u] = "transferring" => /\ request'[u].ATid \in Nat
                                                /\ request'[u].ATid <= Len(ModifiedMap'[u])
                                                /\ request'[u].map \in PartialMap
    <3>1. CASE u = s
      <4>1. /\ request'[s].ATid \in Nat /\ request'[s].ATid <= Len(ModifiedMap'[s])
            /\ request'[s].map \in PartialMap
        BY <1>1, <2>1, <2>3
      <4> QED BY <1>1, <3>1, <4>1 DEF Kept
    <3>2. CASE u # s
      BY <1>1, <2>1, <3>2 DEF Kept
    <3> QED BY <3>1, <3>2
  <2>5. Kept'
    BY <1>1, <2>1, <2>4 DEF Kept
  <2>6. ASSUME NEW ep, InTime(ep) PROVE InTime(ep)'
    <3>1. Len(ModifiedMap[s]) = ep[s] + 1 /\ AccountTransferRound = ep
      BY <2>6 DEF InTime
    <3> QED BY <1>1, <2>1, <2>6, <3>1 DEF InTime
  <2> QED BY <2>5, <2>6
<1> QED BY <1>1, <1>2, <1>3

\* The transfer is committed: the map carried out is the one received, so the
\* list of maps does not grow, unless another map came in between.
LEMMA MapsEntered ==
  ASSUME Kept, NEW s \in Shard, accountTransfer_do(s), PartitionOn \in [Shard -> BOOLEAN], PartitionOn[s],
         stage \in [Shard -> Stages]
  PROVE  /\ Kept' /\ UNCHANGED mishaps
         /\ \A ep : InTime(ep) => UNCHANGED ModifiedMap /\ InTime([ep EXCEPT ![s] = @ + 1])'
<1> DEFINE a == request[s].ATid
           maps == ModifiedMap[s]
           new == IF Len(maps) # a THEN Append(maps, request[s].map) ELSE maps
           M == Seq(PartialMap)
<1>1. /\ stage[s] = "transferring" /\ stage' = [stage EXCEPT ![s] = "idle"]
      /\ AccountTransferRound' = [AccountTransferRound EXCEPT ![s] = a]
      /\ ModifiedMap' = [ModifiedMap EXCEPT ![s] = new]
      /\ PartitionOn' = [PartitionOn EXCEPT ![s] = FALSE]
      /\ request' = [request EXCEPT ![s] = <<>>] /\ UNCHANGED mishaps
  BY DEF accountTransfer_do
<1>2. /\ ModifiedMap \in [Shard -> M] /\ AccountTransferRound \in [Shard -> Nat] /\ DOMAIN request = Shard
      /\ maps \in Seq(PartialMap) /\ a \in Nat /\ a <= Len(maps) /\ request[s].map \in PartialMap
  BY <1>1 DEF Kept
<1>3. new \in M /\ a <= Len(new)
  BY <1>2
<1>4. Len(maps) = a => new = maps
  OBVIOUS
<1> HIDE DEF M, new
<1>5. /\ ModifiedMap' \in [Shard -> M] /\ ModifiedMap'[s] = new
      /\ \A u \in Shard : u # s => ModifiedMap'[u] = ModifiedMap[u]
  BY <1>1, <1>2, <1>3
<1> HIDE DEF a, maps
<1>6. /\ AccountTransferRound' \in [Shard -> Nat] /\ AccountTransferRound'[s] = a /\ PartitionOn'[s] = FALSE
      /\ stage'[s] = "idle" /\ DOMAIN request' = Shard
      /\ \A u \in Shard : u # s => /\ AccountTransferRound'[u] = AccountTransferRound[u] /\ stage'[u] = stage[u]
                                   /\ PartitionOn'[u] = PartitionOn[u] /\ request'[u] = request[u]
  BY <1>1, <1>2
<1>7. ASSUME NEW u \in Shard
      PROVE  /\ AccountTransferRound'[u] + (IF PartitionOn'[u] THEN 1 ELSE 0) <= Len(ModifiedMap'[u])
             /\ stage'[u] = "transferring" => /\ request'[u].ATid \in Nat /\ request'[u].ATid <= Len(ModifiedMap'[u])
                                              /\ request'[u].map \in PartialMap
  <2>1. CASE u = s
    BY <1>2, <1>3, <1>5, <1>6, <2>1
  <2>2. CASE u # s
    BY <1>5, <1>6, <2>2 DEF Kept
  <2> QED BY <2>1, <2>2
<1>8. Kept'
  BY <1>5, <1>6, <1>7 DEF Kept, M
<1>9. ASSUME NEW ep, InTime(ep) PROVE UNCHANGED ModifiedMap /\ InTime([ep EXCEPT ![s] = @ + 1])'
  <2> DEFINE eq == [ep EXCEPT ![s] = @ + 1]
  <2>1. a = ep[s] + 1 /\ Len(maps) = ep[s] + 1 /\ AccountTransferRound = ep
    BY <1>1, <1>9 DEF InTime, a, maps
  <2>2. ModifiedMap' = [ModifiedMap EXCEPT ![s] = ModifiedMap[s]]
    BY <1>1, <1>4, <2>1 DEF maps
  <2>3. ModifiedMap' = ModifiedMap
    BY <1>2, <2>2
  <2>4. AccountTransferRound' = eq /\ eq[s] = ep[s] + 1 /\ \A u \in Shard : u # s => eq[u] = ep[u]
    BY <1>1, <1>2, <2>1
  <2> HIDE DEF eq
  <2>5. ASSUME NEW u \in Shard
        PROVE  /\ Len(ModifiedMap'[u]) = eq[u] + (IF PartitionOn'[u] THEN 1 ELSE 0)
               /\ stage'[u] = "transferring" => request'[u].ATid = eq[u] + 1
    <3>1. CASE u = s
      <4>1. ep[s] \in Nat
        BY <1>2, <2>1
      <4> QED BY <1>6, <2>1, <2>3, <2>4, <3>1, <4>1 DEF maps
    <3>2. CASE u # s
      BY <1>6, <1>9, <2>3, <2>4, <3>2 DEF InTime
    <3> QED BY <3>1, <3>2
  <2>6. InTime(eq)'
    BY <2>4, <2>5 DEF InTime
  <2> QED BY <2>3, <2>6 DEF eq
<1> QED BY <1>1, <1>8, <1>9

-----------------------------------------------------------------------------
(* The histories and the barrier.                                          *)

LEMMA EpochInit == Init => EpochInv
<1> SUFFICES ASSUME Init PROVE EpochInv
  OBVIOUS
<1> DEFINE ep == [s \in Shard |-> 0]
           st == [s \in Shard |-> "idle"]
<1> USE DEF PerShard
<1>1. /\ stage = st /\ msgs = {} /\ AccountTransferRound = ep /\ ep \in [Shard -> Nat]
      /\ st \in [Shard -> Stages \ {"halted"}] /\ \A s \in Shard : ep[s] = 0 /\ st[s] = "idle"
  BY DEF Init, Stages
<1>2. /\ PartitionOn \in [Shard -> BOOLEAN] /\ PartitionReady \in [Shard -> SUBSET Shard]
      /\ DOMAIN AccountStateTx = Shard /\ DOMAIN request = Shard
      /\ \A s \in Shard : /\ PartitionOn[s] = FALSE /\ PartitionReady[s] = {}
                          /\ AccountStateTx[s] = <<>> /\ ModifiedMap[s] = <<>>
  BY DEF Init
<1>3. ModifiedMap \in [Shard -> Seq(PartialMap)]
  <2> DEFINE M == Seq(PartialMap)
  <2>1. <<>> \in M
    OBVIOUS
  <2> HIDE DEF M
  <2>2. ModifiedMap \in [Shard -> M]
    BY <2>1 DEF Init
  <2> QED BY <2>2 DEF M
<1>4. Shapes
  BY <1>1, <1>2 DEF Shapes
<1> HIDE DEF ep, st
<1>5. \A s \in Shard : Len(ModifiedMap[s]) = 0
  BY <1>2
<1>6. Remembers(st)
  BY <1>1 DEF Remembers, Stages
<1>7. Kept /\ InTime(ep)
  BY <1>1, <1>2, <1>3, <1>5 DEF Kept, InTime
<1>8. ASSUME NEW s \in Shard PROVE Own(st, s)
  BY <1>1 DEF Own, Busy
<1>9. ASSUME NEW s \in Shard, NEW t \in Shard
      PROVE  InStep(ep, st, s, t) /\ Announcements(ep, st, s, t) /\ Deliveries(ep, st, s, t)
  BY <1>1, <1>2 DEF InStep, Announcements, Deliveries, Announced, Delivering, Delivered, Frozen
<1>10. Barrier(ep, st)
  BY <1>1, <1>4, <1>8, <1>9 DEF Barrier
<1> QED BY <1>6, <1>7, <1>10 DEF EpochInv, Related

\* The relays of a block are not seen by the barrier.
LEMMA RelaysUnseen ==
  ASSUME NEW s PROVE \A m \in RelaysOf(s, Packed(s)) : m.type = "relay"
<1> DEFINE pick(t) == Selected(Packed(s), {x \in Item : PartitionMap[s][Rows[x.tx].recipient] = t})
           second(t) == [i \in 1 .. Len(pick(t)) |-> Second(pick(t)[i].tx)]
           relay(t) == [type |-> "relay", from |-> s, to |-> t, seq |-> sequenceID[s], txs |-> second(t)]
<1>1. RelaysOf(s, Packed(s)) = {relay(t) : t \in Others(s)}
  BY DEF RelaysOf
<1> HIDE DEF second
<1>2. \A t : relay(t).type = "relay"
  OBVIOUS
<1> HIDE DEF relay
<1> QED BY <1>1, <1>2

LEMMA RelatedStep ==
  ASSUME NEW ep, NEW st, Related(ep, st), [Next]_vars
  PROVE  EpochInv'
<1>1. /\ Remembers(st) /\ Barrier(ep, st) /\ Kept /\ ("map early" \in mishaps \/ InTime(ep))
      /\ stage \in [Shard -> Stages] /\ PartitionOn \in [Shard -> BOOLEAN]
      /\ ep \in [Shard -> Nat] /\ st \in [Shard -> Stages \ {"halted"}]
  BY DEF Related, Remembers, Barrier, Shapes
<1>2. mishaps \subseteq mishaps'
  BY <1>1, StageChange
<1>3. \A m \in msgs : m.type = "partition" => m.to \in Shard /\ m.map \in PartialMap
  BY <1>1 DEF Barrier, Shapes, Letter
<1>4. ASSUME UNCHANGED <<stage, AccountTransferRound, ModifiedMap, PartitionOn, PartitionReady,
                         AccountStateTx, request>>,
             \A m \in msgs' : m.type \in {"ready", "accounts"} => m \in msgs,
             \A m \in msgs : m.type \in {"ready", "accounts"} => m \in msgs',
             \A m \in msgs' : m.type = "partition" => m.to \in Shard /\ m.map \in PartialMap
      PROVE  EpochInv'
  <2>1. Barrier(ep, st)'
    BY <1>1, <1>4, UnseenKeeps
  <2>2. Kept' /\ (InTime(ep) => InTime(ep)')
    BY <1>1, <1>4, MapsUnseen
  <2>3. Remembers(st)'
    BY <1>1, <1>4 DEF Remembers
  <2> QED BY <1>1, <1>2, <2>1, <2>2, <2>3 DEF EpochInv, Related
<1>5. CASE txSending
  <2>1. /\ UNCHANGED <<stage, AccountTransferRound, ModifiedMap, PartitionOn, PartitionReady,
                       AccountStateTx, request>>
        /\ \E x : x.type = "inject" /\ msgs' = msgs \cup {x}
    BY <1>5 DEF txSending, cdmVars
  <2> QED BY <1>3, <1>4, <2>1
<1>6. ASSUME NEW mmap \in PartialMap, clpaMapSend(mmap) PROVE EpochInv'
  <2> DEFINE new(s) == [type |-> "partition", map |-> mmap, nr |-> clpaCnt', to |-> s]
  <2>1. /\ UNCHANGED <<stage, AccountTransferRound, ModifiedMap, PartitionOn, PartitionReady,
                       AccountStateTx, request>>
        /\ msgs' = msgs \cup {new(s) : s \in Shard}
    BY <1>6 DEF clpaMapSend, cdmVars
  <2>2. \A s : new(s).type = "partition" /\ new(s).map = mmap /\ new(s).to = s
    OBVIOUS
  <2> HIDE DEF new
  <2>3. \A m \in msgs' : m \notin msgs => m.type = "partition" /\ m.map = mmap /\ m.to \in Shard
    BY <2>1, <2>2
  <2> QED BY <1>3, <1>4, <2>1, <2>3
<1>7. CASE (\E e \in reports : HandleBlockInfo(e)) \/ UNCHANGED vars
  <2>1. UNCHANGED <<stage, AccountTransferRound, ModifiedMap, PartitionOn, PartitionReady,
                    AccountStateTx, request, msgs>>
    BY <1>7 DEF HandleBlockInfo, cdmVars, vars
  <2> QED BY <1>3, <1>4, <2>1
<1>8. ASSUME NEW m \in msgs, handleInjectTx(m) \/ handleRelay(m) PROVE EpochInv'
  <2>1. /\ UNCHANGED <<stage, AccountTransferRound, ModifiedMap, PartitionOn, PartitionReady,
                       AccountStateTx, request>>
        /\ m.type \notin {"ready", "accounts"} /\ msgs' = msgs \ {m}
    BY <1>8 DEF handleInjectTx, handleRelay, Receive, cdmVars
  <2> QED BY <1>3, <1>4, <2>1
<1>9. ASSUME NEW m \in msgs, handlePartitionMsg(m) PROVE EpochInv'
  <2>1. m.to \in Shard /\ m.map \in PartialMap /\ UNCHANGED stage
    BY <1>3, <1>9 DEF handlePartitionMsg, Receive
  <2>2. Kept' /\ (InTime(ep) => InTime(ep)' \/ "map early" \in mishaps')
    BY <1>1, <1>9, <2>1, MapsReceived
  <2>3. Barrier(ep, st)'
    BY <1>1, <1>9, MapKeeps
  <2>4. Remembers(st)'
    BY <1>1, <2>1 DEF Remembers
  <2> QED BY <1>1, <1>2, <2>2, <2>3, <2>4 DEF EpochInv, Related
<1>10. ASSUME NEW m \in msgs, handlePartitionReady(m) \/ handleAccountStateAndTxMsg(m) PROVE EpochInv'
  <2>1. UNCHANGED <<stage, ModifiedMap, AccountTransferRound, PartitionOn, request>>
    BY <1>10 DEF handlePartitionReady, handleAccountStateAndTxMsg
  <2>2. Kept' /\ (InTime(ep) => InTime(ep)')
    BY <1>1, <2>1, MapsUnseen
  <2>3. Barrier(ep, st)'
    BY <1>1, <1>10, HeardKeeps, DeliveryKeeps
  <2>4. Remembers(st)'
    BY <1>1, <2>1 DEF Remembers
  <2> QED BY <1>1, <1>2, <2>2, <2>3, <2>4 DEF EpochInv, Related
<1>11. ASSUME NEW s \in Shard, CommitBlock(s) PROVE EpochInv'
  <2>1. /\ UNCHANGED <<AccountTransferRound, ModifiedMap, PartitionOn, PartitionReady, AccountStateTx, request>>
        /\ \/ stage' = [stage EXCEPT ![s] = "halted"] /\ UNCHANGED msgs
           \/ UNCHANGED stage /\ msgs' = msgs \cup RelaysOf(s, Packed(s))
    BY <1>11 DEF CommitBlock, cdmVars
  <2>2. CASE stage' = [stage EXCEPT ![s] = "halted"] /\ UNCHANGED msgs
    <3>1. Barrier(ep, st)'
      BY <1>1, <1>3, <2>1, <2>2, UnseenKeeps
    <3>2. \A u \in Shard : stage'[u] = "transferring" => stage[u] = "transferring"
      BY <1>1, <2>2
    <3>3. Kept' /\ (InTime(ep) => InTime(ep)')
      BY <1>1, <2>1, <3>2, MapsUnseen
    <3>4. Remembers(st)'
      BY <1>1, <2>2, HaltRemembered
    <3> QED BY <1>1, <1>2, <3>1, <3>3, <3>4 DEF EpochInv, Related
  <2>3. CASE UNCHANGED stage /\ msgs' = msgs \cup RelaysOf(s, Packed(s))
    BY <1>3, <1>4, <2>1, <2>3, RelaysUnseen
  <2> QED BY <2>1, <2>2, <2>3
<1>12. ASSUME NEW s \in Shard, sendPartitionReady(s) PROVE EpochInv'
  <2> DEFINE su == [st EXCEPT ![s] = "ready"]
  <2>1. /\ stage[s] = "idle" /\ stage' = [stage EXCEPT ![s] = "ready"]
        /\ UNCHANGED <<AccountTransferRound, ModifiedMap, PartitionOn, request>>
    BY <1>12 DEF sendPartitionReady
  <2>2. st[s] = "idle" /\ Remembers(su)'
    BY <1>1, <2>1, MoveRemembered DEF Moves, Stages
  <2>3. Barrier(ep, su)'
    BY <1>1, <1>12, <2>2, AnnounceKeeps
  <2>4. \A u \in Shard : stage'[u] = "transferring" => stage[u] = "transferring"
    BY <1>1, <2>1
  <2>5. Kept' /\ (InTime(ep) => InTime(ep)')
    BY <1>1, <2>1, <2>4, MapsUnseen
  <2> HIDE DEF su
  <2> QED BY <1>1, <1>2, <2>2, <2>3, <2>5 DEF EpochInv, Related
<1>13. ASSUME NEW s \in Shard, NEW accounts, sendAccounts_and_Txs(s, accounts) PROVE EpochInv'
  <2> DEFINE su == [st EXCEPT ![s] = "collecting"]
  <2>1. /\ stage[s] = "ready" /\ stage' = [stage EXCEPT ![s] = "collecting"]
        /\ UNCHANGED <<AccountTransferRound, ModifiedMap, PartitionOn, request>>
    BY <1>13 DEF sendAccounts_and_Txs, cdmVars
  <2>2. st[s] = "ready" /\ Remembers(su)'
    BY <1>1, <2>1, MoveRemembered DEF Moves, Stages
  <2>3. Barrier(ep, su)'
    BY <1>1, <1>13, <2>2, FreezeKeeps
  <2>4. \A u \in Shard : stage'[u] = "transferring" => stage[u] = "transferring"
    BY <1>1, <2>1
  <2>5. Kept' /\ (InTime(ep) => InTime(ep)')
    BY <1>1, <2>1, <2>4, MapsUnseen
  <2> HIDE DEF su
  <2> QED BY <1>1, <1>2, <2>2, <2>3, <2>5 DEF EpochInv, Related
<1>14. ASSUME NEW s \in Shard, NEW order, proposePartition(s, order) PROVE EpochInv'
  <2> DEFINE su == [st EXCEPT ![s] = "transferring"]
  <2>1. /\ stage[s] = "collecting"
        /\ stage' = [stage EXCEPT ![s] = "transferring"] \/ stage' = [stage EXCEPT ![s] = "halted"]
        /\ UNCHANGED <<PartitionOn, PartitionReady, AccountStateTx, msgs>>
    BY <1>14 DEF proposePartition
  <2>2. st[s] = "collecting"
    BY <1>1, <2>1 DEF Remembers
  <2>3. PartitionOn[s]
    BY <1>1, <2>2 DEF Barrier, Own, Busy
  <2>4. Kept' /\ (InTime(ep) => InTime(ep)')
    BY <1>1, <1>14, <2>3, MapsProposed
  <2>5. CASE stage' = [stage EXCEPT ![s] = "transferring"]
    <3>1. Remembers(su)'
      BY <1>1, <2>1, <2>5, MoveRemembered DEF Moves, Stages
    <3>2. Barrier(ep, su)'
      BY <1>1, <1>14, <2>2, ProposeKeeps
    <3> HIDE DEF su
    <3> QED BY <1>1, <1>2, <2>4, <3>1, <3>2 DEF EpochInv, Related
  <2>6. CASE stage' = [stage EXCEPT ![s] = "halted"]
    <3>1. Barrier(ep, st)'
      BY <1>1, <1>3, <2>1, UnseenKeeps
    <3>2. Remembers(st)'
      BY <1>1, <2>6, HaltRemembered
    <3> QED BY <1>1, <1>2, <2>4, <3>1, <3>2 DEF EpochInv, Related
  <2> QED BY <2>1, <2>5, <2>6
<1>15. ASSUME NEW s \in Shard, accountTransfer_do(s) PROVE EpochInv'
  <2> DEFINE su == [st EXCEPT ![s] = "idle"]
             eq == [ep EXCEPT ![s] = @ + 1]
  <2>1. stage[s] = "transferring" /\ stage' = [stage EXCEPT ![s] = "idle"]
    BY <1>15 DEF accountTransfer_do
  <2>2. st[s] = "transferring" /\ Remembers(su)'
    BY <1>1, <2>1, MoveRemembered DEF Moves, Stages
  <2>3. PartitionOn[s]
    BY <1>1, <2>2 DEF Barrier, Own, Busy
  <2>4. Kept' /\ (InTime(ep) => InTime(eq)')
    BY <1>1, <1>15, <2>3, MapsEntered
  <2>5. Barrier(eq, su)'
    BY <1>1, <1>15, <2>2, EnterKeeps
  <2> HIDE DEF su, eq
  <2> QED BY <1>1, <1>2, <2>2, <2>4, <2>5 DEF EpochInv, Related
<1> QED BY <1>5, <1>6, <1>7, <1>8, <1>9, <1>10, <1>11, <1>12, <1>13, <1>14, <1>15
        DEF Next, HandleMessage, HandleinPropose

LEMMA EpochStep == EpochInv /\ [Next]_vars => EpochInv'
<1> SUFFICES ASSUME EpochInv, [Next]_vars PROVE EpochInv'
  OBVIOUS
<1>1. PICK ep, st : Related(ep, st)
  BY DEF EpochInv
<1> QED BY <1>1, RelatedStep

\* Where a step can change an epoch or the set of frozen shards.
LEMMA EpochChange ==
  ASSUME [Next]_vars
  PROVE  \/ UNCHANGED <<stage, AccountTransferRound>>
         \/ UNCHANGED AccountTransferRound /\ \E s \in Shard : stage' = [stage EXCEPT ![s] = "halted"]
         \/ \E s \in Shard :
              \/ sendPartitionReady(s) \/ accountTransfer_do(s)
              \/ \E accounts : sendAccounts_and_Txs(s, accounts)
              \/ \E order : proposePartition(s, order)
<1>1. ASSUME \/ txSending \/ UNCHANGED vars \/ \E mmap \in PartialMap : clpaMapSend(mmap)
             \/ \E e \in reports : HandleBlockInfo(e)
      PROVE  UNCHANGED <<stage, AccountTransferRound>>
  BY <1>1 DEF txSending, clpaMapSend, HandleBlockInfo, cdmVars, vars
<1>2. ASSUME HandleMessage PROVE UNCHANGED <<stage, AccountTransferRound>>
  BY <1>2 DEF HandleMessage, handleInjectTx, handleRelay, handlePartitionMsg, handlePartitionReady,
              handleAccountStateAndTxMsg, cdmVars
<1>3. ASSUME NEW s \in Shard, CommitBlock(s)
      PROVE  UNCHANGED AccountTransferRound /\ (stage' = stage \/ stage' = [stage EXCEPT ![s] = "halted"])
  BY <1>3 DEF CommitBlock, cdmVars
<1> QED BY <1>1, <1>2, <1>3 DEF Next, HandleinPropose

\* As long as nothing has happened the histories are the state.
LEMMA Histories ==
  ASSUME EpochInv, ~Halted, "map early" \notin mishaps
  PROVE  \E ep, st : /\ st = stage /\ ep = AccountTransferRound /\ ep \in [Shard -> Nat]
                     /\ stage \in [Shard -> Stages] /\ Barrier(ep, st) /\ Kept /\ InTime(ep)
<1>1. PICK ep, st : Related(ep, st)
  BY DEF EpochInv
<1>2. /\ stage \in [Shard -> Stages] /\ st \in [Shard -> Stages \ {"halted"}] /\ Barrier(ep, st) /\ Kept /\ InTime(ep)
      /\ \A s \in Shard : stage[s] # "halted" => st[s] = stage[s]
  BY <1>1 DEF Related, Remembers, Barrier
<1>3. \A s \in Shard : stage[s] # "halted"
  BY <1>2 DEF Halted
<1>4. AccountTransferRound = ep /\ ep \in [Shard -> Nat]
  BY <1>2 DEF InTime, Kept
<1>5. st = stage
  <2> DEFINE A == Stages
             B == Stages \ {"halted"}
  <2>1. stage \in [Shard -> A] /\ st \in [Shard -> B] /\ \A s \in Shard : st[s] = stage[s]
    BY <1>2, <1>3
  <2> HIDE DEF A, B
  <2>2. stage = [s \in Shard |-> stage[s]] /\ st = [s \in Shard |-> st[s]]
    BY <2>1
  <2> QED BY <2>1, <2>2, Zenon
<1> QED BY <1>2, <1>4, <1>5

\* A step of re-sharding is a step of Epochs: leaving the barrier freezes the
\* shard, committing the transfer enters the next epoch, and at that moment
\* every other shard is frozen too or has already entered it.
LEMMA EpochRefines ==
  EpochInv /\ [Next]_vars =>
    E!Next \/ "map early" \in mishaps \/ Halted' \/ UNCHANGED <<AccountTransferRound, {s \in Shard : AccountsSent(s)}>>
<1> DEFINE F == {s \in Shard : AccountsSent(s)}
<1> SUFFICES ASSUME EpochInv, [Next]_vars, "map early" \notin mishaps, ~Halted'
             PROVE  E!Next \/ UNCHANGED <<AccountTransferRound, F>>
  OBVIOUS
<1>1. ~Halted
  <2>1. stage \in [Shard -> Stages]
    BY DEF EpochInv, Related, Remembers
  <2> QED BY <2>1, StageChange DEF Halted
<1>2. PICK ep, st : /\ st = stage /\ ep = AccountTransferRound /\ ep \in [Shard -> Nat]
                    /\ stage \in [Shard -> Stages] /\ Barrier(ep, st) /\ Kept /\ InTime(ep)
  BY <1>1, Histories
<1>3. \A s \in Shard : s \in F <=> AccountsSent(s)
  OBVIOUS
<1>4. \A s \in Shard : s \in F' <=> AccountsSent(s)'
  OBVIOUS
<1>5. F \subseteq Shard /\ F' \subseteq Shard
  OBVIOUS
<1>6. CASE UNCHANGED <<stage, AccountTransferRound>>
  BY <1>6 DEF AccountsSent
<1>7. ASSUME NEW s \in Shard, stage' = [stage EXCEPT ![s] = "halted"] PROVE FALSE
  BY <1>2, <1>7 DEF Halted
<1>8. ASSUME NEW s \in Shard, sendPartitionReady(s) PROVE UNCHANGED <<AccountTransferRound, F>>
  <2>1. stage[s] = "idle" /\ stage' = [stage EXCEPT ![s] = "ready"] /\ UNCHANGED AccountTransferRound
    BY <1>8 DEF sendPartitionReady
  <2>2. \A u \in Shard : AccountsSent(u)' <=> AccountsSent(u)
    BY <1>2, <2>1 DEF AccountsSent
  <2> QED BY <2>1, <2>2
<1>9. ASSUME NEW s \in Shard, NEW order, proposePartition(s, order) PROVE UNCHANGED <<AccountTransferRound, F>>
  <2>1. stage[s] = "collecting" /\ stage' = [stage EXCEPT ![s] = "transferring"] /\ UNCHANGED AccountTransferRound
    BY <1>7, <1>9 DEF proposePartition
  <2>2. \A u \in Shard : AccountsSent(u)' <=> AccountsSent(u)
    BY <1>2, <2>1 DEF AccountsSent
  <2> QED BY <2>1, <2>2
<1>10. ASSUME NEW s \in Shard, NEW accounts, sendAccounts_and_Txs(s, accounts) PROVE E!Freeze(s)
  <2>1. stage[s] = "ready" /\ stage' = [stage EXCEPT ![s] = "collecting"] /\ UNCHANGED AccountTransferRound
    BY <1>10 DEF sendAccounts_and_Txs, cdmVars
  <2>2. ~AccountsSent(s) /\ AccountsSent(s)' /\ \A u \in Shard : u # s => (AccountsSent(u)' <=> AccountsSent(u))
    BY <1>2, <2>1 DEF AccountsSent
  <2>3. F' = F \cup {s} /\ s \notin F
    BY <2>2
  <2> QED BY <2>1, <2>3 DEF E!Freeze
<1>11. ASSUME NEW s \in Shard, accountTransfer_do(s) PROVE E!Enter(s)
  <2>1. /\ stage[s] = "transferring" /\ stage' = [stage EXCEPT ![s] = "idle"]
        /\ AccountTransferRound' = [AccountTransferRound EXCEPT ![s] = @ + 1]
    <3>1. PartitionOn[s] /\ PartitionOn \in [Shard -> BOOLEAN] /\ stage[s] = "transferring"
      BY <1>2, <1>11 DEF accountTransfer_do, Barrier, Shapes, Own, Busy
    <3>2. InTime([ep EXCEPT ![s] = @ + 1])'
      BY <1>2, <1>11, <3>1, MapsEntered
    <3> QED BY <1>2, <1>11, <3>1, <3>2 DEF accountTransfer_do, InTime
  <2>2. AccountsSent(s) /\ ~AccountsSent(s)' /\ \A u \in Shard : u # s => (AccountsSent(u)' <=> AccountsSent(u))
    BY <1>2, <2>1 DEF AccountsSent
  <2>3. F' = F \ {s} /\ s \in F
    BY <2>2
  <2>4. ASSUME NEW u \in Shard
        PROVE  \/ u \in F /\ AccountTransferRound[u] = AccountTransferRound[s]
               \/ AccountTransferRound[u] = AccountTransferRound[s] + 1
    <3>1. CASE u = s
      BY <2>3, <3>1
    <3>2. CASE u # s
      <4>1. Gone(ep, st, u, s)
        BY <1>2, <2>1, <3>2, AllGone
      <4> QED BY <1>2, <4>1 DEF Gone, Frozen, AccountsSent
    <3> QED BY <3>1, <3>2
  <2> QED BY <2>1, <2>3, <2>4 DEF E!Enter
<1> HIDE DEF F
<1>12. E!Next \/ UNCHANGED <<AccountTransferRound, F>>
  BY <1>6, <1>7, <1>8, <1>9, <1>10, <1>11, EpochChange DEF E!Next
<1> QED BY <1>12

\* The barrier of re-sharding works for every number of shards, accounts and
\* rounds, whatever order the messages come in: no shard goes on in the next
\* epoch before every other has stopped, unless a partition arrived while one
\* was still being carried out, or a leader panicked.
THEOREM EpochsNeverOverlap == Spec => EpochsDoNotOverlap
<1>1. Init => E!Init
  BY DEF Init, E!Init, PerShard, AccountsSent
<1> QED BY <1>1, EpochInit, EpochStep, EpochRefines, PTL DEF Spec, EpochsDoNotOverlap

-----------------------------------------------------------------------------
(* Lists.                                                                  *)

LEMMA ToSetHolds ==
  ASSUME NEW A, NEW q \in Seq(A)
  PROVE  ToSet(q) \subseteq A /\ \A x : x \in ToSet(q) <=> Holds(q, x)
<1>1. DOMAIN q = 1 .. Len(q) /\ \A i \in 1 .. Len(q) : q[i] \in A
  OBVIOUS
<1> QED BY <1>1 DEF ToSet, Holds

\* The order in which a range over a Go map meets the keys: each once.
LEMMA Listing ==
  ASSUME NEW S, IsFiniteSet(S), NEW f \in SetToSeqs(S)
  PROVE  f \in Seq(S) /\ DOMAIN f = 1 .. Len(f) /\ \A x : Holds(f, x) <=> x \in S
<1> DEFINE n == Cardinality(S)
           D == 1 .. n
<1>1. n \in Nat
  BY FS_CardinalityType
<1>2. f \in [D -> S] /\ \A i, j \in D : i # j => f[i] # f[j]
  BY DEF SetToSeqs
<1>3. IsFiniteSet(D) /\ Cardinality(D) = n
  <2>1. IsFiniteSet(1 .. n) /\ Cardinality(1 .. n) = IF 1 > n THEN 0 ELSE n - 1 + 1
    BY <1>1, FS_Interval
  <2> QED BY <1>1, <2>1
<1> HIDE DEF n
<1>4. f \in Seq(S) /\ Len(f) = n /\ DOMAIN f = 1 .. Len(f)
  BY <1>1, <1>2
<1> HIDE DEF D
<1>5. f \in Injection(D, S)
  BY <1>2 DEF Injection, IsInjective
<1>6. f \in Surjection(D, S)
  BY <1>3, <1>5, FS_Injection DEF n
<1>7. \A x \in S : \E i \in D : f[i] = x
  BY <1>6 DEF Surjection
<1> QED BY <1>2, <1>4, <1>7 DEF Holds, D

\* What leaves with the accounts addrs and what stays.
LEMMA TransferHolds ==
  ASSUME NEW q \in Seq(Item), NEW addrs \in Seq(Account)
  PROVE  /\ TransferTxs(q, addrs) \in Seq(Item) /\ RemainingTxs(q, addrs) \in Seq(Item)
         /\ \A x : Holds(TransferTxs(q, addrs), x) <=> Holds(q, x) /\ Holds(addrs, Rows[x.tx].sender)
         /\ \A x : Holds(RemainingTxs(q, addrs), x) <=> Holds(q, x) /\ ~Holds(addrs, Rows[x.tx].sender)
<1> DEFINE from(i) == Selected(q, {x \in Item : Rows[x.tx].sender = addrs[i]})
           qs == [i \in DOMAIN addrs |-> from(i)]
           n == Len(addrs)
           I == Item
<1>1. DOMAIN addrs = 1 .. n /\ n \in Nat
  OBVIOUS
<1>2. \A x : Holds(q, x) => x \in I
  BY DEF Holds
<1> HIDE DEF I, n
<1>3. \A i : /\ from(i) \in Seq(I)
             /\ \A x : Holds(from(i), x) <=> Holds(q, x) /\ x \in {y \in I : Rows[y.tx].sender = addrs[i]}
  BY SelectedHolds DEF I
<1>4. \A i, x : Holds(from(i), x) <=> Holds(q, x) /\ Rows[x.tx].sender = addrs[i]
  BY <1>2, <1>3
<1> HIDE DEF from
<1>5. qs \in Seq(Seq(I)) /\ Len(qs) = n /\ \A i \in 1 .. n : qs[i] = from(i)
  BY <1>1, <1>3
<1> HIDE DEF qs
<1>6. /\ Concatenated(qs) \in Seq(I)
      /\ \A x : Holds(Concatenated(qs), x) <=> \E i \in 1 .. Len(qs) : Holds(qs[i], x)
  BY <1>5, ConcatenatedHolds
<1>7. TransferTxs(q, addrs) = Concatenated(qs)
  BY DEF TransferTxs, qs, from, I
<1>8. ASSUME NEW x
      PROVE  Holds(TransferTxs(q, addrs), x) <=> Holds(q, x) /\ Holds(addrs, Rows[x.tx].sender)
  <2>1. Holds(TransferTxs(q, addrs), x) <=> \E i \in 1 .. n : Holds(from(i), x)
    BY <1>5, <1>6, <1>7
  <2>2. Holds(addrs, Rows[x.tx].sender) <=> \E i \in 1 .. n : addrs[i] = Rows[x.tx].sender
    BY DEF Holds, n
  <2> QED BY <1>4, <2>1, <2>2
<1>9. ToSet(addrs) \subseteq Account /\ \A a : a \in ToSet(addrs) <=> Holds(addrs, a)
  BY ToSetHolds
<1>10. /\ RemainingTxs(q, addrs) \in Seq(I)
       /\ \A x : Holds(RemainingTxs(q, addrs), x) <=> Holds(q, x) /\ x \in {y \in I : Rows[y.tx].sender \notin ToSet(addrs)}
  BY SelectedHolds DEF RemainingTxs, I
<1>11. \A x : Holds(RemainingTxs(q, addrs), x) <=> Holds(q, x) /\ ~Holds(addrs, Rows[x.tx].sender)
  BY <1>2, <1>9, <1>10
<1> QED BY <1>6, <1>7, <1>8, <1>10, <1>11 DEF I

-----------------------------------------------------------------------------
(* Pools and messages.                                                     *)

\* What a message carries.
Boxed(m) ==
  /\ m.type = "inject" => m.tx \in Tx /\ m.to \in Shard
  /\ m.type = "relay" => m.to \in Shard /\ m.txs \in Seq(Item)
  /\ m.type = "accounts" => m.txs \in Seq(Item)

Received(s) == \A t \in DOMAIN AccountStateTx[s] : AccountStateTx[s][t].txs \in Seq(Item)

Stock ==
  /\ TxQueue \in [Shard -> Seq(Item)] /\ PartitionMap \in [Shard -> [Account -> Shard]]
  /\ nowDataNum \in 0 .. Len(Rows) /\ modifiedMap \in [Account -> Shard]
  /\ \A m \in msgs : Boxed(m)
  /\ \A s \in Shard : Received(s)

LEMMA Configured ==
  /\ ShardNum \in Nat /\ IsFiniteSet(Account) /\ IsFiniteSet(Shard) /\ Len(Rows) \in Nat
  /\ \A s : IsFiniteSet(Others(s)) /\ Others(s) \subseteq Shard
  /\ Addr2Shard \in [Account -> Shard]
  /\ \A t \in Tx : Rows[t].sender \in Account /\ Rows[t].recipient \in Account
  /\ \A t \in Tx : First(t) \in Item /\ Second(t) \in Item
<1>1. ShardNum \in Nat /\ Rows \in Seq([sender : Account, recipient : Account, value : Nat])
  BY ConfigAssumption
<1>2. IsFiniteSet(Shard)
  BY <1>1, FS_Interval DEF Shard
<1>3. \A s : IsFiniteSet(Others(s)) /\ Others(s) \subseteq Shard
  BY <1>2, FS_Subset DEF Others
<1>4. \A t \in Tx : Rows[t] \in [sender : Account, recipient : Account, value : Nat]
  <2> DEFINE R == [sender : Account, recipient : Account, value : Nat]
  <2>1. Rows \in Seq(R)
    BY <1>1
  <2> HIDE DEF R
  <2>2. \A t \in Tx : Rows[t] \in R
    BY <2>1 DEF Tx
  <2> QED BY <2>2 DEF R
<1>5. \A t \in Tx : First(t) \in Item /\ Second(t) \in Item
  BY DEF First, Second, Item
<1> QED BY <1>1, <1>2, <1>3, <1>4, <1>5, ConfigAssumption

\* A function with new values stays a function of accounts to shards.
LEMMA OverrideType ==
  ASSUME NEW f \in [Account -> Shard], NEW g \in PartialMap
  PROVE  Override(f, g) \in [Account -> Shard]
<1>1. \A a \in DOMAIN g : g[a] \in Shard
  BY DEF PartialMap
<1> QED BY <1>1 DEF Override

\* The relays of a block.
LEMMA RelaysTyped ==
  ASSUME Stock, NEW s \in Shard
  PROVE  /\ Packed(s) \in Seq(Item)
         /\ \A m \in RelaysOf(s, Packed(s)) : /\ m.type = "relay" /\ m.from = s /\ m.to \in Others(s)
                                              /\ m.txs \in Seq(Item)
                                              /\ \A x : Holds(m.txs, x) => x.relayed
<1> DEFINE q == TxQueue[s]
           n == IF BlockSize < Len(q) THEN BlockSize ELSE Len(q)
           block == Packed(s)
           I == Item
           pick(t) == Selected(block, {x \in I : PartitionMap[s][Rows[x.tx].recipient] = t})
           second(t) == [i \in 1 .. Len(pick(t)) |-> Second(pick(t)[i].tx)]
           relay(t) == [type |-> "relay", from |-> s, to |-> t, seq |-> sequenceID[s], txs |-> second(t)]
<1>1. q \in Seq(I)
  BY DEF Stock
<1>2. n \in 0 .. Len(q)
  BY <1>1, ConfigAssumption
<1>3. block \in Seq(I)
  <2>1. block = SubSeq(q, 1, n)
    BY DEF Packed
  <2> HIDE DEF n, q, block
  <2> QED BY <1>1, <1>2, <2>1, SplitHolds
<1>4. RelaysOf(s, block) = {relay(t) : t \in Others(s)}
  BY DEF RelaysOf
<1>5. \A x \in I : x.tx \in Tx
  BY DEF Item
<1> HIDE DEF block, I
<1>6. \A t : pick(t) \in Seq(I)
  BY <1>3, SelectedHolds
<1> HIDE DEF pick
<1>7. \A t : second(t) \in Seq(I) /\ Len(second(t)) = Len(pick(t))
             /\ \A i \in 1 .. Len(second(t)) : second(t)[i] = Second(pick(t)[i].tx)
  <2> SUFFICES ASSUME NEW t
               PROVE  second(t) \in Seq(I) /\ Len(second(t)) = Len(pick(t))
                      /\ \A i \in 1 .. Len(second(t)) : second(t)[i] = Second(pick(t)[i].tx)
    OBVIOUS
  <2>1. Len(pick(t)) \in Nat /\ \A i \in 1 .. Len(pick(t)) : pick(t)[i] \in I
    BY <1>6
  <2>2. \A i \in 1 .. Len(pick(t)) : Second(pick(t)[i].tx) \in I
    BY <1>5, <2>1, Configured DEF I
  <2> QED BY <2>1, <2>2
<1>8. \A t, x : Holds(second(t), x) => x.relayed
  BY <1>7 DEF Holds, Second
<1> HIDE DEF second
<1>9. \A t : relay(t).type = "relay" /\ relay(t).from = s /\ relay(t).to = t /\ relay(t).txs = second(t)
  OBVIOUS
<1> HIDE DEF relay
<1> QED BY <1>3, <1>4, <1>7, <1>8, <1>9 DEF I, block

\* The accounts that leave s for t.
Leaving(s, accounts, t) == Selected(accounts, {a \in AccountToFetch(s) : Last(ModifiedMap[s])[a] = t})

LEMMA LeavingTyped ==
  ASSUME Stock, Kept, NEW s \in Shard, PartitionOn[s], NEW accounts \in SetToSeqs(AccountToFetch(s))
  PROVE  /\ accounts \in Seq(Account) /\ Last(ModifiedMap[s]) \in PartialMap
         /\ \A a : Holds(accounts, a) <=> a \in AccountToFetch(s)
         /\ \A t : Leaving(s, accounts, t) \in Seq(Account)
         /\ \A t, a : Holds(Leaving(s, accounts, t), a) <=> a \in AccountToFetch(s) /\ Last(ModifiedMap[s])[a] = t
         /\ \A a \in AccountToFetch(s) : Last(ModifiedMap[s])[a] \in Others(s)
<1> DEFINE S == AccountToFetch(s)
           mmap == Last(ModifiedMap[s])
           T(t) == {a \in S : mmap[a] = t}
<1>1. mmap \in PartialMap
  <2>1. /\ ModifiedMap[s] \in Seq(PartialMap) /\ AccountTransferRound[s] \in Nat
        /\ AccountTransferRound[s] + 1 <= Len(ModifiedMap[s])
    BY DEF Kept
  <2> QED BY <2>1 DEF Last
<1>2. DOMAIN mmap \subseteq Account /\ \A a \in DOMAIN mmap : mmap[a] \in Shard
  BY <1>1 DEF PartialMap
<1>3. S \subseteq Account /\ \A a \in S : mmap[a] \in Others(s)
  BY <1>2 DEF AccountToFetch, Others
<1>4. IsFiniteSet(S)
  BY <1>3, Configured, FS_Subset
<1> HIDE DEF S
<1>5. accounts \in Seq(S) /\ \A a : Holds(accounts, a) <=> a \in S
  BY <1>4, Listing DEF S
<1>6. accounts \in Seq(Account)
  BY <1>3, <1>5
<1>7. ASSUME NEW t
      PROVE  /\ Leaving(s, accounts, t) \in Seq(Account)
             /\ \A a : Holds(Leaving(s, accounts, t), a) <=> a \in S /\ mmap[a] = t
  <2>1. Leaving(s, accounts, t) = Selected(accounts, T(t)) /\ \A a : a \in T(t) <=> a \in S /\ mmap[a] = t
    BY DEF Leaving, S
  <2> HIDE DEF T
  <2>2. /\ Selected(accounts, T(t)) \in Seq(Account)
        /\ \A a : Holds(Selected(accounts, T(t)), a) <=> Holds(accounts, a) /\ a \in T(t)
    BY <1>6, SelectedHolds
  <2> QED BY <1>5, <2>1, <2>2
<1> QED BY <1>1, <1>3, <1>5, <1>6, <1>7 DEF S
-----------------------------------------------------------------------------
(* What the steps do to the pools.                                         *)

\* Only the pool of s changes.
PoolOnly(s) ==
  /\ TxQueue' \in [Shard -> Seq(Item)]
  /\ \A u \in Shard : u # s => TxQueue'[u] = TxQueue[u]

LEMMA PoolReplaced ==
  ASSUME Stock, NEW s \in Shard, NEW q \in Seq(Item), TxQueue' = [TxQueue EXCEPT ![s] = q]
  PROVE  PoolOnly(s) /\ TxQueue'[s] = q
<1> DEFINE Q == Seq(Item)
<1>1. TxQueue \in [Shard -> Q] /\ q \in Q
  BY DEF Stock
<1> HIDE DEF Q
<1>2. TxQueue' \in [Shard -> Q] /\ TxQueue'[s] = q /\ \A u \in Shard : u # s => TxQueue'[u] = TxQueue[u]
  BY <1>1
<1> QED BY <1>2 DEF PoolOnly, Q

LEMMA InjectFills ==
  ASSUME Stock, NEW m \in msgs, handleInjectTx(m)
  PROVE  /\ m.to \in Shard /\ m.tx \in Tx /\ PoolOnly(m.to)
         /\ \A x : Holds(TxQueue'[m.to], x) <=> Holds(TxQueue[m.to], x) \/ x = First(m.tx)
<1> DEFINE r == m.to
           q == Append(TxQueue[r], First(m.tx))
<1>1. m.to \in Shard /\ m.tx \in Tx /\ TxQueue[r] \in Seq(Item) /\ TxQueue' = [TxQueue EXCEPT ![r] = q]
  BY DEF Stock, Boxed, handleInjectTx, Receive
<1>2. First(m.tx) \in Item
  BY <1>1, Configured
<1>3. q \in Seq(Item) /\ \A x : Holds(q, x) <=> Holds(TxQueue[r], x) \/ x = First(m.tx)
  BY <1>1, <1>2, AppendHolds
<1> HIDE DEF q
<1> QED BY <1>1, <1>3, PoolReplaced

LEMMA RelayFills ==
  ASSUME Stock, NEW m \in msgs, handleRelay(m)
  PROVE  /\ m.to \in Shard /\ m.txs \in Seq(Item) /\ PoolOnly(m.to)
         /\ \A x : Holds(TxQueue'[m.to], x) <=> Holds(TxQueue[m.to], x) \/ Holds(m.txs, x)
<1> DEFINE r == m.to
           q == TxQueue[r] \o m.txs
<1>1. m.to \in Shard /\ m.txs \in Seq(Item) /\ TxQueue[r] \in Seq(Item) /\ TxQueue' = [TxQueue EXCEPT ![r] = q]
  BY DEF Stock, Boxed, handleRelay, Receive
<1>2. q \in Seq(Item) /\ \A x : Holds(q, x) <=> Holds(TxQueue[r], x) \/ Holds(m.txs, x)
  BY <1>1, ConcatHolds
<1> HIDE DEF q
<1>3. PoolOnly(r) /\ TxQueue'[r] = q
  BY <1>1, <1>2, PoolReplaced
<1> QED BY <1>1, <1>2, <1>3

LEMMA CommitEmpties ==
  ASSUME Stock, NEW s \in Shard, CommitBlock(s)
  PROVE  /\ PoolOnly(s) /\ Packed(s) \in Seq(Item)
         /\ \A x : Holds(TxQueue[s], x) <=> Holds(Packed(s), x) \/ Holds(TxQueue'[s], x)
         /\ \A x : Holds(Packed(s), x) => x \in executed'
         /\ executed \subseteq executed'
<1> DEFINE q == TxQueue[s]
           n == IF BlockSize < Len(q) THEN BlockSize ELSE Len(q)
           p == Packed(s)
           r == SubSeq(q, Len(p) + 1, Len(q))
<1>1. q \in Seq(Item) /\ TxQueue' = [TxQueue EXCEPT ![s] = r] /\ executed' = executed \cup ToSet(p)
  BY DEF Stock, CommitBlock
<1>2. n \in 0 .. Len(q)
  BY <1>1, ConfigAssumption
<1>3. p = SubSeq(q, 1, n)
  BY DEF Packed
<1> HIDE DEF n, q, p
<1>4. p \in Seq(Item) /\ Len(p) = n
  BY <1>1, <1>2, <1>3, SplitHolds
<1>5. r \in Seq(Item) /\ \A x : Holds(q, x) <=> Holds(p, x) \/ Holds(r, x)
  BY <1>1, <1>2, <1>3, <1>4, SplitHolds
<1>6. \A x : x \in ToSet(p) <=> Holds(p, x)
  BY <1>4, ToSetHolds
<1> HIDE DEF r
<1>7. PoolOnly(s) /\ TxQueue'[s] = r
  BY <1>1, <1>5, PoolReplaced
<1> QED BY <1>1, <1>4, <1>5, <1>6, <1>7 DEF p, q

\* The transactions of the leaving senders go with them, each to the shard
\* that gets its sender.
Leaves(s, x) == Holds(TxQueue[s], x) /\ Rows[x.tx].sender \in AccountToFetch(s)
SentTo(s, t, x) == Leaves(s, x) /\ Last(ModifiedMap[s])[Rows[x.tx].sender] = t
SentFrom(s, m) == /\ m.type = "accounts" /\ m.from = s /\ m.to \in Others(s) /\ m.txs \in Seq(Item)
                  /\ \A x : Holds(m.txs, x) <=> SentTo(s, m.to, x)

LEMMA FreezeMoves ==
  ASSUME Stock, Kept, NEW s \in Shard, PartitionOn[s],
         NEW accounts \in SetToSeqs(AccountToFetch(s)), sendAccounts_and_Txs(s, accounts)
  PROVE  /\ PoolOnly(s) /\ \A x : Holds(TxQueue'[s], x) <=> Holds(TxQueue[s], x) /\ ~Leaves(s, x)
         /\ msgs \subseteq msgs' /\ \A m \in msgs' : m \notin msgs => SentFrom(s, m)
         /\ \A t \in Others(s) : \E m \in msgs' : m.to = t /\ SentFrom(s, m)
         /\ \A x : Leaves(s, x) => \E t \in Others(s) : SentTo(s, t, x)
         /\ \A a : a \in ToSet(accounts) <=> a \in AccountToFetch(s)
<1> DEFINE S == AccountToFetch(s)
           mmap == Last(ModifiedMap[s])
           leaving(t) == Leaving(s, accounts, t)
           q == TxQueue[s]
           rest == RemainingTxs(q, accounts)
           new(t) == [type |-> "accounts", from |-> s, to |-> t,
                      accounts |-> FetchAccounts(s, leaving(t)), txs |-> TransferTxs(q, leaving(t))]
<1>1. /\ msgs' = msgs \cup {new(t) : t \in Others(s)} /\ TxQueue' = [TxQueue EXCEPT ![s] = rest] /\ q \in Seq(Item)
  BY DEF sendAccounts_and_Txs, Stock, Leaving
<1>2. \A t : new(t).type = "accounts" /\ new(t).from = s /\ new(t).to = t /\ new(t).txs = TransferTxs(q, leaving(t))
  OBVIOUS
<1> HIDE DEF new
<1>3. ASSUME NEW t
      PROVE  /\ accounts \in Seq(Account) /\ leaving(t) \in Seq(Account)
             /\ \A a : Holds(accounts, a) <=> a \in S
             /\ \A a : Holds(leaving(t), a) <=> a \in S /\ mmap[a] = t
             /\ \A a \in S : mmap[a] \in Others(s)
  BY LeavingTyped
<1> HIDE DEF leaving
<1>4. ASSUME NEW t
      PROVE  /\ TransferTxs(q, leaving(t)) \in Seq(Item)
             /\ \A x : Holds(TransferTxs(q, leaving(t)), x) <=> Holds(q, x) /\ Holds(leaving(t), Rows[x.tx].sender)
  <2> HIDE DEF q
  <2> QED BY <1>1, <1>3, TransferHolds
<1>5. rest \in Seq(Item) /\ \A x : Holds(rest, x) <=> Holds(q, x) /\ ~Holds(accounts, Rows[x.tx].sender)
  BY <1>1, <1>3, TransferHolds
<1>6. ASSUME NEW t PROVE new(t).txs \in Seq(Item) /\ \A x : Holds(new(t).txs, x) <=> SentTo(s, t, x)
  <2>1. new(t).txs = TransferTxs(q, leaving(t))
    BY <1>2
  <2> QED BY <1>3, <1>4, <2>1 DEF SentTo, Leaves
<1>7. \A x : Holds(rest, x) <=> Holds(q, x) /\ ~Leaves(s, x)
  BY <1>3, <1>5 DEF Leaves
<1> HIDE DEF rest
<1>8. PoolOnly(s) /\ TxQueue'[s] = rest
  BY <1>1, <1>5, PoolReplaced
<1>9. \A t \in Others(s) : SentFrom(s, new(t))
  <2> HIDE DEF q
  <2> QED BY <1>2, <1>6 DEF SentFrom
<1>10. \A m \in msgs' : m \notin msgs => SentFrom(s, m)
  BY <1>1, <1>9
<1>11. \A t \in Others(s) : new(t) \in msgs'
  BY <1>1
<1>12. \A t \in Others(s) : \E m \in msgs' : m.to = t /\ SentFrom(s, m)
  BY <1>2, <1>9, <1>11
<1>13. \A x : Leaves(s, x) => \E t \in Others(s) : SentTo(s, t, x)
  BY <1>3 DEF Leaves, SentTo
<1>14. \A a : a \in ToSet(accounts) <=> a \in S
  BY <1>3, ToSetHolds
<1> QED BY <1>1, <1>7, <1>8, <1>10, <1>12, <1>13, <1>14

\* What was received enters the pool.
Arrived(s, x) == \E t \in DOMAIN AccountStateTx[s] : Holds(AccountStateTx[s][t].txs, x)

LEMMA ProposeFills ==
  ASSUME Stock, NEW s \in Shard, NEW order \in SetToSeqs(DOMAIN AccountStateTx[s]), proposePartition(s, order)
  PROVE  \/ /\ UNCHANGED TxQueue /\ stage' = [stage EXCEPT ![s] = "halted"]
            /\ \E x : Arrived(s, x) /\ ErrorTx(s, ModifiedMap[s][AccountTransferRound[s] + 1], x)
         \/ /\ PoolOnly(s) /\ stage' = [stage EXCEPT ![s] = "transferring"]
            /\ \A x : Holds(TxQueue'[s], x) <=> Holds(TxQueue[s], x) \/ Arrived(s, x)
<1> DEFINE got == AccountStateTx[s]
           S == DOMAIN got
           part(i) == got[order[i]].txs
           qs == [i \in DOMAIN order |-> part(i)]
           txs == Concatenated(qs)
           mmap == ModifiedMap[s][AccountTransferRound[s] + 1]
           Err == \E i \in DOMAIN txs : ErrorTx(s, mmap, txs[i])
           I == Item
           q == TxQueue[s]
<1>1. /\ S = Others(s)
      /\ \/ Err /\ stage' = [stage EXCEPT ![s] = "halted"] /\ UNCHANGED TxQueue
         \/ stage' = [stage EXCEPT ![s] = "transferring"] /\ TxQueue' = [TxQueue EXCEPT ![s] = @ \o txs]
  BY DEF proposePartition, getCollectOver
<1>2. \A t \in S : got[t].txs \in Seq(I)
  BY DEF Stock, Received
<1> HIDE DEF I
<1>3. order \in Seq(S) /\ DOMAIN order = 1 .. Len(order) /\ \A t : Holds(order, t) <=> t \in S
  <2>1. IsFiniteSet(S)
    BY <1>1, Configured
  <2> HIDE DEF S
  <2> QED BY <2>1, Listing DEF S
<1>4. \A i \in DOMAIN order : order[i] \in S /\ part(i) \in Seq(I)
  BY <1>2, <1>3
<1>5. qs \in Seq(Seq(I)) /\ Len(qs) = Len(order) /\ \A i \in 1 .. Len(order) : qs[i] = part(i)
  <2> HIDE DEF part, S
  <2>1. Len(order) \in Nat
    BY <1>3
  <2> QED BY <1>3, <1>4, <2>1
<1> HIDE DEF qs
<1>6. txs \in Seq(I) /\ \A x : Holds(txs, x) <=> \E i \in 1 .. Len(qs) : Holds(qs[i], x)
  BY <1>5, ConcatenatedHolds
<1>7. \A x : Holds(txs, x) <=> Arrived(s, x)
  <2>1. \A x : Holds(txs, x) <=> \E i \in 1 .. Len(order) : Holds(got[order[i]].txs, x)
    BY <1>5, <1>6
  <2>2. \A t : t \in S <=> \E i \in 1 .. Len(order) : order[i] = t
    BY <1>3 DEF Holds
  <2> QED BY <2>1, <2>2 DEF Arrived
<1> HIDE DEF txs
<1>8. CASE Err /\ stage' = [stage EXCEPT ![s] = "halted"] /\ UNCHANGED TxQueue
  <2>1. PICK i \in DOMAIN txs : ErrorTx(s, mmap, txs[i])
    BY <1>8
  <2>2. Holds(txs, txs[i])
    BY <1>6, <2>1 DEF Holds
  <2> QED BY <1>7, <1>8, <2>1, <2>2
<1>9. CASE stage' = [stage EXCEPT ![s] = "transferring"] /\ TxQueue' = [TxQueue EXCEPT ![s] = @ \o txs]
  <2>1. q \in Seq(Item) /\ txs \in Seq(Item) /\ TxQueue' = [TxQueue EXCEPT ![s] = q \o txs]
    BY <1>6, <1>9 DEF Stock, I
  <2>2. q \o txs \in Seq(Item) /\ \A x : Holds(q \o txs, x) <=> Holds(q, x) \/ Holds(txs, x)
    BY <2>1, ConcatHolds
  <2>3. PoolOnly(s) /\ TxQueue'[s] = q \o txs
    BY <2>1, <2>2, PoolReplaced
  <2> QED BY <1>7, <1>9, <2>2, <2>3
<1> QED BY <1>1, <1>8, <1>9

-----------------------------------------------------------------------------
(* Types of the pools and the messages.                                    *)

\* What the barrier says of the state itself.
LEMMA EpochFacts ==
  ASSUME EpochInv
  PROVE  /\ Kept /\ stage \in [Shard -> Stages] /\ DOMAIN AccountStateTx = Shard
         /\ PartitionOn \in [Shard -> BOOLEAN]
         /\ \A s \in Shard : stage[s] \in {"ready", "collecting", "transferring"} => PartitionOn[s]
         /\ \A m \in msgs : Letter(m)
         /\ \A m \in msgs : m.type = "accounts" => /\ m.from \notin DOMAIN AccountStateTx[m.to]
                                                   /\ stage[m.to] # "transferring"
<1>1. PICK ep, st : Related(ep, st)
  BY DEF EpochInv
<1>2. /\ Kept /\ stage \in [Shard -> Stages] /\ DOMAIN AccountStateTx = Shard /\ PartitionOn \in [Shard -> BOOLEAN]
      /\ \A m \in msgs : Letter(m)
      /\ \A s \in Shard : stage[s] # "halted" => st[s] = stage[s]
      /\ \A s \in Shard : Own(st, s)
  BY <1>1 DEF Related, Remembers, Barrier, Shapes
<1>3. \A s \in Shard : stage[s] \in {"ready", "collecting", "transferring"} => PartitionOn[s]
  BY <1>2 DEF Own, Busy
<1>4. ASSUME NEW m \in msgs, m.type = "accounts"
      PROVE  m.from \notin DOMAIN AccountStateTx[m.to] /\ stage[m.to] # "transferring"
  <2>1. m.from \in Shard /\ m.to \in Shard /\ m.from # m.to
    BY <1>2, <1>4 DEF Letter
  <2>2. Deliveries(ep, st, m.from, m.to) /\ Delivering(m.from, m.to)
    BY <1>1, <1>4, <2>1 DEF Related, Barrier, Delivering, AccountsFrom
  <2>3. m.from \notin DOMAIN AccountStateTx[m.to]
    BY <2>2 DEF Deliveries, Delivered
  <2> QED BY <1>2, <2>1, <2>3 DEF Own, Others
<1> QED BY <1>2, <1>3, <1>4

LEMMA StockInit == Init => Stock
<1> SUFFICES ASSUME Init PROVE Stock
  OBVIOUS
<1> DEFINE Q == Seq(Item)
           F == [Account -> Shard]
<1>1. <<>> \in Q /\ Addr2Shard \in F /\ Len(Rows) \in Nat
  BY Configured
<1> HIDE DEF Q, F
<1>2. TxQueue \in [Shard -> Q] /\ PartitionMap \in [Shard -> F] /\ modifiedMap \in F
  BY <1>1 DEF Init, PerShard
<1>3. nowDataNum = 0 /\ msgs = {} /\ \A s \in Shard : DOMAIN AccountStateTx[s] = {}
  BY DEF Init, PerShard
<1> QED BY <1>1, <1>2, <1>3 DEF Stock, Received, Q, F

LEMMA StockStep ==
  ASSUME EpochInv, Stock, [Next]_vars PROVE Stock'
<1>1. /\ Kept /\ stage \in [Shard -> Stages] /\ DOMAIN AccountStateTx = Shard
      /\ \A s \in Shard : stage[s] \in {"ready", "collecting", "transferring"} => PartitionOn[s]
      /\ \A m \in msgs : Letter(m)
  BY EpochFacts
<1>2. /\ TxQueue \in [Shard -> Seq(Item)] /\ PartitionMap \in [Shard -> [Account -> Shard]]
      /\ nowDataNum \in 0 .. Len(Rows) /\ modifiedMap \in [Account -> Shard]
      /\ \A m \in msgs : Boxed(m)
      /\ \A s \in Shard : Received(s)
  BY DEF Stock
<1>3. CASE txSending
  <2>1. /\ nowDataNum < Len(Rows) /\ nowDataNum' = nowDataNum + 1
        /\ msgs' = msgs \cup {[type |-> "inject", tx |-> nowDataNum', to |-> modifiedMap[Rows[nowDataNum'].sender]]}
        /\ UNCHANGED <<modifiedMap, TxQueue, PartitionMap, AccountStateTx>>
    BY <1>3 DEF txSending, chainVars, cdmVars
  <2>2. nowDataNum' \in Tx /\ nowDataNum' \in 0 .. Len(Rows)
    BY <1>2, <2>1, Configured DEF Tx
  <2>3. modifiedMap[Rows[nowDataNum'].sender] \in Shard
    BY <1>2, <2>2, Configured
  <2>4. \A m \in msgs' : Boxed(m)
    BY <1>2, <2>1, <2>2, <2>3 DEF Boxed
  <2> QED BY <1>2, <2>1, <2>2, <2>4 DEF Stock, Received, Boxed
<1>4. ASSUME NEW mmap \in PartialMap, clpaMapSend(mmap) PROVE Stock'
  <2> DEFINE new(s) == [type |-> "partition", map |-> mmap, nr |-> clpaCnt', to |-> s]
  <2>1. /\ UNCHANGED <<nowDataNum, TxQueue, PartitionMap, AccountStateTx>>
        /\ msgs' = msgs \cup {new(s) : s \in Shard} /\ modifiedMap' = Override(modifiedMap, mmap)
    BY <1>4 DEF clpaMapSend, cdmVars, chainVars
  <2>2. \A s : new(s).type = "partition"
    OBVIOUS
  <2> HIDE DEF new
  <2>3. \A m \in msgs' : Boxed(m)
    BY <1>2, <2>1, <2>2 DEF Boxed
  <2>4. modifiedMap' \in [Account -> Shard]
    BY <1>2, <2>1, OverrideType
  <2> QED BY <1>2, <2>1, <2>3, <2>4 DEF Stock, Received, Boxed
<1>5. CASE (\E e \in reports : HandleBlockInfo(e)) \/ UNCHANGED vars
  <2>1. UNCHANGED <<nowDataNum, modifiedMap, TxQueue, PartitionMap, AccountStateTx, msgs>>
    BY <1>5 DEF HandleBlockInfo, cdmVars, vars, supVars, chainVars
  <2> QED BY <1>2, <2>1 DEF Stock, Received, Boxed
<1>6. ASSUME NEW m \in msgs, handleInjectTx(m) \/ handleRelay(m) PROVE Stock'
  <2>1. /\ UNCHANGED <<nowDataNum, modifiedMap, PartitionMap, AccountStateTx>> /\ msgs' = msgs \ {m}
    BY <1>6 DEF handleInjectTx, handleRelay, supVars, chainVars, cdmVars
  <2>2. TxQueue' \in [Shard -> Seq(Item)]
    BY <1>6, InjectFills, RelayFills DEF PoolOnly
  <2> QED BY <1>2, <2>1, <2>2 DEF Stock, Received, Boxed
<1>7. ASSUME NEW m \in msgs, handlePartitionMsg(m) \/ handlePartitionReady(m) PROVE Stock'
  <2>1. /\ UNCHANGED <<nowDataNum, modifiedMap, PartitionMap, AccountStateTx, TxQueue>> /\ msgs' = msgs \ {m}
    BY <1>7 DEF handlePartitionMsg, handlePartitionReady, supVars, chainVars
  <2> QED BY <1>2, <2>1 DEF Stock, Received, Boxed
<1>8. ASSUME NEW m \in msgs, handleAccountStateAndTxMsg(m) PROVE Stock'
  <2> DEFINE f == m.from
             r == m.to
             got == [t \in DOMAIN AccountStateTx[r] \cup {f} |->
                       IF t = f THEN [accounts |-> m.accounts, txs |-> m.txs] ELSE AccountStateTx[r][t]]
  <2>1. /\ m.type = "accounts" /\ msgs' = msgs \ {m} /\ AccountStateTx' = [AccountStateTx EXCEPT ![r] = got]
        /\ UNCHANGED <<nowDataNum, modifiedMap, PartitionMap, TxQueue>>
    BY <1>8 DEF handleAccountStateAndTxMsg, Receive, supVars, chainVars
  <2>2. r \in Shard /\ m.txs \in Seq(Item)
    BY <1>1, <1>2, <2>1 DEF Letter, Boxed
  <2>3. \A t \in DOMAIN got : got[t].txs \in Seq(Item)
    BY <1>2, <2>2 DEF Received
  <2> HIDE DEF got
  <2>4. \A s \in Shard : Received(s)'
    BY <1>1, <1>2, <2>1, <2>2, <2>3 DEF Received
  <2> QED BY <1>2, <2>1, <2>4 DEF Stock, Boxed
<1>9. ASSUME NEW s \in Shard, CommitBlock(s) PROVE Stock'
  <2>1. /\ UNCHANGED <<nowDataNum, modifiedMap, PartitionMap, AccountStateTx>>
        /\ msgs' = msgs \/ msgs' = msgs \cup RelaysOf(s, Packed(s))
    BY <1>9 DEF CommitBlock, supVars, cdmVars
  <2>2. TxQueue' \in [Shard -> Seq(Item)]
    BY <1>9, CommitEmpties DEF PoolOnly
  <2>3. \A m \in RelaysOf(s, Packed(s)) : Boxed(m)
    BY RelaysTyped DEF Boxed, Others
  <2> QED BY <1>2, <2>1, <2>2, <2>3 DEF Stock, Received, Boxed
<1>10. ASSUME NEW s \in Shard, sendPartitionReady(s) PROVE Stock'
  <2> DEFINE new(t) == [type |-> "ready", from |-> s, to |-> t, seq |-> sequenceID[s]]
  <2>1. /\ UNCHANGED <<nowDataNum, modifiedMap, PartitionMap, AccountStateTx, TxQueue>>
        /\ msgs' = msgs \cup {new(t) : t \in Others(s)}
    BY <1>10 DEF sendPartitionReady, supVars, chainVars
  <2>2. \A t : new(t).type = "ready"
    OBVIOUS
  <2> HIDE DEF new
  <2>3. \A m \in msgs' : Boxed(m)
    BY <1>2, <2>1, <2>2 DEF Boxed
  <2> QED BY <1>2, <2>1, <2>3 DEF Stock, Received, Boxed
<1>11. ASSUME NEW s \in Shard, stage[s] = "ready", NEW accounts \in SetToSeqs(AccountToFetch(s)),
              sendAccounts_and_Txs(s, accounts)
       PROVE  Stock'
  <2>1. UNCHANGED <<nowDataNum, modifiedMap, PartitionMap, AccountStateTx>>
    BY <1>11 DEF sendAccounts_and_Txs, supVars, chainVars, cdmVars
  <2>2. TxQueue' \in [Shard -> Seq(Item)] /\ \A m \in msgs' : m \notin msgs => SentFrom(s, m)
    BY <1>1, <1>11, FreezeMoves DEF PoolOnly
  <2>3. \A m \in msgs' : Boxed(m)
    BY <1>2, <2>2 DEF Boxed, SentFrom
  <2> QED BY <1>2, <2>1, <2>2, <2>3 DEF Stock, Received, Boxed
<1>12. ASSUME NEW s \in Shard, NEW order \in SetToSeqs(DOMAIN AccountStateTx[s]), proposePartition(s, order)
       PROVE  Stock'
  <2>1. UNCHANGED <<nowDataNum, modifiedMap, PartitionMap, AccountStateTx, msgs>>
    BY <1>12 DEF proposePartition, supVars, chainVars
  <2>2. TxQueue' \in [Shard -> Seq(Item)]
    BY <1>2, <1>12, ProposeFills DEF PoolOnly
  <2> QED BY <1>2, <2>1, <2>2 DEF Stock, Received, Boxed
<1>13. ASSUME NEW s \in Shard, accountTransfer_do(s) PROVE Stock'
  <2> DEFINE pmap == Override(PartitionMap[s], request[s].map)
             F == [Account -> Shard]
  <2>1. /\ UNCHANGED <<nowDataNum, modifiedMap, TxQueue, msgs>> /\ stage[s] = "transferring"
        /\ AccountStateTx' = [AccountStateTx EXCEPT ![s] = <<>>] /\ PartitionMap' = [PartitionMap EXCEPT ![s] = pmap]
    BY <1>13 DEF accountTransfer_do, supVars
  <2>2. pmap \in F /\ PartitionMap \in [Shard -> F]
    BY <1>1, <1>2, <2>1, OverrideType DEF Kept
  <2> HIDE DEF pmap, F
  <2>3. PartitionMap' \in [Shard -> F]
    BY <2>1, <2>2
  <2>4. \A u \in Shard : Received(u)'
    <3>1. AccountStateTx'[s] = <<>> /\ \A u \in Shard : u # s => AccountStateTx'[u] = AccountStateTx[u]
      BY <1>1, <2>1
    <3>2. DOMAIN AccountStateTx'[s] = {}
      BY <3>1
    <3> QED BY <1>2, <3>1, <3>2 DEF Received
  <2> QED BY <1>2, <2>1, <2>3, <2>4 DEF Stock, Boxed, F
<1> QED BY <1>3, <1>4, <1>5, <1>6, <1>7, <1>8, <1>9, <1>10, <1>11, <1>12, <1>13
        DEF Next, HandleMessage, HandleinPropose

-----------------------------------------------------------------------------
(* Nothing is lost.                                                        *)

\* Where a transaction can be.
Carries(m, x) ==
  \/ m.type = "inject" /\ x = First(m.tx)
  \/ m.type \in {"relay", "accounts"} /\ Holds(m.txs, x)
Placed(x) == \/ \E m \in msgs : Carries(m, x)
             \/ \E s \in Shard : Holds(TxQueue[s], x) \/ Arrived(s, x)

\* What was received stays noted until it is in the pool.
Merged == \A s \in Shard : stage[s] = "transferring" => \A x : Arrived(s, x) => Holds(TxQueue[s], x)

LEMMA PlacedOnTheWay ==
  ASSUME Stock PROVE \A x : Placed(x) <=> OnTheWay(x)
<1>1. \A s \in Shard : \A x : x \in ToSet(TxQueue[s]) <=> Holds(TxQueue[s], x)
  <2> SUFFICES ASSUME NEW s \in Shard PROVE \A x : x \in ToSet(TxQueue[s]) <=> Holds(TxQueue[s], x)
    OBVIOUS
  <2>1. TxQueue[s] \in Seq(Item)
    BY DEF Stock
  <2> QED BY <2>1, ToSetHolds
<1>2. \A s \in Shard : \A t \in DOMAIN AccountStateTx[s] :
        \A x : x \in ToSet(AccountStateTx[s][t].txs) <=> Holds(AccountStateTx[s][t].txs, x)
  BY ToSetHolds DEF Stock, Received
<1>3. \A m \in msgs : m.type \in {"relay", "accounts"} => \A x : x \in ToSet(m.txs) <=> Holds(m.txs, x)
  BY ToSetHolds DEF Stock, Boxed
<1> QED BY <1>1, <1>2, <1>3 DEF Placed, OnTheWay, Carries, Arrived

\* A transaction leaves its place only for another, or for a block.
LEMMA PlacedStays ==
  ASSUME EpochInv, Stock, Merged, [Next]_vars, NEW x, Placed(x)
  PROVE  Placed(x)' \/ x \in executed'
<1>1. /\ Kept /\ stage \in [Shard -> Stages] /\ DOMAIN AccountStateTx = Shard
      /\ \A s \in Shard : stage[s] \in {"ready", "collecting", "transferring"} => PartitionOn[s]
      /\ \A m \in msgs : Letter(m)
      /\ \A m \in msgs : m.type = "accounts" => m.from \notin DOMAIN AccountStateTx[m.to]
  BY EpochFacts
<1>2. ASSUME UNCHANGED <<TxQueue, AccountStateTx>>, \A m \in msgs : Carries(m, x) => m \in msgs'
      PROVE  Placed(x)'
  BY <1>2 DEF Placed, Carries, Arrived
<1>3. CASE txSending \/ UNCHANGED vars \/ (\E mmap \in PartialMap : clpaMapSend(mmap))
           \/ (\E e \in reports : HandleBlockInfo(e)) \/ \E s \in Shard : sendPartitionReady(s)
  <2>1. UNCHANGED <<TxQueue, AccountStateTx>> /\ msgs \subseteq msgs'
    BY <1>3 DEF txSending, clpaMapSend, HandleBlockInfo, sendPartitionReady, vars, cdmVars
  <2> QED BY <1>2, <2>1
<1>4. ASSUME NEW m \in msgs, handleInjectTx(m) PROVE Placed(x)'
  <2>1. msgs' = msgs \ {m} /\ UNCHANGED AccountStateTx /\ m.type = "inject"
    BY <1>4 DEF handleInjectTx, Receive, cdmVars
  <2>2. /\ m.to \in Shard /\ \A u \in Shard : u # m.to => TxQueue'[u] = TxQueue[u]
        /\ \A y : Holds(TxQueue'[m.to], y) <=> Holds(TxQueue[m.to], y) \/ y = First(m.tx)
    BY <1>4, InjectFills DEF PoolOnly
  <2>3. \A s \in Shard : (Holds(TxQueue[s], x) => Holds(TxQueue'[s], x)) /\ (Arrived(s, x) => Arrived(s, x)')
    BY <2>1, <2>2 DEF Arrived
  <2>4. \A n \in msgs : Carries(n, x) => n \in msgs' \/ Holds(TxQueue'[m.to], x)
    BY <2>1, <2>2 DEF Carries
  <2> QED BY <2>2, <2>3, <2>4 DEF Placed, Carries
<1>5. ASSUME NEW m \in msgs, handleRelay(m) PROVE Placed(x)'
  <2>1. msgs' = msgs \ {m} /\ UNCHANGED AccountStateTx /\ m.type = "relay"
    BY <1>5 DEF handleRelay, Receive
  <2>2. /\ m.to \in Shard /\ \A u \in Shard : u # m.to => TxQueue'[u] = TxQueue[u]
        /\ \A y : Holds(TxQueue'[m.to], y) <=> Holds(TxQueue[m.to], y) \/ Holds(m.txs, y)
    BY <1>5, RelayFills DEF PoolOnly
  <2>3. \A s \in Shard : (Holds(TxQueue[s], x) => Holds(TxQueue'[s], x)) /\ (Arrived(s, x) => Arrived(s, x)')
    BY <2>1, <2>2 DEF Arrived
  <2>4. \A n \in msgs : Carries(n, x) => n \in msgs' \/ Holds(TxQueue'[m.to], x)
    BY <2>1, <2>2 DEF Carries
  <2> QED BY <2>2, <2>3, <2>4 DEF Placed, Carries
<1>6. ASSUME NEW m \in msgs, handlePartitionMsg(m) \/ handlePartitionReady(m) PROVE Placed(x)'
  <2>1. UNCHANGED <<TxQueue, AccountStateTx>> /\ msgs' = msgs \ {m} /\ m.type \in {"partition", "ready"}
    BY <1>6 DEF handlePartitionMsg, handlePartitionReady, Receive
  <2> QED BY <1>2, <2>1 DEF Carries
<1>7. ASSUME NEW m \in msgs, handleAccountStateAndTxMsg(m) PROVE Placed(x)'
  <2> DEFINE f == m.from
             r == m.to
             old == AccountStateTx[r]
             got == [t \in DOMAIN old \cup {f} |-> IF t = f THEN [accounts |-> m.accounts, txs |-> m.txs] ELSE old[t]]
  <2>1. /\ m.type = "accounts" /\ msgs' = msgs \ {m} /\ AccountStateTx' = [AccountStateTx EXCEPT ![r] = got]
        /\ UNCHANGED TxQueue
    BY <1>7 DEF handleAccountStateAndTxMsg, Receive
  <2>2. r \in Shard /\ f \notin DOMAIN old
    BY <1>1, <2>1 DEF Letter
  <2>3. DOMAIN got = DOMAIN old \cup {f} /\ got[f].txs = m.txs /\ \A t \in DOMAIN old : got[t] = old[t]
    BY <2>2
  <2> HIDE DEF got
  <2>4. AccountStateTx'[r] = got /\ \A u \in Shard : u # r => AccountStateTx'[u] = AccountStateTx[u]
    BY <1>1, <2>1, <2>2
  <2>5. \A s \in Shard : Arrived(s, x) => Arrived(s, x)'
    BY <2>3, <2>4 DEF Arrived
  <2>6. Holds(m.txs, x) => Arrived(r, x)'
    BY <2>3, <2>4 DEF Arrived
  <2>7. \A n \in msgs : Carries(n, x) => n \in msgs' \/ Arrived(r, x)'
    BY <2>1, <2>6 DEF Carries
  <2> QED BY <2>1, <2>2, <2>5, <2>7 DEF Placed, Carries
<1>8. ASSUME NEW s \in Shard, CommitBlock(s) PROVE Placed(x)' \/ x \in executed'
  <2>1. UNCHANGED AccountStateTx /\ msgs \subseteq msgs'
    BY <1>8 DEF CommitBlock, cdmVars
  <2>2. /\ \A u \in Shard : u # s => TxQueue'[u] = TxQueue[u]
        /\ Holds(TxQueue[s], x) => x \in executed' \/ Holds(TxQueue'[s], x)
    BY <1>8, CommitEmpties DEF PoolOnly
  <2>3. \A u \in Shard : Arrived(u, x) => Arrived(u, x)'
    BY <2>1 DEF Arrived
  <2> QED BY <2>1, <2>2, <2>3 DEF Placed, Carries
<1>9. ASSUME NEW s \in Shard, stage[s] = "ready", NEW accounts \in SetToSeqs(AccountToFetch(s)),
             sendAccounts_and_Txs(s, accounts)
      PROVE  Placed(x)'
  <2>1. UNCHANGED AccountStateTx
    BY <1>9 DEF sendAccounts_and_Txs, cdmVars
  <2>2. /\ \A u \in Shard : u # s => TxQueue'[u] = TxQueue[u]
        /\ Holds(TxQueue'[s], x) <=> Holds(TxQueue[s], x) /\ ~Leaves(s, x)
        /\ msgs \subseteq msgs' /\ \A t \in Others(s) : \E m \in msgs' : m.to = t /\ SentFrom(s, m)
        /\ Leaves(s, x) => \E t \in Others(s) : SentTo(s, t, x)
    BY <1>1, <1>9, FreezeMoves DEF PoolOnly
  <2>3. ASSUME Leaves(s, x) PROVE \E m \in msgs' : Carries(m, x)
    <3>1. PICK t \in Others(s) : SentTo(s, t, x)
      BY <2>2, <2>3
    <3>2. PICK m \in msgs' : m.to = t /\ SentFrom(s, m)
      BY <2>2
    <3> QED BY <3>1, <3>2 DEF SentFrom, Carries
  <2>4. \A u \in Shard : Arrived(u, x) => Arrived(u, x)'
    BY <2>1 DEF Arrived
  <2> QED BY <2>2, <2>3, <2>4 DEF Placed, Carries
<1>10. ASSUME NEW s \in Shard, NEW order \in SetToSeqs(DOMAIN AccountStateTx[s]), proposePartition(s, order)
       PROVE  Placed(x)'
  <2>1. UNCHANGED <<AccountStateTx, msgs>>
    BY <1>10 DEF proposePartition
  <2>2. \A u \in Shard : Holds(TxQueue[u], x) => Holds(TxQueue'[u], x)
    BY <1>10, ProposeFills DEF PoolOnly
  <2> QED BY <2>1, <2>2 DEF Placed, Carries, Arrived
<1>11. ASSUME NEW s \in Shard, accountTransfer_do(s) PROVE Placed(x)'
  <2>1. /\ UNCHANGED <<TxQueue, msgs>> /\ stage[s] = "transferring"
        /\ AccountStateTx' = [AccountStateTx EXCEPT ![s] = <<>>]
    BY <1>11 DEF accountTransfer_do
  <2>2. \A u \in Shard : u # s => AccountStateTx'[u] = AccountStateTx[u]
    BY <1>1, <2>1
  <2>3. Arrived(s, x) => Holds(TxQueue[s], x)
    BY <2>1 DEF Merged
  <2> QED BY <2>1, <2>2, <2>3 DEF Placed, Carries, Arrived
<1> QED BY <1>3, <1>4, <1>5, <1>6, <1>7, <1>8, <1>9, <1>10, <1>11
        DEF Next, HandleMessage, HandleinPropose

LEMMA MergedStep ==
  ASSUME EpochInv, Stock, Merged, [Next]_vars PROVE Merged'
<1>1. /\ Kept /\ stage \in [Shard -> Stages] /\ DOMAIN AccountStateTx = Shard
      /\ \A s \in Shard : stage[s] \in {"ready", "collecting", "transferring"} => PartitionOn[s]
      /\ \A m \in msgs : Letter(m)
      /\ \A m \in msgs : m.type = "accounts" => stage[m.to] # "transferring"
  BY EpochFacts
<1>2. ASSUME UNCHANGED AccountStateTx,
             \A s \in Shard : stage'[s] = "transferring" =>
               stage[s] = "transferring" /\ \A x : Holds(TxQueue[s], x) => Holds(TxQueue'[s], x)
      PROVE  Merged'
  BY <1>2 DEF Merged, Arrived
<1>3. CASE txSending \/ UNCHANGED vars \/ (\E mmap \in PartialMap : clpaMapSend(mmap))
           \/ \E e \in reports : HandleBlockInfo(e)
  <2>1. UNCHANGED <<TxQueue, AccountStateTx, stage>>
    BY <1>3 DEF txSending, clpaMapSend, HandleBlockInfo, vars, cdmVars
  <2> QED BY <1>2, <2>1
<1>4. ASSUME NEW m \in msgs, handleInjectTx(m) \/ handleRelay(m) PROVE Merged'
  <2>1. UNCHANGED <<AccountStateTx, stage>>
    BY <1>4 DEF handleInjectTx, handleRelay, cdmVars
  <2>2. \A s \in Shard : \A x : Holds(TxQueue[s], x) => Holds(TxQueue'[s], x)
    BY <1>4, InjectFills, RelayFills DEF PoolOnly
  <2> QED BY <1>2, <2>1, <2>2
<1>5. ASSUME NEW m \in msgs, handlePartitionMsg(m) \/ handlePartitionReady(m) PROVE Merged'
  <2>1. UNCHANGED <<TxQueue, AccountStateTx, stage>>
    BY <1>5 DEF handlePartitionMsg, handlePartitionReady
  <2> QED BY <1>2, <2>1
<1>6. ASSUME NEW m \in msgs, handleAccountStateAndTxMsg(m) PROVE Merged'
  <2>1. UNCHANGED <<TxQueue, stage>> /\ m.type = "accounts" /\ m.to \in Shard
        /\ \E got : AccountStateTx' = [AccountStateTx EXCEPT ![m.to] = got]
    BY <1>1, <1>6 DEF handleAccountStateAndTxMsg, Receive, Letter
  <2>2. \A s \in Shard : stage[s] = "transferring" => AccountStateTx'[s] = AccountStateTx[s]
    BY <1>1, <2>1
  <2> QED BY <2>1, <2>2 DEF Merged, Arrived
<1>7. ASSUME NEW s \in Shard, CommitBlock(s) \/ sendPartitionReady(s) PROVE Merged'
  <2>1. /\ UNCHANGED AccountStateTx /\ stage[s] = "idle"
        /\ stage' = stage \/ stage' = [stage EXCEPT ![s] = "halted"] \/ stage' = [stage EXCEPT ![s] = "ready"]
    BY <1>7 DEF CommitBlock, sendPartitionReady, cdmVars
  <2>2. \A u \in Shard : u # s => TxQueue'[u] = TxQueue[u]
    BY <1>7, CommitEmpties DEF PoolOnly, sendPartitionReady
  <2>3. \A u \in Shard : stage'[u] = "transferring" => stage[u] = "transferring" /\ u # s
    BY <1>1, <2>1
  <2> QED BY <1>2, <2>1, <2>2, <2>3
<1>8. ASSUME NEW s \in Shard, stage[s] = "ready", NEW accounts \in SetToSeqs(AccountToFetch(s)),
             sendAccounts_and_Txs(s, accounts)
      PROVE  Merged'
  <2>1. UNCHANGED AccountStateTx /\ stage' = [stage EXCEPT ![s] = "collecting"]
    BY <1>8 DEF sendAccounts_and_Txs, cdmVars
  <2>2. \A u \in Shard : u # s => TxQueue'[u] = TxQueue[u]
    BY <1>1, <1>8, FreezeMoves DEF PoolOnly
  <2>3. \A u \in Shard : stage'[u] = "transferring" => stage[u] = "transferring" /\ u # s
    BY <1>1, <1>8, <2>1
  <2> QED BY <1>2, <2>1, <2>2, <2>3
<1>9. ASSUME NEW s \in Shard, NEW order \in SetToSeqs(DOMAIN AccountStateTx[s]), proposePartition(s, order)
      PROVE  Merged'
  <2>1. UNCHANGED AccountStateTx /\ \A u \in Shard : \A x : Arrived(u, x)' <=> Arrived(u, x)
    BY <1>9 DEF proposePartition, Arrived
  <2>2. CASE UNCHANGED TxQueue /\ stage' = [stage EXCEPT ![s] = "halted"]
    <3>1. \A u \in Shard : stage'[u] = "transferring" => stage[u] = "transferring"
      BY <1>1, <2>2
    <3> QED BY <1>2, <2>1, <2>2, <3>1
  <2>3. CASE /\ PoolOnly(s) /\ stage' = [stage EXCEPT ![s] = "transferring"]
             /\ \A x : Holds(TxQueue'[s], x) <=> Holds(TxQueue[s], x) \/ Arrived(s, x)
    <3>1. \A u \in Shard : u # s => stage'[u] = stage[u] /\ TxQueue'[u] = TxQueue[u]
      BY <1>1, <2>3 DEF PoolOnly
    <3> QED BY <2>1, <2>3, <3>1 DEF Merged
  <2> QED BY <1>9, <2>2, <2>3, ProposeFills
<1>10. ASSUME NEW s \in Shard, accountTransfer_do(s) PROVE Merged'
  <2>1. /\ UNCHANGED TxQueue /\ stage' = [stage EXCEPT ![s] = "idle"]
        /\ AccountStateTx' = [AccountStateTx EXCEPT ![s] = <<>>]
    BY <1>10 DEF accountTransfer_do
  <2>2. \A u \in Shard : stage'[u] = "transferring" =>
          stage[u] = "transferring" /\ AccountStateTx'[u] = AccountStateTx[u]
    BY <1>1, <2>1
  <2> QED BY <2>1, <2>2 DEF Merged, Arrived
<1> QED BY <1>3, <1>4, <1>5, <1>6, <1>7, <1>8, <1>9, <1>10 DEF Next, HandleMessage, HandleinPropose

\* What is injected is in a message first.
LEMMA InjectedPlaced ==
  ASSUME Stock, [Next]_vars, NEW t \in 1 .. nowDataNum', t \notin 1 .. nowDataNum
  PROVE  Placed(First(t))'
<1>1. nowDataNum \in Nat
  BY Configured DEF Stock
<1>2. CASE txSending
  <2>1. /\ nowDataNum' = nowDataNum + 1
        /\ \E r : msgs' = msgs \cup {[type |-> "inject", tx |-> nowDataNum', to |-> r]}
    BY <1>2 DEF txSending
  <2>2. t = nowDataNum'
    BY <1>1, <2>1
  <2>3. PICK m \in msgs' : m.type = "inject" /\ m.tx = t
    <3>1. PICK r : msgs' = msgs \cup {[type |-> "inject", tx |-> nowDataNum', to |-> r]}
      BY <2>1
    <3> DEFINE n == [type |-> "inject", tx |-> nowDataNum', to |-> r]
    <3>2. n \in msgs' /\ n.type = "inject" /\ n.tx = t
      BY <2>2, <3>1
    <3> HIDE DEF n
    <3> QED BY <3>2
  <2> QED BY <2>3 DEF Placed, Carries
<1>3. CASE ~txSending
  <2>1. UNCHANGED nowDataNum
    BY <1>3 DEF Next, clpaMapSend, HandleBlockInfo, HandleMessage, handleInjectTx, handleRelay,
         handlePartitionMsg, handlePartitionReady, handleAccountStateAndTxMsg, HandleinPropose,
         CommitBlock, sendPartitionReady, sendAccounts_and_Txs, proposePartition, accountTransfer_do,
         vars, supVars
  <2> QED BY <2>1
<1> QED BY <1>2, <1>3

\* Blocks are kept.
LEMMA ExecutedStays == ASSUME Stock, [Next]_vars PROVE executed \subseteq executed'
<1>1. ASSUME NEW s \in Shard, CommitBlock(s) PROVE executed \subseteq executed'
  BY <1>1, CommitEmpties
<1>2. CASE \A s \in Shard : ~CommitBlock(s)
  BY <1>2 DEF Next, txSending, clpaMapSend, HandleBlockInfo, HandleMessage, handleInjectTx, handleRelay,
       handlePartitionMsg, handlePartitionReady, handleAccountStateAndTxMsg, HandleinPropose,
       sendPartitionReady, sendAccounts_and_Txs, proposePartition, accountTransfer_do, vars, chainVars
<1> QED BY <1>1, <1>2

AllPlaced == \A t \in 1 .. nowDataNum : First(t) \in executed \/ Placed(First(t))
LostInv == EpochInv /\ Stock /\ Merged /\ AllPlaced

\* A round of re-sharding loses no transaction, for every number of shards,
\* accounts, transactions and rounds, whatever order the messages come in and
\* whatever mishap has happened: an injected transaction is in a message, a pool
\* or what another shard sent, until a block has it.  The argument: a transaction
\* that is taken out of a pool is in the message to the shard that gets its
\* sender; no message to a shard overwrites what that shard received of the same
\* one before, since the barrier holds the sender back; and a shard forgets what
\* it received only after having put it into its pool.
THEOREM ReshardLosesNothing == Spec => []NothingLost
<1>1. Init => LostInv
  <2> SUFFICES ASSUME Init PROVE LostInv
    OBVIOUS
  <2>1. nowDataNum = 0 /\ \A s \in Shard : stage[s] = "idle"
    BY DEF Init, PerShard
  <2>2. Merged /\ AllPlaced
    BY <2>1 DEF Merged, AllPlaced
  <2> QED BY <2>2, EpochInit, StockInit DEF LostInv
<1>2. LostInv /\ [Next]_vars => LostInv'
  <2> SUFFICES ASSUME LostInv, [Next]_vars PROVE LostInv'
    OBVIOUS
  <2>1. EpochInv /\ Stock /\ Merged /\ AllPlaced
    BY DEF LostInv
  <2>2. EpochInv' /\ Stock' /\ Merged'
    BY <2>1, EpochStep, StockStep, MergedStep
  <2>3. ASSUME NEW t \in 1 .. nowDataNum' PROVE First(t) \in executed' \/ Placed(First(t))'
    <3>1. CASE t \in 1 .. nowDataNum
      BY <2>1, <3>1, PlacedStays, ExecutedStays DEF AllPlaced
    <3>2. CASE t \notin 1 .. nowDataNum
      BY <2>1, <3>2, InjectedPlaced
    <3> QED BY <3>1, <3>2
  <2>4. AllPlaced'
    BY <2>3 DEF AllPlaced, First
  <2> QED BY <2>2, <2>4 DEF LostInv
<1>3. LostInv => NothingLost
  BY PlacedOnTheWay DEF LostInv, AllPlaced, NothingLost
<1> QED BY <1>1, <1>2, <1>3, PTL DEF Spec

-----------------------------------------------------------------------------
(* Why a leader panics.                                                    *)

\* The events after which a leader may meet a transaction of another shard.
Bad == mishaps \cap {"tx late", "half left behind", "map early"} # {}

\* The partition by which a transaction may wait in the pool of s.
PoolMap(s) == IF AccountsSent(s) THEN Override(PartitionMap[s], Last(ModifiedMap[s])) ELSE PartitionMap[s]

\* What waits in a pool waits for an account of the shard, also after the round
\* that is under way.
InPlace == \A s \in Shard : \A x : Holds(TxQueue[s], x) => PoolMap(s)[Waits(x)] = s

\* A first half is sent to the shard that gets its sender in the round of that shard.
Bound(r, x) ==
  /\ ~x.relayed /\ AccountTransferRound[r] < Len(ModifiedMap[r])
  /\ Rows[x.tx].sender \in DOMAIN ModifiedMap[r][AccountTransferRound[r] + 1]
  /\ ModifiedMap[r][AccountTransferRound[r] + 1][Rows[x.tx].sender] = r
Addressed ==
  /\ \A m \in msgs : m.type = "accounts" => \A x : Holds(m.txs, x) => Bound(m.to, x)
  /\ \A s \in Shard : \A x : Arrived(s, x) => Bound(s, x)

\* The map under consensus is the newest.
Requested == \A s \in Shard : stage[s] = "transferring" => request[s].map = Last(ModifiedMap[s])

\* What the supervisor knows of the epochs is true.
Reached(e) == e \in Nat /\ (e = 0 \/ \E s \in Shard : AccountTransferRound[s] >= e)
Reports == Reached(curEpoch) /\ \A e \in reports : Reached(e)

\* maps are the maps sent so far.  Every shard has all of them, or all but the
\* last, and that one is on its way to it.
Sent(maps) ==
  /\ maps \in Seq(PartialMap) /\ Len(maps) = clpaCnt
  /\ \A s \in Shard : /\ Len(ModifiedMap[s]) = clpaCnt \/ Len(ModifiedMap[s]) + 1 = clpaCnt
                      /\ \A k \in 1 .. Len(ModifiedMap[s]) : ModifiedMap[s][k] = maps[k]
  /\ \A m \in msgs : m.type = "partition" =>
       /\ Len(ModifiedMap[m.to]) + 1 = clpaCnt /\ m.map = maps[clpaCnt]
       /\ \A n \in msgs : n.type = "partition" /\ n.to = m.to => n = m

Fine == (\E maps : Sent(maps)) /\ Reports /\ InPlace /\ Addressed /\ Requested
Calm == EpochInv /\ Stock /\ ~Bad /\ ~Halted

LEMMA CalmFacts ==
  ASSUME Calm
  PROVE  /\ stage \in [Shard -> Stages] /\ Kept /\ Stock /\ "map early" \notin mishaps
         /\ DOMAIN AccountStateTx = Shard /\ PartitionOn \in [Shard -> BOOLEAN]
         /\ \A s \in Shard : /\ AccountTransferRound[s] \in Nat /\ ModifiedMap[s] \in Seq(PartialMap)
                             /\ Len(ModifiedMap[s]) \in Nat
                             /\ Len(ModifiedMap[s]) = AccountTransferRound[s] + (IF PartitionOn[s] THEN 1 ELSE 0)
                             /\ stage[s] \in {"ready", "collecting", "transferring"} => PartitionOn[s]
         /\ \A m \in msgs : Letter(m) /\ Boxed(m)
<1>1. PICK ep, st : /\ ep = AccountTransferRound /\ InTime(ep) /\ Kept
  BY Histories DEF Calm, Bad
<1>2. /\ stage \in [Shard -> Stages] /\ DOMAIN AccountStateTx = Shard /\ PartitionOn \in [Shard -> BOOLEAN]
      /\ \A s \in Shard : stage[s] \in {"ready", "collecting", "transferring"} => PartitionOn[s]
      /\ \A m \in msgs : Letter(m)
  BY EpochFacts DEF Calm
<1>3. Stock /\ "map early" \notin mishaps /\ \A m \in msgs : Boxed(m)
  BY DEF Calm, Bad, Stock
<1>4. \A s \in Shard : AccountTransferRound[s] \in Nat /\ ModifiedMap[s] \in Seq(PartialMap)
  BY <1>1 DEF Kept
<1>5. \A s \in Shard : Len(ModifiedMap[s]) \in Nat
  BY ONLY <1>4
<1> QED BY <1>1, <1>2, <1>3, <1>4, <1>5 DEF InTime

LEMMA InPlaceCommit ==
  ASSUME Calm, InPlace, NEW s \in Shard, CommitBlock(s)
  PROVE  UNCHANGED stage /\ msgs' = msgs \cup RelaysOf(s, Packed(s))
         /\ reports' = reports \cup ({AccountTransferRound[s]} \ {0})
<1>1. stage[s] = "idle" /\ ~AccountsSent(s)
  BY DEF CommitBlock, AccountsSent
<1>2. Packed(s) \in Seq(Item) /\ \A x : Holds(Packed(s), x) => Holds(TxQueue[s], x)
  BY CommitEmpties DEF Calm
<1>3. \A x : Holds(TxQueue[s], x) => ~Incorrect(s, x)
  BY <1>1 DEF InPlace, PoolMap, Incorrect, Owns
<1>4. \A i \in DOMAIN Packed(s) : Holds(Packed(s), Packed(s)[i])
  BY <1>2 DEF Holds
<1>5. ~\E i \in DOMAIN Packed(s) : Incorrect(s, Packed(s)[i])
  BY <1>2, <1>3, <1>4
<1> QED BY <1>5 DEF CommitBlock

LEMMA AddressedPropose ==
  ASSUME Calm, Addressed, NEW s \in Shard, NEW order \in SetToSeqs(DOMAIN AccountStateTx[s]), proposePartition(s, order)
  PROVE  /\ PoolOnly(s) /\ stage' = [stage EXCEPT ![s] = "transferring"] /\ stage[s] = "collecting"
         /\ \A x : Holds(TxQueue'[s], x) <=> Holds(TxQueue[s], x) \/ Arrived(s, x)
         /\ request'[s].map = ModifiedMap[s][AccountTransferRound[s] + 1]
         /\ \A u \in Shard : u # s => request'[u] = request[u]
<1> DEFINE mmap == ModifiedMap[s][AccountTransferRound[s] + 1]
<1>1. \A x : Arrived(s, x) => ~ErrorTx(s, mmap, x)
  BY DEF Addressed, Bound, ErrorTx, Lookup, Waits
<1>2. stage[s] = "collecting" /\ stage \in [Shard -> Stages] /\ DOMAIN request = Shard
  BY CalmFacts DEF proposePartition, Kept
<1>3. /\ PoolOnly(s) /\ stage' = [stage EXCEPT ![s] = "transferring"]
      /\ \A x : Holds(TxQueue'[s], x) <=> Holds(TxQueue[s], x) \/ Arrived(s, x)
  BY <1>1, ProposeFills DEF Calm
<1>4. stage'[s] # "halted"
  BY <1>2, <1>3
<1>5. \E y : request' = [request EXCEPT ![s] = [map |-> mmap, ATid |-> Len(ModifiedMap[s]), accounts |-> y]]
  BY <1>2, <1>4 DEF proposePartition
<1> HIDE DEF mmap
<1>6. request'[s].map = mmap /\ \A u \in Shard : u # s => request'[u] = request[u]
  BY <1>2, <1>5
<1> QED BY <1>2, <1>3, <1>6 DEF mmap

\* No leader panics.
LEMMA NoPanic ==
  ASSUME Calm, Fine, [Next]_vars PROVE ~Halted'
<1>1. stage \in [Shard -> Stages] /\ \A s \in Shard : stage[s] # "halted"
  BY CalmFacts DEF Calm, Halted
<1>2. ASSUME NEW s \in Shard, NEW b, b # "halted", stage' = [stage EXCEPT ![s] = b] PROVE ~Halted'
  BY <1>1, <1>2 DEF Halted
<1>3. CASE UNCHANGED stage
  BY <1>1, <1>3 DEF Halted
<1>4. CASE txSending \/ UNCHANGED vars \/ (\E mmap \in PartialMap : clpaMapSend(mmap))
           \/ (\E e \in reports : HandleBlockInfo(e)) \/ HandleMessage
  <2>1. UNCHANGED stage
    BY <1>4 DEF txSending, clpaMapSend, HandleBlockInfo, vars, HandleMessage, handleInjectTx, handleRelay,
         handlePartitionMsg, handlePartitionReady, handleAccountStateAndTxMsg
  <2> QED BY <1>3, <2>1
<1>5. ASSUME NEW s \in Shard, CommitBlock(s) PROVE ~Halted'
  BY <1>3, <1>5, InPlaceCommit DEF Fine
<1>6. ASSUME NEW s \in Shard, sendPartitionReady(s) \/ accountTransfer_do(s) PROVE ~Halted'
  <2>1. stage' = [stage EXCEPT ![s] = "ready"] \/ stage' = [stage EXCEPT ![s] = "idle"]
    BY <1>6 DEF sendPartitionReady, accountTransfer_do
  <2> QED BY <1>2, <2>1
<1>7. ASSUME NEW s \in Shard, NEW accounts, sendAccounts_and_Txs(s, accounts) PROVE ~Halted'
  <2>1. stage' = [stage EXCEPT ![s] = "collecting"]
    BY <1>7 DEF sendAccounts_and_Txs
  <2> QED BY <1>2, <2>1
<1>8. ASSUME NEW s \in Shard, NEW order \in SetToSeqs(DOMAIN AccountStateTx[s]), proposePartition(s, order)
      PROVE  ~Halted'
  <2>1. stage' = [stage EXCEPT ![s] = "transferring"]
    BY <1>8, AddressedPropose DEF Fine
  <2> QED BY <1>2, <2>1
<1> QED BY <1>4, <1>5, <1>6, <1>7, <1>8 DEF Next, HandleinPropose

\* A shard completes the round.
LEMMA TransferFacts ==
  ASSUME Calm, NEW s \in Shard, accountTransfer_do(s)
  PROVE  /\ UNCHANGED ModifiedMap /\ stage[s] = "transferring" /\ stage' = [stage EXCEPT ![s] = "idle"]
         /\ AccountTransferRound' = [AccountTransferRound EXCEPT ![s] = @ + 1]
         /\ \A m \in msgs : m.type = "accounts" => m.to # s
<1>1. PICK ep, st : /\ st = stage /\ ep = AccountTransferRound /\ ep \in [Shard -> Nat]
                    /\ stage \in [Shard -> Stages] /\ Barrier(ep, st) /\ Kept /\ InTime(ep)
  BY Histories DEF Calm, Bad
<1>2. stage[s] = "transferring" /\ stage' = [stage EXCEPT ![s] = "idle"]
  BY DEF accountTransfer_do
<1>3. PartitionOn[s] /\ PartitionOn \in [Shard -> BOOLEAN]
  BY <1>2, CalmFacts
<1>4. UNCHANGED ModifiedMap /\ InTime([ep EXCEPT ![s] = @ + 1])'
  BY <1>1, <1>3, MapsEntered
<1>5. AccountTransferRound' = [ep EXCEPT ![s] = @ + 1]
  BY <1>4 DEF InTime
<1>6. ASSUME NEW m \in msgs, m.type = "accounts", m.to = s PROVE FALSE
  <2>1. m.from \in Shard /\ m.from # s
    BY <1>6, CalmFacts DEF Letter
  <2>2. ~Delivering(m.from, s)
    BY <1>1, <1>2, <2>1, AllGone
  <2> QED BY <1>6, <2>2 DEF Delivering, AccountsFrom
<1> QED BY <1>1, <1>2, <1>4, <1>5, <1>6

\* A map arrives, and none is being carried out.
LEMMA MapFacts ==
  ASSUME Calm, "map early" \notin mishaps', NEW m \in msgs, handlePartitionMsg(m)
  PROVE  /\ m.type = "partition" /\ m.to \in Shard /\ ~PartitionOn[m.to] /\ ~AccountsSent(m.to)
         /\ stage[m.to] # "transferring" /\ msgs' = msgs \ {m}
         /\ ModifiedMap'[m.to] = Append(ModifiedMap[m.to], m.map)
         /\ Len(ModifiedMap'[m.to]) = Len(ModifiedMap[m.to]) + 1
         /\ ModifiedMap'[m.to][Len(ModifiedMap[m.to]) + 1] = m.map
         /\ \A k \in 1 .. Len(ModifiedMap[m.to]) : ModifiedMap'[m.to][k] = ModifiedMap[m.to][k]
         /\ \A u \in Shard : u # m.to => ModifiedMap'[u] = ModifiedMap[u]
         /\ UNCHANGED <<supVars, stage, chainVars, TxQueue, reports, AccountTransferRound,
                        AccountStateTx, request>>
<1> DEFINE r == m.to
           q == ModifiedMap[r]
<1>1. /\ m.type = "partition" /\ ModifiedMap' = [ModifiedMap EXCEPT ![r] = Append(q, m.map)]
      /\ mishaps' = mishaps \cup Tag(PartitionOn[r], "map early") /\ msgs' = msgs \ {m}
      /\ UNCHANGED <<supVars, stage, chainVars, TxQueue, reports, AccountTransferRound, AccountStateTx, request>>
  BY DEF handlePartitionMsg, Receive
<1>2. /\ r \in Shard /\ m.map \in PartialMap /\ DOMAIN ModifiedMap = Shard /\ q \in Seq(PartialMap)
      /\ stage[r] \in {"ready", "collecting", "transferring"} => PartitionOn[r]
  BY <1>1, CalmFacts DEF Letter, Kept
<1>3. ~PartitionOn[r]
  BY <1>1 DEF Tag
<1>4. ~AccountsSent(r) /\ stage[r] # "transferring"
  BY <1>2, <1>3 DEF AccountsSent
<1>5. /\ Len(Append(q, m.map)) = Len(q) + 1 /\ Append(q, m.map)[Len(q) + 1] = m.map
      /\ \A k \in 1 .. Len(q) : Append(q, m.map)[k] = q[k]
  <2> DEFINE P == PartialMap
             new == m.map
  <2>1. q \in Seq(P) /\ new \in P
    BY <1>2
  <2> HIDE DEF P, q, new
  <2>2. /\ Len(Append(q, new)) = Len(q) + 1 /\ Append(q, new)[Len(q) + 1] = new
        /\ \A k \in 1 .. Len(q) : Append(q, new)[k] = q[k]
    BY ONLY <2>1
  <2> QED BY <2>2 DEF new
<1>6. /\ ModifiedMap'[r] = Append(q, m.map) /\ \A u \in Shard : u # r => ModifiedMap'[u] = ModifiedMap[u]
  BY <1>1, <1>2
<1> QED BY <1>1, <1>2, <1>3, <1>4, <1>5, <1>6

\* The steps that neither bring a map nor complete a round.
Quiet == UNCHANGED <<ModifiedMap, AccountTransferRound>>

LEMMA QuietSteps ==
  ASSUME [Next]_vars
  PROVE  Quiet \/ (\E m \in msgs : handlePartitionMsg(m)) \/ \E s \in Shard : accountTransfer_do(s)
  BY ZenonT(60) DEF Quiet, Next, txSending, clpaMapSend, HandleBlockInfo, vars, HandleMessage, handleInjectTx, handleRelay,
         handlePartitionReady, handleAccountStateAndTxMsg, HandleinPropose, CommitBlock,
         sendPartitionReady, sendAccounts_and_Txs, proposePartition, cdmVars

LEMMA EpochsGrow ==
  ASSUME Calm, "map early" \notin mishaps', [Next]_vars
  PROVE  \A s \in Shard : AccountTransferRound'[s] \in Nat /\ AccountTransferRound[s] <= AccountTransferRound'[s]
<1>1. AccountTransferRound \in [Shard -> Nat]
  BY CalmFacts DEF Kept
<1> DEFINE Grows(r, n) == r \in Nat /\ n \in Nat /\ r <= n
<1>2. \A n \in Nat : Grows(n, n) /\ Grows(n, n + 1)
  BY ONLY TRUE
<1>3. CASE UNCHANGED AccountTransferRound
  BY <1>1, <1>2, <1>3
<1>4. ASSUME NEW s \in Shard, accountTransfer_do(s)
      PROVE  \A u \in Shard : Grows(AccountTransferRound[u], AccountTransferRound'[u])
  <2>1. AccountTransferRound' = [AccountTransferRound EXCEPT ![s] = @ + 1]
    BY <1>4, TransferFacts
  <2>2. \A u \in Shard : /\ AccountTransferRound[u] \in Nat
                          /\ \/ AccountTransferRound'[u] = AccountTransferRound[u]
                             \/ AccountTransferRound'[u] = AccountTransferRound[u] + 1
    BY <1>1, <2>1
  <2> HIDE DEF Grows
  <2> QED BY <1>2, <2>2
<1> QED BY <1>3, <1>4, MapFacts, QuietSteps DEF Quiet

LEMMA ReachedStays ==
  ASSUME Calm, "map early" \notin mishaps', [Next]_vars, NEW e, Reached(e)
  PROVE  Reached(e)'
<1>1. CASE e = 0
  BY <1>1 DEF Reached
<1>2. CASE e # 0
  <2>1. PICK s \in Shard : AccountTransferRound[s] >= e
    BY <1>2 DEF Reached
  <2>2. AccountTransferRound[s] \in Nat /\ AccountTransferRound'[s] \in Nat /\ AccountTransferRound'[s] >= AccountTransferRound[s]
    BY CalmFacts, EpochsGrow
  <2>3. e \in Nat
    BY DEF Reached
  <2>4. AccountTransferRound'[s] >= e
    <3> DEFINE n == AccountTransferRound[s]
               o == AccountTransferRound'[s]
    <3>1. n \in Nat /\ o \in Nat /\ o >= n /\ n >= e
      BY <2>1, <2>2
    <3> HIDE DEF n, o
    <3>2. o >= e
      BY ONLY <2>3, <3>1
    <3> QED BY <3>2 DEF o
  <2> QED BY <2>3, <2>4 DEF Reached
<1> QED BY <1>1, <1>2

LEMMA ReportsStep ==
  ASSUME Calm, Fine, "map early" \notin mishaps', [Next]_vars
  PROVE  Reports'
<1>1. Reached(curEpoch)' /\ \A e \in reports : Reached(e)'
  <2>1. Reached(curEpoch) /\ \A e \in reports : Reached(e)
    BY DEF Fine, Reports
  <2>2. \A e \in reports : Reached(e)'
    BY <2>1, ReachedStays
  <2> DEFINE c == curEpoch
  <2>3. CASE UNCHANGED curEpoch
    <3>1. \E e : e = curEpoch
      OBVIOUS
    <3>2. PICK e : e = curEpoch
      BY <3>1
    <3>3. Reached(e)'
      BY <2>1, <3>2, ReachedStays
    <3> QED BY <2>2, <2>3, <3>2, <3>3 DEF Reached
  <2>4. ASSUME NEW e \in reports, HandleBlockInfo(e), curEpoch' # curEpoch PROVE Reached(curEpoch)'
    <3>1. curEpoch' = e
      BY <2>4 DEF HandleBlockInfo
    <3> QED BY <2>2, <3>1 DEF Reached
  <2>5. UNCHANGED curEpoch \/ \E e \in reports : HandleBlockInfo(e)
    BY DEF Next, txSending, clpaMapSend, vars, HandleMessage, handleInjectTx, handleRelay, handlePartitionMsg,
         handlePartitionReady, handleAccountStateAndTxMsg, HandleinPropose, CommitBlock,
         sendPartitionReady, sendAccounts_and_Txs, proposePartition, accountTransfer_do, supVars
  <2> QED BY <2>2, <2>3, <2>4, <2>5
<1>2. ASSUME NEW s \in Shard, CommitBlock(s) PROVE \A e \in reports' : e \in reports \/ Reached(e)'
  <2>1. reports' = reports \cup ({AccountTransferRound[s]} \ {0}) /\ UNCHANGED AccountTransferRound
    BY <1>2, InPlaceCommit DEF Fine, CommitBlock, cdmVars
  <2>2. AccountTransferRound[s] \in Nat
    BY CalmFacts
  <2>3. \A e \in reports' : e \in reports \/ e = AccountTransferRound[s]
    BY <2>1
  <2>4. \A e : e = AccountTransferRound[s] => e \in Nat /\ AccountTransferRound'[s] >= e
    <3> DEFINE n == AccountTransferRound[s]
    <3>1. n \in Nat /\ AccountTransferRound'[s] = n
      BY <2>1, <2>2
    <3> HIDE DEF n
    <3>2. n >= n
      BY ONLY <3>1
    <3> QED BY <3>1, <3>2 DEF n
  <2> QED BY <2>3, <2>4 DEF Reached
<1>3. CASE \A s \in Shard : ~CommitBlock(s)
  <2>1. reports' \subseteq reports
    BY <1>3 DEF Next, txSending, clpaMapSend, HandleBlockInfo, vars, HandleMessage, handleInjectTx, handleRelay,
         handlePartitionMsg, handlePartitionReady, handleAccountStateAndTxMsg, HandleinPropose,
         sendPartitionReady, sendAccounts_and_Txs, proposePartition, accountTransfer_do
  <2> QED BY <1>1, <2>1 DEF Reports
<1> QED BY <1>1, <1>2, <1>3 DEF Reports

LEMMA RequestedStep ==
  ASSUME Calm, Fine, "map early" \notin mishaps', [Next]_vars
  PROVE  Requested'
<1>1. stage \in [Shard -> Stages] /\ Requested
  BY CalmFacts DEF Fine
<1>2. ASSUME UNCHANGED <<ModifiedMap, request>>,
             \A s \in Shard : stage'[s] = "transferring" => stage[s] = "transferring"
      PROVE  Requested'
  BY <1>1, <1>2 DEF Requested
<1>3. CASE txSending \/ UNCHANGED vars \/ (\E mmap \in PartialMap : clpaMapSend(mmap))
           \/ \E e \in reports : HandleBlockInfo(e)
  <2>1. UNCHANGED <<ModifiedMap, request, stage>>
    BY <1>3 DEF txSending, clpaMapSend, HandleBlockInfo, vars, cdmVars
  <2> QED BY <1>2, <2>1
<1>4. ASSUME NEW m \in msgs,
             handleInjectTx(m) \/ handleRelay(m) \/ handlePartitionReady(m) \/ handleAccountStateAndTxMsg(m)
      PROVE  Requested'
  <2>1. UNCHANGED <<ModifiedMap, request, stage>>
    BY <1>4 DEF handleInjectTx, handleRelay, handlePartitionReady, handleAccountStateAndTxMsg, cdmVars
  <2> QED BY <1>2, <2>1
<1>5. ASSUME NEW m \in msgs, handlePartitionMsg(m) PROVE Requested'
  <2>1. /\ stage[m.to] # "transferring" /\ UNCHANGED <<stage, request>>
        /\ \A u \in Shard : u # m.to => ModifiedMap'[u] = ModifiedMap[u]
    BY <1>5, MapFacts
  <2> QED BY <1>1, <2>1 DEF Requested
<1>6. ASSUME NEW s \in Shard, CommitBlock(s) \/ sendPartitionReady(s) PROVE Requested'
  <2>1. /\ UNCHANGED <<ModifiedMap, request>>
        /\ stage' = stage \/ stage' = [stage EXCEPT ![s] = "halted"] \/ stage' = [stage EXCEPT ![s] = "ready"]
    BY <1>6 DEF CommitBlock, sendPartitionReady, cdmVars
  <2>2. \A u \in Shard : stage'[u] = "transferring" => stage[u] = "transferring"
    BY <1>1, <2>1
  <2> QED BY <1>2, <2>1, <2>2
<1>7. ASSUME NEW s \in Shard, NEW accounts, sendAccounts_and_Txs(s, accounts) PROVE Requested'
  <2>1. UNCHANGED <<ModifiedMap, request>> /\ stage' = [stage EXCEPT ![s] = "collecting"]
    BY <1>7 DEF sendAccounts_and_Txs, cdmVars
  <2>2. \A u \in Shard : stage'[u] = "transferring" => stage[u] = "transferring"
    BY <1>1, <2>1
  <2> QED BY <1>2, <2>1, <2>2
<1>8. ASSUME NEW s \in Shard, NEW order \in SetToSeqs(DOMAIN AccountStateTx[s]), proposePartition(s, order)
      PROVE  Requested'
  <2>1. /\ stage' = [stage EXCEPT ![s] = "transferring"] /\ stage[s] = "collecting"
        /\ request'[s].map = ModifiedMap[s][AccountTransferRound[s] + 1]
        /\ \A u \in Shard : u # s => request'[u] = request[u]
    BY <1>8, AddressedPropose DEF Fine
  <2>2. UNCHANGED ModifiedMap
    BY <1>8 DEF proposePartition
  <2>3. Len(ModifiedMap[s]) = AccountTransferRound[s] + 1
    BY <2>1, CalmFacts
  <2>4. request'[s].map = Last(ModifiedMap[s])
    BY <2>1, <2>3 DEF Last
  <2>5. \A u \in Shard : u # s => stage'[u] = stage[u]
    BY <1>1, <2>1
  <2> QED BY <1>1, <2>1, <2>2, <2>4, <2>5 DEF Requested
<1>9. ASSUME NEW s \in Shard, accountTransfer_do(s) PROVE Requested'
  <2>1. UNCHANGED ModifiedMap /\ stage' = [stage EXCEPT ![s] = "idle"] /\ DOMAIN request = Shard
        /\ request' = [request EXCEPT ![s] = <<>>]
    BY <1>9, TransferFacts, CalmFacts DEF accountTransfer_do, Kept
  <2>2. \A u \in Shard : stage'[u] = "transferring" => stage[u] = "transferring" /\ request'[u] = request[u]
    BY <1>1, <2>1
  <2> QED BY <1>1, <2>1, <2>2 DEF Requested
<1> QED BY <1>3, <1>4, <1>5, <1>6, <1>7, <1>8, <1>9 DEF Next, HandleMessage, HandleinPropose

\* Maps and accounts are sent by these steps only.
LEMMA NewMessages ==
  ASSUME Calm, [Next]_vars, NEW m \in msgs', m \notin msgs
  PROVE  \/ m.type \notin {"partition", "accounts"}
         \/ m.type = "partition" /\ \E mmap \in PartialMap : clpaMapSend(mmap)
         \/ m.type = "accounts" /\ \E s \in Shard : \E accounts \in SetToSeqs(AccountToFetch(s)) :
                                     sendAccounts_and_Txs(s, accounts)
<1>1. CASE txSending
  BY <1>1 DEF txSending
<1>2. ASSUME NEW mmap \in PartialMap, clpaMapSend(mmap) PROVE m.type = "partition"
  BY <1>2 DEF clpaMapSend
<1>3. CASE UNCHANGED vars \/ (\E e \in reports : HandleBlockInfo(e)) \/ HandleMessage
  BY <1>3 DEF HandleBlockInfo, vars, HandleMessage, handleInjectTx, handleRelay, handlePartitionMsg,
       handlePartitionReady, handleAccountStateAndTxMsg
<1>4. ASSUME NEW s \in Shard, CommitBlock(s) PROVE m.type = "relay"
  <2>1. m \in RelaysOf(s, Packed(s))
    BY <1>4 DEF CommitBlock
  <2> QED BY <2>1, RelaysUnseen
<1>5. ASSUME NEW s \in Shard, sendPartitionReady(s) PROVE m.type = "ready"
  <2>1. m \in {[type |-> "ready", from |-> s, to |-> t, seq |-> sequenceID[s]] : t \in Others(s)}
    BY <1>5 DEF sendPartitionReady
  <2> QED BY ONLY <2>1
<1>6. ASSUME NEW s \in Shard, NEW accounts \in SetToSeqs(AccountToFetch(s)), sendAccounts_and_Txs(s, accounts)
      PROVE  m.type = "accounts"
  <2>1. PartitionOn[s] /\ Stock /\ Kept
    BY <1>6, CalmFacts DEF sendAccounts_and_Txs
  <2> QED BY <1>6, <2>1, FreezeMoves DEF SentFrom
<1>7. ASSUME NEW s \in Shard, accountTransfer_do(s) \/ \E order : proposePartition(s, order) PROVE FALSE
  BY <1>7 DEF proposePartition, accountTransfer_do
<1> QED BY <1>1, <1>2, <1>3, <1>4, <1>5, <1>6, <1>7 DEF Next, HandleinPropose

\* The supervisor sends a map when every shard has received the one before.
LEMMA AllReceived ==
  ASSUME Calm, Reports, NEW maps, Sent(maps), EpochReached
  PROVE  clpaCnt \in Nat /\ \A u \in Shard : Len(ModifiedMap[u]) = clpaCnt
<1>1. PICK ep, st : /\ st = stage /\ ep = AccountTransferRound /\ ep \in [Shard -> Nat]
                    /\ stage \in [Shard -> Stages] /\ Barrier(ep, st) /\ Kept /\ InTime(ep)
  BY Histories DEF Calm, Bad
<1>2. clpaCnt \in Nat /\ (clpaCnt = 0 \/ \E s \in Shard : ep[s] >= clpaCnt)
  BY <1>1 DEF Reports, Reached, EpochReached
<1>3. \A u \in Shard : /\ Len(ModifiedMap[u]) \in Nat
                       /\ Len(ModifiedMap[u]) = clpaCnt \/ Len(ModifiedMap[u]) + 1 = clpaCnt
  BY CalmFacts DEF Sent
<1>4. ASSUME NEW s \in Shard, NEW u \in Shard, ep[s] >= clpaCnt PROVE Len(ModifiedMap[u]) >= clpaCnt
  <2>1. /\ ep[s] \in Nat /\ ep[u] \in Nat
        /\ Len(ModifiedMap[u]) = ep[u] + (IF PartitionOn[u] THEN 1 ELSE 0)
    BY <1>1, CalmFacts
  <2>2. s # u => InStep(ep, st, s, u)
    BY <1>1 DEF Barrier
  <2>3. Frozen(st, u) => PartitionOn[u]
    BY <1>1 DEF Barrier, Own, Busy, Frozen
  <2>4. ep[u] >= ep[s] \/ (PartitionOn[u] /\ ep[s] = ep[u] + 1)
    BY <2>1, <2>2, <2>3 DEF InStep
  <2> DEFINE a == ep[s]
             b == ep[u]
             l == Len(ModifiedMap[u])
  <2>5. a \in Nat /\ b \in Nat /\ (l = b + 1 \/ l = b) /\ (b >= a \/ (l = b + 1 /\ a = b + 1)) /\ a >= clpaCnt
    BY <1>4, <2>1, <2>4
  <2> HIDE DEF a, b, l
  <2>6. l >= clpaCnt
    BY ONLY <1>2, <2>5
  <2> QED BY <2>6 DEF l
<1>5. ASSUME NEW u \in Shard PROVE Len(ModifiedMap[u]) = clpaCnt
  <2> DEFINE l == Len(ModifiedMap[u])
  <2>1. l \in Nat /\ (l = clpaCnt \/ l + 1 = clpaCnt) /\ (clpaCnt = 0 \/ l >= clpaCnt)
    BY <1>2, <1>3, <1>4
  <2> HIDE DEF l
  <2>2. l = clpaCnt
    BY ONLY <1>2, <2>1
  <2> QED BY <2>2 DEF l
<1> QED BY <1>2, <1>5

LEMMA SentSends ==
  ASSUME Calm, Reports, NEW maps, Sent(maps), NEW mmap \in PartialMap, clpaMapSend(mmap)
  PROVE  Sent(Append(maps, mmap))'
<1> DEFINE new == Append(maps, mmap)
           P == PartialMap
<1>1. /\ EpochReached /\ clpaCnt' = clpaCnt + 1 /\ UNCHANGED ModifiedMap
      /\ msgs' = msgs \cup {[type |-> "partition", map |-> mmap, nr |-> clpaCnt', to |-> s] : s \in Shard}
  BY DEF clpaMapSend, cdmVars
<1>2. clpaCnt \in Nat /\ \A u \in Shard : Len(ModifiedMap[u]) = clpaCnt
  BY <1>1, AllReceived
<1>3. maps \in Seq(P) /\ Len(maps) = clpaCnt /\ mmap \in P
  BY DEF Sent
<1> HIDE DEF P
<1>4. /\ new \in Seq(P) /\ Len(new) = clpaCnt + 1 /\ new[clpaCnt + 1] = mmap
      /\ \A k \in 1 .. clpaCnt : new[k] = maps[k]
  BY ONLY <1>2, <1>3
<1> HIDE DEF new
<1>5. \A m \in msgs : m.type # "partition"
  <2> SUFFICES ASSUME NEW m \in msgs, m.type = "partition" PROVE FALSE
    OBVIOUS
  <2>1. m.to \in Shard /\ Len(ModifiedMap[m.to]) + 1 = clpaCnt
    BY CalmFacts DEF Letter, Sent
  <2>2. clpaCnt + 1 = clpaCnt
    BY <1>2, <2>1
  <2> QED BY ONLY <1>2, <2>2
<1>6. ASSUME NEW m \in msgs', m.type = "partition"
      PROVE  m.to \in Shard /\ m = [type |-> "partition", map |-> mmap, nr |-> clpaCnt', to |-> m.to]
  BY <1>1, <1>5, <1>6
<1>7. ASSUME NEW m \in msgs', m.type = "partition"
      PROVE  /\ Len(ModifiedMap'[m.to]) + 1 = clpaCnt' /\ m.map = new[clpaCnt']
             /\ \A n \in msgs' : n.type = "partition" /\ n.to = m.to => n = m
  <2>1. m.to \in Shard /\ m.map = mmap
    BY <1>6, <1>7
  <2>2. \A n \in msgs' : n.type = "partition" /\ n.to = m.to => n = m
    BY <1>6, <1>7
  <2> QED BY <1>1, <1>2, <1>4, <2>1, <2>2
<1>8. \A s \in Shard : \A k \in 1 .. Len(ModifiedMap[s]) : ModifiedMap[s][k] = new[k]
  BY <1>2, <1>4 DEF Sent
<1> QED BY <1>1, <1>2, <1>4, <1>7, <1>8 DEF Sent, new, P

LEMMA SentReceives ==
  ASSUME Calm, NEW maps, Sent(maps), "map early" \notin mishaps', NEW m \in msgs, handlePartitionMsg(m)
  PROVE  Sent(maps)'
<1> DEFINE r == m.to
           l == Len(ModifiedMap[r])
<1>1. /\ m.type = "partition" /\ r \in Shard /\ msgs' = msgs \ {m} /\ UNCHANGED clpaCnt
      /\ Len(ModifiedMap'[r]) = l + 1 /\ ModifiedMap'[r][l + 1] = m.map
      /\ \A k \in 1 .. l : ModifiedMap'[r][k] = ModifiedMap[r][k]
      /\ \A u \in Shard : u # r => ModifiedMap'[u] = ModifiedMap[u]
  BY MapFacts DEF supVars
<1>2. /\ l + 1 = clpaCnt /\ m.map = maps[clpaCnt] /\ maps \in Seq(PartialMap) /\ Len(maps) = clpaCnt
      /\ \A n \in msgs : n.type = "partition" /\ n.to = r => n = m
      /\ \A k \in 1 .. l : ModifiedMap[r][k] = maps[k]
  BY <1>1 DEF Sent
<1>3. l \in Nat
  BY <1>1, CalmFacts
<1> HIDE DEF l
<1>4. \A k \in 1 .. l + 1 : k \in 1 .. l \/ k = l + 1
  BY ONLY <1>3
<1>5. \A k \in 1 .. Len(ModifiedMap'[r]) : ModifiedMap'[r][k] = maps[k]
  BY <1>1, <1>2, <1>4
<1>6. \A n \in msgs' : n \in msgs /\ (n.type = "partition" => n.to \in Shard /\ n.to # r)
  BY <1>1, <1>2, CalmFacts DEF Letter
<1>7. ASSUME NEW s \in Shard
      PROVE  /\ Len(ModifiedMap'[s]) = clpaCnt \/ Len(ModifiedMap'[s]) + 1 = clpaCnt
             /\ \A k \in 1 .. Len(ModifiedMap'[s]) : ModifiedMap'[s][k] = maps[k]
  <2>1. Len(ModifiedMap'[r]) = clpaCnt
    BY <1>1, <1>2
  <2>2. CASE s # r
    <3>1. ModifiedMap'[s] = ModifiedMap[s]
      BY <1>1, <2>2
    <3> QED BY <3>1 DEF Sent
  <2> QED BY <1>5, <2>1, <2>2
<1>8. ASSUME NEW n \in msgs', n.type = "partition"
      PROVE  /\ Len(ModifiedMap'[n.to]) + 1 = clpaCnt /\ n.map = maps[clpaCnt]
             /\ \A o \in msgs' : o.type = "partition" /\ o.to = n.to => o = n
  BY <1>1, <1>6, <1>8 DEF Sent
<1> QED BY <1>1, <1>2, <1>7, <1>8 DEF Sent

LEMMA SentStep ==
  ASSUME Calm, Fine, "map early" \notin mishaps', [Next]_vars
  PROVE  (\E maps : Sent(maps))'
<1>1. PICK maps : Sent(maps)
  BY DEF Fine
<1>2. CASE \E mmap \in PartialMap : clpaMapSend(mmap)
  BY <1>1, <1>2, SentSends DEF Fine
<1>3. CASE \E m \in msgs : handlePartitionMsg(m)
  BY <1>1, <1>3, SentReceives
<1>4. CASE ~(\E mmap \in PartialMap : clpaMapSend(mmap)) /\ ~(\E m \in msgs : handlePartitionMsg(m))
  <2>1. UNCHANGED clpaCnt
    BY <1>4, ZenonT(60) DEF Next, txSending, HandleBlockInfo, vars, HandleMessage, handleInjectTx, handleRelay,
         handlePartitionReady, handleAccountStateAndTxMsg, HandleinPropose, CommitBlock,
         sendPartitionReady, sendAccounts_and_Txs, proposePartition, accountTransfer_do, supVars
  <2>2. UNCHANGED ModifiedMap
    BY <1>4, QuietSteps, TransferFacts DEF Quiet
  <2>3. \A m \in msgs' : m.type = "partition" => m \in msgs
    BY <1>4, NewMessages
  <2>4. Sent(maps)'
    BY <1>1, <2>1, <2>2, <2>3 DEF Sent
  <2> QED BY <2>4
<1> QED BY <1>2, <1>3, <1>4

\* A pool and its partition.
LEMMA WaitsTyped ==
  ASSUME Stock, NEW s \in Shard, NEW x, Holds(TxQueue[s], x)
  PROVE  /\ x \in Item /\ Waits(x) \in Account /\ Rows[x.tx].sender \in Account
         /\ DOMAIN PartitionMap[s] = Account /\ PartitionMap[s] \in [Account -> Shard]
<1> DEFINE I == Item
           F == [Account -> Shard]
<1>1. TxQueue[s] \in Seq(I) /\ PartitionMap[s] \in F
  BY DEF Stock
<1> HIDE DEF I, F
<1>2. x \in I
  BY <1>1 DEF Holds
<1>3. x.tx \in Tx
  BY <1>2 DEF I, Item
<1> QED BY <1>1, <1>2, <1>3, Configured DEF I, F, Waits

\* The pools fill up, and the partitions stay.
LEMMA InPlaceFills ==
  ASSUME Calm, InPlace, NEW r \in Shard, PoolOnly(r), UNCHANGED <<stage, PartitionMap, ModifiedMap>>,
         \A x : Holds(TxQueue'[r], x) => Holds(TxQueue[r], x) \/ PoolMap(r)[Waits(x)] = r
  PROVE  InPlace'
<1>1. \A s : PoolMap(s)' = PoolMap(s)
  BY DEF PoolMap, AccountsSent
<1>2. ASSUME NEW s \in Shard, NEW x, Holds(TxQueue'[s], x) PROVE PoolMap(s)[Waits(x)] = s
  BY <1>2 DEF InPlace, PoolOnly
<1> QED BY <1>1, <1>2 DEF InPlace

\* What is not taken out of the pool stays with an account that stays.
LEMMA InPlaceFreeze ==
  ASSUME Calm, InPlace, ~Bad', NEW s \in Shard, NEW accounts \in SetToSeqs(AccountToFetch(s)),
         sendAccounts_and_Txs(s, accounts)
  PROVE  InPlace'
<1> DEFINE mmap == Last(ModifiedMap[s])
           p == PartitionMap[s]
<1>1. /\ stage[s] = "ready" /\ stage' = [stage EXCEPT ![s] = "collecting"] /\ UNCHANGED <<PartitionMap, ModifiedMap>>
      /\ \A x \in ToSet(TxQueue[s]) : x.relayed => {Rows[x.tx].sender, Rows[x.tx].recipient} \cap ToSet(accounts) = {}
  BY DEF sendAccounts_and_Txs, chainVars, cdmVars, Bad, Tag
<1>2. stage \in [Shard -> Stages] /\ Stock /\ Kept /\ PartitionOn[s]
  BY <1>1, CalmFacts
<1>3. /\ PoolOnly(s) /\ \A x : Holds(TxQueue'[s], x) => Holds(TxQueue[s], x) /\ ~Leaves(s, x)
      /\ \A a : a \in ToSet(accounts) <=> a \in AccountToFetch(s)
  BY <1>2, FreezeMoves
<1>4. PoolMap(s) = p /\ PoolMap(s)' = Override(p, mmap)
  BY <1>1, <1>2 DEF PoolMap, AccountsSent
<1>5. ASSUME NEW x, Holds(TxQueue'[s], x) PROVE PoolMap(s)'[Waits(x)] = s
  <2>1. Holds(TxQueue[s], x) /\ ~Leaves(s, x) /\ p[Waits(x)] = s
    BY <1>3, <1>4, <1>5 DEF InPlace
  <2>2. x \in Item /\ Waits(x) \in Account /\ DOMAIN p = Account
    BY <1>2, <2>1, WaitsTyped
  <2>3. x \in ToSet(TxQueue[s])
    BY <1>2, <2>1, ToSetHolds DEF Stock
  <2>4. Waits(x) \notin AccountToFetch(s)
    BY <1>1, <1>3, <2>1, <2>3 DEF Waits, Leaves
  <2>5. Waits(x) \in DOMAIN mmap => mmap[Waits(x)] = s
    BY <2>1, <2>4 DEF AccountToFetch, Owns
  <2> QED BY <1>4, <2>1, <2>2, <2>5 DEF Override
<1>6. ASSUME NEW u \in Shard, u # s PROVE PoolMap(u)' = PoolMap(u) /\ TxQueue'[u] = TxQueue[u]
  BY <1>1, <1>2, <1>3, <1>6 DEF PoolMap, AccountsSent, PoolOnly
<1> QED BY <1>5, <1>6 DEF InPlace

\* What arrived waits for an account that arrives.
LEMMA InPlacePropose ==
  ASSUME Calm, InPlace, Addressed, NEW s \in Shard, NEW order \in SetToSeqs(DOMAIN AccountStateTx[s]),
         proposePartition(s, order)
  PROVE  InPlace'
<1> DEFINE mmap == Last(ModifiedMap[s])
<1>1. /\ PoolOnly(s) /\ stage' = [stage EXCEPT ![s] = "transferring"] /\ stage[s] = "collecting"
      /\ \A x : Holds(TxQueue'[s], x) <=> Holds(TxQueue[s], x) \/ Arrived(s, x)
  BY AddressedPropose
<1>2. UNCHANGED <<ModifiedMap, PartitionMap, AccountTransferRound>>
  BY DEF proposePartition, chainVars
<1>3. stage \in [Shard -> Stages] /\ Stock /\ Len(ModifiedMap[s]) = AccountTransferRound[s] + 1
  BY <1>1, CalmFacts
<1>4. \A u \in Shard : PoolMap(u)' = PoolMap(u)
  BY <1>1, <1>2, <1>3 DEF PoolMap, AccountsSent
<1>5. PoolMap(s) = Override(PartitionMap[s], mmap) /\ mmap = ModifiedMap[s][AccountTransferRound[s] + 1]
  BY <1>1, <1>3 DEF PoolMap, AccountsSent, Last
<1>6. ASSUME NEW x, Arrived(s, x) PROVE PoolMap(s)[Waits(x)] = s
  <2>1. Waits(x) \in DOMAIN mmap /\ mmap[Waits(x)] = s
    BY <1>5, <1>6 DEF Addressed, Bound, Waits
  <2>2. PartitionMap[s] \in [Account -> Shard] /\ mmap \in PartialMap
    <3> DEFINE P == PartialMap
    <3>1. ModifiedMap[s] \in Seq(P) /\ Len(ModifiedMap[s]) \in Nat /\ AccountTransferRound[s] \in Nat
      BY CalmFacts
    <3> HIDE DEF P
    <3>2. ModifiedMap[s][AccountTransferRound[s] + 1] \in P
      BY ONLY <1>3, <3>1
    <3> QED BY <1>3, <1>5, <3>2 DEF P, Stock
  <2>3. Waits(x) \in DOMAIN PartitionMap[s]
    BY <2>1, <2>2 DEF PartialMap
  <2> QED BY <1>5, <2>1, <2>3 DEF Override
<1>7. ASSUME NEW u \in Shard, NEW x, Holds(TxQueue'[u], x) PROVE PoolMap(u)[Waits(x)] = u
  BY <1>1, <1>6, <1>7 DEF InPlace, PoolOnly
<1> QED BY <1>4, <1>7 DEF InPlace

\* The partition that becomes valid is the one the pool is kept by.
LEMMA InPlaceTransfer ==
  ASSUME Calm, InPlace, Requested, NEW s \in Shard, accountTransfer_do(s)
  PROVE  InPlace'
<1>1. /\ stage[s] = "transferring" /\ stage' = [stage EXCEPT ![s] = "idle"] /\ UNCHANGED <<TxQueue, ModifiedMap>>
      /\ PartitionMap' = [PartitionMap EXCEPT ![s] = Override(PartitionMap[s], request[s].map)]
  BY TransferFacts DEF accountTransfer_do
<1>2. stage \in [Shard -> Stages] /\ DOMAIN PartitionMap = Shard
  BY CalmFacts DEF Stock
<1>3. request[s].map = Last(ModifiedMap[s])
  BY <1>1 DEF Requested
<1>4. PoolMap(s)' = PoolMap(s)
  BY <1>1, <1>2, <1>3 DEF PoolMap, AccountsSent
<1>5. \A u \in Shard : u # s => PoolMap(u)' = PoolMap(u)
  BY <1>1, <1>2 DEF PoolMap, AccountsSent
<1> QED BY <1>1, <1>4, <1>5 DEF InPlace

LEMMA InPlaceStep ==
  ASSUME Calm, Fine, ~Bad', [Next]_vars
  PROVE  InPlace'
<1>1. stage \in [Shard -> Stages] /\ Stock /\ InPlace /\ Addressed /\ Requested
  BY CalmFacts DEF Fine
<1>2. ASSUME UNCHANGED <<stage, PartitionMap, ModifiedMap, TxQueue>> PROVE InPlace'
  BY <1>1, <1>2 DEF InPlace, PoolMap, AccountsSent
<1>3. CASE txSending \/ UNCHANGED vars \/ (\E mmap \in PartialMap : clpaMapSend(mmap))
           \/ \E e \in reports : HandleBlockInfo(e)
  <2>1. UNCHANGED <<stage, PartitionMap, ModifiedMap, TxQueue>>
    BY <1>3 DEF txSending, clpaMapSend, HandleBlockInfo, vars, cdmVars, chainVars
  <2> QED BY <1>2, <2>1
<1>4. ASSUME NEW m \in msgs, handlePartitionReady(m) \/ handleAccountStateAndTxMsg(m) PROVE InPlace'
  <2>1. UNCHANGED <<stage, PartitionMap, ModifiedMap, TxQueue>>
    BY <1>4 DEF handlePartitionReady, handleAccountStateAndTxMsg, chainVars
  <2> QED BY <1>2, <2>1
<1>5. ASSUME NEW m \in msgs, handleInjectTx(m) PROVE InPlace'
  <2>1. /\ m.to \in Shard /\ PoolOnly(m.to)
        /\ \A x : Holds(TxQueue'[m.to], x) <=> Holds(TxQueue[m.to], x) \/ x = First(m.tx)
    BY <1>1, <1>5, InjectFills
  <2>2. /\ UNCHANGED <<stage, PartitionMap, ModifiedMap>>
        /\ "tx late" \notin LateTag(m.to, {First(m.tx)})
    BY <1>5 DEF handleInjectTx, chainVars, cdmVars, Bad
  <2>3. PoolMap(m.to)[Waits(First(m.tx))] = m.to
    BY <2>2 DEF LateTag, PoolMap, Tag
  <2> QED BY <1>1, <2>1, <2>2, <2>3, InPlaceFills
<1>6. ASSUME NEW m \in msgs, handleRelay(m) PROVE InPlace'
  <2>1. /\ m.to \in Shard /\ PoolOnly(m.to) /\ m.txs \in Seq(Item)
        /\ \A x : Holds(TxQueue'[m.to], x) <=> Holds(TxQueue[m.to], x) \/ Holds(m.txs, x)
    BY <1>1, <1>6, RelayFills
  <2>2. /\ UNCHANGED <<stage, PartitionMap, ModifiedMap>>
        /\ "tx late" \notin LateTag(m.to, ToSet(m.txs))
    BY <1>6 DEF handleRelay, chainVars, Bad
  <2>3. \A x \in ToSet(m.txs) : PoolMap(m.to)[Waits(x)] = m.to
    BY <2>2 DEF LateTag, PoolMap, Tag
  <2>4. \A x : Holds(m.txs, x) => x \in ToSet(m.txs)
    BY <2>1, ToSetHolds
  <2> QED BY <1>1, <2>1, <2>2, <2>3, <2>4, InPlaceFills
<1>7. ASSUME NEW m \in msgs, handlePartitionMsg(m) PROVE InPlace'
  <2>1. /\ ~AccountsSent(m.to) /\ UNCHANGED <<stage, PartitionMap, TxQueue>>
        /\ \A u \in Shard : u # m.to => ModifiedMap'[u] = ModifiedMap[u]
    BY <1>7, MapFacts DEF Bad, chainVars
  <2>2. \A u \in Shard : PoolMap(u)' = PoolMap(u)
    BY <2>1 DEF PoolMap, AccountsSent
  <2> QED BY <1>1, <2>1, <2>2 DEF InPlace
<1>8. ASSUME NEW s \in Shard, CommitBlock(s) PROVE InPlace'
  <2>1. UNCHANGED <<stage, PartitionMap, ModifiedMap>>
    BY <1>1, <1>8, InPlaceCommit DEF CommitBlock, cdmVars
  <2>2. PoolOnly(s) /\ \A x : Holds(TxQueue[s], x) <=> Holds(Packed(s), x) \/ Holds(TxQueue'[s], x)
    BY <1>1, <1>8, CommitEmpties
  <2> QED BY <1>1, <2>1, <2>2, InPlaceFills
<1>9. ASSUME NEW s \in Shard, sendPartitionReady(s) PROVE InPlace'
  <2>1. /\ stage[s] = "idle" /\ stage' = [stage EXCEPT ![s] = "ready"]
        /\ UNCHANGED <<PartitionMap, ModifiedMap, TxQueue>>
    BY <1>9 DEF sendPartitionReady, chainVars
  <2>2. \A u \in Shard : PoolMap(u)' = PoolMap(u)
    BY <1>1, <2>1 DEF PoolMap, AccountsSent
  <2> QED BY <1>1, <2>1, <2>2 DEF InPlace
<1>10. ASSUME NEW s \in Shard, NEW accounts \in SetToSeqs(AccountToFetch(s)), sendAccounts_and_Txs(s, accounts)
       PROVE  InPlace'
  BY <1>1, <1>10, InPlaceFreeze
<1>11. ASSUME NEW s \in Shard, NEW order \in SetToSeqs(DOMAIN AccountStateTx[s]), proposePartition(s, order)
       PROVE  InPlace'
  BY <1>1, <1>11, InPlacePropose
<1>12. ASSUME NEW s \in Shard, accountTransfer_do(s) PROVE InPlace'
  BY <1>1, <1>12, InPlaceTransfer
<1> QED BY <1>3, <1>4, <1>5, <1>6, <1>7, <1>8, <1>9, <1>10, <1>11, <1>12 DEF Next, HandleMessage, HandleinPropose

\* The accounts are sent when the receiver is in the same round, and has the
\* same map to carry out.
LEMMA SameMap ==
  ASSUME Calm, NEW maps, Sent(maps), NEW s \in Shard, stage[s] = "ready", getPartitionReady(s), NEW t \in Others(s)
  PROVE  /\ AccountTransferRound[t] < Len(ModifiedMap[t])
         /\ ModifiedMap[t][AccountTransferRound[t] + 1] = Last(ModifiedMap[s])
<1>1. PICK ep, st : /\ st = stage /\ ep = AccountTransferRound /\ ep \in [Shard -> Nat]
                    /\ stage \in [Shard -> Stages] /\ Barrier(ep, st) /\ Kept /\ InTime(ep)
  BY Histories DEF Calm, Bad
<1>2. t \in Shard /\ Busy(st, t) /\ ep[t] = ep[s]
  BY <1>1, AllAtBarrier DEF Others
<1> DEFINE n == AccountTransferRound[s]
<1>3. PartitionOn[s] /\ PartitionOn[t]
  BY <1>1, <1>2, CalmFacts DEF Busy
<1>4. n \in Nat /\ AccountTransferRound[t] = n /\ Len(ModifiedMap[s]) = n + 1 /\ Len(ModifiedMap[t]) = n + 1
  BY <1>1, <1>2, <1>3, CalmFacts
<1>5. Last(ModifiedMap[s]) = ModifiedMap[s][n + 1]
  BY <1>4 DEF Last
<1> HIDE DEF n
<1>6. n < n + 1 /\ n + 1 \in 1 .. n + 1
  BY ONLY <1>4
<1>7. ModifiedMap[s][n + 1] = maps[n + 1] /\ ModifiedMap[t][n + 1] = maps[n + 1]
  BY <1>2, <1>4, <1>6 DEF Sent
<1> QED BY <1>4, <1>5, <1>6, <1>7

\* The first halves of a sender go where the sender goes.
LEMMA AddressedFreeze ==
  ASSUME Calm, NEW maps, Sent(maps), ~Bad', NEW s \in Shard, NEW accounts \in SetToSeqs(AccountToFetch(s)),
         sendAccounts_and_Txs(s, accounts), NEW m \in msgs', m \notin msgs, NEW x, Holds(m.txs, x)
  PROVE  Bound(m.to, x)
<1>1. /\ stage[s] = "ready" /\ getPartitionReady(s)
      /\ \A y \in ToSet(TxQueue[s]) : y.relayed => {Rows[y.tx].sender, Rows[y.tx].recipient} \cap ToSet(accounts) = {}
  BY DEF sendAccounts_and_Txs, Bad, Tag
<1>2. Stock /\ Kept /\ PartitionOn[s]
  BY <1>1, CalmFacts
<1>3. m.to \in Others(s) /\ SentTo(s, m.to, x) /\ \A a : a \in ToSet(accounts) <=> a \in AccountToFetch(s)
  BY <1>2, FreezeMoves DEF SentFrom
<1>4. /\ Holds(TxQueue[s], x) /\ Rows[x.tx].sender \in AccountToFetch(s)
      /\ Last(ModifiedMap[s])[Rows[x.tx].sender] = m.to
  BY <1>3 DEF SentTo, Leaves
<1>5. x \in ToSet(TxQueue[s])
  BY <1>2, <1>4, ToSetHolds DEF Stock
<1>6. ~x.relayed
  BY <1>1, <1>3, <1>4, <1>5
<1>7. Rows[x.tx].sender \in DOMAIN Last(ModifiedMap[s])
  BY <1>4 DEF AccountToFetch
<1>8. /\ AccountTransferRound[m.to] < Len(ModifiedMap[m.to])
      /\ ModifiedMap[m.to][AccountTransferRound[m.to] + 1] = Last(ModifiedMap[s])
  BY <1>1, <1>3, SameMap
<1> QED BY <1>4, <1>6, <1>7, <1>8 DEF Bound

\* What is bound for a shard stays so until that shard completes the round.
LEMMA BoundStays ==
  ASSUME Calm, ~Bad', [Next]_vars, NEW r \in Shard, ~accountTransfer_do(r), NEW x, Bound(r, x)
  PROVE  Bound(r, x)'
<1>1. CASE Quiet
  BY <1>1 DEF Quiet, Bound
<1>2. ASSUME NEW m \in msgs, handlePartitionMsg(m) PROVE Bound(r, x)'
  <2>1. /\ m.to \in Shard /\ ~PartitionOn[m.to] /\ UNCHANGED AccountTransferRound
        /\ \A u \in Shard : u # m.to => ModifiedMap'[u] = ModifiedMap[u]
    BY <1>2, MapFacts DEF Bad
  <2>2. AccountTransferRound[m.to] \in Nat /\ Len(ModifiedMap[m.to]) = AccountTransferRound[m.to]
    <3> DEFINE k == AccountTransferRound[m.to]
               l == Len(ModifiedMap[m.to])
    <3>1. k \in Nat /\ l = k + 0
      BY <2>1, CalmFacts
    <3> HIDE DEF k, l
    <3>2. l = k
      BY ONLY <3>1
    <3> QED BY <3>1, <3>2 DEF k, l
  <2> DEFINE n == AccountTransferRound[r]
  <2>3. r # m.to
    <3> SUFFICES ASSUME r = m.to PROVE FALSE
      OBVIOUS
    <3>1. n \in Nat /\ n < n
      BY <2>2 DEF Bound
    <3> HIDE DEF n
    <3> QED BY ONLY <3>1
  <2> QED BY <2>1, <2>3 DEF Bound
<1>3. ASSUME NEW s \in Shard, accountTransfer_do(s) PROVE Bound(r, x)'
  <2>1. UNCHANGED ModifiedMap /\ AccountTransferRound' = [AccountTransferRound EXCEPT ![s] = @ + 1]
    BY <1>3, TransferFacts
  <2>2. DOMAIN AccountTransferRound = Shard /\ s # r
    BY <1>3, CalmFacts DEF Kept
  <2>3. AccountTransferRound'[r] = AccountTransferRound[r]
    BY <2>1, <2>2
  <2> QED BY <2>1, <2>3 DEF Bound
<1> QED BY <1>1, <1>2, <1>3, QuietSteps

LEMMA AddressedStep ==
  ASSUME Calm, Fine, ~Bad', [Next]_vars
  PROVE  Addressed'
<1>1. PICK maps : Sent(maps)
  BY DEF Fine
<1>2. Addressed /\ DOMAIN AccountStateTx = Shard
  BY CalmFacts DEF Fine
<1>3. ASSUME NEW m \in msgs', m.type = "accounts", NEW x, Holds(m.txs, x) PROVE Bound(m.to, x)'
  <2>1. CASE m \in msgs
    <3>1. m.to \in Shard /\ Bound(m.to, x)
      BY <1>2, <1>3, <2>1, CalmFacts DEF Addressed, Letter
    <3>2. ~accountTransfer_do(m.to)
      BY <1>3, <2>1, <3>1, TransferFacts
    <3> QED BY <3>1, <3>2, BoundStays
  <2>2. CASE m \notin msgs
    <3>1. PICK s \in Shard : \E accounts \in SetToSeqs(AccountToFetch(s)) : sendAccounts_and_Txs(s, accounts)
      BY <1>3, <2>2, NewMessages
    <3>2. Bound(m.to, x) /\ UNCHANGED <<ModifiedMap, AccountTransferRound>>
      BY <1>1, <1>3, <2>2, <3>1, AddressedFreeze DEF sendAccounts_and_Txs, cdmVars
    <3> QED BY <3>2 DEF Bound
  <2> QED BY <2>1, <2>2
<1>4. ASSUME NEW s \in Shard, NEW x, Arrived(s, x)' PROVE Bound(s, x)'
  <2>1. CASE accountTransfer_do(s)
    <3>1. AccountStateTx'[s] = <<>>
      BY <1>2, <2>1 DEF accountTransfer_do
    <3>2. DOMAIN <<>> = {}
      OBVIOUS
    <3> QED BY <1>4, <3>1, <3>2 DEF Arrived
  <2>2. ASSUME NEW m \in msgs, handleAccountStateAndTxMsg(m), m.to = s, ~Arrived(s, x) PROVE Bound(s, x)'
    <3>1. m.type = "accounts" /\ Quiet
      BY <2>2 DEF handleAccountStateAndTxMsg, Receive, Quiet
    <3>2. AccountStateTx'[s] = [t \in DOMAIN AccountStateTx[s] \cup {m.from} |->
            IF t = m.from THEN [accounts |-> m.accounts, txs |-> m.txs] ELSE AccountStateTx[s][t]]
      BY <1>2, <2>2 DEF handleAccountStateAndTxMsg
    <3>3. PICK t \in DOMAIN AccountStateTx'[s] : Holds(AccountStateTx'[s][t].txs, x)
      BY <1>4 DEF Arrived
    <3>4. Holds(m.txs, x)
      BY <2>2, <3>2, <3>3 DEF Arrived
    <3>5. Bound(s, x)
      BY <1>2, <2>2, <3>1, <3>4 DEF Addressed
    <3> QED BY <3>1, <3>5 DEF Bound, Quiet
  <2>3. CASE Arrived(s, x) /\ ~accountTransfer_do(s)
    BY <1>2, <2>3, BoundStays DEF Addressed
  <2>4. ASSUME ~accountTransfer_do(s), ~(\E m \in msgs : handleAccountStateAndTxMsg(m) /\ m.to = s)
        PROVE  AccountStateTx'[s] = AccountStateTx[s]
    <3>1. UNCHANGED AccountStateTx \/ (\E m \in msgs : handleAccountStateAndTxMsg(m) /\ m.to # s)
          \/ \E u \in Shard : accountTransfer_do(u) /\ u # s
      BY <2>4 DEF Next, txSending, clpaMapSend, HandleBlockInfo, vars, HandleMessage, handleInjectTx, handleRelay,
         handlePartitionMsg, handlePartitionReady, HandleinPropose, CommitBlock,
         sendPartitionReady, sendAccounts_and_Txs, proposePartition, cdmVars
    <3> QED BY <1>2, <3>1 DEF handleAccountStateAndTxMsg, accountTransfer_do
  <2>5. Arrived(s, x) \/ accountTransfer_do(s) \/ \E m \in msgs : handleAccountStateAndTxMsg(m) /\ m.to = s
    BY <1>4, <2>4 DEF Arrived
  <2> QED BY <2>1, <2>2, <2>3, <2>5
<1> QED BY <1>3, <1>4 DEF Addressed

-----------------------------------------------------------------------------
\* Nothing is in a pool, on its way or under consensus at the start.
LEMMA FineInit == Init => ~Halted /\ Fine
<1> SUFFICES ASSUME Init PROVE ~Halted /\ Fine
  OBVIOUS
<1>1. /\ clpaCnt = 0 /\ curEpoch = 0 /\ reports = {} /\ msgs = {}
      /\ \A s \in Shard : /\ stage[s] = "idle" /\ TxQueue[s] = <<>> /\ ModifiedMap[s] = <<>>
                          /\ AccountStateTx[s] = <<>>
  BY DEF Init, PerShard
<1>2. DOMAIN <<>> = {} /\ Len(<<>>) = 0 /\ <<>> \in Seq(PartialMap) /\ \A x : ~Holds(<<>>, x)
  BY DEF Holds
<1>3. Sent(<<>>)
  BY <1>1, <1>2 DEF Sent
<1>4. Reports
  BY <1>1 DEF Reports, Reached
<1>5. InPlace
  BY <1>1, <1>2 DEF InPlace
<1>6. Addressed
  BY <1>1, <1>2 DEF Addressed, Arrived
<1>7. ~Halted /\ Requested
  BY <1>1 DEF Halted, Requested
<1> QED BY <1>3, <1>4, <1>5, <1>6, <1>7 DEF Fine

HaltInv == EpochInv /\ Stock /\ (Bad \/ (~Halted /\ Fine))

(***************************************************************************)
(* The checks of proposePartition ("error tx") and HandleinCommit          *)
(* ("incorrect tx") end a leader only after a transaction was late, a      *)
(* second half stayed behind, or a map came too early.  Until one of these *)
(* happens, what waits in a pool waits for an account of the shard, also   *)
(* by the map that is being carried out, what is sent with the accounts is *)
(* bound for the shard its receiver will be by its own map, and these maps *)
(* are the same in all shards.                                             *)
(***************************************************************************)
THEOREM HaltsExplained == Spec => []HaltExplained
<1>1. Init => HaltInv
  BY EpochInit, StockInit, FineInit DEF HaltInv
<1>2. HaltInv /\ [Next]_vars => HaltInv'
  <2> SUFFICES ASSUME HaltInv, [Next]_vars PROVE HaltInv'
    OBVIOUS
  <2>1. EpochInv /\ Stock /\ EpochInv' /\ Stock'
    BY EpochStep, StockStep DEF HaltInv
  <2>2. mishaps \subseteq mishaps'
    BY <2>1, EpochFacts, StageChange
  <2>3. ASSUME ~Bad' PROVE ~Halted' /\ Fine'
    <3>1. "map early" \notin mishaps' /\ ~Bad
      BY <2>2, <2>3 DEF Bad
    <3>2. Calm /\ Fine
      BY <2>1, <3>1 DEF HaltInv, Calm
    <3>3. ~Halted'
      BY <3>2, NoPanic
    <3>4. (\E maps : Sent(maps))' /\ Reports' /\ Requested'
      BY <3>1, <3>2, SentStep, ReportsStep, RequestedStep
    <3>5. InPlace' /\ Addressed'
      BY <2>3, <3>2, InPlaceStep, AddressedStep
    <3> QED BY <3>3, <3>4, <3>5 DEF Fine
  <2> QED BY <2>1, <2>3 DEF HaltInv
<1>3. HaltInv => HaltExplained
  BY DEF HaltInv, HaltExplained, Bad
<1> QED BY <1>1, <1>2, <1>3, PTL DEF Spec
=============================================================================
