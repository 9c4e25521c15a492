----------------------------- MODULE PbftProofs -----------------------------
(***************************************************************************)
(* Theorems about Pbft, for every number of nodes and every bound, and     *)
(* about Storage, for every tree of blocks.                                *)
(***************************************************************************)
EXTENDS Pbft, Storage, FiniteSetTheorems, TLAPS

LEMMA NodeFacts == 0 \in Node /\ Node \subseteq Nat
  BY NAssumption DEF Node

LEMMA QuorumFact == Quorum \in Nat /\ Quorum >= 1
  BY NAssumption DEF Quorum, malicious_nums

\* A digest is a positive number up to MaxBlocks.
LEMMA DigestFacts == Digest \subseteq Nat \ {0} /\ Digest \subseteq 0 .. MaxBlocks
  BY BoundAssumption DEF Digest

\* Adding a block to a chain gives a chain.
LEMMA AddBlockType ==
  ASSUME NEW c \in Seq(Digest), NEW d \in Digest
  PROVE  AddBlock(c, d) \in Seq(Digest)
  BY DEF AddBlock

LEMMA TipType ==
  ASSUME NEW c \in Seq(Digest)
  PROVE  Tip(c) \in 0 .. MaxBlocks
<1>1. CASE c = <<>>
  BY <1>1, BoundAssumption DEF Tip, NoDigest
<1>2. CASE c # <<>>
  <2>1. c[Len(c)] \in Digest
    BY <1>2
  <2> QED BY <1>2, <2>1, DigestFacts DEF Tip
<1> QED BY <1>1, <1>2

\* The proposing routine keeps the types.
LEMMA ProposeTypes ==
  ASSUME NEW n \in Node, TypeOK, Propose(n)
  PROVE  TypeOK'
<1> USE DEF TypeOK, blockVars, consVars, voteVars, lockVars, viewVars, oldVars, msgVars
<1>1. CASE BeginRound(n)
  <2>1. LocksTyped'
    BY <1>1 DEF BeginRound, LocksTyped
  <2> QED BY <1>1, <2>1 DEF BeginRound, BlocksTyped, NodesTyped, VotesTyped,
             MessagesTyped, OldsTyped, ViewsTyped
<1>2. CASE SendPrePrepare(n)
  <2>1. proposed + 1 \in Digest /\ Tip(chain[n]) \in 0 .. MaxBlocks
    BY <1>2, BoundAssumption, TipType DEF SendPrePrepare, BlocksTyped, Digest
  <2>2. BlocksTyped'
    BY <1>2, <2>1, DigestFacts, SMTT(30) DEF SendPrePrepare, BlocksTyped, NodesTyped
  <2>3. NodesTyped'
    BY <1>2, <2>1, DigestFacts DEF SendPrePrepare, NodesTyped
  <2>4. LocksTyped'
    BY <1>2 DEF SendPrePrepare, LocksTyped
  <2>5. MessagesTyped'
    BY <1>2, <2>1 DEF SendPrePrepare, MessagesTyped
  <2> QED BY <1>2, <2>2, <2>3, <2>4, <2>5 DEF SendPrePrepare, VotesTyped, OldsTyped, ViewsTyped
<1>3. CASE StoreStage(n)
  <2>1. NodesTyped'
    BY <1>3 DEF StoreStage, NodesTyped
  <2>2. LocksTyped'
    BY <1>3 DEF StoreStage, LocksTyped
  <2> QED BY <1>3, <2>1, <2>2 DEF StoreStage, BlocksTyped, VotesTyped,
             MessagesTyped, OldsTyped, ViewsTyped
<1> QED BY <1>1, <1>2, <1>3 DEF Propose

\* Counting messages: one entry, or the entry of every node.
LEMMA BumpOne ==
  ASSUME NEW f \in [Node -> [Digest -> Nat]], NEW n \in Node, NEW d \in Digest
  PROVE  /\ [f EXCEPT ![n][d] = @ + 1] \in [Node -> [Digest -> Nat]]
         /\ f[n][d] > 0 => [f EXCEPT ![n][d] = @ - 1] \in [Node -> [Digest -> Nat]]
<1>1. f[n][d] \in Nat
  OBVIOUS
<1>2. [f[n] EXCEPT ![d] = @ + 1] \in [Digest -> Nat]
  BY <1>1
<1>3. f[n][d] > 0 => [f[n] EXCEPT ![d] = @ - 1] \in [Digest -> Nat]
  BY <1>1
<1> QED BY <1>2, <1>3

LEMMA BumpAll ==
  ASSUME NEW f \in [Node -> [Digest -> Nat]], NEW d \in Digest
  PROVE  [m \in Node |-> [f[m] EXCEPT ![d] = @ + 1]] \in [Node -> [Digest -> Nat]]
<1>1. ASSUME NEW m \in Node PROVE [f[m] EXCEPT ![d] = @ + 1] \in [Digest -> Nat]
  OBVIOUS
<1> QED BY <1>1

\* The handlers of the three phases keep the types.
LEMMA PrePrepareTypes ==
  ASSUME NEW n \in Node, NEW d \in Digest, TypeOK, handlePrePrepare(n, d)
  PROVE  TypeOK'
<1> USE DEF TypeOK, blockVars, consVars, voteVars, lockVars, viewVars, oldVars, msgVars
<1>1. NodesTyped'
  <2>1. height2Digest' \in [Node -> [Digest -> 0 .. MaxBlocks]]
    BY DigestFacts DEF handlePrePrepare, NodesTyped
  <2>2. pbftStage' = [pbftStage EXCEPT ![n] = @ + 1] \/ pbftStage' = pbftStage
    BY DEF handlePrePrepare
  <2>3. pbftStage' \in [Node -> Nat]
    BY <2>2 DEF NodesTyped
  <2> QED BY <2>1, <2>3 DEF handlePrePrepare, NodesTyped
<1>2. MessagesTyped'
  <2>1. \/ prepares' = [m \in Node |-> [prepares[m] EXCEPT ![d] = @ + 1]]
        \/ prepares' = prepares
    BY DEF handlePrePrepare
  <2>2. prepares' \in [Node -> [Digest -> Nat]]
    BY <2>1, BumpAll DEF MessagesTyped
  <2>3. \/ prepareSenders' = [prepareSenders EXCEPT ![d] = @ \cup {n}]
        \/ prepareSenders' = prepareSenders
    BY DEF handlePrePrepare
  <2>4. prepareSenders' \in [Digest -> SUBSET Node]
    BY <2>3 DEF MessagesTyped
  <2> QED BY <2>2, <2>4 DEF handlePrePrepare, MessagesTyped
<1> QED BY <1>1, <1>2 DEF handlePrePrepare, BlocksTyped, VotesTyped, LocksTyped,
           OldsTyped, ViewsTyped

LEMMA PrepareTypes ==
  ASSUME NEW n \in Node, NEW d \in Digest, TypeOK, handlePrepare(n, d)
  PROVE  TypeOK'
<1> USE DEF TypeOK, blockVars, consVars, voteVars, lockVars, viewVars, oldVars, msgVars
<1>1. NodesTyped'
  <2>1. pbftStage' = [pbftStage EXCEPT ![n] = @ + 1] \/ pbftStage' = pbftStage
    BY DEF handlePrepare
  <2>2. pbftStage' \in [Node -> Nat]
    BY <2>1 DEF NodesTyped
  <2> QED BY <2>2 DEF handlePrepare, NodesTyped
<1>2. MessagesTyped'
  <2>1. prepares' = [prepares EXCEPT ![n][d] = @ - 1] /\ prepares[n][d] > 0
    BY DEF handlePrepare
  <2>2. prepares' \in [Node -> [Digest -> Nat]]
    BY <2>1, BumpOne DEF MessagesTyped
  <2>3. \/ commits' = [m \in Node |-> [commits[m] EXCEPT ![d] = @ + 1]]
        \/ commits' = commits
    BY DEF handlePrepare
  <2>4. commits' \in [Node -> [Digest -> Nat]]
    <3>1. commits \in [Node -> [Digest -> Nat]]
      BY DEF MessagesTyped
    <3>2. [m \in Node |-> [commits[m] EXCEPT ![d] = @ + 1]] \in [Node -> [Digest -> Nat]]
      BY <3>1, BumpAll
    <3> QED BY <2>3, <3>1, <3>2
  <2>5. commitSenders' \in [Digest -> SUBSET Node]
    BY DEF handlePrepare, MessagesTyped
  <2> QED BY <2>2, <2>4, <2>5 DEF handlePrepare, MessagesTyped
<1>3. VotesTyped'
  <2>1. \/ cntPrepareConfirm' = [cntPrepareConfirm EXCEPT ![n][d] = @ + 1]
        \/ cntPrepareConfirm' = cntPrepareConfirm
    BY DEF handlePrepare
  <2>2. cntPrepareConfirm' \in [Node -> [Digest -> Nat]]
    <3>1. cntPrepareConfirm \in [Node -> [Digest -> Nat]]
      BY DEF VotesTyped
    <3>2. [cntPrepareConfirm EXCEPT ![n][d] = @ + 1] \in [Node -> [Digest -> Nat]]
      BY <3>1, BumpOne
    <3> QED BY <2>1, <3>1, <3>2
  <2>3. \/ isCommitBordcast' = [isCommitBordcast EXCEPT ![n] = @ \cup {d}]
        \/ isCommitBordcast' = isCommitBordcast
    BY DEF handlePrepare
  <2>4. isCommitBordcast' \in [Node -> SUBSET Digest]
    BY <2>3 DEF VotesTyped
  <2> QED BY <2>2, <2>4 DEF handlePrepare, VotesTyped
<1> QED BY <1>1, <1>2, <1>3 DEF handlePrepare, BlocksTyped, LocksTyped,
           OldsTyped, ViewsTyped

\* What EndOfRound and AskForOld leave behind.
LEMMA EndOfRoundTypes ==
  ASSUME NEW n \in Node, TypeOK, EndOfRound(n)
  PROVE  /\ pbftStage' \in [Node -> Nat]
         /\ sequenceLock' \in [Node -> BOOLEAN]
         /\ fatal' \in [Node -> BOOLEAN]
<1> USE DEF TypeOK, NodesTyped, LocksTyped
<1>1. pbftStage' \in [Node -> Nat]
  BY DEF EndOfRound
<1>2. sequenceLock' \in [Node -> BOOLEAN]
  <2>1. sequenceLock' = [sequenceLock EXCEPT ![n] = FALSE] \/ sequenceLock' = sequenceLock
    BY DEF EndOfRound
  <2> QED BY <2>1
<1>3. fatal' \in [Node -> BOOLEAN]
  <2>1. fatal' = [fatal EXCEPT ![n] = ~sequenceLock[n]] \/ fatal' = fatal
    BY DEF EndOfRound
  <2> QED BY <2>1
<1> QED BY <1>1, <1>2, <1>3

LEMMA AskForOldTypes ==
  ASSUME NEW n \in Node, NEW d \in Digest, TypeOK, AskForOld(n, d)
  PROVE  /\ askForLock' \in [Node -> BOOLEAN]
         /\ requestOlds' \subseteq [to : Node, from : Node, first : Nat, last : Nat]
  BY SMTT(30) DEF AskForOld, TypeOK, BlocksTyped, NodesTyped, LocksTyped, OldsTyped

LEMMA CommitTypes ==
  ASSUME NEW n \in Node, NEW d \in Digest, TypeOK, handleCommit(n, d)
  PROVE  TypeOK'
<1> USE DEF TypeOK, blockVars, consVars, voteVars, lockVars, viewVars, oldVars, msgVars
<1>1. MessagesTyped'
  <2>1. commits' \in [Node -> [Digest -> Nat]]
    BY BumpOne DEF handleCommit, MessagesTyped
  <2> QED BY <2>1 DEF handleCommit, MessagesTyped
<1>2. VotesTyped'
  <2>1. cntCommitConfirm' \in [Node -> [Digest -> Nat]]
    BY BumpOne DEF handleCommit, VotesTyped
  <2>2. isReply' = [isReply EXCEPT ![n] = @ \cup {d}] \/ isReply' = isReply
    BY DEF handleCommit
  <2>3. isReply' \in [Node -> SUBSET Digest]
    BY <2>2 DEF VotesTyped
  <2> QED BY <2>1, <2>3 DEF handleCommit, VotesTyped
<1>3. ViewsTyped' /\ view' = view /\ requestPool' = requestPool
      /\ height2Digest' = height2Digest /\ proposer' = proposer
      /\ sendOlds' = sendOlds /\ UNCHANGED blockVars
  BY DEF handleCommit, ViewsTyped
<1>4. CASE ~CommittedNow(n, d)
  BY <1>1, <1>2, <1>3, <1>4 DEF handleCommit, BlocksTyped, NodesTyped, LocksTyped, OldsTyped
<1>5. CASE CommittedNow(n, d) /\ d \in requestPool[n]
  <2>1. CommitRequest(n, d)
    BY <1>5 DEF handleCommit
  <2>2. chain' \in [Node -> Seq(Digest)] /\ sequenceID' \in [Node -> Nat]
    BY <2>1, AddBlockType DEF CommitRequest, BlocksTyped, NodesTyped
  <2>3. relayed' \in [Digest -> Nat]
    BY <2>1 DEF CommitRequest, RelayByLeader, BlocksTyped
  <2> QED BY <1>1, <1>2, <1>3, <2>1, <2>2, <2>3, EndOfRoundTypes
          DEF CommitRequest, BlocksTyped, NodesTyped, LocksTyped, OldsTyped
<1>6. CASE CommittedNow(n, d) /\ d \notin requestPool[n]
  <2>1. CommitMissing(n, d)
    BY <1>6 DEF handleCommit
  <2>2. parked' \in [Node -> 0 .. MaxBlocks]
    BY <2>1, DigestFacts DEF CommitMissing, LocksTyped
  <2>3. CASE askForLock[n]
    BY <1>1, <1>2, <1>3, <2>1, <2>2, <2>3
       DEF CommitMissing, BlocksTyped, NodesTyped, LocksTyped, OldsTyped
  <2>4. CASE ~askForLock[n]
    <3>1. AskForOld(n, d) /\ EndOfRound(n) /\ UNCHANGED <<chain, relayed, sequenceID>>
      BY <2>1, <2>4 DEF CommitMissing
    <3> QED BY <1>1, <1>2, <1>3, <2>2, <3>1, EndOfRoundTypes, AskForOldTypes
            DEF BlocksTyped, NodesTyped, LocksTyped, OldsTyped
  <2> QED BY <2>3, <2>4
<1> QED BY <1>4, <1>5, <1>6

LEMMA ResumeTypes ==
  ASSUME NEW n \in Node, TypeOK, ResumeCommit(n)
  PROVE  TypeOK'
<1> USE DEF TypeOK, blockVars, consVars, voteVars, lockVars, viewVars, oldVars, msgVars
<1>1. parked[n] \in Digest
  BY BoundAssumption DEF ResumeCommit, LocksTyped, NoDigest, Digest
<1>2. AskForOld(n, parked[n]) /\ EndOfRound(n)
  BY DEF ResumeCommit
<1>3. parked' \in [Node -> 0 .. MaxBlocks]
  BY BoundAssumption DEF ResumeCommit, LocksTyped, NoDigest
<1> QED BY <1>1, <1>2, <1>3, EndOfRoundTypes, AskForOldTypes
        DEF ResumeCommit, BlocksTyped, NodesTyped, VotesTyped, LocksTyped,
            MessagesTyped, OldsTyped, ViewsTyped

\* The catch-up keeps the types.
LEMMA RequestOldTypes ==
  ASSUME NEW n \in Node, NEW m \in requestOlds, TypeOK, handleRequestOldSeq(n, m)
  PROVE  TypeOK'
<1> USE DEF TypeOK, blockVars, consVars, voteVars, lockVars, viewVars, oldVars, msgVars
<1>1. m \in [to : Node, from : Node, first : Nat, last : Nat]
  BY DEF OldsTyped
<1>2. PICK k \in 0 .. MaxBlocks :
        /\ OldRun(n, m.first, m.last, k)
        /\ sendOlds' = sendOlds \cup
             {[to |-> m.from, first |-> m.first, last |-> m.last, added |-> 0,
               old |-> [i \in 1 .. k |-> DigestAt(n, m.first + i - 1)]]}
  BY DEF handleRequestOldSeq
<1>3. ASSUME NEW i \in 1 .. k PROVE DigestAt(n, m.first + i - 1) \in Digest
  <2>1. m.first + i - 1 \in m.first .. m.first + k - 1
    BY <1>1, BoundAssumption
  <2>2. HasOld(n, m.first + i - 1)
    BY <1>2, <2>1 DEF OldRun
  <2> QED BY <2>2 DEF HasOld, NodesTyped
<1>4. [i \in 1 .. k |-> DigestAt(n, m.first + i - 1)] \in Seq(Digest)
  BY <1>3, BoundAssumption
<1>5. OldsTyped'
  BY <1>1, <1>2, <1>4 DEF handleRequestOldSeq, OldsTyped
<1> QED BY <1>5 DEF handleRequestOldSeq, BlocksTyped, NodesTyped, VotesTyped,
           LocksTyped, MessagesTyped, ViewsTyped

LEMMA AddOldTypes ==
  ASSUME NEW n \in Node, NEW m \in sendOlds, TypeOK, AddOldBlock(n, m)
  PROVE  TypeOK'
<1> USE DEF TypeOK, blockVars, consVars, voteVars, lockVars, viewVars, oldVars, msgVars
<1>1. m \in [to : Node, first : Nat, last : Nat, added : Nat, old : Seq(Digest)]
  BY DEF OldsTyped
<1>2. m.old[m.added + 1] \in Digest
  BY <1>1 DEF AddOldBlock
<1>3. BlocksTyped'
  BY <1>2, AddBlockType DEF AddOldBlock, BlocksTyped
<1>4. OldsTyped'
  BY <1>1 DEF AddOldBlock, OldsTyped
<1> QED BY <1>3, <1>4 DEF AddOldBlock, NodesTyped, VotesTyped, LocksTyped,
           MessagesTyped, ViewsTyped

LEMMA SendOldTypes ==
  ASSUME NEW n \in Node, NEW m \in sendOlds, TypeOK, handleSendOldSeq(n, m)
  PROVE  TypeOK'
<1> USE DEF TypeOK, blockVars, consVars, voteVars, lockVars, viewVars, oldVars, msgVars
<1>1. m \in [to : Node, first : Nat, last : Nat, added : Nat, old : Seq(Digest)]
  BY DEF OldsTyped
<1> DEFINE olds == {m.old[i] : i \in 1 .. Len(m.old)}
           pool == requestPool[n] \cup olds
           h2d == [h \in Digest |-> IF h \in m.first .. m.first + Len(m.old) - 1
                                      THEN m.old[h - m.first + 1]
                                      ELSE height2Digest[n][h]]
           d == IF m.last + 1 \in Digest THEN h2d[m.last + 1] ELSE NoDigest
<1>2. olds \subseteq Digest
  BY <1>1
<1>3. h2d \in [Digest -> 0 .. MaxBlocks]
  <2> SUFFICES ASSUME NEW h \in Digest
               PROVE  h2d[h] \in 0 .. MaxBlocks
    OBVIOUS
  <2>1. CASE h \in m.first .. m.first + Len(m.old) - 1
    <3>1. h - m.first + 1 \in 1 .. Len(m.old)
      BY <1>1, <2>1, DigestFacts
    <3>2. m.old[h - m.first + 1] \in Digest
      BY <1>1, <3>1
    <3> QED BY <2>1, <3>2, DigestFacts
  <2>2. CASE h \notin m.first .. m.first + Len(m.old) - 1
    BY <2>2 DEF NodesTyped
  <2> QED BY <2>1, <2>2
<1>4. requestPool' = [requestPool EXCEPT ![n] = pool]
      /\ height2Digest' = [height2Digest EXCEPT ![n] = h2d]
      /\ isReply' = [isReply EXCEPT ![n] = @ \cup olds]
      /\ sequenceID' = [sequenceID EXCEPT ![n] = m.last + 1]
  BY DEF handleSendOldSeq
<1> HIDE DEF h2d
<1>5. NodesTyped'
  <2>1. view' = view /\ pbftStage' = pbftStage
    BY DEF handleSendOldSeq
  <2>2. sequenceID' \in [Node -> Nat] /\ requestPool' \in [Node -> SUBSET Digest]
    BY <1>1, <1>2, <1>4 DEF NodesTyped
  <2>3. height2Digest' \in [Node -> [Digest -> 0 .. MaxBlocks]]
    BY <1>3, <1>4 DEF NodesTyped
  <2> QED BY <2>1, <2>2, <2>3 DEF NodesTyped
<1>6. VotesTyped'
  BY <1>2, <1>4 DEF handleSendOldSeq, VotesTyped
<1>7. LocksTyped'
  BY DEF handleSendOldSeq, LocksTyped
<1>8. d = NoDigest \/ d \in Digest
  BY <1>3, DigestFacts DEF NoDigest, Digest
<1>9. MessagesTyped'
  <2>1. \/ /\ d # NoDigest
           /\ prepares' = [k \in Node |-> IF k = n THEN prepares[k]
                                          ELSE [prepares[k] EXCEPT ![d] = @ + 1]]
           /\ prepareSenders' = [prepareSenders EXCEPT ![d] = @ \cup {n}]
        \/ UNCHANGED <<prepares, prepareSenders>>
    BY DEF handleSendOldSeq, h2d
  <2>2. prePrepares' = prePrepares /\ commits' = commits /\ commitSenders' = commitSenders
    BY DEF handleSendOldSeq
  <2> HIDE DEF d
  <2>3. CASE UNCHANGED <<prepares, prepareSenders>>
    BY <2>2, <2>3 DEF MessagesTyped
  <2>4. CASE d # NoDigest /\ ~UNCHANGED <<prepares, prepareSenders>>
    <3>1. d \in Digest
      BY <1>8, <2>4
    <3>2. ASSUME NEW k \in Node
          PROVE  [prepares[k] EXCEPT ![d] = @ + 1] \in [Digest -> Nat]
      BY <3>1 DEF MessagesTyped
    <3>3. prepares' \in [Node -> [Digest -> Nat]]
      BY <2>1, <2>4, <3>2 DEF MessagesTyped
    <3>4. prepareSenders' \in [Digest -> SUBSET Node]
      BY <2>1, <2>4 DEF MessagesTyped
    <3> QED BY <2>2, <3>3, <3>4 DEF MessagesTyped
  <2> QED BY <2>1, <2>3, <2>4
<1>10. OldsTyped'
  BY DEF handleSendOldSeq, OldsTyped
<1> QED BY <1>5, <1>6, <1>7, <1>9, <1>10 DEF handleSendOldSeq, BlocksTyped, ViewsTyped

\* The view change keeps the types.
LEMMA NextViewType ==
  ASSUME NEW n \in Node, TypeOK
  PROVE  (view[n] + 1) % N \in Node
<1>1. view[n] \in Nat
  <2>1. view[n] \in Node
    BY DEF TypeOK, NodesTyped
  <2> QED BY <2>1, NodeFacts
<1> DEFINE w == view[n] + 1
<1>2. w \in Nat
  BY <1>1
<1> HIDE DEF w
<1>3. w % N \in 0 .. N - 1
  BY <1>2, NAssumption
<1> QED BY <1>3 DEF w, Node

LEMMA ViewProposeTypes ==
  ASSUME NEW n \in Node, TypeOK, viewChangePropose(n)
  PROVE  TypeOK'
<1> USE DEF TypeOK, blockVars, consVars, voteVars, lockVars, viewVars, oldVars, msgVars
<1>1. NodesTyped'
  BY DEF viewChangePropose, NodesTyped
<1>2. ViewsTyped'
  <2> DEFINE w == (view[n] + 1) % N
  <2>1. w \in Node
    BY NextViewType
  <2>2. viewChanges' = viewChanges \cup
          {[to |-> m, from |-> n, next |-> w, seq |-> sequenceID[n]] : m \in Node}
    BY DEF viewChangePropose
  <2> HIDE DEF w
  <2>3. viewChanges' \subseteq ViewMsg
    BY <2>1, <2>2 DEF ViewsTyped, ViewMsg, NodesTyped
  <2> QED BY <2>3 DEF viewChangePropose, ViewsTyped
<1> QED BY <1>1, <1>2 DEF viewChangePropose, BlocksTyped, VotesTyped, LocksTyped,
           MessagesTyped, OldsTyped

LEMMA ViewChangeTypes ==
  ASSUME NEW n \in Node, NEW v \in viewChanges, TypeOK, handleViewChangeMsg(n, v)
  PROVE  TypeOK'
<1> USE DEF TypeOK, blockVars, consVars, voteVars, lockVars, viewVars, oldVars, msgVars
<1>1. v \in ViewMsg
  BY DEF ViewsTyped
<1>2. viewChangeMap' \in [Node -> SUBSET ViewMsg] /\ viewChanges' \subseteq ViewMsg
  BY <1>1 DEF handleViewChangeMsg, ViewsTyped
<1>3. {[to |-> m, from |-> n, next |-> (view[n] + 1) % N, seq |-> sequenceID[n]] : m \in Node}
        \subseteq ViewMsg
  BY NextViewType DEF ViewMsg, NodesTyped
<1>4. ViewsTyped'
  BY <1>2, <1>3 DEF handleViewChangeMsg, ViewsTyped
<1> QED BY <1>4 DEF handleViewChangeMsg, BlocksTyped, NodesTyped, VotesTyped,
           LocksTyped, MessagesTyped, OldsTyped

LEMMA NewViewTypes ==
  ASSUME NEW n \in Node, NEW v \in newViews, TypeOK, handleNewViewMsg(n, v)
  PROVE  TypeOK'
<1> USE DEF TypeOK, blockVars, consVars, voteVars, lockVars, viewVars, oldVars, msgVars
<1>1. v \in ViewMsg
  BY DEF ViewsTyped
<1>2. NodesTyped'
  <2>1. /\ \/ /\ view' = [view EXCEPT ![n] = v.next]
              /\ sequenceID' = [sequenceID EXCEPT ![n] = v.seq]
              /\ pbftStage' = [pbftStage EXCEPT ![n] = 1]
           \/ UNCHANGED <<view, sequenceID, pbftStage>>
        /\ UNCHANGED <<requestPool, height2Digest>>
    BY DEF handleNewViewMsg
  <2>2. v.next \in Node /\ v.seq \in Nat
    BY <1>1 DEF ViewMsg
  <2>3. view' \in [Node -> Node] /\ sequenceID' \in [Node -> Nat]
    BY <2>1, <2>2 DEF NodesTyped
  <2>4. pbftStage' \in [Node -> Nat]
    BY <2>1, SMTT(30) DEF NodesTyped
  <2> QED BY <2>1, <2>3, <2>4 DEF NodesTyped
<1>3. ViewsTyped'
  BY <1>1 DEF handleNewViewMsg, ViewsTyped
<1> QED BY <1>2, <1>3 DEF handleNewViewMsg, BlocksTyped, VotesTyped,
           LocksTyped, MessagesTyped, OldsTyped

\* A restart keeps the types.
LEMMA RestartTypes ==
  ASSUME NEW n \in Node, TypeOK, Restart(n)
  PROVE  TypeOK'
<1> USE DEF TypeOK, blockVars, consVars, voteVars, lockVars, viewVars, oldVars, msgVars
<1>1. NodesTyped'
  <2>1. [h \in Digest |-> NoDigest] \in [Digest -> 0 .. MaxBlocks]
    BY BoundAssumption DEF NoDigest
  <2> QED BY <2>1, NodeFacts, SMTT(30) DEF Restart, NodesTyped, BlocksTyped
<1>2. VotesTyped'
  BY DEF Restart, VotesTyped
<1>3. LocksTyped'
  BY BoundAssumption DEF Restart, LocksTyped, NoDigest
<1>4. ViewsTyped'
  BY DEF Restart, ViewsTyped
<1>5. OldsTyped'
  BY DEF Restart, OldsTyped
<1> QED BY <1>1, <1>2, <1>3, <1>4, <1>5 DEF Restart, BlocksTyped, MessagesTyped

\* Every step keeps the types.
LEMMA TypeStep ==
  ASSUME TypeOK, [Next]_vars
  PROVE  TypeOK'
<1>1. CASE UNCHANGED vars
  BY <1>1 DEF vars, blockVars, consVars, voteVars, lockVars, viewVars, oldVars, msgVars,
     TypeOK, BlocksTyped, NodesTyped, VotesTyped, LocksTyped, MessagesTyped, OldsTyped,
     ViewsTyped
<1>2. CASE Next
  BY <1>2, ProposeTypes, PrePrepareTypes, PrepareTypes, CommitTypes, ResumeTypes,
     RequestOldTypes, AddOldTypes, SendOldTypes, ViewProposeTypes, ViewChangeTypes,
     NewViewTypes, RestartTypes DEF Next
<1> QED BY <1>1, <1>2

\* Type correctness: no order of messages, timeouts and restarts makes a
\* variable of a node or a message ill-formed.
THEOREM TypeCorrect == Spec => []TypeOK
<1>1. Init => TypeOK
  BY NodeFacts, BoundAssumption DEF Init, TypeOK, BlocksTyped, NodesTyped, VotesTyped,
     LocksTyped, MessagesTyped, OldsTyped, ViewsTyped, NoDigest, Digest
<1> QED BY <1>1, TypeStep, PTL DEF Spec

-----------------------------------------------------------------------------
(* The shard has one chain while the first leader is in office.            *)

LEMMA TipInOrder ==
  ASSUME NEW c \in Seq(Digest), \A i \in 1 .. Len(c) : c[i] = i
  PROVE  Tip(c) = Len(c)
<1>1. CASE c = <<>>
  BY <1>1 DEF Tip, NoDigest
<1>2. CASE c # <<>>
  <2>1. Len(c) \in 1 .. Len(c)
    BY <1>2
  <2> QED BY <1>2, <2>1 DEF Tip
<1> QED BY <1>1, <1>2

\* A chain that counts up goes on counting up, whatever AddBlock is offered.
LEMMA AddInOrder ==
  ASSUME TypeOK, ProposalsInOrder, NEW c \in Seq(Digest), NEW d \in Digest,
         Len(c) <= proposed, \A i \in 1 .. Len(c) : c[i] = i
  PROVE  /\ Len(AddBlock(c, d)) <= proposed
         /\ \A i \in 1 .. Len(AddBlock(c, d)) : AddBlock(c, d)[i] = i
         /\ d = Len(c) + 1 /\ d <= proposed => Len(AddBlock(c, d)) = Len(c) + 1
<1> USE DigestFacts
<1>1. proposed \in Nat /\ blocks[d].number \in Nat
  BY BoundAssumption DEF TypeOK, BlocksTyped
<1>2. CASE blocks[d].number = Len(c) + 1 /\ blocks[d].parent = Tip(c)
  <2>1. d <= proposed /\ d = Len(c) + 1
    BY <1>1, <1>2 DEF ProposalsInOrder
  <2>2. AddBlock(c, d) = Append(c, d)
    BY <1>2 DEF AddBlock
  <2>3. Len(Append(c, d)) = Len(c) + 1
    OBVIOUS
  <2>4. ASSUME NEW i \in 1 .. Len(c) + 1 PROVE Append(c, d)[i] = i
    BY <2>1
  <2> QED BY <2>1, <2>2, <2>3, <2>4
<1>3. CASE ~(blocks[d].number = Len(c) + 1 /\ blocks[d].parent = Tip(c))
  <2>1. AddBlock(c, d) = c
    BY <1>3 DEF AddBlock
  <2>2. ~(d = Len(c) + 1 /\ d <= proposed)
    <3> SUFFICES ASSUME d = Len(c) + 1, d <= proposed PROVE FALSE
      OBVIOUS
    <3>1. blocks[d].number = d /\ blocks[d].parent = d - 1
      BY DEF ProposalsInOrder
    <3>2. Tip(c) = d - 1
      BY TipInOrder
    <3> QED BY <1>3, <3>1, <3>2
  <2> QED BY <2>1, <2>2
<1> QED BY <1>2, <1>3

\* A step that leaves the blocks, the chains and what FirstLeader speaks of
\* alone keeps the invariant.
LEMMA SingleChainFrame ==
  ASSUME TypeOK, SingleChain,
         Undisturbed' => Undisturbed,
         UNCHANGED <<blocks, proposed, chain>>,
         Undisturbed => FirstLeader'
  PROVE  SingleChain'
  BY DEF SingleChain, ProposalsInOrder, ChainsInOrder

LEMMA ProposeChain ==
  ASSUME NEW n \in Node, TypeOK, SingleChain, Propose(n)
  PROVE  SingleChain'
<1> USE DEF blockVars, consVars, voteVars, lockVars, viewVars, oldVars, msgVars
<1> SUFFICES ASSUME Undisturbed'
             PROVE  ProposalsInOrder' /\ ChainsInOrder' /\ FirstLeader'
  BY DEF SingleChain
<1>1. Undisturbed
  BY DEF Propose, BeginRound, SendPrePrepare, StoreStage, Undisturbed
<1>2. ProposalsInOrder /\ ChainsInOrder /\ FirstLeader
  BY <1>1 DEF SingleChain
<1>3. proposer \in [Node -> {"idle", "locking", "sent"}]
  BY DEF TypeOK, LocksTyped
<1>4. CASE BeginRound(n)
  <2>1. n = 0
    BY <1>2, <1>4 DEF BeginRound, FirstLeader
  <2>2. UNCHANGED <<blocks, proposed, chain>>
    BY <1>4 DEF BeginRound
  <2>3. ASSUME NEW m \in Node, m # 0 PROVE proposer'[m] = proposer[m]
    BY <1>3, <1>4, <2>1, <2>3 DEF BeginRound
  <2>4. FirstLeader'
    BY <1>2, <1>4, <2>3 DEF BeginRound, FirstLeader
  <2> QED BY <1>2, <2>2, <2>4 DEF ProposalsInOrder, ChainsInOrder
<1>5. CASE StoreStage(n)
  <2>1. n = 0
    BY <1>2, <1>5 DEF StoreStage, FirstLeader
  <2>2. UNCHANGED <<blocks, proposed, chain>>
    BY <1>5 DEF StoreStage
  <2>3. ASSUME NEW m \in Node, m # 0 PROVE proposer'[m] = proposer[m]
    BY <1>3, <1>5, <2>1, <2>3 DEF StoreStage
  <2>4. FirstLeader'
    BY <1>2, <1>5, <2>3 DEF StoreStage, FirstLeader
  <2> QED BY <1>2, <2>2, <2>4 DEF ProposalsInOrder, ChainsInOrder
<1>6. CASE SendPrePrepare(n)
  <2>1. n = 0 /\ ~sequenceLock[0]
    BY <1>2, <1>6 DEF SendPrePrepare, FirstLeader
  <2>2. /\ proposed \in Nat /\ proposed + 1 \in Digest
        /\ chain[0] \in Seq(Digest)
    BY <1>6, BoundAssumption, NodeFacts DEF SendPrePrepare, TypeOK, BlocksTyped, Digest
  <2>3. proposed = Len(chain[0]) /\ Tip(chain[0]) = proposed
    <3>1. proposed = Len(chain[0])
      BY <1>2, <2>1, <2>2 DEF FirstLeader
    <3> QED BY <1>2, <2>2, <3>1, TipInOrder, NodeFacts DEF ChainsInOrder
  <2>4. blocks' = [blocks EXCEPT ![proposed + 1] =
                     [parent |-> proposed, number |-> proposed + 1, seq |-> proposed + 1]]
    BY <1>2, <1>6, <2>1, <2>3 DEF SendPrePrepare, FirstLeader
  <2>5. proposed' = proposed + 1 /\ chain' = chain
    BY <1>6 DEF SendPrePrepare
  <2>6. ProposalsInOrder'
    <3> SUFFICES ASSUME NEW d \in Digest
                 PROVE  /\ d <= proposed + 1 => /\ blocks'[d].parent = d - 1
                                                /\ blocks'[d].number = d
                                                /\ blocks'[d].seq = d
                        /\ d > proposed + 1 => blocks'[d].number = 0 /\ blocks'[d].seq = 0
      BY <2>5 DEF ProposalsInOrder
    <3>1. d \in Nat
      BY DigestFacts
    <3>2. blocks \in [Digest -> [parent : 0 .. MaxBlocks, number : Nat, seq : Nat]]
      BY DEF TypeOK, BlocksTyped
    <3>3. CASE d = proposed + 1
      BY <2>2, <2>4, <3>1, <3>2, <3>3
    <3>4. CASE d # proposed + 1
      <4>1. blocks'[d] = blocks[d]
        BY <2>4, <3>2, <3>4
      <4> QED BY <1>2, <2>2, <3>1, <3>4, <4>1 DEF ProposalsInOrder
    <3> QED BY <3>3, <3>4
  <2>7. ChainsInOrder'
    <3>1. \A m \in Node : Len(chain[m]) \in Nat
      BY DEF TypeOK, BlocksTyped
    <3> QED BY <1>2, <2>2, <2>5, <3>1 DEF ChainsInOrder
  <2>8. FirstLeader'
    <3>1. sequenceLock'[0] = TRUE
      BY <1>6, <2>1, NodeFacts DEF SendPrePrepare, TypeOK, LocksTyped
    <3>2. requestPool'[0] = requestPool[0] \cup {proposed + 1}
      BY <1>6, <2>1, NodeFacts DEF SendPrePrepare, TypeOK, NodesTyped
    <3>3. 1 .. proposed' \subseteq requestPool'[0]
      <4>1. 1 .. proposed + 1 = (1 .. proposed) \cup {proposed + 1}
        BY <2>2
      <4> QED BY <1>2, <2>5, <3>2, <4>1 DEF FirstLeader
    <3>4. ASSUME NEW m \in Node, m # 0 PROVE proposer'[m] = "idle"
      BY <1>2, <1>3, <1>6, <2>1, <3>4 DEF SendPrePrepare, FirstLeader
    <3>5. UNCHANGED <<view, sequenceID, fatal, parked, requestOlds, sendOlds>>
      BY <1>6 DEF SendPrePrepare
    <3> QED BY <1>2, <2>3, <2>5, <3>1, <3>3, <3>4, <3>5 DEF FirstLeader
  <2> QED BY <2>6, <2>7, <2>8
<1> QED BY <1>4, <1>5, <1>6 DEF Propose

\* The handlers of PrePrepare and Prepare touch no chain.
LEMMA VoteChain ==
  ASSUME NEW n \in Node, NEW d \in Digest, TypeOK, SingleChain,
         handlePrePrepare(n, d) \/ handlePrepare(n, d)
  PROVE  SingleChain'
<1> USE DEF blockVars, consVars, voteVars, lockVars, viewVars, oldVars, msgVars
<1>1. /\ UNCHANGED <<blocks, proposed, chain>>
      /\ UNCHANGED <<moved, restarted, view, proposer, sequenceID, sequenceLock,
                     fatal, parked, requestOlds, sendOlds>>
  BY DEF handlePrePrepare, handlePrepare
<1>2. requestPool[0] \subseteq requestPool'[0]
  <2>1. requestPool' = requestPool \/ requestPool' = [requestPool EXCEPT ![n] = @ \cup {d}]
    BY DEF handlePrePrepare, handlePrepare
  <2> QED BY <2>1, NodeFacts DEF TypeOK, NodesTyped
<1>3. Undisturbed => FirstLeader'
  BY <1>1, <1>2 DEF SingleChain, FirstLeader
<1>4. Undisturbed' => Undisturbed
  BY <1>1 DEF Undisturbed
<1> QED BY <1>1, <1>3, <1>4, SingleChainFrame

LEMMA CommitChain ==
  ASSUME NEW n \in Node, NEW d \in Digest, TypeOK, SingleChain, handleCommit(n, d)
  PROVE  SingleChain'
<1> USE DEF blockVars, consVars, voteVars, lockVars, viewVars, oldVars, msgVars
<1>1. UNCHANGED <<blocks, proposed, moved, restarted, view, proposer, requestPool, sendOlds>>
  BY DEF handleCommit
<1>2. Current(n, d)
  BY DEF handleCommit
<1>3. SUFFICES ASSUME Undisturbed
               PROVE  ProposalsInOrder' /\ ChainsInOrder' /\ FirstLeader'
  BY <1>1 DEF SingleChain, Undisturbed
<1>4. ProposalsInOrder /\ ChainsInOrder /\ FirstLeader
  BY <1>3 DEF SingleChain
<1>5. ProposalsInOrder'
  BY <1>1, <1>4 DEF ProposalsInOrder
<1>6. chain \in [Node -> Seq(Digest)] /\ proposed \in Nat
  BY BoundAssumption DEF TypeOK, BlocksTyped
\* A digest that is current at the leader is its one uncommitted proposal.
<1>7. ASSUME n = 0
      PROVE  /\ d = Len(chain[0]) + 1 /\ d <= proposed
             /\ sequenceLock[0] /\ d \in requestPool[0]
  <2>1. Len(chain[0]) \in Nat /\ d \in Nat /\ d > 0
    BY <1>6, NodeFacts, DigestFacts
  <2>2. d <= proposed
    BY <1>2, <1>4, <1>6, <1>7, <2>1 DEF Current, ProposalsInOrder, FirstLeader
  <2>3. d >= Len(chain[0]) + 1
    BY <1>2, <1>4, <1>7, <2>2 DEF Current, ProposalsInOrder, FirstLeader
  <2>4. d = Len(chain[0]) + 1 /\ sequenceLock[0]
    <3>1. CASE sequenceLock[0]
      <4>1. proposed = Len(chain[0]) + 1
        BY <1>4, <3>1 DEF FirstLeader
      <4> QED BY <2>1, <2>2, <2>3, <3>1, <4>1
    <3>2. CASE ~sequenceLock[0]
      <4>1. proposed = Len(chain[0]) + 0
        BY <1>4, <3>2 DEF FirstLeader
      <4> QED BY <2>1, <2>2, <2>3, <4>1
    <3> QED BY <3>1, <3>2
  <2>5. d \in 1 .. proposed
    BY <1>6, <2>1, <2>2
  <2> QED BY <1>4, <2>2, <2>4, <2>5 DEF FirstLeader
<1>8. CASE ~CommittedNow(n, d)
  <2>1. UNCHANGED <<chain, sequenceID, sequenceLock, fatal, parked, requestOlds>>
    BY <1>8 DEF handleCommit
  <2> QED BY <1>1, <1>4, <1>5, <2>1 DEF ChainsInOrder, FirstLeader
<1>9. CASE CommittedNow(n, d) /\ d \in requestPool[n]
  <2>1. /\ chain' = [chain EXCEPT ![n] = AddBlock(chain[n], d)]
        /\ sequenceID' = [sequenceID EXCEPT ![n] = @ + 1]
        /\ EndOfRound(n)
        /\ UNCHANGED <<requestOlds, parked>>
    BY <1>9 DEF handleCommit, CommitRequest
  <2>2. /\ Len(AddBlock(chain[n], d)) <= proposed
        /\ \A i \in 1 .. Len(AddBlock(chain[n], d)) : AddBlock(chain[n], d)[i] = i
        /\ d = Len(chain[n]) + 1 /\ d <= proposed
             => Len(AddBlock(chain[n], d)) = Len(chain[n]) + 1
    BY <1>4, <1>6, AddInOrder DEF ChainsInOrder
  <2>3. ChainsInOrder'
    BY <1>1, <1>4, <1>6, <2>1, <2>2 DEF ChainsInOrder
  <2>4. CASE n = 0
    <3>1. Len(chain'[0]) = Len(chain[0]) + 1
      BY <1>6, <1>7, <2>1, <2>2, <2>4
    <3>2. sequenceID'[0] = sequenceID[0] + 1
      BY <2>1, <2>4, NodeFacts DEF TypeOK, NodesTyped
    <3>3. sequenceLock'[0] = FALSE /\ ~fatal'[0]
      <4>1. view[n] = n
        BY <1>4, <2>4, NodeFacts DEF FirstLeader
      <4>2. /\ sequenceLock' = [sequenceLock EXCEPT ![0] = FALSE]
            /\ fatal' = [fatal EXCEPT ![0] = ~sequenceLock[0]]
        BY <2>1, <2>4, <4>1 DEF EndOfRound
      <4> QED BY <1>7, <2>4, <4>2, NodeFacts DEF TypeOK, LocksTyped
    <3> QED BY <1>1, <1>4, <1>5, <1>6, <1>7, <2>1, <2>3, <2>4, <3>1, <3>2, <3>3, NodeFacts
            DEF FirstLeader
  <2>5. CASE n # 0
    <3>1. chain'[0] = chain[0] /\ sequenceID'[0] = sequenceID[0]
      BY <1>6, <2>1, <2>5, NodeFacts DEF TypeOK, NodesTyped
    <3>2. UNCHANGED <<sequenceLock, fatal>>
      BY <1>4, <2>1, <2>5, NodeFacts DEF EndOfRound, FirstLeader
    <3> QED BY <1>1, <1>4, <1>5, <2>1, <2>3, <3>1, <3>2 DEF FirstLeader
  <2> QED BY <2>4, <2>5
<1>10. CASE CommittedNow(n, d) /\ d \notin requestPool[n]
  <2>1. n # 0
    BY <1>7, <1>10
  <2>2. CommitMissing(n, d)
    BY <1>10 DEF handleCommit
  <2>3. UNCHANGED <<chain, sequenceID>>
    BY <2>2 DEF CommitMissing
  <2>4. parked'[0] = parked[0]
    BY <2>1, <2>2, NodeFacts DEF CommitMissing, TypeOK, LocksTyped
  <2>5. UNCHANGED <<sequenceLock, fatal>>
    BY <1>4, <2>1, <2>2, NodeFacts DEF CommitMissing, EndOfRound, FirstLeader
  <2>6. \A m \in requestOlds' : m.from # 0
    BY <1>4, <2>1, <2>2 DEF CommitMissing, AskForOld, FirstLeader
  <2> QED BY <1>1, <1>4, <1>5, <2>3, <2>4, <2>5, <2>6 DEF ChainsInOrder, FirstLeader
<1> QED BY <1>8, <1>9, <1>10

LEMMA ResumeChain ==
  ASSUME NEW n \in Node, TypeOK, SingleChain, ResumeCommit(n)
  PROVE  SingleChain'
<1> USE DEF blockVars, consVars, voteVars, lockVars, viewVars, oldVars, msgVars
<1>1. UNCHANGED <<blocks, proposed, chain, moved, restarted, view, proposer,
                  requestPool, sequenceID, sendOlds>>
  BY DEF ResumeCommit
<1>2. Undisturbed' => Undisturbed
  BY <1>1 DEF Undisturbed
<1>3. ASSUME Undisturbed PROVE FirstLeader'
  <2>1. FirstLeader
    BY <1>3 DEF SingleChain
  <2>2. n # 0
    BY <2>1 DEF FirstLeader, ResumeCommit
  <2>3. UNCHANGED <<sequenceLock, fatal>>
    BY <2>1, <2>2 DEF ResumeCommit, EndOfRound, FirstLeader
  <2>4. parked'[0] = parked[0]
    BY <2>2, NodeFacts DEF ResumeCommit, TypeOK, LocksTyped
  <2>5. \A m \in requestOlds' : m.from # 0
    BY <2>1, <2>2 DEF ResumeCommit, AskForOld, FirstLeader
  <2> QED BY <1>1, <2>1, <2>3, <2>4, <2>5 DEF FirstLeader
<1> QED BY <1>1, <1>2, <1>3, SingleChainFrame

LEMMA RequestOldChain ==
  ASSUME NEW n \in Node, NEW m \in requestOlds, TypeOK, SingleChain,
         handleRequestOldSeq(n, m)
  PROVE  SingleChain'
<1> USE DEF blockVars, consVars, voteVars, lockVars, viewVars, oldVars, msgVars
<1>1. UNCHANGED <<blocks, proposed, chain, moved, restarted, view, proposer,
                  requestPool, sequenceID, sequenceLock, fatal, parked>>
  BY DEF handleRequestOldSeq
<1>2. Undisturbed' => Undisturbed
  BY <1>1 DEF Undisturbed
<1>3. ASSUME Undisturbed PROVE FirstLeader'
  <2>1. FirstLeader
    BY <1>3 DEF SingleChain
  <2>2. PICK a : /\ a.to = m.from
                 /\ sendOlds' = sendOlds \cup {a}
    BY DEF handleRequestOldSeq
  <2>3. requestOlds' \subseteq requestOlds
    BY DEF handleRequestOldSeq
  <2>4. \A x \in sendOlds' : x.to # 0
    BY <2>1, <2>2 DEF FirstLeader
  <2> QED BY <1>1, <2>1, <2>3, <2>4 DEF FirstLeader
<1> QED BY <1>1, <1>2, <1>3, SingleChainFrame

LEMMA AddOldChain ==
  ASSUME NEW n \in Node, NEW m \in sendOlds, TypeOK, SingleChain, AddOldBlock(n, m)
  PROVE  SingleChain'
<1> USE DEF blockVars, consVars, voteVars, lockVars, viewVars, oldVars, msgVars
<1>1. UNCHANGED <<blocks, proposed, moved, restarted, view, proposer, requestPool,
                  sequenceID, sequenceLock, fatal, parked, requestOlds>>
  BY DEF AddOldBlock
<1>2. SUFFICES ASSUME Undisturbed
               PROVE  ProposalsInOrder' /\ ChainsInOrder' /\ FirstLeader'
  BY <1>1 DEF SingleChain, Undisturbed
<1>3. ProposalsInOrder /\ ChainsInOrder /\ FirstLeader
  BY <1>2 DEF SingleChain
<1>4. ProposalsInOrder'
  BY <1>1, <1>3 DEF ProposalsInOrder
<1>5. chain \in [Node -> Seq(Digest)]
  BY DEF TypeOK, BlocksTyped
<1>6. m.old[m.added + 1] \in Digest
  <2>1. m \in [to : Node, first : Nat, last : Nat, added : Nat, old : Seq(Digest)]
    BY DEF TypeOK, OldsTyped
  <2> QED BY <2>1 DEF AddOldBlock
<1> DEFINE d == m.old[m.added + 1]
<1>7. chain' = [chain EXCEPT ![n] = AddBlock(chain[n], d)]
  BY DEF AddOldBlock
<1> HIDE DEF d
<1>8. /\ Len(AddBlock(chain[n], d)) <= proposed
      /\ \A i \in 1 .. Len(AddBlock(chain[n], d)) : AddBlock(chain[n], d)[i] = i
  BY <1>3, <1>5, <1>6, AddInOrder DEF ChainsInOrder, d
<1>9. ChainsInOrder'
  BY <1>1, <1>3, <1>5, <1>7, <1>8 DEF ChainsInOrder
<1>10. n # 0
  BY <1>3 DEF AddOldBlock, FirstLeader
<1>11. chain'[0] = chain[0]
  BY <1>5, <1>7, <1>10, NodeFacts
<1>12. \A x \in sendOlds' : x.to # 0
  <2>1. [m EXCEPT !.added = @ + 1].to = m.to
    BY DEF TypeOK, OldsTyped
  <2> QED BY <1>3, <2>1 DEF AddOldBlock, FirstLeader
<1> QED BY <1>1, <1>3, <1>4, <1>9, <1>11, <1>12 DEF FirstLeader

LEMMA SendOldChain ==
  ASSUME NEW n \in Node, NEW m \in sendOlds, TypeOK, SingleChain, handleSendOldSeq(n, m)
  PROVE  SingleChain'
<1> USE DEF blockVars, consVars, voteVars, lockVars, viewVars, oldVars, msgVars
<1>1. UNCHANGED <<blocks, proposed, chain, moved, restarted, view, proposer,
                  sequenceLock, parked, requestOlds>>
  BY DEF handleSendOldSeq
<1>2. Undisturbed' => Undisturbed
  BY <1>1 DEF Undisturbed
<1>3. ASSUME Undisturbed PROVE FirstLeader'
  <2>1. FirstLeader
    BY <1>3 DEF SingleChain
  <2>2. n # 0
    BY <2>1 DEF FirstLeader, handleSendOldSeq
  <2>3. /\ sequenceID' = [sequenceID EXCEPT ![n] = m.last + 1]
        /\ fatal' = [fatal EXCEPT ![n] = ~askForLock[n]]
        /\ sendOlds' = sendOlds \ {m}
    BY DEF handleSendOldSeq
  <2>4. PICK p : requestPool' = [requestPool EXCEPT ![n] = p]
    BY DEF handleSendOldSeq
  <2>5. sequenceID'[0] = sequenceID[0] /\ fatal'[0] = fatal[0]
        /\ requestPool'[0] = requestPool[0]
    BY <2>2, <2>3, <2>4, NodeFacts DEF TypeOK, NodesTyped, LocksTyped
  <2> QED BY <1>1, <2>1, <2>3, <2>5 DEF FirstLeader
<1> QED BY <1>1, <1>2, <1>3, SingleChainFrame

\* A view change disturbs only when a node adopts the view, a restart only
\* when the leader restarts.
LEMMA ViewChain ==
  ASSUME NEW n \in Node, TypeOK, SingleChain,
         \/ viewChangePropose(n)
         \/ \E v \in viewChanges : handleViewChangeMsg(n, v)
         \/ \E v \in newViews : handleNewViewMsg(n, v)
  PROVE  SingleChain'
<1> USE DEF blockVars, consVars, voteVars, lockVars, viewVars, oldVars, msgVars
<1>1. UNCHANGED <<blocks, proposed, chain, restarted, proposer, requestPool,
                  sequenceLock, fatal, parked, requestOlds, sendOlds>>
  BY DEF viewChangePropose, handleViewChangeMsg, handleNewViewMsg
<1>2. UNCHANGED <<moved, view, sequenceID>> \/ moved' = moved \cup {n}
  BY DEF viewChangePropose, handleViewChangeMsg, handleNewViewMsg
<1>3. CASE moved' = moved \cup {n}
  BY <1>3 DEF SingleChain, Undisturbed
<1>4. CASE UNCHANGED <<moved, view, sequenceID>>
  <2>1. Undisturbed' => Undisturbed
    BY <1>1, <1>4 DEF Undisturbed
  <2>2. Undisturbed => FirstLeader'
    BY <1>1, <1>4 DEF SingleChain, FirstLeader
  <2> QED BY <1>1, <2>1, <2>2, SingleChainFrame
<1> QED BY <1>2, <1>3, <1>4

LEMMA RestartChain ==
  ASSUME NEW n \in Node, TypeOK, SingleChain, Restart(n)
  PROVE  SingleChain'
<1> USE DEF blockVars, consVars, voteVars, lockVars, viewVars, oldVars, msgVars
<1>1. CASE n = 0
  BY <1>1 DEF Restart, SingleChain, Undisturbed
<1>2. CASE n # 0
  <2>1. /\ UNCHANGED <<blocks, proposed, chain, moved, requestOlds>>
        /\ restarted' = restarted \cup {n}
        /\ sendOlds' \subseteq sendOlds
    BY DEF Restart
  <2>2. Undisturbed' => Undisturbed
    BY <2>1 DEF Undisturbed
  <2>3. /\ sequenceID'[0] = sequenceID[0] /\ requestPool'[0] = requestPool[0]
        /\ sequenceLock'[0] = sequenceLock[0] /\ fatal'[0] = fatal[0]
        /\ parked'[0] = parked[0]
    BY <1>2, NodeFacts DEF Restart, TypeOK, NodesTyped, LocksTyped
  <2>4. ASSUME NEW k \in Node
        PROVE  /\ view'[k] = view[k] \/ view'[k] = 0
               /\ proposer'[k] = proposer[k] \/ proposer'[k] = "idle"
    BY DEF Restart, TypeOK, NodesTyped, LocksTyped
  <2>5. Undisturbed => FirstLeader'
    BY <2>1, <2>3, <2>4 DEF SingleChain, FirstLeader
  <2> QED BY <2>1, <2>2, <2>5, SingleChainFrame
<1> QED BY <1>1, <1>2

\* While no node has adopted a new view and the first leader has not
\* restarted, the proposals form one chain and every node holds a prefix of it.
THEOREM OneChain == Spec => []SingleChain
<1>1. Init => SingleChain
  BY NodeFacts, BoundAssumption, DigestFacts
     DEF Init, SingleChain, ProposalsInOrder, ChainsInOrder, FirstLeader, NoDigest
<1>2. TypeOK /\ SingleChain /\ [Next]_vars => SingleChain'
  <2> SUFFICES ASSUME TypeOK, SingleChain, [Next]_vars PROVE SingleChain'
    OBVIOUS
  <2>1. CASE UNCHANGED vars
    BY <2>1 DEF vars, blockVars, consVars, voteVars, lockVars, viewVars, oldVars, msgVars,
       SingleChain, Undisturbed, ProposalsInOrder, ChainsInOrder, FirstLeader
  <2>2. CASE Next
    BY <2>2, ProposeChain, VoteChain, CommitChain, ResumeChain, RequestOldChain,
       AddOldChain, SendOldChain, ViewChain, RestartChain DEF Next
  <2> QED BY <2>1, <2>2
<1> QED BY <1>1, <1>2, TypeCorrect, PTL DEF Spec

\* Agreement: while the first leader is in office no two nodes hold different
\* blocks at one height, whatever is lost, delayed or reordered.
THEOREM AgreementHolds == Spec => []AgreementUndisturbed
<1>1. TypeOK /\ SingleChain => AgreementUndisturbed
  <2> SUFFICES ASSUME TypeOK, SingleChain, Undisturbed,
                      NEW n \in Node, NEW m \in Node, NEW i \in 1 .. Len(chain[n]),
                      i <= Len(chain[m])
               PROVE  chain[n][i] = chain[m][i]
    BY DEF AgreementUndisturbed, Agreement
  <2>1. Len(chain[m]) \in Nat /\ Len(chain[n]) \in Nat
    BY DEF TypeOK, BlocksTyped
  <2>2. i \in 1 .. Len(chain[m])
    BY <2>1
  <2> QED BY <2>2 DEF SingleChain, ChainsInOrder
<1> QED BY <1>1, OneChain, TypeCorrect, PTL

\* The lock protocol of the first leader: one proposal at a time, and the
\* Unlock in handleCommit always finds sequenceLock locked.
THEOREM LeaderHolds == Spec => []LeaderInStep
<1>1. SingleChain => LeaderInStep
  BY DEF LeaderInStep, SingleChain, FirstLeader
<1> QED BY <1>1, OneChain, PTL

\* The count of a block's relays is 1 up to the leader's height and 0 above:
\* only handleCommit of the leader changes it, for the block it adds.
RelaysInStep ==
  Undisturbed =>
    \A d \in Digest : relayed[d] = IF d <= Len(chain[0]) THEN 1 ELSE 0

LEMMA CommitRelays ==
  ASSUME NEW n \in Node, NEW d \in Digest, TypeOK, SingleChain, RelaysInStep,
         Undisturbed, handleCommit(n, d)
  PROVE  \A e \in Digest : relayed'[e] = IF e <= Len(chain'[0]) THEN 1 ELSE 0
<1> USE DEF blockVars, consVars, voteVars, lockVars, viewVars, oldVars, msgVars
<1>1. ProposalsInOrder /\ ChainsInOrder /\ FirstLeader
  BY DEF SingleChain
<1>2. /\ chain \in [Node -> Seq(Digest)] /\ proposed \in Nat /\ Len(chain[0]) \in Nat
      /\ relayed \in [Digest -> Nat] /\ 0 \in Node
  BY BoundAssumption, NodeFacts DEF TypeOK, BlocksTyped
<1>3. CASE ~(CommittedNow(n, d) /\ d \in requestPool[n])
  <2>1. UNCHANGED <<chain, relayed>>
    BY <1>3 DEF handleCommit, CommitMissing
  <2> QED BY <2>1 DEF RelaysInStep
<1>4. CASE CommittedNow(n, d) /\ d \in requestPool[n]
  <2>1. /\ chain' = [chain EXCEPT ![n] = AddBlock(chain[n], d)]
        /\ relayed' = RelayByLeader(n, d)
        /\ Current(n, d)
    BY <1>4 DEF handleCommit, CommitRequest
  <2>2. CASE n # 0
    <3>1. chain'[0] = chain[0] /\ relayed' = relayed
      BY <1>1, <1>2, <2>1, <2>2 DEF RelayByLeader, FirstLeader
    <3> QED BY <3>1 DEF RelaysInStep
  <2>3. CASE n = 0
    <3>1. d \in Nat /\ d > 0
      BY DigestFacts
    <3>2. d <= proposed
      BY <1>1, <1>2, <2>1, <2>3, <3>1 DEF Current, ProposalsInOrder, FirstLeader
    <3>3. d >= Len(chain[0]) + 1
      BY <1>1, <2>1, <2>3, <3>2 DEF Current, ProposalsInOrder, FirstLeader
    <3>4. proposed <= Len(chain[0]) + 1
      <4>1. proposed = Len(chain[0]) + 1 \/ proposed = Len(chain[0]) + 0
        BY <1>1 DEF FirstLeader
      <4> QED BY <1>2, <4>1
    <3>5. d = Len(chain[0]) + 1
      BY <1>2, <3>1, <3>2, <3>3, <3>4
    <3>6. Len(chain'[0]) = d
      <4>1. Len(AddBlock(chain[0], d)) = Len(chain[0]) + 1
        BY <1>1, <1>2, <3>2, <3>5, AddInOrder DEF ChainsInOrder
      <4> QED BY <1>2, <2>1, <2>3, <3>5, <4>1
    <3>7. relayed' = [relayed EXCEPT ![d] = @ + 1]
      BY <1>1, <1>2, <2>1, <2>3 DEF RelayByLeader, FirstLeader
    <3>8. ASSUME NEW e \in Digest PROVE relayed'[e] = IF e <= Len(chain'[0]) THEN 1 ELSE 0
      <4>1. relayed[e] = IF e <= Len(chain[0]) THEN 1 ELSE 0
        BY DEF RelaysInStep
      <4>2. e \in Nat
        BY DigestFacts
      <4> QED BY <1>2, <3>1, <3>5, <3>6, <3>7, <4>1, <4>2
    <3> QED BY <3>8
  <2> QED BY <2>2, <2>3
<1> QED BY <1>3, <1>4

LEMMA RelayStep == TypeOK /\ SingleChain /\ RelaysInStep /\ [Next]_vars => RelaysInStep'
<1> SUFFICES ASSUME TypeOK, SingleChain, RelaysInStep, [Next]_vars, Undisturbed'
             PROVE  \A e \in Digest : relayed'[e] = IF e <= Len(chain'[0]) THEN 1 ELSE 0
  BY DEF RelaysInStep
<1> USE DEF blockVars, consVars, voteVars, lockVars, viewVars, oldVars, msgVars
<1>1. Undisturbed
  <2>1. ASSUME NEW n \in Node,
               \/ Propose(n) \/ ResumeCommit(n) \/ viewChangePropose(n)
               \/ \E d \in Digest : handlePrePrepare(n, d) \/ handlePrepare(n, d)
               \/ \E m \in requestOlds : handleRequestOldSeq(n, m)
               \/ \E m \in sendOlds : AddOldBlock(n, m) \/ handleSendOldSeq(n, m)
               \/ \E v \in viewChanges : handleViewChangeMsg(n, v)
        PROVE  UNCHANGED <<moved, restarted>>
    BY <2>1 DEF Propose, BeginRound, SendPrePrepare, StoreStage, ResumeCommit,
       viewChangePropose, handlePrePrepare, handlePrepare, handleRequestOldSeq,
       AddOldBlock, handleSendOldSeq, handleViewChangeMsg
  <2>2. ASSUME NEW n \in Node, NEW d \in Digest, handleCommit(n, d)
        PROVE  UNCHANGED <<moved, restarted>>
    BY <2>2 DEF handleCommit
  <2>3. ASSUME NEW n \in Node, \/ Restart(n) \/ \E v \in newViews : handleNewViewMsg(n, v)
        PROVE  moved \subseteq moved' /\ restarted \subseteq restarted'
    BY <2>3 DEF Restart, handleNewViewMsg
  <2>4. moved \subseteq moved' /\ restarted \subseteq restarted'
    <3>1. CASE UNCHANGED vars
      BY <3>1 DEF vars
    <3>2. CASE Next
      BY <3>2, <2>1, <2>2, <2>3 DEF Next
    <3> QED BY <3>1, <3>2
  <2> QED BY <2>4 DEF Undisturbed
<1>2. ASSUME NEW n \in Node, NEW d \in Digest, handleCommit(n, d)
      PROVE  \A e \in Digest : relayed'[e] = IF e <= Len(chain'[0]) THEN 1 ELSE 0
  BY <1>1, <1>2, CommitRelays
<1>3. ASSUME NEW n \in Node, NEW m \in sendOlds, AddOldBlock(n, m)
      PROVE  relayed' = relayed /\ chain'[0] = chain[0]
  <2>1. n # 0
    BY <1>1, <1>3 DEF AddOldBlock, SingleChain, FirstLeader
  <2> QED BY <1>3, <2>1, NodeFacts DEF AddOldBlock, TypeOK, BlocksTyped
<1>4. ASSUME NEW n \in Node,
             \/ Propose(n) \/ ResumeCommit(n) \/ viewChangePropose(n) \/ Restart(n)
             \/ \E d \in Digest : handlePrePrepare(n, d) \/ handlePrepare(n, d)
             \/ \E m \in requestOlds : handleRequestOldSeq(n, m)
             \/ \E m \in sendOlds : handleSendOldSeq(n, m)
             \/ \E v \in viewChanges : handleViewChangeMsg(n, v)
             \/ \E v \in newViews : handleNewViewMsg(n, v)
      PROVE  UNCHANGED <<chain, relayed>>
  BY <1>4 DEF Propose, BeginRound, SendPrePrepare, StoreStage, ResumeCommit,
     viewChangePropose, Restart, handlePrePrepare, handlePrepare, handleRequestOldSeq,
     handleSendOldSeq, handleViewChangeMsg, handleNewViewMsg
<1>5. CASE UNCHANGED vars
  BY <1>1, <1>5 DEF vars, RelaysInStep
<1>6. CASE relayed' = relayed /\ chain'[0] = chain[0]
  BY <1>1, <1>6 DEF RelaysInStep
<1> QED BY <1>2, <1>3, <1>4, <1>5, <1>6 DEF Next

\* The first leader relays and reports the blocks of its chain, each once and
\* nothing else, for any number of nodes, lost messages and restarted backups.
THEOREM LeaderRelaysOnce == Spec => []RelayedOnce
<1>1. Init => RelaysInStep
  BY NodeFacts, DigestFacts DEF Init, RelaysInStep
<1>2. TypeOK /\ SingleChain /\ RelaysInStep => RelayedOnce
  <2> SUFFICES ASSUME TypeOK, SingleChain, RelaysInStep, Undisturbed, NEW d \in Digest
               PROVE  relayed[d] = IF \E i \in 1 .. Len(chain[0]) : chain[0][i] = d THEN 1 ELSE 0
    BY DEF RelayedOnce
  <2>1. \A i \in 1 .. Len(chain[0]) : chain[0][i] = i
    BY NodeFacts DEF SingleChain, ChainsInOrder
  <2>2. d \in Nat \ {0} /\ Len(chain[0]) \in Nat
    BY DigestFacts, NodeFacts DEF TypeOK, BlocksTyped
  <2>3. (\E i \in 1 .. Len(chain[0]) : chain[0][i] = d) <=> d <= Len(chain[0])
    BY <2>1, <2>2
  <2> QED BY <2>3 DEF RelaysInStep
<1> QED BY <1>1, <1>2, RelayStep, OneChain, TypeCorrect, PTL DEF Spec

-----------------------------------------------------------------------------
(* The undisturbed shard implements ShardLog.                              *)

\* Only AddBlock changes a chain.
LEMMA ChainStep ==
  ASSUME TypeOK, [Next]_vars
  PROVE  \/ chain' = chain
         \/ \E n \in Node, d \in Digest :
              chain' = [chain EXCEPT ![n] = AddBlock(chain[n], d)]
<1> USE DEF blockVars, consVars, voteVars, lockVars, viewVars, oldVars, msgVars
<1>1. CASE UNCHANGED vars
  BY <1>1 DEF vars
<1>2. ASSUME NEW n \in Node, NEW d \in Digest, handleCommit(n, d)
      PROVE  chain' = chain \/ chain' = [chain EXCEPT ![n] = AddBlock(chain[n], d)]
  BY <1>2 DEF handleCommit, CommitRequest, CommitMissing
<1>3. ASSUME NEW n \in Node, NEW m \in sendOlds, AddOldBlock(n, m)
      PROVE  \E d \in Digest : chain' = [chain EXCEPT ![n] = AddBlock(chain[n], d)]
  <2>1. m \in [to : Node, first : Nat, last : Nat, added : Nat, old : Seq(Digest)]
    BY DEF TypeOK, OldsTyped
  <2>2. m.old[m.added + 1] \in Digest
    BY <1>3, <2>1 DEF AddOldBlock
  <2> QED BY <1>3, <2>2 DEF AddOldBlock
<1>4. ASSUME NEW n \in Node,
             \/ Propose(n) \/ ResumeCommit(n) \/ viewChangePropose(n) \/ Restart(n)
             \/ \E d \in Digest : handlePrePrepare(n, d) \/ handlePrepare(n, d)
             \/ \E m \in requestOlds : handleRequestOldSeq(n, m)
             \/ \E m \in sendOlds : handleSendOldSeq(n, m)
             \/ \E v \in viewChanges : handleViewChangeMsg(n, v)
             \/ \E v \in newViews : handleNewViewMsg(n, v)
      PROVE  chain' = chain
  BY <1>4 DEF Propose, BeginRound, SendPrePrepare, StoreStage, ResumeCommit,
     viewChangePropose, Restart, handlePrePrepare, handlePrepare, handleRequestOldSeq,
     handleSendOldSeq, handleViewChangeMsg, handleNewViewMsg
<1> QED BY <1>1, <1>2, <1>3, <1>4 DEF Next

\* A step of the undisturbed shard is a step of the log, or none.
LEMMA LogStep ==
  ASSUME TypeOK, SingleChain, Undisturbed, [Next]_vars
  PROVE  [Log!Next]_chain
<1> SUFFICES ASSUME NEW n \in Node, NEW d \in Digest, chain' # chain,
                    chain' = [chain EXCEPT ![n] = AddBlock(chain[n], d)]
             PROVE  Log!Extend(n, d)
  BY ChainStep DEF Log!Next
<1>1. chain \in [Node -> Seq(Digest)]
  BY DEF TypeOK, BlocksTyped
<1>2. AddBlock(chain[n], d) # chain[n]
  BY <1>1
<1>3. /\ AddBlock(chain[n], d) = Append(chain[n], d)
      /\ blocks[d].number = Len(chain[n]) + 1
  BY <1>2 DEF AddBlock
<1>4. d = Len(chain[n]) + 1
  <2>1. proposed \in Nat /\ d \in Nat /\ Len(chain[n]) \in Nat
    BY <1>1, DigestFacts, BoundAssumption DEF TypeOK, BlocksTyped
  <2> QED BY <1>3, <2>1 DEF SingleChain, ProposalsInOrder
<1>5. ASSUME NEW m \in Node, Len(chain[m]) > Len(chain[n])
      PROVE  chain[m][Len(chain[n]) + 1] = d
  <2>1. Len(chain[n]) + 1 \in 1 .. Len(chain[m])
    BY <1>1, <1>5
  <2> QED BY <1>4, <2>1 DEF SingleChain, ChainsInOrder
<1> QED BY <1>3, <1>5 DEF Log!Extend, Log!Fits

\* Refinement: as long as it is undisturbed, the shard is a replicated log.
THEOREM ShardIsLog == Spec => ImplementsLog
<1>1. Init => Log!Init
  BY DEF Init, Log!Init
<1>2. TypeOK /\ SingleChain /\ [Next]_vars => [Undisturbed => [Log!Next]_chain]_vars
  BY LogStep
<1> QED BY <1>1, <1>2, TypeCorrect, OneChain, PTL DEF Spec, ImplementsLog

-----------------------------------------------------------------------------
(* Chains are linked, whatever views and restarts went before.             *)

\* Blocks are only made by the proposing routine.
LEMMA BlockStep ==
  ASSUME [Next]_vars
  PROVE  UNCHANGED blockVars \/ \E n \in Node : SendPrePrepare(n)
<1> USE DEF consVars, voteVars, lockVars, viewVars, oldVars, msgVars
<1>1. CASE UNCHANGED vars
  BY <1>1 DEF vars
<1>2. ASSUME NEW n \in Node,
             \/ BeginRound(n) \/ StoreStage(n)
             \/ ResumeCommit(n) \/ viewChangePropose(n) \/ Restart(n)
             \/ \E d \in Digest : handlePrePrepare(n, d) \/ handlePrepare(n, d)
                                    \/ handleCommit(n, d)
             \/ \E m \in requestOlds : handleRequestOldSeq(n, m)
             \/ \E m \in sendOlds : AddOldBlock(n, m) \/ handleSendOldSeq(n, m)
             \/ \E v \in viewChanges : handleViewChangeMsg(n, v)
             \/ \E v \in newViews : handleNewViewMsg(n, v)
      PROVE  UNCHANGED blockVars
  BY <1>2 DEF BeginRound, StoreStage, ResumeCommit, viewChangePropose, Restart,
     handlePrePrepare, handlePrepare, handleCommit, handleRequestOldSeq, AddOldBlock,
     handleSendOldSeq, handleViewChangeMsg, handleNewViewMsg
<1> QED BY <1>1, <1>2 DEF Next, Propose

\* AddBlock links the block to the tip, or leaves the chain alone.
LEMMA AddLinked ==
  ASSUME NEW c \in Seq(Digest), NEW d \in Digest,
         \A i \in 1 .. Len(c) : /\ blocks[c[i]].number = i
                                /\ blocks[c[i]].parent = (IF i = 1 THEN NoDigest ELSE c[i - 1])
  PROVE  \A i \in 1 .. Len(AddBlock(c, d)) :
           /\ blocks[AddBlock(c, d)[i]].number = i
           /\ blocks[AddBlock(c, d)[i]].parent =
                (IF i = 1 THEN NoDigest ELSE AddBlock(c, d)[i - 1])
<1>1. CASE AddBlock(c, d) = c
  BY <1>1
<1>2. CASE AddBlock(c, d) # c
  <2>1. /\ AddBlock(c, d) = Append(c, d)
        /\ blocks[d].number = Len(c) + 1 /\ blocks[d].parent = Tip(c)
    BY <1>2 DEF AddBlock
  <2> SUFFICES ASSUME NEW i \in 1 .. Len(c) + 1
               PROVE  /\ blocks[Append(c, d)[i]].number = i
                      /\ blocks[Append(c, d)[i]].parent =
                           (IF i = 1 THEN NoDigest ELSE Append(c, d)[i - 1])
    BY <2>1
  <2>2. CASE i = Len(c) + 1
    <3>1. Tip(c) = IF i = 1 THEN NoDigest ELSE Append(c, d)[i - 1]
      BY <2>2 DEF Tip
    <3> QED BY <2>1, <2>2, <3>1
  <2>3. CASE i \in 1 .. Len(c)
    BY <2>3
  <2> QED BY <2>2, <2>3
<1> QED BY <1>1, <1>2

LEMMA LinkedStep == TypeOK /\ ChainLinked /\ Fresh /\ [Next]_vars => ChainLinked' /\ Fresh'
<1> SUFFICES ASSUME TypeOK, ChainLinked, Fresh, [Next]_vars PROVE ChainLinked' /\ Fresh'
  OBVIOUS
<1>1. chain \in [Node -> Seq(Digest)] /\ proposed \in Nat
  BY BoundAssumption DEF TypeOK, BlocksTyped
<1>2. CASE \E n \in Node : SendPrePrepare(n)
  <2>1. PICK n \in Node : SendPrePrepare(n)
    BY <1>2
  <2>2. chain' = chain /\ proposed' = proposed + 1 /\ proposed + 1 \in Digest
    BY <1>1, <2>1, BoundAssumption DEF SendPrePrepare, Digest
  <2>3. \A d \in Digest : d # proposed + 1 => blocks'[d] = blocks[d]
    BY <2>1, <2>2 DEF SendPrePrepare, TypeOK, BlocksTyped
  <2>4. \A m \in Node : \A i \in 1 .. Len(chain[m]) :
          chain[m][i] \in Digest /\ chain[m][i] # proposed + 1
    <3> SUFFICES ASSUME NEW m \in Node, NEW i \in 1 .. Len(chain[m])
                 PROVE  chain[m][i] \in Digest /\ chain[m][i] # proposed + 1
      OBVIOUS
    <3>1. chain[m][i] \in Digest /\ blocks[chain[m][i]].number = i
      BY <1>1 DEF ChainLinked
    <3>2. blocks[proposed + 1].number = 0
      BY <1>1, <2>2 DEF Fresh
    <3> QED BY <3>1, <3>2
  <2>5. Fresh'
    <3> SUFFICES ASSUME NEW d \in Digest, d > proposed + 1
                 PROVE  blocks'[d].number = 0
      BY <2>2 DEF Fresh
    <3>1. d \in Nat /\ d # proposed + 1 /\ d > proposed
      BY <1>1, DigestFacts
    <3> QED BY <2>3, <3>1 DEF Fresh
  <2> QED BY <2>2, <2>3, <2>4, <2>5 DEF ChainLinked
<1>3. CASE UNCHANGED blockVars
  <2>1. Fresh'
    BY <1>3 DEF Fresh, blockVars
  <2>2. CASE chain' = chain
    BY <1>3, <2>1, <2>2 DEF ChainLinked, blockVars
  <2>3. ASSUME NEW n \in Node, NEW d \in Digest,
               chain' = [chain EXCEPT ![n] = AddBlock(chain[n], d)]
        PROVE  ChainLinked'
    <3>1. \A i \in 1 .. Len(AddBlock(chain[n], d)) :
           /\ blocks[AddBlock(chain[n], d)[i]].number = i
           /\ blocks[AddBlock(chain[n], d)[i]].parent =
                (IF i = 1 THEN NoDigest ELSE AddBlock(chain[n], d)[i - 1])
      BY <1>1, AddLinked DEF ChainLinked
    <3> QED BY <1>1, <1>3, <2>3, <3>1 DEF ChainLinked, blockVars
  <2> QED BY <2>1, <2>2, <2>3, ChainStep
<1> QED BY <1>2, <1>3, BlockStep

\* Every chain is linked by height and parent digest, through every view
\* change, catch-up and restart.
THEOREM ChainsLinked == Spec => []ChainLinked
<1>1. Init => ChainLinked /\ Fresh
  BY DEF Init, ChainLinked, Fresh
<1> QED BY <1>1, LinkedStep, TypeCorrect, PTL DEF Spec

-----------------------------------------------------------------------------
(* Catching up: one question at a time.                                    *)

\* Only the commit of a block whose request is missing asks, and only with
\* askForLock free.
LEMMA AskStep ==
  ASSUME TypeOK, QuestionsApart, NEW n \in Node, NEW d \in Digest,
         ~askForLock[n], AskForOld(n, d), UNCHANGED <<sendOlds, restarted>>
  PROVE  QuestionsApart'
<1> DEFINE q == [to |-> view[n], from |-> n,
                 first |-> sequenceID[n] + 1, last |-> blocks[d].seq]
<1>1. requestOlds' = requestOlds \cup {q} /\ q.from = n
  BY DEF AskForOld
<1>2. \A k \in Node : askForLock'[k] = (askForLock[k] \/ k = n)
  BY DEF AskForOld, TypeOK, LocksTyped
<1>3. n \notin restarted => /\ \A x \in requestOlds : x.from # n
                            /\ \A y \in sendOlds : y.to # n
  BY DEF QuestionsApart
<1> HIDE DEF q
<1> SUFFICES ASSUME NEW k \in Node \ restarted
             PROVE  /\ \A x, y \in requestOlds' : x.from = k /\ y.from = k => x = y
                    /\ \A x \in requestOlds' : x.from = k =>
                          askForLock'[k] /\ \A y \in sendOlds : y.to # k
                    /\ \A y \in sendOlds : y.to = k => askForLock'[k]
  BY DEF QuestionsApart
<1>4. CASE k = n
  BY <1>1, <1>2, <1>3, <1>4
<1>5. CASE k # n
  <2>1. \A x \in requestOlds' : x.from = k => x \in requestOlds
    BY <1>1, <1>5
  <2>2. askForLock'[k] = (askForLock[k] \/ k = n)
    BY <1>2
  <2> QED BY <2>1, <2>2 DEF QuestionsApart
<1> QED BY <1>4, <1>5

LEMMA QuestionStep == TypeOK /\ QuestionsApart /\ [Next]_vars => QuestionsApart'
<1> SUFFICES ASSUME TypeOK, QuestionsApart, [Next]_vars PROVE QuestionsApart'
  OBVIOUS
<1> USE DEF blockVars, consVars, voteVars, lockVars, viewVars, oldVars, msgVars
<1>1. CASE UNCHANGED vars
  BY <1>1 DEF vars, QuestionsApart
<1>2. ASSUME NEW n \in Node,
             \/ Propose(n) \/ viewChangePropose(n)
             \/ \E d \in Digest : handlePrePrepare(n, d) \/ handlePrepare(n, d)
             \/ \E v \in viewChanges : handleViewChangeMsg(n, v)
             \/ \E v \in newViews : handleNewViewMsg(n, v)
      PROVE  QuestionsApart'
  <2>1. UNCHANGED <<requestOlds, sendOlds, askForLock, restarted>>
    BY <1>2 DEF Propose, BeginRound, SendPrePrepare, StoreStage, viewChangePropose,
       handlePrePrepare, handlePrepare, handleViewChangeMsg, handleNewViewMsg
  <2> QED BY <2>1 DEF QuestionsApart
<1>3. ASSUME NEW n \in Node, NEW d \in Digest, handleCommit(n, d)
      PROVE  QuestionsApart'
  <2>1. UNCHANGED <<sendOlds, restarted>>
    BY <1>3 DEF handleCommit
  <2>2. UNCHANGED <<requestOlds, askForLock>> \/ (~askForLock[n] /\ AskForOld(n, d))
    BY <1>3 DEF handleCommit, CommitRequest, CommitMissing
  <2> QED BY <2>1, <2>2, AskStep DEF QuestionsApart
<1>4. ASSUME NEW n \in Node, ResumeCommit(n) PROVE QuestionsApart'
  <2>1. parked[n] \in Digest /\ ~askForLock[n] /\ AskForOld(n, parked[n])
        /\ UNCHANGED <<sendOlds, restarted>>
    BY <1>4, BoundAssumption DEF ResumeCommit, TypeOK, LocksTyped, NoDigest, Digest
  <2> QED BY <2>1, AskStep
<1>5. ASSUME NEW n \in Node, NEW m \in requestOlds, handleRequestOldSeq(n, m)
      PROVE  QuestionsApart'
  <2>1. /\ requestOlds' = requestOlds \ {m}
        /\ UNCHANGED <<askForLock, restarted>>
    BY <1>5 DEF handleRequestOldSeq
  <2>2. PICK a : a.to = m.from /\ sendOlds' = sendOlds \cup {a}
    BY <1>5 DEF handleRequestOldSeq
  <2> QED BY <2>1, <2>2 DEF QuestionsApart
<1>6. ASSUME NEW n \in Node, NEW m \in sendOlds, AddOldBlock(n, m)
      PROVE  QuestionsApart'
  <2>1. UNCHANGED <<requestOlds, askForLock, restarted>>
    BY <1>6 DEF AddOldBlock
  <2>2. PICK a : sendOlds' = (sendOlds \ {m}) \cup {a} /\ a.to = m.to
    <3>1. [m EXCEPT !.added = @ + 1].to = m.to
      BY DEF TypeOK, OldsTyped
    <3> QED BY <1>6, <3>1 DEF AddOldBlock
  <2> QED BY <2>1, <2>2 DEF QuestionsApart
<1>7. ASSUME NEW n \in Node, NEW m \in sendOlds, handleSendOldSeq(n, m)
      PROVE  QuestionsApart'
  <2>1. /\ sendOlds' = sendOlds \ {m} /\ m.to = n
        /\ askForLock' = [askForLock EXCEPT ![n] = FALSE]
        /\ UNCHANGED <<requestOlds, restarted>>
    BY <1>7 DEF handleSendOldSeq
  <2>2. \A k \in Node : k # n => askForLock'[k] = askForLock[k]
    BY <2>1 DEF TypeOK, LocksTyped
  <2>3. n \notin restarted => /\ \A x \in requestOlds : x.from # n
                              /\ \A y \in sendOlds' : y.to # n
    BY <2>1 DEF QuestionsApart
  <2> QED BY <2>1, <2>2, <2>3 DEF QuestionsApart
<1>8. ASSUME NEW n \in Node, Restart(n) PROVE QuestionsApart'
  <2>1. /\ restarted' = restarted \cup {n} /\ requestOlds' = requestOlds
        /\ sendOlds' \subseteq sendOlds
        /\ askForLock' = [askForLock EXCEPT ![n] = FALSE]
    BY <1>8 DEF Restart
  <2>2. \A k \in Node : k # n => askForLock'[k] = askForLock[k]
    BY <2>1 DEF TypeOK, LocksTyped
  <2> QED BY <2>1, <2>2 DEF QuestionsApart
<1> QED BY <1>1, <1>2, <1>3, <1>4, <1>5, <1>6, <1>7, <1>8 DEF Next

\* A process that did not restart has at most one question open and holds
\* askForLock as long as it has: handleSendOldSeq never unlocks a free mutex.
THEOREM QuestionsGuarded == Spec => []OneQuestion
<1>1. Init => QuestionsApart
  BY DEF Init, QuestionsApart
<1>2. QuestionsApart => OneQuestion
  <2> SUFFICES ASSUME QuestionsApart, NEW n \in Node \ restarted
               PROVE  /\ Cardinality(Outstanding(n)) <= 1
                      /\ Outstanding(n) # {} => askForLock[n]
    BY DEF OneQuestion
  <2>1. Outstanding(n) # {} => askForLock[n]
    BY DEF QuestionsApart, Outstanding
  <2>2. \A x, y \in Outstanding(n) : x = y
    BY DEF QuestionsApart, Outstanding
  <2>3. Outstanding(n) = {} \/ \E x : Outstanding(n) = {x}
    BY <2>2
  <2>4. Cardinality(Outstanding(n)) = 0 \/ Cardinality(Outstanding(n)) = 1
    BY <2>3, FS_EmptySet, FS_Singleton
  <2> QED BY <2>1, <2>4
<1> QED BY <1>1, <1>2, QuestionStep, TypeCorrect, PTL DEF Spec

-----------------------------------------------------------------------------
(* A view change needs a quorum of complaints.                             *)

\* A set of nodes is finite.
LEMMA NodesFinite ==
  ASSUME NEW S \in SUBSET Node
  PROVE  IsFiniteSet(S) /\ Cardinality(S) \in Nat
<1>1. IsFiniteSet(Node)
  BY NAssumption, FS_Interval DEF Node
<1>2. IsFiniteSet(S)
  BY <1>1, FS_Subset
<1> QED BY <1>2, FS_CardinalityType

\* Of two sets of nodes the larger one has more of them.
LEMMA MoreNodes ==
  ASSUME NEW S \in SUBSET Node, NEW T \in SUBSET S
  PROVE  Cardinality(T) <= Cardinality(S)
  BY NodesFinite, FS_Subset

\* Messages filed at n for one view and sequence are from different nodes.
LEMMA DifferentSenders ==
  ASSUME NEW n \in Node, NEW T, NEW v \in ViewMsg, NEW map \in SUBSET ViewMsg,
         \A x \in map : x.to = n /\ x.from \in T, IsFiniteSet(T)
  PROVE  Cardinality(SameData(map, v)) <= Cardinality(T)
<1> DEFINE S == SameData(map, v)
           sender == [x \in S |-> x.from]
<1>1. \A x, y \in S : x.from = y.from => x = y
  BY DEF SameData, ViewMsg
<1>2. sender \in [S -> T]
  BY DEF SameData
<1>3. \A x, y \in S : sender[x] = sender[y] => x = y
  BY <1>1
<1> HIDE DEF S, sender
<1>4. sender \in Injection(S, T)
  BY <1>2, <1>3 DEF Injection, IsInjective
<1> QED BY <1>4, FS_Injection DEF S

LEMMA ViewStep == TypeOK /\ ViewChangesCounted /\ [Next]_vars => ViewChangesCounted'
<1> SUFFICES ASSUME TypeOK, ViewChangesCounted, [Next]_vars PROVE ViewChangesCounted'
  OBVIOUS
<1> USE DEF blockVars, consVars, voteVars, lockVars, viewVars, oldVars, msgVars
<1>1. TypeOK'
  BY TypeStep
<1> DEFINE Enough == Cardinality(Complainers) >= Quorum
           Quiet == moved = {} /\ newViews = {} /\ \A n \in Node : newViewMap[n] = {}
           Filed == \A n \in Node : \A v \in viewChangeMap[n] : v.to = n
<1>2. Complainers \subseteq Complainers' => (Enough => Enough')
  <2>1. Complainers \subseteq Node /\ Complainers' \subseteq Node
    BY <1>1 DEF Complainers, TypeOK, ViewsTyped, ViewMsg
  <2>2. Cardinality(Complainers) \in Nat /\ Cardinality(Complainers') \in Nat
    BY <2>1, NodesFinite
  <2>3. Complainers \subseteq Complainers' => Cardinality(Complainers) <= Cardinality(Complainers')
    BY <2>1, MoreNodes
  <2> QED BY <2>2, <2>3, QuorumFact
<1>3. CASE \E n \in Node : Restart(n)
  BY <1>3 DEF Restart, ViewChangesCounted, TypeOK, ViewsTyped
<1>4. ASSUME NEW n \in Node, viewChangePropose(n) PROVE ViewChangesCounted'
  <2>1. /\ UNCHANGED <<viewChangeMap, newViewMap, newViews, moved, restarted>>
        /\ viewChanges \subseteq viewChanges'
    BY <1>4 DEF viewChangePropose
  <2>2. Complainers \subseteq Complainers'
    BY <2>1 DEF Complainers
  <2> QED BY <1>2, <2>1, <2>2 DEF ViewChangesCounted
<1>5. ASSUME NEW n \in Node, NEW v \in viewChanges, handleViewChangeMsg(n, v)
      PROVE  ViewChangesCounted'
  <2>1. /\ viewChangeMap' = [viewChangeMap EXCEPT ![n] = @ \cup {v}]
        /\ viewChanges' = viewChanges \ {v} /\ v.to = n
        /\ UNCHANGED <<newViewMap, moved, restarted>>
    BY <1>5 DEF handleViewChangeMsg
  <2>2. Complainers \subseteq Complainers'
    BY <2>1 DEF Complainers, TypeOK, ViewsTyped
  <2>3. Filed'
    BY <2>1 DEF ViewChangesCounted, TypeOK, ViewsTyped
  <2>4. newViews' = newViews \/ Enough'
    <3> SUFFICES ASSUME newViews' # newViews PROVE Enough'
      OBVIOUS
    <3>1. Cardinality(SameData(viewChangeMap'[n], v)) = Quorum
      BY <1>5 DEF handleViewChangeMsg
    <3>2. \A x \in viewChangeMap'[n] : x.to = n /\ x.from \in Complainers'
      BY <2>3 DEF Complainers
    <3>3. v \in ViewMsg /\ viewChangeMap'[n] \in SUBSET ViewMsg
      BY <1>1 DEF TypeOK, ViewsTyped
    <3>4. IsFiniteSet(Complainers') /\ Cardinality(Complainers') \in Nat
      <4>1. Complainers' \in SUBSET Node
        BY <1>1 DEF Complainers, TypeOK, ViewsTyped, ViewMsg
      <4> QED BY <4>1, NodesFinite
    <3>5. Cardinality(SameData(viewChangeMap'[n], v)) <= Cardinality(Complainers')
      BY <3>2, <3>3, <3>4, DifferentSenders
    <3> QED BY <3>1, <3>4, <3>5, QuorumFact
  <2> QED BY <1>2, <2>1, <2>2, <2>3, <2>4 DEF ViewChangesCounted
<1>6. ASSUME NEW n \in Node, NEW v \in newViews, handleNewViewMsg(n, v)
      PROVE  ViewChangesCounted'
  <2>1. UNCHANGED <<viewChangeMap, viewChanges, restarted>>
    BY <1>6 DEF handleNewViewMsg
  <2>2. Complainers' = Complainers
    BY <2>1 DEF Complainers
  <2> QED BY <2>1, <2>2 DEF ViewChangesCounted
<1>7. CASE UNCHANGED <<viewChanges, viewChangeMap, newViewMap, newViews, moved, restarted>>
  <2>1. Complainers' = Complainers
    BY <1>7 DEF Complainers
  <2> QED BY <1>7, <2>1 DEF ViewChangesCounted
<1>8. ASSUME NEW n \in Node,
             \/ Propose(n) \/ ResumeCommit(n)
             \/ \E d \in Digest : handlePrePrepare(n, d) \/ handlePrepare(n, d)
                                    \/ handleCommit(n, d)
             \/ \E m \in requestOlds : handleRequestOldSeq(n, m)
             \/ \E m \in sendOlds : AddOldBlock(n, m) \/ handleSendOldSeq(n, m)
      PROVE  ViewChangesCounted'
  <2>1. UNCHANGED <<viewChanges, viewChangeMap, newViewMap, newViews, moved, restarted>>
    BY <1>8 DEF Propose, BeginRound, SendPrePrepare, StoreStage, ResumeCommit,
       handlePrePrepare, handlePrepare, handleCommit, handleRequestOldSeq,
       AddOldBlock, handleSendOldSeq
  <2> QED BY <1>7, <2>1
<1>9. CASE UNCHANGED vars
  BY <1>7, <1>9 DEF vars
<1> QED BY <1>3, <1>4, <1>5, <1>6, <1>8, <1>9 DEF Next

\* As long as no process restarts, no node adopts a new view unless 2f+1
\* different nodes timed out, however often and in whatever order the
\* messages of the view change arrive.
THEOREM ViewChangeNeedsQuorum == Spec => []NoSpuriousViewChange
<1>1. Init => ViewChangesCounted
  BY DEF Init, ViewChangesCounted
<1>2. ViewChangesCounted => NoSpuriousViewChange
  BY DEF ViewChangesCounted, NoSpuriousViewChange, Quorum, malicious_nums
<1> QED BY <1>1, <1>2, ViewStep, TypeCorrect, PTL DEF Spec

-----------------------------------------------------------------------------
(* A block in a chain has its certificate.                                 *)

LEMMA SendersTyped ==
  ASSUME TypeOK, NEW d \in Digest
  PROVE  IsFiniteSet(commitSenders[d]) /\ Cardinality(commitSenders[d]) \in Nat
  BY NodesFinite DEF TypeOK, MessagesTyped

\* A certificate is never lost.
LEMMA CertifiedStays ==
  ASSUME TypeOK, TypeOK', NEW d \in Digest,
         commitSenders[d] \subseteq commitSenders'[d],
         Cardinality(commitSenders[d]) >= Quorum
  PROVE  Cardinality(commitSenders'[d]) >= Quorum
<1>1. commitSenders[d] \in SUBSET Node /\ commitSenders'[d] \in SUBSET Node
  BY DEF TypeOK, MessagesTyped
<1>2. Cardinality(commitSenders[d]) \in Nat /\ Cardinality(commitSenders'[d]) \in Nat
  BY <1>1, NodesFinite
<1>3. Cardinality(commitSenders[d]) <= Cardinality(commitSenders'[d])
  BY <1>1, MoreNodes
<1> QED BY <1>2, <1>3, QuorumFact

\* Nothing has to be certified below the first height.
LEMMA CertifiedNone == Certified(NoDigest)
  BY DigestFacts DEF Certified, NoDigest

\* A digest that is not out of date anywhere was proposed, and is its height.
LEMMA CurrentProposed ==
  ASSUME TypeOK, ProposalsInOrder, NEW n \in Node, NEW d \in Digest,
         sequenceID[n] >= 1, Current(n, d)
  PROVE  d <= proposed /\ blocks[d].seq = d
<1>1. proposed \in Nat /\ sequenceID[n] \in Nat /\ d \in Nat
  BY BoundAssumption, DigestFacts DEF TypeOK, BlocksTyped, NodesTyped
<1> QED BY <1>1 DEF Current, ProposalsInOrder

\* The leader proposes d only when it has committed everything below d: a
\* certificate for d comes on top of the certificates of all blocks below.
LEMMA CertifiedBelow ==
  ASSUME TypeOK, FirstLeader, NodesCertified, NEW d \in Digest, d <= proposed,
         Cardinality(commitSenders[d]) >= Quorum
  PROVE  Certified(d)
<1>1. proposed \in Nat /\ Len(chain[0]) \in Nat /\ d \in Nat
  BY BoundAssumption, DigestFacts, NodeFacts DEF TypeOK, BlocksTyped
<1>2. proposed = Len(chain[0]) \/ proposed = Len(chain[0]) + 1
  <2>1. proposed = Len(chain[0]) + (IF sequenceLock[0] THEN 1 ELSE 0)
    BY DEF FirstLeader
  <2>2. CASE sequenceLock[0]
    BY <2>1, <2>2
  <2>3. CASE ~sequenceLock[0]
    BY <1>1, <2>1, <2>3
  <2> QED BY <2>2, <2>3
<1>3. Certified(Len(chain[0]))
  BY NodeFacts DEF NodesCertified
<1> SUFFICES ASSUME NEW e \in Digest, e <= d
             PROVE  Cardinality(commitSenders[e]) >= Quorum
  BY DEF Certified
<1>4. e \in Nat
  BY DigestFacts
<1>5. e = d \/ e <= Len(chain[0])
  BY <1>1, <1>2, <1>4
<1> QED BY <1>3, <1>5 DEF Certified

\* A certified block can be added to a certified chain.
LEMMA AddCertified ==
  ASSUME TypeOK, ProposalsInOrder, NEW c \in Seq(Digest), NEW d \in Digest,
         Certified(Len(c)), Certified(d)
  PROVE  Certified(Len(AddBlock(c, d)))
<1>1. CASE AddBlock(c, d) = c
  BY <1>1
<1>2. CASE AddBlock(c, d) # c
  <2>1. AddBlock(c, d) = Append(c, d) /\ blocks[d].number = Len(c) + 1
    BY <1>2 DEF AddBlock
  <2>2. proposed \in Nat /\ d \in Nat /\ Len(c) \in Nat
    BY BoundAssumption, DigestFacts DEF TypeOK, BlocksTyped
  <2>3. d = Len(c) + 1
    BY <2>1, <2>2 DEF ProposalsInOrder
  <2>4. Len(AddBlock(c, d)) = d
    BY <2>1, <2>3
  <2> QED BY <2>4
<1> QED BY <1>1, <1>2

LEMMA ProposeCertified ==
  ASSUME NEW n \in Node, TypeOK, TypeOK', SingleChain, moved = {}, restarted = {},
         VotesCounted, NodesCertified, OldsCertified, Propose(n)
  PROVE  VotesCounted' /\ NodesCertified' /\ OldsCertified'
<1> USE DEF blockVars, consVars, voteVars, lockVars, viewVars, oldVars, msgVars
<1>1. /\ UNCHANGED <<commits, commitSenders, cntCommitConfirm, isCommitBordcast>>
      /\ UNCHANGED <<chain, parked, sequenceID, requestOlds, sendOlds>>
  BY DEF Propose, BeginRound, SendPrePrepare, StoreStage
<1>2. VotesCounted' /\ OldsCertified'
  BY <1>1 DEF VotesCounted, OldsCertified, Certified
<1>3. \A k \in Node : Certified(Len(chain[k]))' /\ Certified(parked[k])' /\ sequenceID'[k] >= 1
  BY <1>1 DEF NodesCertified, Certified
<1>4. ASSUME NEW k \in Node, NEW h \in Digest PROVE height2Digest'[k][h] \in {NoDigest, h}
  <2>1. CASE height2Digest' = height2Digest
    BY <2>1 DEF NodesCertified
  <2>2. CASE SendPrePrepare(n)
    <3>1. FirstLeader
      BY DEF SingleChain, Undisturbed
    <3>2. n = 0 /\ ~sequenceLock[0]
      BY <2>2, <3>1 DEF SendPrePrepare, FirstLeader
    <3>3. Len(chain[0]) \in Nat
      BY NodeFacts DEF TypeOK, BlocksTyped
    <3>4. proposed + 1 = sequenceID[n]
      BY <3>1, <3>2, <3>3 DEF FirstLeader
    <3>5. height2Digest' = [height2Digest EXCEPT ![n][sequenceID[n]] = sequenceID[n]]
      BY <2>2, <3>4 DEF SendPrePrepare
    <3> QED BY <3>5 DEF NodesCertified, TypeOK, NodesTyped
  <2> QED BY <2>1, <2>2 DEF Propose, BeginRound, StoreStage
<1> QED BY <1>2, <1>3, <1>4 DEF NodesCertified

LEMMA PrePrepareCertified ==
  ASSUME NEW n \in Node, NEW d \in Digest, TypeOK, TypeOK', SingleChain,
         moved = {}, restarted = {},
         VotesCounted, NodesCertified, OldsCertified, handlePrePrepare(n, d)
  PROVE  VotesCounted' /\ NodesCertified' /\ OldsCertified'
<1> USE DEF blockVars, consVars, voteVars, lockVars, viewVars, oldVars, msgVars
<1>1. /\ UNCHANGED <<commits, commitSenders, cntCommitConfirm, isCommitBordcast>>
      /\ UNCHANGED <<chain, parked, sequenceID, requestOlds, sendOlds>>
  BY DEF handlePrePrepare
<1>2. VotesCounted' /\ OldsCertified'
  BY <1>1 DEF VotesCounted, OldsCertified, Certified
<1>3. \A k \in Node : Certified(Len(chain[k]))' /\ Certified(parked[k])' /\ sequenceID'[k] >= 1
  BY <1>1 DEF NodesCertified, Certified
<1>4. ProposalsInOrder
  BY DEF SingleChain, Undisturbed
<1>5. blocks[d].seq = d
  BY <1>4, CurrentProposed DEF handlePrePrepare, NodesCertified
<1>6. height2Digest' = [height2Digest EXCEPT ![n][d] = d]
  BY <1>5 DEF handlePrePrepare
<1>7. \A k \in Node : \A h \in Digest : height2Digest'[k][h] \in {NoDigest, h}
  BY <1>6 DEF NodesCertified, TypeOK, NodesTyped
<1> QED BY <1>2, <1>3, <1>7 DEF NodesCertified

LEMMA PrepareCertified ==
  ASSUME NEW n \in Node, NEW d \in Digest, TypeOK, TypeOK',
         VotesCounted, NodesCertified, OldsCertified, handlePrepare(n, d)
  PROVE  VotesCounted' /\ NodesCertified' /\ OldsCertified'
<1> USE DEF blockVars, consVars, voteVars, lockVars, viewVars, oldVars, msgVars
<1>1. UNCHANGED <<chain, parked, sequenceID, height2Digest, requestOlds, sendOlds,
                  cntCommitConfirm>>
  BY DEF handlePrepare
<1>2. CASE UNCHANGED <<commits, commitSenders, isCommitBordcast>>
  BY <1>1, <1>2 DEF VotesCounted, NodesCertified, OldsCertified, Certified
<1>3. CASE ~UNCHANGED <<commits, commitSenders, isCommitBordcast>>
  <2>1. /\ commits' = [m \in Node |-> [commits[m] EXCEPT ![d] = @ + 1]]
        /\ commitSenders' = [commitSenders EXCEPT ![d] = @ \cup {n}]
        /\ isCommitBordcast' = [isCommitBordcast EXCEPT ![n] = @ \cup {d}]
        /\ d \notin isCommitBordcast[n]
    BY <1>3 DEF handlePrepare, PreparedNow
  <2>2. n \notin commitSenders[d] /\ IsFiniteSet(commitSenders[d])
        /\ Cardinality(commitSenders[d]) \in Nat
    BY <2>1, SendersTyped DEF VotesCounted
  <2>3. commitSenders'[d] = commitSenders[d] \cup {n}
        /\ \A e \in Digest : e # d => commitSenders'[e] = commitSenders[e]
    BY <2>1 DEF TypeOK, MessagesTyped
  <2>4. Cardinality(commitSenders'[d]) = Cardinality(commitSenders[d]) + 1
    BY <2>2, <2>3, FS_AddElement
  <2>5. \A e \in Digest : Cardinality(commitSenders[e]) >= Quorum
                            => Cardinality(commitSenders'[e]) >= Quorum
    BY <2>3, CertifiedStays
  <2>6. VotesCounted'
    <3> SUFFICES ASSUME NEW m \in Node, NEW e \in Digest
                 PROVE  /\ e \in isCommitBordcast'[m] <=> m \in commitSenders'[e]
                        /\ cntCommitConfirm'[m][e] + commits'[m][e]
                             = Cardinality(commitSenders'[e])
      BY DEF VotesCounted
    <3>1. e \in isCommitBordcast'[m] <=> m \in commitSenders'[e]
      BY <2>1, <2>3 DEF VotesCounted, TypeOK, VotesTyped
    <3>2. cntCommitConfirm[m][e] \in Nat /\ commits[m][e] \in Nat
          /\ cntCommitConfirm[m][e] + commits[m][e] = Cardinality(commitSenders[e])
      BY DEF VotesCounted, TypeOK, VotesTyped, MessagesTyped
    <3>3. commits'[m][e] = IF e = d THEN commits[m][e] + 1 ELSE commits[m][e]
      BY <2>1 DEF TypeOK, MessagesTyped
    <3>4. Cardinality(commitSenders'[e]) = IF e = d THEN Cardinality(commitSenders[e]) + 1
                                           ELSE Cardinality(commitSenders[e])
      BY <2>3, <2>4
    <3>5. cntCommitConfirm'[m][e] = cntCommitConfirm[m][e]
      BY <1>1
    <3>6. cntCommitConfirm'[m][e] + commits'[m][e] = Cardinality(commitSenders'[e])
      BY <3>2, <3>3, <3>4, <3>5
    <3> QED BY <3>1, <3>6
  <2> QED BY <1>1, <2>5, <2>6 DEF NodesCertified, OldsCertified, Certified
<1> QED BY <1>2, <1>3

LEMMA CommitCertified ==
  ASSUME NEW n \in Node, NEW d \in Digest, TypeOK, TypeOK', SingleChain,
         moved = {}, restarted = {},
         VotesCounted, NodesCertified, OldsCertified, handleCommit(n, d)
  PROVE  VotesCounted' /\ NodesCertified' /\ OldsCertified'
<1> USE DEF blockVars, consVars, voteVars, lockVars, viewVars, oldVars, msgVars
<1>1. UNCHANGED <<height2Digest, sendOlds, commitSenders, isCommitBordcast, blocks>>
  BY DEF handleCommit
<1>2. ProposalsInOrder /\ FirstLeader
  BY DEF SingleChain, Undisturbed
<1>3. /\ cntCommitConfirm[n][d] \in Nat /\ commits[n][d] \in Nat /\ commits[n][d] > 0
      /\ cntCommitConfirm[n][d] + commits[n][d] = Cardinality(commitSenders[d])
  BY DEF handleCommit, VotesCounted, TypeOK, VotesTyped, MessagesTyped
<1>4. VotesCounted'
  <2> SUFFICES ASSUME NEW m \in Node, NEW e \in Digest
               PROVE  cntCommitConfirm'[m][e] + commits'[m][e] = Cardinality(commitSenders[e])
    BY <1>1 DEF VotesCounted
  <2>1. cntCommitConfirm[m][e] \in Nat /\ commits[m][e] \in Nat
        /\ cntCommitConfirm[m][e] + commits[m][e] = Cardinality(commitSenders[e])
    BY DEF VotesCounted, TypeOK, VotesTyped, MessagesTyped
  <2>2. /\ commits'[m][e] = IF m = n /\ e = d THEN commits[m][e] - 1 ELSE commits[m][e]
        /\ cntCommitConfirm'[m][e] = IF m = n /\ e = d THEN cntCommitConfirm[m][e] + 1
                                     ELSE cntCommitConfirm[m][e]
    BY DEF handleCommit, TypeOK, VotesTyped, MessagesTyped
  <2> QED BY <2>1, <2>2
<1>5. d <= proposed /\ blocks[d].seq = d
  BY <1>2, CurrentProposed DEF handleCommit, NodesCertified
<1>6. CommittedNow(n, d) => Certified(d)
  <2> SUFFICES ASSUME CommittedNow(n, d) PROVE Certified(d)
    OBVIOUS
  <2>1. cntCommitConfirm[n][d] + 1 >= Quorum
    BY DEF CommittedNow
  <2>2. Cardinality(commitSenders[d]) >= Quorum
    BY <1>3, <2>1, QuorumFact
  <2> QED BY <1>2, <1>5, <2>2, CertifiedBelow
<1>7. CASE ~CommittedNow(n, d)
  <2>1. UNCHANGED <<chain, parked, sequenceID, requestOlds>>
    BY <1>7 DEF handleCommit
  <2> QED BY <1>1, <1>4, <2>1 DEF NodesCertified, OldsCertified, Certified
<1>8. CASE CommittedNow(n, d) /\ d \in requestPool[n]
  <2>1. /\ chain' = [chain EXCEPT ![n] = AddBlock(chain[n], d)]
        /\ sequenceID' = [sequenceID EXCEPT ![n] = @ + 1]
        /\ UNCHANGED <<requestOlds, parked>>
    BY <1>8 DEF handleCommit, CommitRequest
  <2>2. chain \in [Node -> Seq(Digest)] /\ sequenceID \in [Node -> Nat]
    BY DEF TypeOK, BlocksTyped, NodesTyped
  <2>3. Certified(Len(AddBlock(chain[n], d)))
    BY <1>2, <1>6, <1>8, <2>2, AddCertified DEF NodesCertified
  <2>4. \A k \in Node : Certified(Len(chain'[k])) /\ sequenceID'[k] >= 1
    BY <2>1, <2>2, <2>3 DEF NodesCertified
  <2> QED BY <1>1, <1>4, <2>1, <2>4 DEF NodesCertified, OldsCertified, Certified
<1>9. CASE CommittedNow(n, d) /\ d \notin requestPool[n]
  <2>1. CommitMissing(n, d)
    BY <1>9 DEF handleCommit
  <2>2. UNCHANGED <<chain, sequenceID>>
    BY <2>1 DEF CommitMissing
  <2>3. \A k \in Node : Certified(parked'[k])
    BY <1>6, <1>9, <2>1 DEF CommitMissing, NodesCertified, TypeOK, LocksTyped
  <2>4. \A m \in requestOlds' : Certified(m.last)
    BY <1>5, <1>6, <1>9, <2>1 DEF CommitMissing, AskForOld, OldsCertified
  <2> QED BY <1>1, <1>4, <2>2, <2>3, <2>4 DEF NodesCertified, OldsCertified, Certified
<1> QED BY <1>7, <1>8, <1>9

LEMMA ResumeCertified ==
  ASSUME NEW n \in Node, TypeOK, TypeOK', SingleChain, moved = {}, restarted = {},
         VotesCounted, NodesCertified, OldsCertified, ResumeCommit(n)
  PROVE  VotesCounted' /\ NodesCertified' /\ OldsCertified'
<1> USE DEF blockVars, consVars, voteVars, lockVars, viewVars, oldVars, msgVars
<1>1. /\ UNCHANGED <<commits, commitSenders, cntCommitConfirm, isCommitBordcast>>
      /\ UNCHANGED <<chain, sequenceID, height2Digest, sendOlds>>
  BY DEF ResumeCommit
<1>2. VotesCounted'
  BY <1>1 DEF VotesCounted
<1>3. parked' = [parked EXCEPT ![n] = NoDigest]
  BY DEF ResumeCommit
<1>4. \A k \in Node : Certified(parked'[k])
  BY <1>3, CertifiedNone DEF NodesCertified, TypeOK, LocksTyped
<1>5. Certified(blocks[parked[n]].seq)
  <2>1. parked[n] \in Digest /\ parked[n] \in Nat /\ proposed \in Nat
    BY BoundAssumption DEF ResumeCommit, TypeOK, BlocksTyped, LocksTyped, NoDigest, Digest
  <2>2. blocks[parked[n]].seq = parked[n] \/ blocks[parked[n]].seq = NoDigest
    BY <2>1 DEF SingleChain, Undisturbed, ProposalsInOrder, NoDigest
  <2> QED BY <2>2, CertifiedNone DEF NodesCertified
<1>6. \A m \in requestOlds' : Certified(m.last)
  BY <1>5 DEF ResumeCommit, AskForOld, OldsCertified
<1> QED BY <1>1, <1>2, <1>4, <1>6 DEF NodesCertified, OldsCertified, Certified

LEMMA RequestOldCertified ==
  ASSUME NEW n \in Node, NEW m \in requestOlds, TypeOK, TypeOK',
         VotesCounted, NodesCertified, OldsCertified, handleRequestOldSeq(n, m)
  PROVE  VotesCounted' /\ NodesCertified' /\ OldsCertified'
<1> USE DEF blockVars, consVars, voteVars, lockVars, viewVars, oldVars, msgVars
<1>1. /\ UNCHANGED <<commits, commitSenders, cntCommitConfirm, isCommitBordcast>>
      /\ UNCHANGED <<chain, sequenceID, height2Digest, parked>>
      /\ requestOlds' = requestOlds \ {m}
  BY DEF handleRequestOldSeq
<1>2. m \in [to : Node, from : Node, first : Nat, last : Nat]
  BY DEF TypeOK, OldsTyped
<1>3. PICK k \in 0 .. MaxBlocks :
        /\ OldRun(n, m.first, m.last, k)
        /\ sendOlds' = sendOlds \cup
             {[to |-> m.from, first |-> m.first, last |-> m.last, added |-> 0,
               old |-> [i \in 1 .. k |-> DigestAt(n, m.first + i - 1)]]}
  BY DEF handleRequestOldSeq
<1>4. k \in Nat
  BY BoundAssumption
<1> DEFINE old == [i \in 1 .. k |-> DigestAt(n, m.first + i - 1)]
           a == [to |-> m.from, first |-> m.first, last |-> m.last, added |-> 0, old |-> old]
<1>5. ASSUME NEW i \in 1 .. k PROVE DigestAt(n, m.first + i - 1) = m.first + i - 1
  <2>1. m.first + i - 1 \in m.first .. m.first + k - 1
    BY <1>2, <1>4
  <2>2. HasOld(n, m.first + i - 1)
    BY <1>3, <2>1 DEF OldRun
  <2> QED BY <2>2 DEF HasOld, DigestAt, NodesCertified
<1>6. Len(old) = k
  BY <1>4
<1>7. \A i \in 1 .. Len(a.old) : a.old[i] = a.first + i - 1
  BY <1>5, <1>6
<1>8. Certified(a.last)
  BY DEF OldsCertified
<1>9. sendOlds' = sendOlds \cup {a}
  BY <1>3
<1> HIDE DEF a
<1> QED BY <1>1, <1>7, <1>8, <1>9 DEF VotesCounted, NodesCertified, OldsCertified, Certified

LEMMA AddOldCertified ==
  ASSUME NEW n \in Node, NEW m \in sendOlds, TypeOK, TypeOK', SingleChain,
         moved = {}, restarted = {},
         VotesCounted, NodesCertified, OldsCertified, AddOldBlock(n, m)
  PROVE  VotesCounted' /\ NodesCertified' /\ OldsCertified'
<1> USE DEF blockVars, consVars, voteVars, lockVars, viewVars, oldVars, msgVars
<1>1. /\ UNCHANGED <<commits, commitSenders, cntCommitConfirm, isCommitBordcast>>
      /\ UNCHANGED <<sequenceID, height2Digest, parked, requestOlds, blocks>>
  BY DEF AddOldBlock
<1>2. m \in [to : Node, first : Nat, last : Nat, added : Nat, old : Seq(Digest)]
  BY DEF TypeOK, OldsTyped
<1> DEFINE d == m.old[m.added + 1]
           a == [m EXCEPT !.added = @ + 1]
<1>3. /\ chain' = [chain EXCEPT ![n] = AddBlock(chain[n], d)]
      /\ sendOlds' = (sendOlds \ {m}) \cup {a}
  BY DEF AddOldBlock
<1>4. a.last = m.last /\ a.old = m.old /\ a.first = m.first
  BY <1>2
<1>5. m.added + 1 \in 1 .. Len(m.old) /\ m.last - m.first + 1 = Len(m.old)
  BY <1>2 DEF AddOldBlock, Complete
<1>6. d \in Digest /\ d = m.first + m.added /\ d <= m.last
  <2>1. d \in Digest
    BY <1>2, <1>5
  <2>2. d = m.first + (m.added + 1) - 1
    BY <1>5 DEF OldsCertified
  <2> QED BY <1>2, <1>5, <2>1, <2>2
<1>7. Certified(d)
  <2>1. Certified(m.last)
    BY DEF OldsCertified
  <2>2. \A e \in Digest : e <= d => e <= m.last
    BY <1>2, <1>6, DigestFacts
  <2> QED BY <2>1, <2>2 DEF Certified
<1>8. chain \in [Node -> Seq(Digest)] /\ ProposalsInOrder
  BY DEF TypeOK, BlocksTyped, SingleChain, Undisturbed
<1> HIDE DEF d, a
<1>9. Certified(Len(AddBlock(chain[n], d)))
  BY <1>6, <1>7, <1>8, AddCertified DEF NodesCertified
<1>10. \A k \in Node : Certified(Len(chain'[k]))
  BY <1>3, <1>8, <1>9 DEF NodesCertified
<1>11. \A x \in sendOlds' : /\ Certified(x.last)
                            /\ \A i \in 1 .. Len(x.old) : x.old[i] = x.first + i - 1
  BY <1>3, <1>4 DEF OldsCertified
<1> QED BY <1>1, <1>10, <1>11 DEF VotesCounted, NodesCertified, OldsCertified, Certified

LEMMA SendOldCertified ==
  ASSUME NEW n \in Node, NEW m \in sendOlds, TypeOK, TypeOK',
         VotesCounted, NodesCertified, OldsCertified, handleSendOldSeq(n, m)
  PROVE  VotesCounted' /\ NodesCertified' /\ OldsCertified'
<1> USE DEF blockVars, consVars, voteVars, lockVars, viewVars, oldVars, msgVars
<1>1. /\ UNCHANGED <<commits, commitSenders, cntCommitConfirm, isCommitBordcast>>
      /\ UNCHANGED <<chain, parked, requestOlds>>
      /\ sendOlds' = sendOlds \ {m}
      /\ sequenceID' = [sequenceID EXCEPT ![n] = m.last + 1]
  BY DEF handleSendOldSeq
<1>2. m \in [to : Node, first : Nat, last : Nat, added : Nat, old : Seq(Digest)]
  BY DEF TypeOK, OldsTyped
<1> DEFINE h2d == [h \in Digest |-> IF h \in m.first .. m.first + Len(m.old) - 1
                                      THEN m.old[h - m.first + 1]
                                      ELSE height2Digest[n][h]]
<1>3. height2Digest' = [height2Digest EXCEPT ![n] = h2d]
  BY DEF handleSendOldSeq
<1>4. ASSUME NEW h \in Digest PROVE h2d[h] \in {NoDigest, h}
  <2>1. CASE h \in m.first .. m.first + Len(m.old) - 1
    <3>1. h - m.first + 1 \in 1 .. Len(m.old) /\ h \in Nat
      BY <1>2, <2>1, DigestFacts
    <3>2. m.old[h - m.first + 1] = m.first + (h - m.first + 1) - 1
      BY <3>1 DEF OldsCertified
    <3>3. m.first + (h - m.first + 1) - 1 = h
      BY <1>2, <3>1
    <3> QED BY <2>1, <3>2, <3>3
  <2>2. CASE h \notin m.first .. m.first + Len(m.old) - 1
    BY <2>2 DEF NodesCertified
  <2> QED BY <2>1, <2>2
<1> HIDE DEF h2d
<1>5. \A k \in Node : \A h \in Digest : height2Digest'[k][h] \in {NoDigest, h}
  BY <1>3, <1>4 DEF NodesCertified, TypeOK, NodesTyped
<1>6. \A k \in Node : sequenceID'[k] >= 1
  BY <1>1, <1>2 DEF NodesCertified, TypeOK, NodesTyped
<1> QED BY <1>1, <1>5, <1>6 DEF VotesCounted, NodesCertified, OldsCertified, Certified

LEMMA CertificateStep ==
  TypeOK /\ SingleChain /\ CertificatesKept /\ [Next]_vars => CertificatesKept'
<1> SUFFICES ASSUME TypeOK, SingleChain, CertificatesKept, [Next]_vars,
                    moved' = {}, restarted' = {}
             PROVE  VotesCounted' /\ NodesCertified' /\ OldsCertified'
  BY DEF CertificatesKept
<1> USE DEF blockVars, consVars, voteVars, lockVars, viewVars, oldVars, msgVars
<1>1. TypeOK'
  BY TypeStep
<1>2. CASE UNCHANGED <<commits, commitSenders, cntCommitConfirm, isCommitBordcast, chain,
                       parked, sequenceID, height2Digest, requestOlds, sendOlds,
                       moved, restarted>>
  BY <1>2 DEF CertificatesKept, VotesCounted, NodesCertified, OldsCertified, Certified
<1>3. ASSUME NEW n \in Node,
             \/ viewChangePropose(n)
             \/ \E v \in viewChanges : handleViewChangeMsg(n, v)
             \/ \E v \in newViews : handleNewViewMsg(n, v)
      PROVE  UNCHANGED <<commits, commitSenders, cntCommitConfirm, isCommitBordcast, chain,
                         parked, sequenceID, height2Digest, requestOlds, sendOlds,
                         moved, restarted>>
  BY <1>3 DEF viewChangePropose, handleViewChangeMsg, handleNewViewMsg
<1>4. ~ \E n \in Node : Restart(n)
  BY DEF Restart
<1>5. ASSUME NEW n \in Node,
             \/ Propose(n) \/ ResumeCommit(n)
             \/ \E d \in Digest : handlePrePrepare(n, d) \/ handlePrepare(n, d)
                                    \/ handleCommit(n, d)
             \/ \E m \in requestOlds : handleRequestOldSeq(n, m)
             \/ \E m \in sendOlds : AddOldBlock(n, m) \/ handleSendOldSeq(n, m)
      PROVE  VotesCounted' /\ NodesCertified' /\ OldsCertified'
  <2>1. moved = {} /\ restarted = {}
    BY <1>5 DEF Propose, BeginRound, SendPrePrepare, StoreStage, ResumeCommit,
       handlePrePrepare, handlePrepare, handleCommit, handleRequestOldSeq,
       AddOldBlock, handleSendOldSeq
  <2>2. VotesCounted /\ NodesCertified /\ OldsCertified
    BY <2>1 DEF CertificatesKept
  <2> QED BY <1>1, <1>5, <2>1, <2>2, ProposeCertified, PrePrepareCertified,
          PrepareCertified, CommitCertified, ResumeCertified, RequestOldCertified,
          AddOldCertified, SendOldCertified
<1>6. CASE UNCHANGED vars
  BY <1>2, <1>6 DEF vars
<1> QED BY <1>2, <1>3, <1>4, <1>5, <1>6 DEF Next

\* As long as no view changes and no process restarts, a block reaches a chain
\* only with the Commits of 2f+1 different nodes, though handleCommit counts
\* messages and a node that catches up counts nothing.
THEOREM CertificatesHold == Spec => []CommitCertificate
<1>1. Init => CertificatesKept
  <2> SUFFICES ASSUME Init PROVE VotesCounted /\ NodesCertified /\ OldsCertified
    BY DEF CertificatesKept
  <2>1. VotesCounted
    BY FS_EmptySet DEF Init, VotesCounted
  <2>2. ASSUME NEW h \in {0} PROVE Certified(h)
    BY CertifiedNone DEF NoDigest
  <2> QED BY <2>1, <2>2 DEF Init, NodesCertified, OldsCertified, NoDigest
<1>2. TypeOK /\ SingleChain /\ CertificatesKept => CommitCertificate
  <2> SUFFICES ASSUME TypeOK, SingleChain, CertificatesKept, moved = {}, restarted = {},
                      NEW n \in Node, NEW i \in 1 .. Len(chain[n])
               PROVE  Cardinality(commitSenders[chain[n][i]]) >= Quorum
    BY DEF CommitCertificate
  <2>1. chain[n][i] = i /\ Certified(Len(chain[n])) /\ chain[n][i] \in Digest
        /\ Len(chain[n]) \in Nat
    BY DEF SingleChain, Undisturbed, ChainsInOrder, CertificatesKept, NodesCertified,
       TypeOK, BlocksTyped
  <2> QED BY <2>1 DEF Certified
<1> QED BY <1>1, <1>2, CertificateStep, OneChain, TypeCorrect, PTL DEF Spec

-----------------------------------------------------------------------------
(* The node's disk: for every tree of blocks, a crash at any point of      *)
(* AddBlock leaves a disk that NewBlockChain can load, the stored chain    *)
(* only grows, and a block added and reported stays in it.                 *)

LEMMA InitStorage == StorageInit => StorageInv
  BY TreeAssumption DEF StorageInit, StorageInv, StorageTypeOK, Recoverable, Orderly, Loadable

LEMMA NextStorage == StorageInv /\ [StorageNext]_storageVars => StorageInv'
<1> SUFFICES ASSUME StorageInv, [StorageNext]_storageVars PROVE StorageInv'
  OBVIOUS
<1> USE TreeAssumption
<1>1. CASE OpenEmpty
  BY <1>1 DEF OpenEmpty, StorageInv, StorageTypeOK, Recoverable, Orderly, Loadable, disk
<1>2. CASE OpenExisting
  BY <1>2 DEF OpenExisting, StorageInv, StorageTypeOK, Recoverable, Orderly, Loadable, disk
<1>3. ASSUME NEW b \in Block, GenerateBlock(b) PROVE StorageInv'
  BY <1>3 DEF GenerateBlock, StorageInv, StorageTypeOK, Recoverable, Orderly, Loadable, memory
<1>4. ASSUME NEW b \in Block, BeginAddBlock(b) PROVE StorageInv'
  BY <1>4 DEF BeginAddBlock, StorageInv, StorageTypeOK, Recoverable, Orderly, Loadable
<1>5. CASE PutBlock
  BY <1>5 DEF PutBlock, StorageInv, StorageTypeOK, Recoverable, Orderly, Loadable
<1>6. CASE AddBlockHeader
  BY <1>6 DEF AddBlockHeader, StorageInv, StorageTypeOK, Recoverable, Orderly, Loadable
<1>7. CASE UpdateNewestBlock
  BY <1>7 DEF UpdateNewestBlock, StorageInv, StorageTypeOK, Recoverable, Orderly, Loadable
<1>8. CASE Added
  BY <1>8 DEF Added, StorageInv, StorageTypeOK, Recoverable, Orderly, Loadable, disk
<1>9. CASE Crash
  BY <1>9 DEF Crash, StorageInv, StorageTypeOK, Recoverable, Orderly, Loadable, disk
<1>10. CASE UNCHANGED storageVars
  BY <1>10 DEF storageVars, disk, memory, StorageInv, StorageTypeOK, Recoverable, Orderly,
     Loadable
<1> QED
  BY <1>1, <1>2, <1>3, <1>4, <1>5, <1>6, <1>7, <1>8, <1>9, <1>10 DEF StorageNext

LEMMA StorageHolds == StorageSpec => []StorageInv
  BY InitStorage, NextStorage, PTL DEF StorageSpec

\* A crash between any two steps of GenerateBlock and AddBlock leaves a disk
\* that NewBlockChain loads without a panic.
THEOREM CrashSafe == StorageSpec => []Recoverable
<1>1. StorageInv => Recoverable
  BY DEF StorageInv
<1> QED
  BY <1>1, StorageHolds, PTL

\* The chain on the disk moves only from a block to one of its children.
THEOREM DiskGrows == StorageSpec => GrowsByOne
<1>1. StorageInv /\ [StorageNext]_storageVars =>
        [newest' # newest => \/ newest = None /\ newest' = Genesis
                             \/ newest # None /\ newest' # None
                                /\ Parent[newest'] = newest]_storageVars
  <2> SUFFICES ASSUME StorageInv, StorageNext, newest' # newest
               PROVE \/ newest = None /\ newest' = Genesis
                     \/ newest # None /\ newest' # None /\ Parent[newest'] = newest
    OBVIOUS
  <2>1. UpdateNewestBlock
    BY DEF StorageNext, OpenEmpty, OpenExisting, GenerateBlock, BeginAddBlock, PutBlock,
           AddBlockHeader, Added, Crash, disk
  <2> QED
    BY <2>1, TreeAssumption DEF UpdateNewestBlock, StorageInv, StorageTypeOK, Orderly
<1> QED
  BY <1>1, StorageHolds, PTL DEF StorageSpec, GrowsByOne

\* A block is its own ancestor, and has the ancestors of its parent.
LEMMA AncestorsOfChild ==
  ASSUME NEW b \in Block
  PROVE  b \in Ancestors(b) /\ Ancestors(Parent[b]) \subseteq Ancestors(b)
  BY TreeAssumption DEF Ancestors

\* The block AddBlock is about to report is the newest one, and the newest
\* block only ever moves to a child of itself: what was below it stays below.
LEMMA NextReported == StorageInv /\ ReportedKept /\ [StorageNext]_storageVars => ReportedKept'
<1> SUFFICES ASSUME StorageInv, ReportedKept, [StorageNext]_storageVars PROVE ReportedKept'
  OBVIOUS
<1> USE TreeAssumption
<1>1. CASE UpdateNewestBlock
  <2>1. newest' = adding /\ reported' = reported /\ adding \in Block
    BY <1>1 DEF UpdateNewestBlock, StorageInv, Orderly
  <2>2. ASSUME NEW b \in Block, <<b, "added">> \in reported
        PROVE  newest # None /\ Parent[adding] = newest
    BY <1>1, <2>2 DEF UpdateNewestBlock, StorageInv, Orderly, ReportedKept
  <2>3. Ancestors(Parent[adding]) \subseteq Ancestors(adding)
    BY <2>1, AncestorsOfChild
  <2>4. ASSUME NEW b \in Block, <<b, "added">> \in reported'
        PROVE  newest' # None /\ b \in Ancestors(adding)
    BY <2>1, <2>2, <2>3, <2>4 DEF ReportedKept
  <2> QED BY <2>1, <2>4 DEF ReportedKept, Ancestors
<1>2. CASE Added
  <2>1. newest' = newest /\ reported' \subseteq reported \cup {<<adding, step>>}
    BY <1>2 DEF Added, disk
  <2>2. step = "added" => newest = adding /\ adding \in Block
    BY DEF StorageInv, Orderly
  <2>3. ASSUME NEW b \in Block, <<b, "added">> \in reported'
        PROVE  newest # None /\ b \in Ancestors(newest)
    <3>1. CASE <<b, "added">> \in reported
      BY <3>1 DEF ReportedKept
    <3>2. CASE <<b, "added">> = <<adding, step>>
      BY <2>2, <3>2, AncestorsOfChild
    <3> QED BY <2>1, <2>3, <3>1, <3>2
  <2> QED BY <2>1, <2>3 DEF ReportedKept, Ancestors
<1>3. CASE ~UpdateNewestBlock /\ ~Added
  <2>1. newest' = newest /\ reported' = reported
    BY <1>3 DEF StorageNext, OpenEmpty, OpenExisting, GenerateBlock, BeginAddBlock, PutBlock,
       AddBlockHeader, Crash, disk, memory, storageVars
  <2> QED BY <2>1 DEF ReportedKept, Ancestors
<1> QED BY <1>1, <1>2, <1>3

\* A block that AddBlock added and the leader relayed and reported is in the
\* chain that every later NewBlockChain loads, through any number of crashes.
THEOREM ReportedSurvives == StorageSpec => []ReportedKept
<1>1. StorageInit => ReportedKept
  BY DEF StorageInit, ReportedKept
<1> QED
  BY <1>1, NextReported, StorageHolds, PTL DEF StorageSpec
=============================================================================
