-------------------------------- MODULE Pbft --------------------------------
(***************************************************************************)
(* The consensus of one shard (consensus_shard/pbft_all): the leader's     *)
(* proposing routine, the three-phase handlers, the catch-up of a node     *)
(* that was left behind, the view change and the restart of a process.     *)
(*                                                                         *)
(* A digest is the number of a proposal: a request carries its time, so    *)
(* two proposals never have the same digest.  All messages about a digest  *)
(* carry the SeqID of its PrePrepare.                                      *)
(*                                                                         *)
(* The network (networks.TcpDial) sends every message from a goroutine of  *)
(* its own: any order of delivery is possible, and a message that is never *)
(* handled stands for a lost one.  A handler that finds its message out of *)
(* date (SeqID < sequenceID), or whose view moved while it waited, returns *)
(* without an effect; that is a message never handled.                     *)
(*                                                                         *)
(* handlePrePrepare, handlePrepare and handleCommit run under pbftLock, so *)
(* each is one step, taken when its wait loop lets it pass.                *)
(***************************************************************************)
EXTENDS Integers, Sequences, FiniteSets

CONSTANTS
  N,            \* node_nums: nodes of the shard
  MaxBlocks,    \* bound: proposals made in a behaviour
  MaxTimeouts,  \* bound: view-change timeouts in a behaviour
  MaxRestarts   \* bound: nodes that restart, each of them once

ASSUME NAssumption == N \in Nat \ {0}
ASSUME BoundAssumption ==
  MaxBlocks \in Nat /\ MaxTimeouts \in Nat /\ MaxRestarts \in Nat

Node == 0 .. N - 1                  \* NodeID
malicious_nums == (N - 1) \div 3
\* Wrong: f+1, so that two quorums need not meet, and 2f+2.
QuorumTooSmall == malicious_nums + 1
QuorumTooLarge == 2 * malicious_nums + 2
Quorum == 2 * malicious_nums + 1
Digest == 1 .. MaxBlocks
NoDigest == 0                       \* also the digest of the genesis block

VARIABLES
  blocks,       \* blocks[d]: parent, number and SeqID of proposal d
  proposed,     \* number of proposals made so far
  chain,        \* chain[n]: the digests of the blocks above genesis in CurChain
  relayed,      \* relayed[d]: how often a leader relayed and reported block d
  sequenceID, view, pbftStage,
  requestPool, height2Digest,
  cntPrepareConfirm, cntCommitConfirm,
  isCommitBordcast, isReply,
  sequenceLock, \* is the mutex locked?
  askForLock,   \* is the mutex locked?
  proposer,     \* where the node's proposing goroutine is
  parked,       \* the digest whose handleCommit waits for askForLock
  fatal,        \* the process died of an Unlock of an unlocked mutex
  viewChangeMap, newViewMap,
  prePrepares, prepares, commits,   \* messages on their way
  requestOlds, sendOlds, viewChanges, newViews,
  timeouts,     \* how often a node timed out
  restarted,    \* the nodes whose process was restarted
  moved,        \* the nodes that adopted a new view
  prepareSenders, commitSenders     \* history: who broadcast what

consVars == <<sequenceID, pbftStage, requestPool, height2Digest>>
voteVars == <<cntPrepareConfirm, cntCommitConfirm, isCommitBordcast, isReply>>
lockVars == <<sequenceLock, askForLock, parked, fatal>>
blockVars == <<blocks, proposed>>
viewVars == <<view, viewChangeMap, newViewMap, viewChanges, newViews, timeouts, moved>>
oldVars == <<requestOlds, sendOlds>>
msgVars == <<prePrepares, prepares, commits, prepareSenders, commitSenders>>
vars == <<blockVars, chain, relayed, consVars, voteVars, lockVars, proposer,
          viewVars, oldVars, msgVars, restarted>>

-----------------------------------------------------------------------------
(* The chain of a node.                                                    *)

Tip(c) == IF c = <<>> THEN NoDigest ELSE c[Len(c)]

\* Wrong: the block is added whatever its height and parent.
AddBlockUnchecked(c, d) == Append(c, d)

\* BlockChain.AddBlock: a block of the wrong height or parent is ignored.
AddBlock(c, d) ==
  IF blocks[d].number = Len(c) + 1 /\ blocks[d].parent = Tip(c)
    THEN Append(c, d) ELSE c

\* BlockChain.IsValidBlock, for the transaction roots of an honest leader.
IsValidBlock(n, d) == blocks[d].parent = Tip(chain[n])

\* What a process holds when NewPbftNode has run on the stored chain c.
Init ==
  /\ blocks = [d \in Digest |-> [parent |-> NoDigest, number |-> 0, seq |-> 0]]
  /\ proposed = 0
  /\ chain = [n \in Node |-> <<>>]
  /\ relayed = [d \in Digest |-> 0]
  /\ sequenceID = [n \in Node |-> 1]
  /\ view = [n \in Node |-> 0]
  /\ pbftStage = [n \in Node |-> 1]
  /\ requestPool = [n \in Node |-> {}]
  /\ height2Digest = [n \in Node |-> [h \in Digest |-> NoDigest]]
  /\ cntPrepareConfirm = [n \in Node |-> [d \in Digest |-> 0]]
  /\ cntCommitConfirm = [n \in Node |-> [d \in Digest |-> 0]]
  /\ isCommitBordcast = [n \in Node |-> {}]
  /\ isReply = [n \in Node |-> {}]
  /\ sequenceLock = [n \in Node |-> FALSE]
  /\ askForLock = [n \in Node |-> FALSE]
  /\ proposer = [n \in Node |-> "idle"]
  /\ parked = [n \in Node |-> NoDigest]
  /\ fatal = [n \in Node |-> FALSE]
  /\ viewChangeMap = [n \in Node |-> {}]
  /\ newViewMap = [n \in Node |-> {}]
  /\ prePrepares = {}
  /\ prepares = [n \in Node |-> [d \in Digest |-> 0]]
  /\ commits = [n \in Node |-> [d \in Digest |-> 0]]
  /\ requestOlds = {}
  /\ sendOlds = {}
  /\ viewChanges = {}
  /\ newViews = {}
  /\ timeouts = 0
  /\ restarted = {}
  /\ moved = {}
  /\ prepareSenders = [d \in Digest |-> {}]
  /\ commitSenders = [d \in Digest |-> {}]

-----------------------------------------------------------------------------
(* Proposing.  A goroutine of Propose checks that its node leads, takes    *)
(* sequenceLock, proposes, and only then stores stage 2.  One goroutine of *)
(* a node is followed at a time.                                           *)

\* The round ticker saw stage 1 and the new goroutine saw itself as leader.
BeginRound(n) ==
  /\ ~fatal[n]
  /\ proposer[n] = "idle"
  /\ pbftStage[n] = 1
  /\ view[n] = n
  /\ proposer' = [proposer EXCEPT ![n] = "locking"]
  /\ UNCHANGED <<blockVars, chain, relayed, consVars, voteVars, lockVars, viewVars,
                 oldVars, msgVars, restarted>>

\* It got sequenceLock: pack a block on the current tip, put the request in
\* the pool and send the PrePrepare to everyone, itself included.
SendPrePrepare(n) ==
  LET d == proposed + 1 IN
  /\ ~fatal[n]
  /\ proposer[n] = "locking"
  /\ ~sequenceLock[n]
  /\ proposed < MaxBlocks
  /\ proposed' = d
  /\ blocks' = [blocks EXCEPT ![d] = [parent |-> Tip(chain[n]),
                                      number |-> Len(chain[n]) + 1,
                                      seq |-> sequenceID[n]]]
  /\ requestPool' = [requestPool EXCEPT ![n] = @ \cup {d}]
  /\ height2Digest' = [height2Digest EXCEPT ![n][sequenceID[n]] = d]
  /\ prePrepares' = prePrepares \cup {<<m, d>> : m \in Node}
  /\ sequenceLock' = [sequenceLock EXCEPT ![n] = TRUE]
  /\ proposer' = [proposer EXCEPT ![n] = "sent"]
  /\ UNCHANGED <<chain, relayed, sequenceID, pbftStage, voteVars, askForLock, parked,
                 fatal, viewVars, oldVars, prepares, commits, prepareSenders,
                 commitSenders, restarted>>

\* The goroutine's last statement, pbftStage.Store(2), may run after handlers
\* of the same node have already moved the stage.
StoreStage(n) ==
  /\ ~fatal[n]
  /\ proposer[n] = "sent"
  /\ pbftStage' = [pbftStage EXCEPT ![n] = 2]
  /\ proposer' = [proposer EXCEPT ![n] = "idle"]
  /\ UNCHANGED <<blockVars, chain, relayed, sequenceID, requestPool, height2Digest,
                 voteVars, lockVars, viewVars, oldVars, msgVars, restarted>>

-----------------------------------------------------------------------------
(* The three phases.                                                       *)

\* pbftLock is free: no handleCommit of the node sits on it.
CanHandle(n) == ~fatal[n] /\ parked[n] = NoDigest

\* Wrong: off by one.
CurrentStrict(n, d) == blocks[d].seq > sequenceID[n]

\* The message about digest d is not out of date at node n.
Current(n, d) == blocks[d].seq >= sequenceID[n]

\* A PrePrepare for a later sequence is stored and nothing more; one for the
\* current sequence is stored, and prepared if its block is valid here.
handlePrePrepare(n, d) ==
  /\ CanHandle(n)
  /\ <<n, d>> \in prePrepares
  /\ pbftStage[n] >= 1
  /\ Current(n, d)
  /\ prePrepares' = prePrepares \ {<<n, d>>}
  /\ requestPool' = [requestPool EXCEPT ![n] = @ \cup {d}]
  /\ height2Digest' = [height2Digest EXCEPT ![n][blocks[d].seq] = d]
  /\ IF sequenceID[n] = blocks[d].seq /\ IsValidBlock(n, d)
       THEN /\ prepares' = [m \in Node |-> [prepares[m] EXCEPT ![d] = @ + 1]]
            /\ prepareSenders' = [prepareSenders EXCEPT ![d] = @ \cup {n}]
            /\ pbftStage' = [pbftStage EXCEPT ![n] = @ + 1]
       ELSE UNCHANGED <<prepares, prepareSenders, pbftStage>>
  /\ UNCHANGED <<blockVars, chain, relayed, sequenceID, voteVars, lockVars, proposer,
                 viewVars, oldVars, commits, commitSenders, restarted>>

\* Wrong: a Commit for every Prepare beyond the quorum.
PreparedRepeatedly(n, d) == cntPrepareConfirm[n][d] + 1 >= Quorum

\* 2f+1 Prepares, the one being handled included, and no Commit sent so far.
PreparedNow(n, d) ==
  cntPrepareConfirm[n][d] + 1 >= Quorum /\ d \notin isCommitBordcast[n]

\* A Prepare without its request, or for a later sequence, is used up in vain.
\* The maps of votes are keyed by the pointer to the decoded sender, so every
\* message handled counts, whoever sent it.
handlePrepare(n, d) ==
  /\ CanHandle(n)
  /\ prepares[n][d] > 0
  /\ pbftStage[n] >= 2
  /\ Current(n, d)
  /\ IF d \notin requestPool[n] \/ sequenceID[n] < blocks[d].seq
       THEN /\ prepares' = [prepares EXCEPT ![n][d] = @ - 1]
            /\ UNCHANGED <<cntPrepareConfirm, isCommitBordcast, commits,
                           commitSenders, pbftStage>>
       ELSE /\ prepares' = [prepares EXCEPT ![n][d] = @ - 1]
            /\ cntPrepareConfirm' = [cntPrepareConfirm EXCEPT ![n][d] = @ + 1]
            /\ IF PreparedNow(n, d)
                 THEN /\ commits' = [m \in Node |-> [commits[m] EXCEPT ![d] = @ + 1]]
                      /\ commitSenders' = [commitSenders EXCEPT ![d] = @ \cup {n}]
                      /\ isCommitBordcast' = [isCommitBordcast EXCEPT ![n] = @ \cup {d}]
                      /\ pbftStage' = [pbftStage EXCEPT ![n] = @ + 1]
                 ELSE UNCHANGED <<commits, commitSenders, isCommitBordcast, pbftStage>>
  /\ UNCHANGED <<blockVars, chain, relayed, sequenceID, requestPool, height2Digest,
                 cntCommitConfirm, isReply, lockVars, proposer, viewVars,
                 oldVars, prePrepares, prepareSenders, restarted>>

\* 2f+1 Commits, the one being handled included, and not replied so far.
CommittedNow(n, d) ==
  cntCommitConfirm[n][d] + 1 >= Quorum /\ d \notin isReply[n]

\* Wrong: sequenceLock stays locked.
EndOfRoundNoUnlock(n) ==
  /\ pbftStage' = [pbftStage EXCEPT ![n] = 1]
  /\ UNCHANGED <<sequenceLock, fatal>>

\* The end of handleCommit once the quorum was reached: stage 1, and the node
\* that leads its view unlocks sequenceLock, which kills the process if the
\* mutex is not locked.
EndOfRound(n) ==
  /\ pbftStage' = [pbftStage EXCEPT ![n] = 1]
  /\ IF view[n] = n
       THEN /\ sequenceLock' = [sequenceLock EXCEPT ![n] = FALSE]
            /\ fatal' = [fatal EXCEPT ![n] = ~sequenceLock[n]]
       ELSE UNCHANGED <<sequenceLock, fatal>>

\* Wrong: ask without taking askForLock.
AskForOldNoLock(n, d) ==
  /\ UNCHANGED askForLock
  /\ requestOlds' = requestOlds \cup {[to |-> view[n], from |-> n,
                        first |-> sequenceID[n] + 1, last |-> blocks[d].seq]}

\* Ask the leader for the blocks after sequenceID up to the committed one.
AskForOld(n, d) ==
  /\ askForLock' = [askForLock EXCEPT ![n] = TRUE]
  /\ requestOlds' = requestOlds \cup {[to |-> view[n], from |-> n,
                        first |-> sequenceID[n] + 1, last |-> blocks[d].seq]}

\* Wrong: every node relays.
RelayByAll(n, d) == [relayed EXCEPT ![d] = @ + 1]
\* HandleinCommit after AddBlock, which may have ignored the block: the node
\* that leads its view relays the transactions of the block and reports it.
RelayByLeader(n, d) == IF view[n] = n THEN [relayed EXCEPT ![d] = @ + 1] ELSE relayed

\* A commit quorum whose request is at hand: HandleinCommit adds the block.
\* Nothing compares the SeqID with sequenceID here, nor the view of the node
\* with the one in which the block was proposed.
CommitRequest(n, d) ==
  /\ chain' = [chain EXCEPT ![n] = AddBlock(@, d)]
  /\ relayed' = RelayByLeader(n, d)
  /\ sequenceID' = [sequenceID EXCEPT ![n] = @ + 1]
  /\ EndOfRound(n)
  /\ UNCHANGED <<askForLock, requestOlds, parked>>

\* A commit quorum whose request is missing: ask for it, or wait, with
\* pbftLock held, while an earlier question is still unanswered.
CommitMissing(n, d) ==
  /\ UNCHANGED <<chain, relayed, sequenceID>>
  /\ IF askForLock[n]
       THEN /\ parked' = [parked EXCEPT ![n] = d]
            /\ UNCHANGED <<pbftStage, sequenceLock, fatal, askForLock, requestOlds>>
       ELSE /\ AskForOld(n, d)
            /\ EndOfRound(n)
            /\ UNCHANGED parked

handleCommit(n, d) ==
  /\ CanHandle(n)
  /\ commits[n][d] > 0
  /\ pbftStage[n] >= 3
  /\ Current(n, d)
  /\ commits' = [commits EXCEPT ![n][d] = @ - 1]
  /\ cntCommitConfirm' = [cntCommitConfirm EXCEPT ![n][d] = @ + 1]
  /\ IF CommittedNow(n, d)
       THEN /\ isReply' = [isReply EXCEPT ![n] = @ \cup {d}]
            /\ IF d \in requestPool[n] THEN CommitRequest(n, d)
                                       ELSE CommitMissing(n, d)
       ELSE UNCHANGED <<chain, relayed, sequenceID, pbftStage, isReply, lockVars, requestOlds>>
  /\ UNCHANGED <<blockVars, requestPool, height2Digest, cntPrepareConfirm,
                 isCommitBordcast, proposer, viewVars, sendOlds, prePrepares,
                 prepares, prepareSenders, commitSenders, restarted>>

\* A parked handleCommit gets askForLock and goes on.
ResumeCommit(n) ==
  /\ ~fatal[n]
  /\ parked[n] # NoDigest
  /\ ~askForLock[n]
  /\ AskForOld(n, parked[n])
  /\ EndOfRound(n)
  /\ parked' = [parked EXCEPT ![n] = NoDigest]
  /\ UNCHANGED <<blockVars, chain, relayed, sequenceID, requestPool, height2Digest,
                 voteVars, proposer, viewVars, sendOlds, msgVars, restarted>>

-----------------------------------------------------------------------------
(* Catching up.  These handlers run under tcpPoolLock only: the other      *)
(* goroutines of the node interleave with the loop that adds blocks.       *)

\* height2Digest of n at height h, if it is there.
DigestAt(n, h) == IF h \in Digest THEN height2Digest[n][h] ELSE NoDigest

\* Wrong: answer without looking whether the request is there.
HasOldUnchecked(n, h) == TRUE

HasOld(n, h) == DigestAt(n, h) # NoDigest /\ DigestAt(n, h) \in requestPool[n]

\* The run of requests n has from height first on stops after k of them: at
\* last, or at the first height without a digest or a request.
OldRun(n, first, last, k) ==
  /\ \A h \in first .. first + k - 1 : h <= last /\ HasOld(n, h)
  /\ first + k > last \/ ~HasOld(n, first + k)

\* The node is inside the loop of handleSendOldSeq, and holds tcpPoolLock.
Syncing(n) == \E m \in sendOlds : m.to = n /\ m.added > 0

handleRequestOldSeq(n, m) ==
  /\ ~fatal[n] /\ ~Syncing(n)
  /\ m \in requestOlds /\ m.to = n
  /\ view[n] = n
  /\ requestOlds' = requestOlds \ {m}
  /\ \E k \in 0 .. MaxBlocks :
       /\ OldRun(n, m.first, m.last, k)
       /\ sendOlds' = sendOlds \cup
            {[to |-> m.from, first |-> m.first, last |-> m.last, added |-> 0,
              old |-> [i \in 1 .. k |-> DigestAt(n, m.first + i - 1)]]}
  /\ UNCHANGED <<blockVars, chain, relayed, consVars, voteVars, lockVars, proposer,
                 viewVars, msgVars, restarted>>

\* HandleforSequentialRequest takes the answer only when it is complete.
Complete(m) == m.last - m.first + 1 = Len(m.old)

\* One turn of the loop of HandleforSequentialRequest.
AddOldBlock(n, m) ==
  /\ ~fatal[n]
  /\ m \in sendOlds /\ m.to = n
  /\ Complete(m) /\ m.added < Len(m.old)
  /\ chain' = [chain EXCEPT ![n] = AddBlock(@, m.old[m.added + 1])]
  /\ sendOlds' = (sendOlds \ {m}) \cup {[m EXCEPT !.added = @ + 1]}
  /\ UNCHANGED <<blockVars, relayed, consVars, voteVars, lockVars, proposer, viewVars,
                 requestOlds, msgVars, restarted>>

\* The rest of handleSendOldSeq: file the requests, jump behind the answer,
\* prepare the next sequence if its request is known (sent to the others
\* only, the stage is left alone), unlock askForLock.
handleSendOldSeq(n, m) ==
  LET olds == {m.old[i] : i \in 1 .. Len(m.old)}
      pool == requestPool[n] \cup olds
      h2d == [h \in Digest |-> IF h \in m.first .. m.first + Len(m.old) - 1
                                 THEN m.old[h - m.first + 1]
                                 ELSE height2Digest[n][h]]
      d == IF m.last + 1 \in Digest THEN h2d[m.last + 1] ELSE NoDigest
  IN
  /\ ~fatal[n]
  /\ m \in sendOlds /\ m.to = n
  /\ Complete(m) => m.added = Len(m.old)
  /\ sendOlds' = sendOlds \ {m}
  /\ requestPool' = [requestPool EXCEPT ![n] = pool]
  /\ height2Digest' = [height2Digest EXCEPT ![n] = h2d]
  /\ isReply' = [isReply EXCEPT ![n] = @ \cup olds]
  /\ sequenceID' = [sequenceID EXCEPT ![n] = m.last + 1]
  /\ IF d # NoDigest /\ d \in pool /\ IsValidBlock(n, d)
       THEN /\ prepares' = [k \in Node |-> IF k = n THEN prepares[k]
                                           ELSE [prepares[k] EXCEPT ![d] = @ + 1]]
            /\ prepareSenders' = [prepareSenders EXCEPT ![d] = @ \cup {n}]
       ELSE UNCHANGED <<prepares, prepareSenders>>
  /\ askForLock' = [askForLock EXCEPT ![n] = FALSE]
  /\ fatal' = [fatal EXCEPT ![n] = ~askForLock[n]]
  /\ UNCHANGED <<blockVars, chain, relayed, pbftStage, cntPrepareConfirm,
                 cntCommitConfirm, isCommitBordcast, sequenceLock, parked,
                 proposer, viewVars, requestOlds, prePrepares, commits,
                 commitSenders, restarted>>

-----------------------------------------------------------------------------
(* View change.                                                            *)

\* The view-change ticker found lastCommitTime too old.
viewChangePropose(n) ==
  /\ ~fatal[n]
  /\ timeouts < MaxTimeouts
  /\ timeouts' = timeouts + 1
  /\ pbftStage' = [pbftStage EXCEPT ![n] = 5]
  /\ viewChanges' = viewChanges \cup
       {[to |-> m, from |-> n, next |-> (view[n] + 1) % N, seq |-> sequenceID[n]]
          : m \in Node}
  /\ UNCHANGED <<blockVars, chain, relayed, sequenceID, requestPool, height2Digest,
                 voteVars, lockVars, proposer, view, viewChangeMap, newViewMap,
                 newViews, moved, oldVars, msgVars, restarted>>

\* The messages for the same next view and sequence as v that map holds.
SameData(map, v) == {x \in map : x.next = v.next /\ x.seq = v.seq}

\* With exactly 2f+1 of them, whoever they are from, answer with a NewView
\* for this node's own view and sequence.
handleViewChangeMsg(n, v) ==
  /\ ~fatal[n] /\ ~Syncing(n)
  /\ v \in viewChanges /\ v.to = n
  /\ viewChanges' = viewChanges \ {v}
  /\ viewChangeMap' = [viewChangeMap EXCEPT ![n] = @ \cup {v}]
  /\ newViews' = IF Cardinality(SameData(viewChangeMap'[n], v)) = Quorum
                   THEN newViews \cup
                          {[to |-> m, from |-> n, next |-> (view[n] + 1) % N,
                            seq |-> sequenceID[n]] : m \in Node}
                   ELSE newViews
  /\ UNCHANGED <<blockVars, chain, relayed, consVars, voteVars, lockVars, proposer,
                 view, newViewMap, timeouts, moved, oldVars, msgVars, restarted>>

\* With exactly 2f+1 NewViews, adopt their view and their sequence.  Nothing
\* that was prepared or proposed in the old view is carried over.
handleNewViewMsg(n, v) ==
  /\ ~fatal[n] /\ ~Syncing(n)
  /\ v \in newViews /\ v.to = n
  /\ newViews' = newViews \ {v}
  /\ newViewMap' = [newViewMap EXCEPT ![n] = @ \cup {v}]
  /\ IF Cardinality(SameData(newViewMap'[n], v)) = Quorum
       THEN /\ view' = [view EXCEPT ![n] = v.next]
            /\ sequenceID' = [sequenceID EXCEPT ![n] = v.seq]
            /\ pbftStage' = [pbftStage EXCEPT ![n] = 1]
            /\ moved' = moved \cup {n}
       ELSE UNCHANGED <<view, sequenceID, pbftStage, moved>>
  /\ UNCHANGED <<blockVars, chain, relayed, requestPool, height2Digest, voteVars,
                 lockVars, proposer, viewChangeMap, viewChanges, timeouts,
                 oldVars, msgVars, restarted>>

-----------------------------------------------------------------------------
\* The process ends and starts again: NewPbftNode on the stored chain.
Restart(n) ==
  /\ n \notin restarted
  /\ Cardinality(restarted) < MaxRestarts
  /\ restarted' = restarted \cup {n}
  /\ sequenceID' = [sequenceID EXCEPT ![n] = Len(chain[n]) + 1]
  /\ view' = [view EXCEPT ![n] = 0]
  /\ pbftStage' = [pbftStage EXCEPT ![n] = 1]
  /\ requestPool' = [requestPool EXCEPT ![n] = {}]
  /\ height2Digest' = [height2Digest EXCEPT ![n] = [h \in Digest |-> NoDigest]]
  /\ cntPrepareConfirm' = [cntPrepareConfirm EXCEPT ![n] = [d \in Digest |-> 0]]
  /\ cntCommitConfirm' = [cntCommitConfirm EXCEPT ![n] = [d \in Digest |-> 0]]
  /\ isCommitBordcast' = [isCommitBordcast EXCEPT ![n] = {}]
  /\ isReply' = [isReply EXCEPT ![n] = {}]
  /\ sequenceLock' = [sequenceLock EXCEPT ![n] = FALSE]
  /\ askForLock' = [askForLock EXCEPT ![n] = FALSE]
  /\ proposer' = [proposer EXCEPT ![n] = "idle"]
  /\ parked' = [parked EXCEPT ![n] = NoDigest]
  /\ fatal' = [fatal EXCEPT ![n] = FALSE]
  /\ viewChangeMap' = [viewChangeMap EXCEPT ![n] = {}]
  /\ newViewMap' = [newViewMap EXCEPT ![n] = {}]
  /\ sendOlds' = {m \in sendOlds : ~(m.to = n /\ m.added > 0)}
  /\ UNCHANGED <<blockVars, chain, relayed, viewChanges, newViews, timeouts, moved,
                 requestOlds, msgVars>>

Propose(n) == BeginRound(n) \/ SendPrePrepare(n) \/ StoreStage(n)

Next ==
  \E n \in Node :
    \/ Propose(n)
    \/ \E d \in Digest : handlePrePrepare(n, d) \/ handlePrepare(n, d) \/ handleCommit(n, d)
    \/ ResumeCommit(n)
    \/ \E m \in requestOlds : handleRequestOldSeq(n, m)
    \/ \E m \in sendOlds : AddOldBlock(n, m) \/ handleSendOldSeq(n, m)
    \/ viewChangePropose(n)
    \/ \E v \in viewChanges : handleViewChangeMsg(n, v)
    \/ \E v \in newViews : handleNewViewMsg(n, v)
    \/ Restart(n)

Spec == Init /\ [][Next]_vars

-----------------------------------------------------------------------------
(* Properties.                                                             *)

BlocksTyped ==
  /\ blocks \in [Digest -> [parent : 0 .. MaxBlocks, number : Nat, seq : Nat]]
  /\ proposed \in 0 .. MaxBlocks
  /\ chain \in [Node -> Seq(Digest)]
  /\ relayed \in [Digest -> Nat]

NodesTyped ==
  /\ sequenceID \in [Node -> Nat]
  /\ view \in [Node -> Node]
  /\ pbftStage \in [Node -> Nat]
  /\ requestPool \in [Node -> SUBSET Digest]
  /\ height2Digest \in [Node -> [Digest -> 0 .. MaxBlocks]]

VotesTyped ==
  /\ cntPrepareConfirm \in [Node -> [Digest -> Nat]]
  /\ cntCommitConfirm \in [Node -> [Digest -> Nat]]
  /\ isCommitBordcast \in [Node -> SUBSET Digest]
  /\ isReply \in [Node -> SUBSET Digest]

LocksTyped ==
  /\ sequenceLock \in [Node -> BOOLEAN]
  /\ askForLock \in [Node -> BOOLEAN]
  /\ proposer \in [Node -> {"idle", "locking", "sent"}]
  /\ parked \in [Node -> 0 .. MaxBlocks]
  /\ fatal \in [Node -> BOOLEAN]

MessagesTyped ==
  /\ prePrepares \subseteq Node \X Digest
  /\ prepares \in [Node -> [Digest -> Nat]]
  /\ commits \in [Node -> [Digest -> Nat]]
  /\ prepareSenders \in [Digest -> SUBSET Node]
  /\ commitSenders \in [Digest -> SUBSET Node]

OldsTyped ==
  /\ requestOlds \subseteq [to : Node, from : Node, first : Nat, last : Nat]
  /\ sendOlds \subseteq [to : Node, first : Nat, last : Nat, added : Nat,
                         old : Seq(Digest)]

ViewMsg == [to : Node, from : Node, next : Node, seq : Nat]

ViewsTyped ==
  /\ viewChanges \subseteq ViewMsg
  /\ newViews \subseteq ViewMsg
  /\ viewChangeMap \in [Node -> SUBSET ViewMsg]
  /\ newViewMap \in [Node -> SUBSET ViewMsg]
  /\ timeouts \in Nat
  /\ restarted \subseteq Node
  /\ moved \subseteq Node

\* Every variable of a node and every message on the way has its type.
TypeOK ==
  /\ BlocksTyped /\ NodesTyped /\ VotesTyped /\ LocksTyped
  /\ MessagesTyped /\ OldsTyped /\ ViewsTyped

\* Two chains hold the same block at every height both have.
Agreement ==
  \A n, m \in Node : \A i \in 1 .. Len(chain[n]) :
    i <= Len(chain[m]) => chain[n][i] = chain[m][i]

\* No node has adopted a new view and the leader of view 0 has not restarted.
Undisturbed == moved = {} /\ 0 \notin restarted

\* While the first leader is in office the shard has one chain, in whatever
\* order the messages come and whichever other nodes restart.
AgreementUndisturbed == Undisturbed => Agreement

\* Why: with one leader proposal d is the block of height, sequence and number
\* d on top of block d-1; every chain counts up from 1; the leader is never
\* left behind and never asks for old blocks; no other node proposes.
ProposalsInOrder ==
  \A d \in Digest :
    /\ d <= proposed => blocks[d].parent = d - 1 /\ blocks[d].number = d /\ blocks[d].seq = d
    /\ d > proposed => blocks[d].number = 0 /\ blocks[d].seq = 0
ChainsInOrder ==
  \A n \in Node : /\ Len(chain[n]) <= proposed
                  /\ \A i \in 1 .. Len(chain[n]) : chain[n][i] = i
FirstLeader ==
  /\ \A n \in Node : view[n] = 0 /\ (n # 0 => proposer[n] = "idle")
  /\ sequenceID[0] = Len(chain[0]) + 1
  /\ proposed = Len(chain[0]) + (IF sequenceLock[0] THEN 1 ELSE 0)
  /\ ~fatal[0]
  /\ 1 .. proposed \subseteq requestPool[0]
  /\ parked[0] = NoDigest
  /\ \A m \in requestOlds : m.from # 0
  /\ \A m \in sendOlds : m.to # 0
SingleChain == Undisturbed => ProposalsInOrder /\ ChainsInOrder /\ FirstLeader

\* The leader's lock protocol: while it is in office its sequence is the next
\* height, and sequenceLock is held exactly while a proposal is uncommitted
\* at the leader.  So handleCommit never unlocks a free mutex there, and the
\* leader never has two proposals under way.
LeaderInStep ==
  Undisturbed =>
    /\ sequenceID[0] = Len(chain[0]) + 1
    /\ proposed = Len(chain[0]) + (IF sequenceLock[0] THEN 1 ELSE 0)
    /\ ~fatal[0]

\* A block is in a chain only if 2f+1 different nodes broadcast a Commit for
\* it.  The code counts messages, not senders.
CommitCertificate ==
  moved = {} /\ restarted = {} =>
    \A n \in Node : \A i \in 1 .. Len(chain[n]) :
      Cardinality(commitSenders[chain[n][i]]) >= Quorum

\* Why: every Commit message is one sender's and is either counted or still on
\* its way; and a node asks for, is sent and adds old blocks only up to a
\* height that has its certificates, at which the leader filed block h.
Certified(h) == \A d \in Digest : d <= h => Cardinality(commitSenders[d]) >= Quorum
VotesCounted ==
  \A n \in Node, d \in Digest :
    /\ d \in isCommitBordcast[n] <=> n \in commitSenders[d]
    /\ cntCommitConfirm[n][d] + commits[n][d] = Cardinality(commitSenders[d])
NodesCertified ==
  \A n \in Node :
    /\ Certified(Len(chain[n]))
    /\ Certified(parked[n])
    /\ sequenceID[n] >= 1
    /\ \A h \in Digest : height2Digest[n][h] \in {NoDigest, h}
OldsCertified ==
  /\ \A m \in requestOlds : Certified(m.last)
  /\ \A m \in sendOlds : /\ Certified(m.last)
                         /\ \A i \in 1 .. Len(m.old) : m.old[i] = m.first + i - 1
CertificatesKept ==
  moved = {} /\ restarted = {} => VotesCounted /\ NodesCertified /\ OldsCertified

\* Every chain is linked: each block carries the height it stands at and the
\* digest of the block below it, whatever views and restarts went before.
ChainLinked ==
  \A n \in Node : \A i \in 1 .. Len(chain[n]) :
    /\ blocks[chain[n][i]].number = i
    /\ blocks[chain[n][i]].parent = (IF i = 1 THEN NoDigest ELSE chain[n][i - 1])

\* Why: a digest that was not proposed yet has no block.
Fresh == \A d \in Digest : d > proposed => blocks[d].number = 0

\* The questions of node n that are not answered yet, and the answers to it.
Outstanding(n) ==
  {m \in requestOlds : m.from = n} \cup {m \in sendOlds : m.to = n}

\* askForLock guards the catch-up: a process that did not restart has at most
\* one question open, and holds the mutex while it has one.  So the Unlock at
\* the end of handleSendOldSeq always finds it locked.
OneQuestion ==
  \A n \in Node \ restarted :
    /\ Cardinality(Outstanding(n)) <= 1
    /\ Outstanding(n) # {} => askForLock[n]

\* Why: a question is asked only when askForLock is free, and turns into its
\* answer in one step.
QuestionsApart ==
  \A n \in Node \ restarted :
    /\ \A x, y \in requestOlds : x.from = n /\ y.from = n => x = y
    /\ \A x, y \in sendOlds : x.to = n /\ y.to = n => x = y
    /\ \A x \in requestOlds : x.from = n => askForLock[n] /\ \A y \in sendOlds : y.to # n
    /\ \A y \in sendOlds : y.to = n => askForLock[n]

\* The nodes that asked for a view change.
Complainers ==
  {v.from : v \in viewChanges \cup UNION {viewChangeMap[n] : n \in Node}}

\* No node leaves its view unless 2f+1 different nodes timed out.
NoSpuriousViewChange ==
  moved # {} /\ restarted = {} =>
    Cardinality(Complainers) >= 2 * ((N - 1) \div 3) + 1

\* Why: a node files only what was sent to it, so 2f+1 messages for one view
\* and sequence are from 2f+1 nodes; without them no NewView is ever sent.
ViewChangesCounted ==
  /\ \A n \in Node : \A v \in viewChangeMap[n] : v.to = n
  /\ restarted = {} =>
       \/ moved = {} /\ newViews = {} /\ \A n \in Node : newViewMap[n] = {}
       \/ Cardinality(Complainers) >= Quorum

\* The ViewChange and NewView messages that were handled name two sequences:
\* some node committed a block that another had not committed.
HandledViewMsgs == UNION {viewChangeMap[n] \cup newViewMap[n] : n \in Node}
SequencesDiffer == \E v, w \in HandledViewMsgs : v.seq # w.seq

\* Once 2f+1 nodes timed out and every message of the view change was handled,
\* in whatever order, all nodes are in the next view, unless a block that was
\* committed in the meantime split the messages over two sequences: those
\* counts never add up, and all nodes may stay where they are.
ViewChangeCompletes ==
  /\ viewChanges = {} /\ newViews = {} /\ restarted = {} /\ ~SequencesDiffer
  /\ Cardinality(Complainers) >= 2 * ((N - 1) \div 3) + 1
  => \A n \in Node : view[n] = 1 % N

\* Node n handled a message of a round before it was through with the one
\* below: it filed a PrePrepare ahead of its turn, and will never prepare it, or
\* counted a Commit, which sends it looking for the blocks in between.
Overtaken(n) ==
  \E d \in 1 .. proposed :
    \/ d \in requestPool[n] /\ Current(n, d) /\ n \notin prepareSenders[d] /\ <<n, d>> \notin prePrepares
    \/ cntCommitConfirm[n][d] > 0 /\ blocks[d].number > Len(chain[n]) + 1

\* The late Store(2) of the proposing goroutine undid what the handlers of the
\* leader had reached: it sent its Commit and is back at stage 2.
SetBack(n) == pbftStage[n] = 2 /\ \E d \in isCommitBordcast[n] : Current(n, d)

\* Some goroutine can go on: a handler of a message that arrived, or the
\* proposing routine.  The Go scheduler lets it, so a round ends at rest.
Working ==
  \E n \in Node :
    \/ Propose(n)
    \/ \E d \in Digest : handlePrePrepare(n, d) \/ handlePrepare(n, d) \/ handleCommit(n, d)
    \/ ResumeCommit(n)
    \/ \E m \in requestOlds : handleRequestOldSeq(n, m)
    \/ \E m \in sendOlds : AddOldBlock(n, m) \/ handleSendOldSeq(n, m)
AtRest == timeouts = 0 /\ restarted = {} /\ ~ENABLED Working

\* With no view change and no restart, every node has committed every proposed
\* block when nothing is left to do, in whatever order the messages came, unless
\* messages of two rounds overtook each other there or the leader's stage was
\* set back.  ("a pre-arrival message will not be aborted", pbft.go says; one
\* that is filed too early is, and Overtaken names it.)
RoundCompletes ==
  AtRest => \A n \in Node : Len(chain[n]) >= proposed \/ Overtaken(n) \/ SetBack(n)

\* What the leader relays and reports is its chain, each block once, while it
\* is in office: it commits no block that AddBlock would ignore, and no other
\* node relays.  This is what module Relay takes a shard for.
RelayedOnce ==
  Undisturbed =>
    \A d \in Digest :
      relayed[d] = IF \E i \in 1 .. Len(chain[0]) : chain[0][i] = d THEN 1 ELSE 0

Log == INSTANCE ShardLog WITH Block <- Digest

\* The shard is one replicated log (see ShardLog): as long as it is undisturbed
\* every step of the consensus is a step of the log or leaves the chains alone.
ImplementsLog == Log!Init /\ [][Undisturbed => [Log!Next]_chain]_vars
=============================================================================
