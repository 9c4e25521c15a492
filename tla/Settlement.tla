------------------------------ MODULE Settlement ------------------------------
(***************************************************************************)
(* The rewards of a cross-shard transaction between its two blocks: the    *)
(* ledger of pending rewards (crossshard/pending) and the subsidy budget   *)
(* of a block (economics/subsidy_budget).                                  *)
(*                                                                         *)
(* The source shard 0 includes CTX and adds its rewards, split with the    *)
(* averages of that moment; the destination shard 1 includes CTX' and      *)
(* settles them; old entries are cleaned up.  Blocks come in any order and *)
(* may come again.  The ledger's calls are atomic under its mutex; a call  *)
(* that returns an error changes nothing and is left out.                  *)
(***************************************************************************)
EXTENDS Justitia, FiniteSets, Functions

CONSTANTS
  Pair,        \* PairIDs
  Fee,         \* the fees transactions pay
  Amount,      \* what averages, and the bounds of a budget, are taken from
  Word,        \* amounts of a budget are taken modulo Word, 2^64 in the code
  MaxTime      \* bound: the clock of CreatedAt

ASSUME ConfigAssumption ==
  /\ Fee \cup Amount \subseteq Nat /\ 0 \in Amount
  /\ MaxTime \in Nat /\ Word \in Nat \ {0}

VARIABLES
  EA, EB,            \* the averages of shard 0 and shard 1
  pending, settled,  \* PairID -> entry, and the PairIDs that were settled
  credit,            \* what creditFunc gave the proposers of each shard
  now,
  entered, cleaned   \* history: the entry each PairID last had; what was cleaned up

ledgerVars == <<pending, settled, credit, entered, cleaned>>
vars == <<EA, EB, ledgerVars, now>>

Init ==
  /\ EA = 0 /\ EB = 0
  /\ pending = <<>> /\ settled = {}
  /\ credit = [s \in {0, 1} |-> 0]
  /\ now = 0
  /\ entered = <<>> /\ cleaned = {}

\* f with the entry e under id, and without the entries of S.
Put(f, id, e) == [k \in DOMAIN f \cup {id} |-> IF k = id THEN e ELSE f[k]]
Without(f, S) == [k \in DOMAIN f \ S |-> f[k]]

\* The averages move with the blocks of their shards.
NextAverage ==
  /\ \/ EA' \in Amount /\ UNCHANGED EB
     \/ EB' \in Amount /\ UNCHANGED EA
  /\ UNCHANGED <<ledgerVars, now>>

Tick == now < MaxTime /\ now' = now + 1 /\ UNCHANGED <<EA, EB, ledgerVars>>

-----------------------------------------------------------------------------
(* The ledger.                                                             *)

Addable(id) == id \notin settled /\ id \notin DOMAIN pending

\* CTX of id is included: the subsidy of DestAvg, split and added.
Add(id, fAB) ==
  LET R == CalculateRAB("DestAvg", EA, EB, 0, 0, 1)
      u == Split2(fAB, R, EA, EB)
      e == [fAB |-> fAB, R |-> R, uA |-> u.uA, uB |-> u.uB, CreatedAt |-> now]
  IN
  /\ Addable(id)
  /\ pending' = Put(pending, id, e)
  /\ entered' = Put(entered, id, e)
  /\ cleaned' = cleaned \ {id}
  /\ UNCHANGED <<EA, EB, settled, credit, now>>

\* Wrong: the entry stays.
DeletePendingNot(id) == pending
DeletePending(id) == Without(pending, {id})

Credit(e) == [s \in {0, 1} |-> credit[s] + (IF s = 0 THEN e.uA ELSE e.uB)]

\* CTX' of id is included.
Settle(id) ==
  /\ id \notin settled /\ id \in DOMAIN pending
  /\ credit' = Credit(pending[id])
  /\ settled' = settled \cup {id}
  /\ pending' = DeletePending(id)
  /\ UNCHANGED <<EA, EB, now, entered, cleaned>>

\* A removed entry is neither pending nor settled: it may be added again.
CleanupOld(olderThan) ==
  LET old == {id \in DOMAIN pending : pending[id].CreatedAt < olderThan} IN
  /\ old # {}
  /\ pending' = Without(pending, old)
  /\ cleaned' = cleaned \cup old
  /\ UNCHANGED <<EA, EB, settled, credit, now, entered>>

\* GetStats: what is outstanding.
TotalSubsidy == SumFunction([id \in DOMAIN pending |-> pending[id].R])
TotalFees == SumFunction([id \in DOMAIN pending |-> pending[id].fAB])

Next ==
  \/ NextAverage \/ Tick
  \/ \E id \in Pair : (\E f \in Fee : Add(id, f)) \/ Settle(id)
  \/ \E t \in 1 .. MaxTime : t <= now /\ CleanupOld(t)

Spec == Init /\ [][Next]_vars

-----------------------------------------------------------------------------
(* The budget of a block.                                                  *)

NewBudgetAccepts(bmin, bmax) == ~(bmax > 0 /\ bmin > bmax)

\* Wrong: without a look at the maximum.
ApplyMinOnly(bmin, bmax, sumR) ==
  IF bmax = 0 THEN [Num |-> 1, Den |-> 1]
  ELSE IF bmin > 0 /\ sumR < bmin /\ sumR > 0 THEN [Num |-> bmin, Den |-> sumR]
  ELSE [Num |-> 1, Den |-> 1]

Apply(bmin, bmax, sumR) ==
  IF bmax = 0 THEN [Num |-> 1, Den |-> 1]
  ELSE IF sumR > bmax THEN [Num |-> bmax, Den |-> sumR]
  ELSE IF bmin > 0 /\ sumR < bmin /\ sumR > 0 THEN [Num |-> bmin, Den |-> sumR]
  ELSE [Num |-> 1, Den |-> 1]

ScaleSubsidy(sf, R) == IF sf.Den = 0 THEN R ELSE ((R * sf.Num) % Word) \div sf.Den
IsScalingNeeded(sf) == sf.Num # sf.Den

\* The subsidies of the pairs S after the budget, R[id] being the one of id.
ApplyBudgetToBlock(bmin, bmax, S, R) ==
  LET sumR == SumFunctionOnSet(R, S) % Word
      sf == Apply(bmin, bmax, sumR)
  IN [id \in S |-> IF IsScalingNeeded(sf) THEN ScaleSubsidy(sf, R[id]) ELSE R[id]]

-----------------------------------------------------------------------------
(* Properties.                                                             *)

\* The split is fair (SplitIsFair) for every fee, subsidy and pair of averages.
Fair == \A fAB, R \in Amount : SplitIsFair(fAB, R, EA, EB)

\* The fee decides the phase: a higher one is never served later
\* (HigherFeeNotLater), and with the destination's average as subsidy a
\* cross-shard transaction is on a par with the source shard's own ones
\* (DestAvgParity).
FeeDecides ==
  \A fAB \in Amount : /\ \A R \in Amount : HigherFeeNotLater(fAB, R, EA, EB)
                       /\ DestAvgParity(fAB, EA, EB)

\* No pair is pending once it is settled, whatever is added, cleaned up and
\* added again; entries carry non-negative rewards and times that have passed.
TypeOK ==
  /\ EA \in Amount /\ EB \in Amount /\ now \in 0 .. MaxTime
  /\ DOMAIN pending \subseteq Pair \ settled /\ settled \subseteq Pair
  /\ \A id \in DOMAIN pending : /\ {pending[id].uA, pending[id].uB} \subseteq Nat
                                /\ pending[id].CreatedAt \in 0 .. now

\* Every reward is paid out at most once: what was credited and what GetStats
\* says is outstanding come to the fees and subsidies of all entries that were
\* not cleaned up, less at most one unit for each split; none of it is negative.
PaidOnce ==
  LET due == SumFunction([id \in DOMAIN entered \ cleaned |-> entered[id].fAB + entered[id].R])
      got == credit[0] + credit[1] + TotalFees + TotalSubsidy
  IN TypeOK /\ got <= due /\ got >= due - Cardinality(settled)

\* What the comment of Split2 and TestSplit2_Conservation say of it, for the
\* payments it leads to: whatever is settled, the proposers together were
\* credited with its fees and subsidies.
RewardsConserved ==
  credit[0] + credit[1] = SumFunction([id \in settled |-> entered[id].fAB + entered[id].R])

\* Why: an entry is pending, settled or cleaned up and keeps its amounts, and
\* the credits are the sums of what the settled entries split.
EntriesKept ==
  /\ IsFiniteSet(DOMAIN entered)
  /\ DOMAIN entered \ cleaned = DOMAIN pending \cup settled
  /\ \A id \in DOMAIN pending : pending[id] = entered[id]
  /\ \A id \in DOMAIN entered :
       LET e == entered[id] IN
       /\ {e.fAB, e.R, e.uA, e.uB} \subseteq Nat
       /\ e.uA + e.uB \in {e.fAB + e.R - 1, e.fAB + e.R}
CreditsTraced ==
  credit = [s \in {0, 1} |-> SumFunction([id \in settled |->
                                IF s = 0 THEN entered[id].uA ELSE entered[id].uB])]

\* Whatever pairs a block settles, the budget keeps the sum of their subsidies
\* within its bounds, up to one unit each for rounding, as long as no product
\* overflows its word.
BudgetKept ==
  \A bmin, bmax \in Amount, S \in SUBSET DOMAIN pending :
    LET R == [id \in S |-> pending[id].R]
        total == SumFunction(R)
        scaled == ApplyBudgetToBlock(bmin, bmax, S, R)
        sum == SumFunction(scaled)
    IN NewBudgetAccepts(bmin, bmax) /\ bmax > 0 /\ total * bmax < Word =>
         sum <= bmax /\ (total > 0 => sum > bmin - Cardinality(S))
=============================================================================
