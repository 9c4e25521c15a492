------------------------------- MODULE Justitia -------------------------------
(***************************************************************************)
(* The arithmetic of the incentive mechanism (incentive/justitia): the     *)
(* subsidy of a cross-shard transaction, its split between the proposers   *)
(* of the two shards, and the case it falls into.  All amounts are big     *)
(* integers in the code, so nothing overflows; EA and EB are the average   *)
(* fees of the source and the destination shard, never nil here because    *)
(* GetAvgITXFee answers 0 for an unknown shard.  The float arithmetic of   *)
(* the Lagrangian mode is fixed-point here: lambda counts in hundredths.   *)
(***************************************************************************)
EXTENDS Integers

\* What the comments of the source call high, medium and low priority.
Case1 == 1
Case2 == 2
Case3 == 3

\* Wrong: a negative utility is cut to zero and the other one is kept.
Split2Cut(fAB, R, EA, EB) ==
  LET total == fAB + R
      a == (total + EA - EB) \div 2
      b == (total - EA + EB) \div 2
  IN [uA |-> IF a < 0 THEN 0 ELSE a, uB |-> IF b < 0 THEN 0 ELSE b]

\* big.Int.Div by 2 rounds down, as \div does.
Split2(fAB, R, EA, EB) ==
  LET total == fAB + R
      diff == EA - EB
      a == (total + diff) \div 2
      b == (total - diff) \div 2
  IN IF a < 0 THEN [uA |-> 0, uB |-> total]
     ELSE IF b < 0 THEN [uA |-> total, uB |-> 0]
     ELSE [uA |-> a, uB |-> b]

\* The shard's own expectation first: a source shard passes (uA, EA, EB), a
\* destination shard (uB, EB, EA).
Classify(u, own, other) ==
  LET threshold == IF other >= own THEN 0 ELSE own - other
  IN IF u >= own THEN Case1
     ELSE IF u <= threshold THEN Case2 ELSE Case3

\* calculateRABInternal and, for the static modes, RAB.  No custom function is
\* ever set, and QueueLengthB is a constant, so congestion, the factor
\* (QueueLengthB / WindowSize)^CongestionExp in hundredths, is one too.
CalculateRAB(mode, EA, EB, fixed, congestion, lambda) ==
  CASE mode = "None" -> 0
    [] mode \in {"DestAvg", "Custom"} -> EB
    [] mode = "SumAvg" -> EA + EB
    [] mode = "ExtremeFixed" -> fixed
    [] mode = "Lagrangian" -> (EB * congestion) \div lambda

\* Wrong: the cases are served by number.
PhaseByNumber(case) == case
\* The order in which SelectForBlock serves the cases.
Phase(case) == IF case = Case1 THEN 1 ELSE IF case = Case3 THEN 2 ELSE 3

-----------------------------------------------------------------------------
(* What the functions promise for given arguments.                         *)

\* The proposers never pay and differ by the expectations' difference, unless that
\* is more than there is to split: then the shard that expects more has it all.
\* Together they receive fee and subsidy, less the one unit that two roundings
\* lose exactly when neither is cut off and the halves are not whole.
SplitIsFair(fAB, R, EA, EB) ==
  LET s == Split2(fAB, R, EA, EB)
      total == fAB + R
      cut == EA - EB > total \/ EB - EA > total
      lost == IF ~cut /\ (total + EA - EB) % 2 = 1 THEN 1 ELSE 0
  IN
  /\ s.uA >= 0 /\ s.uB >= 0
  /\ s.uA + s.uB = total - lost
  /\ IF cut THEN s.uA = (IF EA > EB THEN total ELSE 0) ELSE s.uA - s.uB = EA - EB

\* Paying a higher fee never moves a transaction to a later phase, neither in
\* its source nor in its destination shard.
HigherFeeNotLater(fAB, R, EA, EB) ==
  LET s == Split2(fAB, R, EA, EB)
      t == Split2(fAB + 1, R, EA, EB)
  IN /\ Phase(Classify(t.uA, EA, EB)) <= Phase(Classify(s.uA, EA, EB))
     /\ Phase(Classify(t.uB, EB, EA)) <= Phase(Classify(s.uB, EB, EA))

\* With the destination's average as subsidy both shards serve a cross-shard
\* transaction first exactly when its fee is as good as an average local
\* transaction of the source shard; only a destination without fees of its
\* own serves every one first.
DestAvgParity(fAB, EA, EB) ==
  LET s == Split2(fAB, EB, EA, EB) IN
  /\ Classify(s.uA, EA, EB) = Case1 <=> fAB >= EA
  /\ Classify(s.uB, EB, EA) = Case1 <=> fAB >= EA \/ EB = 0
=============================================================================
