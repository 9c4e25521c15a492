---------------------------- MODULE JustitiaProofs ----------------------------
(***************************************************************************)
(* The promises of Justitia's arithmetic for all amounts, and of the       *)
(* ledger and the budget built on it for any number of pairs.              *)
(***************************************************************************)
EXTENDS Settlement, Folding

\* What rounding down does to a half.
LEMMA Half ==
  ASSUME NEW x \in Int
  PROVE  /\ x \div 2 \in Int
         /\ x = 2 * (x \div 2) \/ x = 2 * (x \div 2) + 1
  BY SMT

\* The three outcomes of Split2, with its two halves a and b.
SplitAs(fAB, R, eA, eB, a, b) ==
  /\ fAB + R + eA - eB \in {2 * a, 2 * a + 1}
  /\ fAB + R - eA + eB \in {2 * b, 2 * b + 1}
  /\ \/ a < 0 /\ Split2(fAB, R, eA, eB) = [uA |-> 0, uB |-> fAB + R]
     \/ a >= 0 /\ b < 0 /\ Split2(fAB, R, eA, eB) = [uA |-> fAB + R, uB |-> 0]
     \/ a >= 0 /\ b >= 0 /\ Split2(fAB, R, eA, eB) = [uA |-> a, uB |-> b]

\* Split2 always has one of them.
LEMMA SplitCases ==
  ASSUME NEW fAB \in Nat, NEW R \in Nat, NEW eA \in Nat, NEW eB \in Nat
  PROVE  \E a, b \in Int : SplitAs(fAB, R, eA, eB, a, b)
<1> DEFINE total == fAB + R
           diff == eA - eB
           a == (total + diff) \div 2
           b == (total - diff) \div 2
<1>1. total \in Int /\ diff \in Int /\ total + diff \in Int /\ total - diff \in Int
  OBVIOUS
<1>2. a \in Int /\ (total + diff = 2 * a \/ total + diff = 2 * a + 1)
  BY <1>1, Half
<1>3. b \in Int /\ (total - diff = 2 * b \/ total - diff = 2 * b + 1)
  BY <1>1, Half
<1>4. \/ a < 0 /\ Split2(fAB, R, eA, eB) = [uA |-> 0, uB |-> total]
      \/ a >= 0 /\ b < 0 /\ Split2(fAB, R, eA, eB) = [uA |-> total, uB |-> 0]
      \/ a >= 0 /\ b >= 0 /\ Split2(fAB, R, eA, eB) = [uA |-> a, uB |-> b]
  <2> HIDE DEF total, diff
  <2>1. Split2(fAB, R, eA, eB) =
          IF a < 0 THEN [uA |-> 0, uB |-> total]
          ELSE IF b < 0 THEN [uA |-> total, uB |-> 0]
          ELSE [uA |-> a, uB |-> b]
    BY Zenon DEF Split2, total, diff
  <2> HIDE DEF a, b
  <2> QED BY <2>1, <1>2, <1>3
<1>5. fAB + R + eA - eB = total + diff /\ fAB + R - eA + eB = total - diff
  OBVIOUS
<1>6. total = fAB + R
  OBVIOUS
<1> QED
  <2> HIDE DEF total, diff, a, b
  <2>1. SplitAs(fAB, R, eA, eB, a, b)
    BY <1>2, <1>3, <1>4, <1>5, <1>6 DEF SplitAs
  <2> QED BY <2>1, <1>2, <1>3, Zenon

\* Split2 is fair for all fees, subsidies and averages (justitia.go 501-550):
\* nobody pays, the two utilities differ by the expectations unless one of them is
\* cut off, and exactly one unit is lost to rounding where the comment of Split2
\* says none is, namely when neither is cut off and fee, subsidy and the
\* difference of the expectations add up to an odd number.
THEOREM SplitFair ==
  \A fAB, R, eA, eB \in Nat : SplitIsFair(fAB, R, eA, eB)
<1> SUFFICES ASSUME NEW fAB \in Nat, NEW R \in Nat, NEW eA \in Nat, NEW eB \in Nat
             PROVE  SplitIsFair(fAB, R, eA, eB)
  OBVIOUS
<1>1. PICK a, b \in Int : SplitAs(fAB, R, eA, eB, a, b)
  BY SplitCases, Zenon
<1> DEFINE s == Split2(fAB, R, eA, eB)
           total == fAB + R
           cut == eA - eB > total \/ eB - eA > total
           lost == IF ~cut /\ (total + eA - eB) % 2 = 1 THEN 1 ELSE 0
<1>2. CASE cut
  <2>1. /\ s.uA >= 0 /\ s.uB >= 0 /\ s.uA + s.uB = total
        /\ s.uA = (IF eA > eB THEN total ELSE 0)
    BY <1>1, <1>2 DEF SplitAs
  <2>2. lost = 0
    BY <1>2
  <2> HIDE DEF s, lost, total
  <2>3. s.uA + s.uB = total - lost
    BY <2>1, <2>2 DEF total
  <2> QED BY <1>2, <2>1, <2>3 DEF SplitIsFair, s, lost, total
<1>3. CASE ~cut
  <2>1. s = [uA |-> a, uB |-> b] /\ a >= 0 /\ b >= 0
    BY <1>1, <1>3 DEF SplitAs
  <2>2. a + b = total - ((total + eA - eB) % 2) /\ a - b = eA - eB
    BY <1>1, <1>3 DEF SplitAs
  <2>3. (total + eA - eB) % 2 \in {0, 1}
    OBVIOUS
  <2>4. lost = (total + eA - eB) % 2
    BY <1>3, <2>3
  <2> HIDE DEF s, lost, total, cut
  <2>5. /\ s.uA >= 0 /\ s.uB >= 0 /\ s.uA + s.uB = total - lost /\ s.uA - s.uB = eA - eB
    BY <2>1, <2>2, <2>4
  <2> QED BY <1>3, <2>5 DEF SplitIsFair, s, lost, total, cut
<1> QED BY <1>2, <1>3

\* Classify's phase is antitone in the utility.
LEMMA PhaseAntitone ==
  ASSUME NEW own \in Nat, NEW other \in Nat,
         NEW u \in Nat, NEW v \in Nat, u <= v
  PROVE  Phase(Classify(v, own, other)) <= Phase(Classify(u, own, other))
BY DEF Phase, Classify, Case1, Case2, Case3

\* A unit of fee more lowers neither utility.
LEMMA SplitMonotone ==
  ASSUME NEW fAB \in Nat, NEW R \in Nat, NEW eA \in Nat, NEW eB \in Nat
  PROVE  LET s == Split2(fAB, R, eA, eB)
             t == Split2(fAB + 1, R, eA, eB)
         IN /\ s.uA \in Nat /\ s.uB \in Nat /\ t.uA \in Nat /\ t.uB \in Nat
            /\ s.uA <= t.uA /\ s.uB <= t.uB
<1>1. PICK a, b \in Int : SplitAs(fAB, R, eA, eB, a, b)
  BY SplitCases, Zenon
<1>2. PICK c, d \in Int : SplitAs(fAB + 1, R, eA, eB, c, d)
  <2>1. fAB + 1 \in Nat
    OBVIOUS
  <2> QED BY <2>1, SplitCases, Zenon
<1> QED BY <1>1, <1>2 DEF SplitAs

\* Paying more never means being served later (Split2 and Classify together,
\* in the source and in the destination shard).
THEOREM FeeMonotone ==
  \A fAB, R, eA, eB \in Nat : HigherFeeNotLater(fAB, R, eA, eB)
<1> SUFFICES ASSUME NEW fAB \in Nat, NEW R \in Nat, NEW eA \in Nat, NEW eB \in Nat
             PROVE  HigherFeeNotLater(fAB, R, eA, eB)
  OBVIOUS
<1> QED BY SplitMonotone, PhaseAntitone DEF HigherFeeNotLater

\* With the destination's average as subsidy the first phase is decided by the
\* fee against the source shard's average alone, in both shards.
THEOREM DestAvgFair ==
  \A fAB, eA, eB \in Nat : DestAvgParity(fAB, eA, eB)
<1> SUFFICES ASSUME NEW fAB \in Nat, NEW eA \in Nat, NEW eB \in Nat
             PROVE  DestAvgParity(fAB, eA, eB)
  OBVIOUS
<1>1. PICK a, b \in Int : SplitAs(fAB, eB, eA, eB, a, b)
  BY SplitCases, Zenon
<1> QED BY <1>1 DEF SplitAs, DestAvgParity, Classify, Case1, Case2, Case3

-----------------------------------------------------------------------------
(* The ledger.                                                             *)

IInv == TypeOK /\ EntriesKept /\ CreditsTraced

LEMMA InitInvariant == Init => IInv
<1> SUFFICES ASSUME Init PROVE IInv
  OBVIOUS
<1>1. DOMAIN pending = {} /\ DOMAIN entered = {} /\ settled = {} /\ cleaned = {}
  BY DEF Init
<1>2. TypeOK
  BY <1>1, ConfigAssumption DEF Init, TypeOK
<1>3. EntriesKept
  BY <1>1, FS_EmptySet DEF EntriesKept
<1>4. CreditsTraced
  <2>1. \A s \in {0, 1} : SumFunction([id \in settled |-> IF s = 0 THEN entered[id].uA ELSE entered[id].uB]) = 0
    BY <1>1, SumEmpty DEF SumFunction
  <2> QED BY <2>1 DEF Init, CreditsTraced
<1> QED BY <1>2, <1>3, <1>4 DEF IInv

\* Entries that keep their amounts keep the sum of the settled ones.
LEMMA CreditsUntouched ==
  ASSUME CreditsTraced, EntriesKept, UNCHANGED <<settled, credit>>,
         \A id \in settled : entered'[id] = entered[id]
  PROVE  CreditsTraced'
<1> SUFFICES ASSUME NEW s \in {0, 1}
             PROVE  [id \in settled |-> IF s = 0 THEN entered'[id].uA ELSE entered'[id].uB]
                    = [id \in settled |-> IF s = 0 THEN entered[id].uA ELSE entered[id].uB]
  BY DEF CreditsTraced
<1> QED OBVIOUS

LEMMA AddInvariant ==
  ASSUME IInv, NEW id \in Pair, NEW fAB \in Fee, Add(id, fAB)
  PROVE  IInv'
<1> DEFINE R == CalculateRAB("DestAvg", EA, EB, 0, 0, 1)
           u == Split2(fAB, R, EA, EB)
           e == [fAB |-> fAB, R |-> R, uA |-> u.uA, uB |-> u.uB, CreatedAt |-> now]
<1>1. /\ id \notin settled /\ id \notin DOMAIN pending
      /\ pending' = Put(pending, id, e) /\ entered' = Put(entered, id, e)
      /\ cleaned' = cleaned \ {id} /\ UNCHANGED <<EA, EB, settled, credit, now>>
  BY Zenon DEF Add, Addable
<1>2. R = EB
  BY Zenon DEF CalculateRAB
<1>3. EA \in Nat /\ EB \in Nat /\ fAB \in Nat
  BY ConfigAssumption DEF IInv, TypeOK
<1>4. SplitIsFair(fAB, EB, EA, EB)
  BY <1>3, SplitFair
<1>5. PICK a, b \in Int : SplitAs(fAB, EB, EA, EB, a, b)
  BY <1>3, SplitCases, Zenon
<1>6. u.uA \in Nat /\ u.uB \in Nat /\ u.uA + u.uB \in {fAB + EB - 1, fAB + EB}
  BY <1>2, <1>3, <1>5 DEF SplitAs
<1> HIDE DEF u, R
<1>7. /\ e.fAB = fAB /\ e.R = EB /\ e.CreatedAt = now /\ {e.fAB, e.R, e.uA, e.uB} \subseteq Nat
      /\ e.uA + e.uB \in {e.fAB + e.R - 1, e.fAB + e.R}
  BY <1>2, <1>3, <1>6
<1> HIDE DEF e
<1>8. /\ DOMAIN pending' = DOMAIN pending \cup {id} /\ pending'[id] = e
      /\ DOMAIN entered' = DOMAIN entered \cup {id} /\ entered'[id] = e
      /\ \A k \in DOMAIN pending : pending'[k] = pending[k]
      /\ \A k \in DOMAIN entered : k # id => entered'[k] = entered[k]
  BY <1>1 DEF Put
<1>9. TypeOK'
  BY <1>1, <1>7, <1>8 DEF IInv, TypeOK
<1>10. EntriesKept'
  <2>1. IsFiniteSet(DOMAIN entered')
    BY <1>8, FS_AddElement DEF IInv, EntriesKept
  <2>2. DOMAIN entered' \ cleaned' = DOMAIN pending' \cup settled'
    BY <1>1, <1>8 DEF IInv, EntriesKept
  <2>3. \A k \in DOMAIN pending' : pending'[k] = entered'[k]
    BY <1>1, <1>8 DEF IInv, EntriesKept
  <2>4. \A k \in DOMAIN entered' :
          /\ {entered'[k].fAB, entered'[k].R, entered'[k].uA, entered'[k].uB} \subseteq Nat
          /\ entered'[k].uA + entered'[k].uB \in {entered'[k].fAB + entered'[k].R - 1,
                                                  entered'[k].fAB + entered'[k].R}
    <3> SUFFICES ASSUME NEW k \in DOMAIN entered'
                 PROVE  /\ {entered'[k].fAB, entered'[k].R, entered'[k].uA, entered'[k].uB} \subseteq Nat
                        /\ entered'[k].uA + entered'[k].uB \in {entered'[k].fAB + entered'[k].R - 1,
                                                                entered'[k].fAB + entered'[k].R}
      OBVIOUS
    <3>1. CASE k = id
      BY <1>7, <1>8, <3>1
    <3>2. CASE k # id
      BY <1>8, <3>2 DEF IInv, EntriesKept
    <3> QED BY <3>1, <3>2
  <2> QED BY <2>1, <2>2, <2>3, <2>4 DEF EntriesKept
<1>11. CreditsTraced'
  <2>1. \A k \in settled : k \in DOMAIN entered /\ k # id
    BY <1>1 DEF IInv, EntriesKept
  <2> QED BY <1>1, <1>8, <2>1, CreditsUntouched DEF IInv
<1> QED BY <1>9, <1>10, <1>11 DEF IInv

LEMMA SettleInvariant ==
  ASSUME IInv, NEW id \in Pair, Settle(id)
  PROVE  IInv'
<1>1. /\ id \notin settled /\ id \in DOMAIN pending
      /\ credit' = Credit(pending[id]) /\ settled' = settled \cup {id}
      /\ pending' = Without(pending, {id}) /\ UNCHANGED <<EA, EB, now, entered, cleaned>>
  BY DEF Settle, DeletePending
<1>2. /\ DOMAIN pending' = DOMAIN pending \ {id}
      /\ \A k \in DOMAIN pending' : pending'[k] = pending[k]
  BY <1>1 DEF Without
<1>3. TypeOK'
  BY <1>1, <1>2, ZenonT(30) DEF IInv, TypeOK
<1>4. EntriesKept'
  BY <1>1, <1>2 DEF IInv, EntriesKept
<1>5. CreditsTraced'
  <2> DEFINE Share(s, k) == IF s = 0 THEN entered[k].uA ELSE entered[k].uB
  <2>1. IsFiniteSet(settled) /\ settled \subseteq DOMAIN entered /\ id \in DOMAIN entered
    BY <1>1, FS_Subset DEF IInv, EntriesKept
  <2>2. \A s \in {0, 1} : \A k \in settled \cup {id} : Share(s, k) \in Nat
    BY <2>1 DEF IInv, EntriesKept
  <2>3. ASSUME NEW s \in {0, 1}
        PROVE  SumFunction([k \in settled \cup {id} |-> Share(s, k)])
               = Share(s, id) + SumFunction([k \in settled |-> Share(s, k)])
    <3> DEFINE f == [k \in settled \cup {id} |-> Share(s, k)]
               g == [k \in settled |-> Share(s, k)]
    <3>1. \A k \in settled \cup {id} : f[k] = Share(s, k) /\ f[k] \in Int
      BY <2>2
    <3>2. \A k \in settled : f[k] \in Int /\ g[k] = f[k]
      BY <3>1
    <3>3. SumFunction(f) = SumFunctionOnSet(f, settled \cup {id}) /\ SumFunction(g) = SumFunctionOnSet(g, settled)
      BY DEF SumFunction
    <3>4. f[id] = Share(s, id)
      OBVIOUS
    <3> HIDE DEF f, g
    <3>5. SumFunctionOnSet(f, settled \cup {id}) = f[id] + SumFunctionOnSet(f, settled)
      BY <1>1, <2>1, <3>1, SumAdd
    <3>6. SumFunctionOnSet(g, settled) = SumFunctionOnSet(f, settled)
      BY <2>1, <3>2, SumEqual
    <3>7. SumFunction(f) = Share(s, id) + SumFunction(g)
      BY <3>3, <3>4, <3>5, <3>6
    <3> QED BY <3>7 DEF f, g
  <2>4. credit = [s \in {0, 1} |-> SumFunction([k \in settled |-> Share(s, k)])]
    BY DEF IInv, CreditsTraced
  <2>5. pending[id] = entered[id]
    BY <1>1 DEF IInv, EntriesKept
  <2>6. credit' = [s \in {0, 1} |-> credit[s] + Share(s, id)]
    BY <1>1, <2>5 DEF Credit
  <2>7. \A s \in {0, 1} : SumFunction([k \in settled |-> Share(s, k)]) \in Int
    <3> SUFFICES ASSUME NEW s \in {0, 1} PROVE SumFunction([k \in settled |-> Share(s, k)]) \in Int
      OBVIOUS
    <3> DEFINE g == [k \in settled |-> Share(s, k)]
    <3>1. \A k \in settled : g[k] \in Int
      BY <2>2
    <3>2. SumFunction(g) = SumFunctionOnSet(g, settled)
      BY DEF SumFunction
    <3> HIDE DEF g
    <3>3. SumFunction(g) \in Int
      BY <2>1, <3>1, <3>2, SumStep
    <3> QED BY <3>3 DEF g
  <2>8. \A s \in {0, 1} : credit'[s] = SumFunction([k \in settled \cup {id} |-> Share(s, k)])
    <3> SUFFICES ASSUME NEW s \in {0, 1}
                 PROVE  credit'[s] = SumFunction([k \in settled \cup {id} |-> Share(s, k)])
      OBVIOUS
    <3> DEFINE x == SumFunction([k \in settled |-> Share(s, k)])
               y == Share(s, id)
               z == SumFunction([k \in settled \cup {id} |-> Share(s, k)])
    <3>1. x \in Int /\ y \in Nat /\ z = y + x /\ credit'[s] = x + y
      BY <2>2, <2>3, <2>4, <2>6, <2>7
    <3> HIDE DEF x, y, z
    <3>2. credit'[s] = z
      BY <3>1
    <3> QED BY <3>2 DEF z
  <2>9. credit' = [s \in {0, 1} |-> SumFunction([k \in settled \cup {id} |-> Share(s, k)])]
    BY <2>6, <2>8
  <2> QED BY <1>1, <2>9 DEF CreditsTraced
<1> QED BY <1>3, <1>4, <1>5 DEF IInv

LEMMA CleanupInvariant ==
  ASSUME IInv, NEW t, CleanupOld(t)
  PROVE  IInv'
<1> DEFINE old == {id \in DOMAIN pending : pending[id].CreatedAt < t}
<1>1. /\ pending' = Without(pending, old) /\ cleaned' = cleaned \cup old
      /\ UNCHANGED <<EA, EB, settled, credit, now, entered>>
  BY DEF CleanupOld
<1>2. old \subseteq DOMAIN pending
  OBVIOUS
<1> HIDE DEF old
<1>3. /\ DOMAIN pending' = DOMAIN pending \ old
      /\ \A k \in DOMAIN pending' : pending'[k] = pending[k]
  BY <1>1 DEF Without
<1>4. TypeOK'
  BY <1>1, <1>3 DEF IInv, TypeOK
<1>5. EntriesKept'
  BY <1>1, <1>2, <1>3 DEF IInv, TypeOK, EntriesKept
<1>6. CreditsTraced'
  BY <1>1, CreditsUntouched DEF IInv
<1> QED BY <1>4, <1>5, <1>6 DEF IInv

LEMMA NextInvariant == IInv /\ [Next]_vars => IInv'
<1> SUFFICES ASSUME IInv, [Next]_vars PROVE IInv'
  OBVIOUS
<1>1. ASSUME UNCHANGED ledgerVars PROVE EntriesKept' /\ CreditsTraced'
  BY <1>1 DEF ledgerVars, IInv, EntriesKept, CreditsTraced
<1>2. CASE NextAverage
  BY <1>1, <1>2 DEF NextAverage, ledgerVars, IInv, TypeOK
<1>3. CASE Tick
  <2>1. now' \in 0 .. MaxTime /\ \A c \in 0 .. now : c \in 0 .. now'
    BY <1>3, ConfigAssumption DEF Tick, IInv, TypeOK
  <2>2. TypeOK'
    BY <1>3, <2>1 DEF Tick, ledgerVars, IInv, TypeOK
  <2> QED BY <1>1, <1>3, <2>2 DEF Tick, IInv
<1>4. CASE UNCHANGED vars
  BY <1>1, <1>4 DEF vars, ledgerVars, IInv, TypeOK
<1>5. ASSUME NEW id \in Pair, NEW f \in Fee, Add(id, f) PROVE IInv'
  BY <1>5, AddInvariant
<1>6. ASSUME NEW id \in Pair, Settle(id) PROVE IInv'
  BY <1>6, SettleInvariant
<1>7. ASSUME NEW t \in 1 .. MaxTime, CleanupOld(t) PROVE IInv'
  BY <1>7, CleanupInvariant
<1> QED BY <1>2, <1>3, <1>4, <1>5, <1>6, <1>7 DEF Next

LEMMA Invariant == Spec => []IInv
  BY InitInvariant, NextInvariant, PTL DEF Spec

\* Wherever the blocks move the averages, the split stays fair.
THEOREM AlwaysFair == Spec => []Fair
<1>1. IInv => Fair
  BY SplitFair, ConfigAssumption DEF IInv, TypeOK, Fair
<1> QED BY <1>1, Invariant, PTL

\* And the fee decides who is served first.
THEOREM FeeAlwaysDecides == Spec => []FeeDecides
<1>1. IInv => FeeDecides
  BY FeeMonotone, DestAvgFair, ConfigAssumption DEF IInv, TypeOK, FeeDecides
<1> QED BY <1>1, Invariant, PTL

\* The two shares of the settled entries come to their fees and subsidies, up
\* to one unit each.
LEMMA SharesAddUp ==
  ASSUME NEW S, IsFiniteSet(S), NEW a, NEW b, NEW d,
         \A k \in S : /\ a[k] \in Nat /\ b[k] \in Nat /\ d[k] \in Nat
                      /\ a[k] + b[k] \in {d[k] - 1, d[k]}
  PROVE  LET got == SumFunctionOnSet(a, S) + SumFunctionOnSet(b, S)
             due == SumFunctionOnSet(d, S)
         IN /\ got \in Int /\ due \in Int
            /\ got <= due /\ got >= due - Cardinality(S)
<1> DEFINE c == [k \in S |-> a[k] + b[k]]
           one == [k \in S |-> 1]
           more == [k \in S |-> c[k] + one[k]]
           A == SumFunctionOnSet(a, S)
           B == SumFunctionOnSet(b, S)
           C == SumFunctionOnSet(c, S)
           D == SumFunctionOnSet(d, S)
           M == SumFunctionOnSet(more, S)
           N == SumFunctionOnSet(one, S)
<1>1. \A k \in S : /\ c[k] \in Int /\ one[k] = 1 /\ more[k] = c[k] + 1 /\ c[k] = a[k] + b[k]
                   /\ c[k] <= d[k] /\ d[k] <= more[k] /\ more[k] \in Int
  OBVIOUS
<1> HIDE DEF c, one, more
<1>2. \A k \in S : a[k] \in Int /\ b[k] \in Int /\ d[k] \in Int
  OBVIOUS
<1>3. A \in Int /\ B \in Int /\ D \in Int /\ C \in Int
  BY ONLY <1>1, <1>2, IsFiniteSet(S), SumStep
<1>4. C = A + B
  BY ONLY <1>1, <1>2, IsFiniteSet(S), SumPlus
<1>5. N = 1 * Cardinality(S)
  BY ONLY <1>1, IsFiniteSet(S), SumConstant
<1>6. M = C + N
  <2>1. \A k \in S : c[k] \in Int /\ one[k] \in Int /\ more[k] = c[k] + one[k]
    BY <1>1
  <2> QED BY ONLY <2>1, IsFiniteSet(S), SumPlus
<1>7. C <= D
  BY ONLY <1>1, <1>2, IsFiniteSet(S), SumMonotone
<1>8. D <= M
  BY ONLY <1>1, <1>2, IsFiniteSet(S), SumMonotone
<1>9. Cardinality(S) \in Nat
  BY FS_CardinalityType
<1> HIDE DEF A, B, C, D, M, N
<1>10. /\ A + B \in Int /\ A + B <= D /\ A + B >= D - Cardinality(S)
  BY <1>3, <1>4, <1>5, <1>6, <1>7, <1>8, <1>9
<1> QED BY <1>3, <1>10 DEF A, B, D

LEMMA PaidOnceFromInvariant == IInv => PaidOnce
<1> SUFFICES ASSUME IInv PROVE PaidOnce
  OBVIOUS
<1> DEFINE P == DOMAIN pending
           d == [id \in P \cup settled |-> entered[id].fAB + entered[id].R]
           a == [id \in settled |-> entered[id].uA]
           b == [id \in settled |-> entered[id].uB]
           f == [id \in P |-> pending[id].fAB]
           r == [id \in P |-> pending[id].R]
           due == SumFunction([id \in DOMAIN entered \ cleaned |-> entered[id].fAB + entered[id].R])
<1>1. /\ IsFiniteSet(P) /\ IsFiniteSet(settled) /\ P \cap settled = {}
      /\ P \cup settled \subseteq DOMAIN entered
      /\ DOMAIN entered \ cleaned = P \cup settled
  BY FS_Subset DEF IInv, TypeOK, EntriesKept
<1>2. \A id \in DOMAIN entered :
        LET e == entered[id] IN
        /\ e.fAB \in Nat /\ e.R \in Nat /\ e.uA \in Nat /\ e.uB \in Nat
        /\ e.uA + e.uB \in {e.fAB + e.R - 1, e.fAB + e.R}
  BY DEF IInv, EntriesKept
<1>3. \A id \in P \cup settled : d[id] = entered[id].fAB + entered[id].R /\ d[id] \in Nat
  BY <1>1, <1>2
<1>4. \A id \in settled : /\ a[id] = entered[id].uA /\ b[id] = entered[id].uB
                          /\ a[id] \in Nat /\ b[id] \in Nat /\ d[id] \in Nat
                          /\ a[id] + b[id] \in {d[id] - 1, d[id]}
  BY <1>1, <1>2, <1>3
<1>5. \A id \in P : f[id] \in Int /\ r[id] \in Int /\ d[id] = f[id] + r[id]
  <2>1. \A id \in P : pending[id] = entered[id]
    BY DEF IInv, EntriesKept
  <2> QED BY <1>1, <1>2, <1>3, <2>1
<1>6. due = SumFunctionOnSet(d, P \cup settled)
  BY <1>1 DEF SumFunction
<1>7. credit[0] = SumFunctionOnSet(a, settled) /\ credit[1] = SumFunctionOnSet(b, settled)
  <2>1. credit[0] = SumFunction([id \in settled |-> entered[id].uA])
    BY DEF IInv, CreditsTraced
  <2>2. credit[1] = SumFunction([id \in settled |-> entered[id].uB])
    BY DEF IInv, CreditsTraced
  <2> QED BY <2>1, <2>2 DEF SumFunction
<1>8. TotalFees = SumFunctionOnSet(f, P) /\ TotalSubsidy = SumFunctionOnSet(r, P)
  BY DEF TotalFees, TotalSubsidy, SumFunction
<1> HIDE DEF P, d, a, b, f, r
<1>9. SumFunctionOnSet(d, P \cup settled) = SumFunctionOnSet(d, P) + SumFunctionOnSet(d, settled)
  <2>1. \A id \in P \cup settled : d[id] \in Int
    BY <1>3
  <2> QED BY ONLY <1>1, <2>1, SumUnion
<1>10. SumFunctionOnSet(d, P) = SumFunctionOnSet(f, P) + SumFunctionOnSet(r, P)
  BY ONLY <1>1, <1>5, SumPlus
<1>11. SumFunctionOnSet(f, P) \in Int /\ SumFunctionOnSet(r, P) \in Int
  BY ONLY <1>1, <1>5, SumStep
<1> DEFINE x == SumFunctionOnSet(a, settled)
           y == SumFunctionOnSet(b, settled)
           z == SumFunctionOnSet(d, settled)
           n == Cardinality(settled)
<1>12. x + y \in Int /\ z \in Int /\ x + y <= z /\ x + y >= z - n
  BY ONLY <1>1, <1>4, SharesAddUp
<1>13. x \in Int /\ y \in Int /\ n \in Nat
  <2>1. \A id \in settled : a[id] \in Int /\ b[id] \in Int
    BY <1>4
  <2> QED BY <1>1, <2>1, SumStep, FS_CardinalityType
<1> DEFINE F == SumFunctionOnSet(f, P)
           Q == SumFunctionOnSet(r, P)
<1>14. /\ due = F + Q + z /\ F \in Int /\ Q \in Int
       /\ credit[0] = x /\ credit[1] = y /\ TotalFees = F /\ TotalSubsidy = Q
  <2> HIDE DEF due
  <2> QED BY <1>6, <1>7, <1>8, <1>9, <1>10, <1>11
<1> HIDE DEF x, y, z, n, F, Q, due
<1>15. LET got == credit[0] + credit[1] + TotalFees + TotalSubsidy
       IN got <= due /\ got >= due - n
  BY <1>12, <1>13, <1>14
<1> QED BY <1>15 DEF PaidOnce, IInv, due, n

\* Every reward is paid out at most once, for any number of pairs, and nothing
\* but a unit for each settled split is lost, through additions,
\* settlements, clean-ups and additions of what was cleaned up.
THEOREM RewardsPaidOnce == Spec => []PaidOnce
  BY Invariant, PaidOnceFromInvariant, PTL

-----------------------------------------------------------------------------
(* The budget of a block.                                                  *)

\* Each part R[k] of the total is scaled to R[k] * num / total, rounded down;
\* as long as total * num fits the word, so does every product.
LEMMA ScaledPart ==
  ASSUME NEW R \in Nat, NEW total \in Nat, total > 0, R <= total, NEW num \in Nat,
         total * num < Word
  PROVE  LET q == ((R * num) % Word) \div total
         IN q \in Nat /\ total * q <= R * num /\ R * num <= total * q + (total - 1)
<1> DEFINE p == R * num
           m == total * num
<1>1. p \in Nat /\ m \in Nat /\ p <= m
  <2>1. p \in Nat /\ m \in Nat
    OBVIOUS
  <2>2. p <= m
    OBVIOUS
  <2> QED BY <2>1, <2>2
<1>2. m < Word
  OBVIOUS
<1> HIDE DEF p, m
<1>3. p % Word = p
  BY <1>1, <1>2, ConfigAssumption
<1> DEFINE q == p \div total
<1>4. q \in Nat /\ total * q <= p /\ p <= total * q + (total - 1)
  BY <1>1
<1> HIDE DEF q
<1>5. (p % Word) \div total = q
  BY <1>3 DEF q
<1> QED BY <1>4, <1>5 DEF p

LEMMA Cancel ==
  ASSUME NEW x \in Int, NEW y \in Int, NEW t \in Nat, t > 0
  PROVE  (t * x <= t * y => x <= y) /\ (t * x < t * y => x < y)
<1>1. ASSUME x > y PROVE t * x > t * y
  <2> DEFINE z == x - y
  <2>1. z \in Nat /\ z >= 1 /\ x = y + z
    BY <1>1
  <2> HIDE DEF z
  <2>2. t * z >= 1 /\ t * z \in Nat
    BY <2>1
  <2>3. t * x = t * y + t * z
    BY <2>1
  <2> DEFINE u == t * z
             v == t * y
  <2>4. v \in Int
    OBVIOUS
  <2> HIDE DEF u, v
  <2>5. u >= 1 /\ u \in Nat /\ t * x = v + u
    BY <2>2, <2>3 DEF u, v
  <2>6. t * x > v
    BY <2>4, <2>5
  <2> QED BY <2>6 DEF v
<1> DEFINE a == t * x
           b == t * y
<1>2. a \in Int /\ b \in Int
  OBVIOUS
<1>3. x = y => a = b
  OBVIOUS
<1> HIDE DEF a, b
<1>4. x > y => a > b
  BY <1>1 DEF a, b
<1>5. (a <= b => x <= y) /\ (a < b => x < y)
  BY <1>2, <1>3, <1>4
<1> QED BY <1>5 DEF a, b

\* The scaled parts come to num, less at most a unit each.
LEMMA ScaledSum ==
  ASSUME NEW S, IsFiniteSet(S), NEW R, NEW q, NEW num \in Nat,
         \A k \in S : R[k] \in Nat,
         SumFunctionOnSet(R, S) > 0, SumFunctionOnSet(R, S) * num < Word,
         \A k \in S : q[k] = ((R[k] * num) % Word) \div SumFunctionOnSet(R, S)
  PROVE  SumFunctionOnSet(q, S) <= num /\ SumFunctionOnSet(q, S) > num - Cardinality(S)
<1> DEFINE t == SumFunctionOnSet(R, S)
           n == Cardinality(S)
           Q == SumFunctionOnSet(q, S)
<1>1. t \in Nat /\ \A k \in S : R[k] <= t
  <2>1. t \in Nat /\ \A U \in SUBSET S : SumFunctionOnSet(R, U) <= t
    BY SumOfPart
  <2>2. ASSUME NEW k \in S PROVE R[k] <= t
    <3>1. SumFunctionOnSet(R, {k}) = R[k]
      <4>1. R[k] \in Int /\ IsFiniteSet({}) /\ k \notin {} /\ {} \cup {k} = {k}
        BY FS_EmptySet
      <4>2. SumFunctionOnSet(R, {} \cup {k}) = R[k] + SumFunctionOnSet(R, {})
        BY ONLY <4>1, SumAdd
      <4> QED BY <4>1, <4>2, SumEmpty
    <3>2. {k} \in SUBSET S
      OBVIOUS
    <3> QED BY <2>1, <3>1, <3>2
  <2> QED BY <2>1, <2>2
<1>2. t > 0 /\ t * num < Word
  OBVIOUS
<1>3. \A k \in S : q[k] = ((R[k] * num) % Word) \div t
  OBVIOUS
<1>4. n \in Nat
  BY FS_CardinalityType
<1> HIDE DEF t, n
<1>5. \A k \in S : q[k] \in Nat /\ t * q[k] <= R[k] * num /\ R[k] * num <= t * q[k] + (t - 1)
  BY <1>1, <1>2, <1>3, ScaledPart
<1> DEFINE rn == [k \in S |-> num * R[k]]
           tq == [k \in S |-> t * q[k]]
           c == [k \in S |-> t - 1]
           up == [k \in S |-> tq[k] + c[k]]
<1>6. \A k \in S : /\ rn[k] = num * R[k] /\ tq[k] = t * q[k] /\ c[k] = t - 1
                   /\ up[k] = tq[k] + c[k] /\ R[k] \in Int /\ q[k] \in Int
  BY <1>5
<1>7. \A k \in S : tq[k] \in Int /\ rn[k] \in Int /\ c[k] \in Int /\ up[k] \in Int
  <2> SUFFICES ASSUME NEW k \in S
               PROVE  tq[k] \in Int /\ rn[k] \in Int /\ c[k] \in Int /\ up[k] \in Int
    OBVIOUS
  <2>1. t * q[k] \in Int /\ num * R[k] \in Int /\ t - 1 \in Int
    BY <1>1, <1>6
  <2> QED BY <1>6, <2>1
<1>8. \A k \in S : tq[k] <= rn[k] /\ rn[k] <= up[k]
  <2> SUFFICES ASSUME NEW k \in S PROVE tq[k] <= rn[k] /\ rn[k] <= up[k]
    OBVIOUS
  <2>1. R[k] * num = num * R[k]
    BY <1>6
  <2> QED BY <1>5, <1>6, <2>1
<1> HIDE DEF rn, tq, c, up
<1>9. SumFunctionOnSet(rn, S) = num * t
  <2>1. \A k \in S : R[k] \in Int /\ rn[k] = num * R[k]
    BY <1>6
  <2>2. num \in Int
    OBVIOUS
  <2> QED BY ONLY <2>1, <2>2, IsFiniteSet(S), SumScale DEF t
<1>10. SumFunctionOnSet(tq, S) = t * Q
  <2>1. \A k \in S : q[k] \in Int /\ tq[k] = t * q[k]
    BY <1>6
  <2>2. t \in Int
    BY <1>1
  <2> QED BY ONLY <2>1, <2>2, IsFiniteSet(S), SumScale
<1>11. SumFunctionOnSet(c, S) = (t - 1) * n
  <2>1. \A k \in S : c[k] = t - 1
    BY <1>6
  <2>2. t - 1 \in Int
    BY <1>1
  <2> QED BY ONLY <2>1, <2>2, IsFiniteSet(S), SumConstant DEF n
<1>12. SumFunctionOnSet(up, S) = t * Q + (t - 1) * n
  <2>1. \A k \in S : tq[k] \in Int /\ c[k] \in Int /\ up[k] = tq[k] + c[k]
    BY <1>6, <1>7
  <2>2. SumFunctionOnSet(up, S) = SumFunctionOnSet(tq, S) + SumFunctionOnSet(c, S)
    BY ONLY <2>1, IsFiniteSet(S), SumPlus
  <2> QED BY <1>10, <1>11, <2>2
<1>13. SumFunctionOnSet(tq, S) <= SumFunctionOnSet(rn, S)
  BY ONLY <1>7, <1>8, IsFiniteSet(S), SumMonotone
<1>14. SumFunctionOnSet(rn, S) <= SumFunctionOnSet(up, S)
  BY ONLY <1>7, <1>8, IsFiniteSet(S), SumMonotone
<1>15. Q \in Int
  <2>1. \A k \in S : q[k] \in Int
    BY <1>6
  <2> QED BY ONLY <2>1, IsFiniteSet(S), SumStep
<1>16. n > 0
  <2>1. CASE n = 0
    <3>1. S = {}
      BY <2>1, FS_EmptySet DEF n
    <3>2. t = 0
      BY <3>1, SumEmpty DEF t
    <3> QED BY <1>2, <3>2
  <2> QED BY <1>4, <2>1
<1> HIDE DEF Q
<1>17. t * Q <= t * num
  <2>1. num * t = t * num
    BY <1>1
  <2> QED BY <1>9, <1>10, <1>13, <2>1
<1>18. t * num < t * (Q + n)
  <2>1. num * t <= t * Q + (t - 1) * n
    BY <1>9, <1>12, <1>14
  <2>2. num * t = t * num /\ t * (Q + n) = t * Q + t * n /\ (t - 1) * n = t * n - n
    BY <1>1, <1>4, <1>15
  <2> DEFINE tQ == t * Q
             tn == t * n
             tm == t * num
  <2>3. tQ \in Int /\ tn \in Int /\ tm \in Int
    BY <1>1, <1>4, <1>15
  <2> HIDE DEF tQ, tn, tm
  <2>4. tm <= tQ + (tn - n) /\ t * (Q + n) = tQ + tn
    BY <2>1, <2>2 DEF tQ, tn, tm
  <2>5. tm < t * (Q + n)
    BY <1>4, <1>16, <2>3, <2>4
  <2> QED BY <2>5 DEF tm
<1>19. Q <= num
  BY <1>1, <1>2, <1>15, <1>17, Cancel
<1>20. num < Q + n
  <2>1. Q + n \in Int /\ num \in Int
    BY <1>4, <1>15
  <2> QED BY <1>1, <1>2, <1>18, <2>1, Cancel
<1>21. Q > num - n
  BY <1>4, <1>15, <1>20
<1> QED BY <1>19, <1>21 DEF Q, n

\* The budget of one block.
LEMMA BudgetOfBlock ==
  ASSUME NEW bmin \in Nat, NEW bmax \in Nat, NEW S, IsFiniteSet(S), NEW R, DOMAIN R = S,
         \A k \in S : R[k] \in Nat,
         NewBudgetAccepts(bmin, bmax), bmax > 0, SumFunctionOnSet(R, S) * bmax < Word
  PROVE  LET total == SumFunctionOnSet(R, S)
             sum == SumFunction(ApplyBudgetToBlock(bmin, bmax, S, R))
         IN sum <= bmax /\ (total > 0 => sum > bmin - Cardinality(S))
<1> DEFINE t == SumFunctionOnSet(R, S)
           n == Cardinality(S)
           sf == Apply(bmin, bmax, t)
           q == ApplyBudgetToBlock(bmin, bmax, S, R)
           Q == SumFunctionOnSet(q, S)
<1>1. t \in Nat /\ n \in Nat
  BY SumOfPart, FS_CardinalityType
<1>2. t * bmax < Word /\ bmin <= bmax
  BY DEF NewBudgetAccepts
<1>3. t % Word = t
  <2> HIDE DEF t
  <2>1. t <= t * bmax /\ t * bmax \in Nat
    BY <1>1
  <2> DEFINE m == t * bmax
  <2> HIDE DEF m
  <2>2. t <= m /\ m < Word /\ m \in Nat
    BY <1>2, <2>1 DEF m
  <2> QED BY <1>1, <2>2, ConfigAssumption
<1>4. q = [k \in S |-> IF IsScalingNeeded(sf) THEN ScaleSubsidy(sf, R[k]) ELSE R[k]]
  BY <1>3 DEF ApplyBudgetToBlock
<1>5. SumFunction(q) = Q
  BY <1>4 DEF SumFunction
<1>6. t > 0 => n > 0
  <2>1. CASE n = 0
    <3>1. S = {}
      BY <2>1, FS_EmptySet
    <3>2. t = 0
      BY <3>1, SumEmpty
    <3> QED BY <3>2
  <2> QED BY <1>1, <2>1
<1>7. ASSUME NEW num \in Nat, sf = [Num |-> num, Den |-> t], num # t, t > 0, num <= bmax
      PROVE  Q <= num /\ Q > num - n
  <2>1. \A k \in S : q[k] = ((R[k] * num) % Word) \div t
    BY <1>4, <1>7 DEF IsScalingNeeded, ScaleSubsidy
  <2>2. t * num < Word
    <3> HIDE DEF t
    <3>1. t * num <= t * bmax /\ t * num \in Nat /\ t * bmax \in Nat
      BY <1>1, <1>7
    <3> DEFINE m == t * bmax
               l == t * num
    <3> HIDE DEF m, l
    <3>2. l <= m /\ m < Word /\ l \in Nat /\ m \in Nat
      BY <1>2, <3>1 DEF m, l
    <3>3. l < Word
      BY <3>2, ConfigAssumption
    <3> QED BY <3>3 DEF l
  <2> HIDE DEF q
  <2> QED BY <1>7, <2>1, <2>2, ScaledSum
<1>8. ASSUME sf = [Num |-> 1, Den |-> 1]
      PROVE  Q = t
  <2>1. \A k \in S : R[k] \in Int /\ q[k] = R[k]
    BY <1>4, <1>8 DEF IsScalingNeeded
  <2> HIDE DEF q
  <2> QED BY ONLY <2>1, IsFiniteSet(S), SumEqual
<1>9. Q <= bmax /\ (t > 0 => Q > bmin - n)
  <2> HIDE DEF t, n, Q, q
  <2>1. CASE t > bmax
    <3>1. sf = [Num |-> bmax, Den |-> t]
      BY <2>1 DEF Apply
    <3>2. Q <= bmax /\ Q > bmax - n
      <4> HIDE DEF sf
      <4> QED BY <1>1, <1>7, <2>1, <3>1
    <3>3. Q > bmin - n
      <4>1. Q \in Int
        <5>1. \A k \in S : q[k] \in Int
          <6>1. \A k \in S : q[k] = ((R[k] * bmax) % Word) \div t
            BY <1>1, <1>4, <2>1, <3>1 DEF IsScalingNeeded, ScaleSubsidy
          <6>2. \A k \in S : (R[k] * bmax) % Word \in Nat
            BY ConfigAssumption
          <6>3. \A m \in Nat : m \div t \in Int
            BY <1>1, <2>1
          <6> QED BY <6>1, <6>2, <6>3
        <5> QED BY ONLY <5>1, IsFiniteSet(S), SumStep DEF Q
      <4> QED BY <1>1, <1>2, <3>2, <4>1
    <3> QED BY <3>2, <3>3
  <2>2. CASE ~(t > bmax) /\ bmin > 0 /\ t < bmin /\ t > 0
    <3>1. sf = [Num |-> bmin, Den |-> t]
      BY <1>1, <2>2 DEF Apply
    <3>2. Q <= bmin /\ Q > bmin - n
      <4> HIDE DEF sf
      <4> QED BY <1>1, <1>2, <1>7, <2>2, <3>1
    <3>3. Q <= bmax
      <4>1. Q \in Int
        <5>1. \A k \in S : q[k] \in Int
          <6>1. \A k \in S : q[k] = ((R[k] * bmin) % Word) \div t
            BY <1>1, <1>4, <2>2, <3>1 DEF IsScalingNeeded, ScaleSubsidy
          <6>2. \A k \in S : (R[k] * bmin) % Word \in Nat
            BY ConfigAssumption
          <6>3. \A m \in Nat : m \div t \in Int
            BY <1>1, <2>2
          <6> QED BY <6>1, <6>2, <6>3
        <5> QED BY ONLY <5>1, IsFiniteSet(S), SumStep DEF Q
      <4> QED BY <1>2, <3>2, <4>1
    <3> QED BY <3>2, <3>3
  <2>3. CASE ~(t > bmax) /\ ~(bmin > 0 /\ t < bmin /\ t > 0)
    <3>1. sf = [Num |-> 1, Den |-> 1]
      BY <1>1, <2>3 DEF Apply
    <3>2. Q = t
      BY <1>8, <3>1
    <3> QED BY <1>1, <1>2, <1>6, <2>3, <3>2
  <2> QED BY <2>1, <2>2, <2>3
<1> QED BY <1>5, <1>9

\* The budget bounds the subsidies of whatever pairs a block settles, for all
\* bounds and any number of pairs, while no product overflows its word.
THEOREM BudgetAlwaysKept == Spec => []BudgetKept
<1>1. IInv => BudgetKept
  <2> SUFFICES ASSUME IInv, NEW bmin \in Amount, NEW bmax \in Amount, NEW S \in SUBSET DOMAIN pending,
                      NewBudgetAccepts(bmin, bmax), bmax > 0,
                      SumFunction([id \in S |-> pending[id].R]) * bmax < Word
               PROVE  LET R == [id \in S |-> pending[id].R]
                          sum == SumFunction(ApplyBudgetToBlock(bmin, bmax, S, R))
                      IN sum <= bmax /\ (SumFunction(R) > 0 => sum > bmin - Cardinality(S))
    BY DEF BudgetKept
  <2> DEFINE R == [id \in S |-> pending[id].R]
  <2>1. IsFiniteSet(S) /\ \A k \in S : R[k] \in Nat
    BY FS_Subset DEF IInv, EntriesKept
  <2>2. DOMAIN R = S /\ SumFunction(R) = SumFunctionOnSet(R, S)
    BY DEF SumFunction
  <2>3. bmin \in Nat /\ bmax \in Nat
    BY ConfigAssumption
  <2>4. SumFunctionOnSet(R, S) * bmax < Word
    BY <2>2
  <2> HIDE DEF R
  <2>5. LET sum == SumFunction(ApplyBudgetToBlock(bmin, bmax, S, R))
        IN sum <= bmax /\ (SumFunctionOnSet(R, S) > 0 => sum > bmin - Cardinality(S))
    BY <2>1, <2>2, <2>3, <2>4, BudgetOfBlock
  <2> QED BY <2>2, <2>5 DEF R
<1> QED BY <1>1, Invariant, PTL
=============================================================================
