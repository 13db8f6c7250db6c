-------------------------- MODULE Scenarios_proofs --------------------------
(***************************************************************************)
(* Proofs about Scenarios, for any configurations, any number of rounds,   *)
(* any fan-out, target and number of calls; and what the planners of S1's  *)
(* amounts promise for every input, number of outputs and fee rate.        *)
(***************************************************************************)
EXTENDS Scenarios, CoinSplit, InductionLemmas

----------------------------------------------------------------------------
\* The inductive invariant.

\* The scenarios after S1.
Later == {"S2", "S3", "S4", "S5", "S6", "S7"}

\* The rounds are at work, or have just ended.
AtRounds == {"precheck"} \cup InRound

\* Every round left exactly its outputs and matched its balance, and nothing is in flight.
AllExact == round = LastRound /\ kept = LastRound /\ view = Target(LastRound) /\ late = 0

\* EarlierRoundsWhole says it of the rounds that send.
RoundInv ==
    /\ pc = "S0" => round = 1 /\ sent = 0 /\ kept = 0 /\ late = 0 /\ total = Fresh
    /\ pc \in AtRounds =>
          /\ round \in Rounds
          /\ kept = round - 1 /\ ~total.failed
          /\ total.confirmed = TxUpTo(round - 1)
    /\ pc = "precheck" => sent = 0
    /\ pc \in InRound => tx.attempted = TxCount[round]
    /\ pc = "send" => sent < tx.attempted
    /\ pc \in {"precheck", "send", "verify"} => late = 0
    /\ pc \in {"send", "verify"} => view = tx.attempted

\* Without a failure S1 ended because no round was left.
ExactInv ==
    /\ pc = "S1" /\ ~total.failed => AllExact
    /\ pc \in Later => AllExact
    /\ pc \in {"S2", "S3"} => S1Complete

NothingYet(s) == cells[s] = <<>>

\* A cell with all its repetitions, each of them measured.
WholeCell(s) ==
    IF s \in ScanCells /\ ~config.scans THEN NothingYet(s)
    ELSE /\ Len(cells[s]) = IF s \in ScanCells THEN config.scan_repetitions ELSE 1
         /\ \A i \in 1..Len(cells[s]) : cells[s][i] # "BlockedPrerequisite"

\* Those of them that come before another.
Before(s) ==
    CASE s = "S2" -> {}
      [] s = "S3" -> {"S2"}
      [] s = "S4" -> {"S2", "S3"}
      [] s = "S5" -> {"S2", "S3", "S4"}
      [] s = "S6" -> {"S2", "S3", "S4", "S5"}
      [] s = "S7" -> {"S2", "S3", "S4", "S5", "S6"}

\* A cell on the way: so many repetitions, none of them blocked, and not the last.
OpenCell(s) ==
    /\ s \in ScanCells => config.scans
    /\ Len(cells[s]) < (IF s \in ScanCells THEN config.scan_repetitions ELSE 1)
    /\ \A i \in 1..Len(cells[s]) : cells[s][i] # "BlockedPrerequisite"

\* What EveryCellSettled asks of a cell.
SettledCell(s) ==
    \/ Len(cells[s]) = IF s \in ScanCells /\ Measured(s) THEN config.scan_repetitions ELSE 1
    \/ cells[s] = <<>> /\ (s \in NotApplicable(mode) \/ ~Live)

\* Which cells there are, by place.
CellsInv ==
    /\ pc = "S0" => \A s \in Scenario : NothingYet(s)
    /\ pc \in AtRounds \cup {"S1"} =>
          cells["S0"] = <<"Ok">> /\ \A s \in Scenario \ {"S0"} : NothingYet(s)
    /\ pc \in Later =>
          /\ cells["S0"] = <<"Ok">> /\ Len(cells["S1"]) = 1
          /\ \A s \in Before(pc) : WholeCell(s)
          /\ OpenCell(pc)
          /\ \A s \in Later \ (Before(pc) \cup {pc}) : NothingYet(s)
    /\ pc \in {"shutdown", "stage"} => \A s \in Scenario : SettledCell(s)

\* TypeOK, by what it is about.
PlaceTypeOK ==
    /\ config \in Configs
    /\ pc \in {"precheck", "shutdown", "stage", "final", "ended", "aborted"} \cup InRound \cup Scenario
    /\ mode \in Modes
    /\ profile \in [Modes -> [final : BOOLEAN, submission : BOOLEAN] \cup {None}]
    /\ stages \subseteq Modes \cup {"fresh_scans"}
    /\ file \in {"none", "final", "refused"}

CellTypeOK == cells \in [Scenario -> Seq(Statuses)]

SendTypeOK ==
    /\ sent \in Nat
    /\ tx \in Summary
    /\ tx.confirmed <= tx.accepted /\ tx.accepted <= sent /\ sent <= tx.attempted

TotalTypeOK ==
    /\ total \in Summary
    /\ total.confirmed <= total.accepted /\ total.accepted <= total.attempted

WalletTypeOK ==
    /\ view \in Nat /\ late \in Nat
    /\ observed \in Nat \cup {None}
    /\ unspent \in Nat \cup {None}

RoundTypeOK == round \in 1..doubling_rounds + 1 /\ kept \in 0..doubling_rounds + 1

Types == PlaceTypeOK /\ CellTypeOK /\ SendTypeOK /\ TotalTypeOK /\ WalletTypeOK /\ RoundTypeOK

\* EarlierRoundsWhole and EveryCellSettled follow from this.
Inv == Types /\ RoundInv /\ ExactInv /\ CellsInv /\ NothingOnFailedS1

----------------------------------------------------------------------------
\* The plan of the rounds (s1_round_plan).

OutputCounts == [utxos : Nat \ {0}, left : Nat]

\* What one doubling round makes of the outputs there are.
Doubling(s) ==
    [utxos |-> s.utxos + Least(s.utxos, s.left), left |-> s.left - Least(s.utxos, s.left)]

LEMMA Parameters ==
  /\ doubling_rounds \in Nat
  /\ fanout_outputs_per_tx \in Nat \ {0} /\ volume_target \in Nat \ {0} /\ Calls \in Nat \ {0}
  /\ None \notin Nat
BY ScenariosAssumption

LEMMA DoublingType ==
  ASSUME NEW s \in OutputCounts
  PROVE  Doubling(s) \in OutputCounts /\ Doubling(s).left <= s.left
BY DEF OutputCounts, Doubling, Least

Start(cap) == [utxos |-> 1, left |-> IF cap = 0 THEN Uncapped ELSE cap]

\* f is the plan of the first n rounds.
Plans(n, cap, f) ==
    /\ f \in [0..n -> OutputCounts]
    /\ f[0] = Start(cap)
    /\ \A r \in 1..n : f[r] = Doubling(f[r - 1])

\* Any number of rounds has a plan.
LEMMA EveryPlan ==
  ASSUME NEW cap \in Nat, NEW n \in Nat
  PROVE  \E f : Plans(n, cap, f)
<1> DEFINE T == {k \in Nat : \E f : Plans(k, cap, f)}
<1>1. 0 \in T
  <2>1. Start(cap) \in OutputCounts
    BY Parameters DEF Start, OutputCounts, Uncapped
  <2>2. Plans(0, cap, [r \in 0..0 |-> Start(cap)])
    BY <2>1 DEF Plans
  <2>. QED
    BY <2>2
<1>2. ASSUME NEW k \in Nat, k \in T
      PROVE  k + 1 \in T
  <2>1. PICK f : Plans(k, cap, f)
    BY <1>2
  <2> DEFINE g == [r \in 0..k + 1 |-> IF r = k + 1 THEN Doubling(f[k]) ELSE f[r]]
  <2>2. \A r \in 0..k : g[r] = f[r]
    OBVIOUS
  <2>3. g[k + 1] = Doubling(g[k])
    OBVIOUS
  <2>4. g \in [0..k + 1 -> OutputCounts]
    <3>1. k \in 0..k /\ \A r \in 0..k : f[r] \in OutputCounts
      BY <2>1 DEF Plans
    <3>2. Doubling(f[k]) \in OutputCounts
      BY <3>1, DoublingType
    <3>3. \A r \in 0..k + 1 : r # k + 1 => r \in 0..k
      OBVIOUS
    <3>. QED
      BY <3>1, <3>2, <3>3
  <2>. HIDE DEF g
  <2>5. g[0] = Start(cap)
    BY <2>1, <2>2 DEF Plans
  <2>6. ASSUME NEW r \in 1..k + 1
        PROVE  g[r] = Doubling(g[r - 1])
    <3>1. CASE r = k + 1
      BY <2>3, <3>1
    <3>2. CASE r \in 1..k
      <4>1. f[r] = Doubling(f[r - 1])
        BY <2>1, <3>2 DEF Plans
      <4>2. g[r] = f[r] /\ g[r - 1] = f[r - 1]
        BY <2>2, <3>2
      <4>. QED
        BY <4>1, <4>2
    <3>. QED
      BY <3>1, <3>2
  <2>7. Plans(k + 1, cap, g)
    BY <2>4, <2>5, <2>6 DEF Plans
  <2>. QED
    BY <2>7
<1>3. Nat \subseteq T
  <2>. HIDE DEF T
  <2>. QED
    BY <1>1, <1>2, Induct
<1>. QED
  BY <1>3

\* The recursion that defines Doubled has a solution, and the choice finds it.
LEMMA DoubledRounds ==
  ASSUME NEW cap \in Nat
  PROVE  Plans(doubling_rounds, cap, Doubled(cap))
<1> DEFINE IsPlan(f) ==
             f = [r \in 0..doubling_rounds |->
                   IF r = 0 THEN [utxos |-> 1, left |-> IF cap = 0 THEN Uncapped ELSE cap]
                   ELSE LET before == f[r - 1]
                            n      == Least(before.utxos, before.left)
                        IN [utxos |-> before.utxos + n, left |-> before.left - n]]
<1>1. PICK f : Plans(doubling_rounds, cap, f)
  BY EveryPlan, Parameters
<1>2. f \in [0..doubling_rounds -> OutputCounts]
      /\ f[0] = Start(cap) /\ \A r \in 1..doubling_rounds : f[r] = Doubling(f[r - 1])
  BY <1>1 DEF Plans
<1>3. IsPlan(f)
  <2>. SUFFICES ASSUME NEW r \in 0..doubling_rounds, r # 0
                PROVE  f[r] = Doubling(f[r - 1])
    BY <1>2 DEF Doubling, Start
  <2>1. r \in 1..doubling_rounds
    BY Parameters
  <2>. QED
    BY <1>2, <2>1
<1>4. Doubled(cap) = CHOOSE g : IsPlan(g)
  BY Zenon DEF Doubled
<1>5. IsPlan(Doubled(cap))
  <2>. HIDE DEF IsPlan
  <2>. QED
    BY <1>3, <1>4, Zenon
<1>6. \A r \in 0..doubling_rounds : Doubled(cap)[r] = f[r]
  <2> DEFINE g == Doubled(cap)
             T == {r \in 0..doubling_rounds : g[r] # f[r]}
  <2>1. /\ g[0] = Start(cap)
        /\ \A r \in 1..doubling_rounds : g[r] = Doubling(g[r - 1])
    <3>1. doubling_rounds \in Nat
      BY Parameters
    <3>. HIDE DEF g
    <3>2. IsPlan(g)
      BY <1>5 DEF g
    <3>3. g[0] = Start(cap)
      BY <3>1, <3>2 DEF Start
    <3>4. \A r \in 1..doubling_rounds : g[r] = Doubling(g[r - 1])
      <4>. SUFFICES ASSUME NEW r \in 1..doubling_rounds
                    PROVE  g[r] = Doubling(g[r - 1])
        OBVIOUS
      <4>1. r \in 0..doubling_rounds /\ r # 0
        BY <3>1
      <4>. QED
        BY <3>2, <4>1 DEF Doubling
    <3>. QED
      BY <3>3, <3>4
  <2>. SUFFICES ASSUME T # {}
                PROVE  FALSE
    OBVIOUS
  <2>. HIDE DEF g
  <2>2. PICK r \in T : \A n \in T : r <= n
    <3>1. T \subseteq Nat
      BY Parameters
    <3>. HIDE DEF T
    <3>. QED
      BY <3>1, LeastNumber
  <2>3. r \in 1..doubling_rounds /\ r - 1 \in 0..doubling_rounds
    BY <1>2, <2>1, <2>2, Parameters
  <2>4. g[r - 1] = f[r - 1]
    BY <2>2, <2>3, Parameters
  <2>. QED
    BY <1>2, <2>1, <2>2, <2>3, <2>4
<1>7. Doubled(cap) = f
  <2>1. DOMAIN Doubled(cap) = 0..doubling_rounds /\ Doubled(cap) = [r \in 0..doubling_rounds |-> Doubled(cap)[r]]
    BY <1>5
  <2>2. DOMAIN f = 0..doubling_rounds /\ f = [r \in 0..doubling_rounds |-> f[r]]
    BY <1>2
  <2>3. [r \in 0..doubling_rounds |-> f[r]] = [r \in 0..doubling_rounds |-> Doubled(cap)[r]]
    BY <1>6
  <2>. QED
    BY <2>1, <2>2, <2>3, Zenon
<1>. QED
  BY <1>1, <1>7

LEMMA CapIsNumber ==
  ASSUME config \in Configs, mode \in Modes
  PROVE  Cap \in Nat
<1>1. config \in [live : SUBSET Modes, scans : BOOLEAN, cap : [Modes -> Nat],
                  scan_repetitions : Nat \ {0}, canonical : BOOLEAN]
  BY ScenariosAssumption
<1>. QED
  BY <1>1 DEF Cap

\* There is something left for the first round, and never more for a later one.
LEMMA PlanFacts ==
  ASSUME config \in Configs, mode \in Modes
  PROVE  /\ \A r \in 0..doubling_rounds :
              Doubled(Cap)[r].utxos \in Nat \ {0} /\ Doubled(Cap)[r].left \in Nat
         /\ Doubled(Cap)[0].left > 0
         /\ \A r \in 1..doubling_rounds : Doubled(Cap)[r].left <= Doubled(Cap)[r - 1].left
<1> DEFINE g == Doubled(Cap)
<1>1. Cap \in Nat /\ Plans(doubling_rounds, Cap, g)
  BY CapIsNumber, DoubledRounds
<1>. HIDE DEF g
<1>2. \A r \in 0..doubling_rounds : g[r].utxos \in Nat \ {0} /\ g[r].left \in Nat
  BY <1>1 DEF Plans, OutputCounts
<1>3. g[0].left > 0
  BY <1>1, Parameters DEF Plans, Start, Uncapped
<1>4. ASSUME NEW r \in 1..doubling_rounds
      PROVE  g[r].left <= g[r - 1].left
  <2>1. r - 1 \in 0..doubling_rounds
    BY Parameters
  <2>2. g[r - 1] \in OutputCounts /\ g[r] = Doubling(g[r - 1])
    BY <1>1, <2>1 DEF Plans
  <2>. QED
    BY <2>2, DoublingType
<1>. QED
  BY <1>2, <1>3, <1>4 DEF g

\* The rounds of the plan are the first ones: none follows a round that is left out.
LEMMA RoundsAreFirst ==
  ASSUME config \in Configs, mode \in Modes
  PROVE  LastRound \in 1..doubling_rounds + 1 /\ Rounds = 1..LastRound
<1> DEFINE g == Doubled(Cap)
           Out == {r \in Nat : r >= 1 /\ r \notin Rounds}
<1>1. /\ \A r \in 0..doubling_rounds : g[r].left \in Nat
      /\ g[0].left > 0
      /\ \A r \in 1..doubling_rounds : g[r].left <= g[r - 1].left
  BY PlanFacts
<1>. HIDE DEF g
<1>2. Rounds = {r \in 1..doubling_rounds + 1 : g[r - 1].left > 0}
  BY DEF Rounds, g
<1>3. 1 \in Rounds
  BY <1>1, <1>2, Parameters
<1>4. PICK n \in Out : \A m \in Out : n <= m
  <2>1. doubling_rounds + 2 \in Out
    BY <1>2, Parameters
  <2>2. Out \subseteq Nat
    OBVIOUS
  <2>. HIDE DEF Out
  <2>. QED
    BY <2>1, <2>2, LeastNumber
<1>5. n \in Nat /\ n > 1
  BY <1>3, <1>4
<1>6. 1..n - 1 \subseteq Rounds
  BY <1>4, <1>5
<1>7. Rounds \subseteq 1..n - 1
  <2> DEFINE Late == {r \in Rounds : r >= n}
  <2>1. SUFFICES ASSUME Late # {}
                 PROVE  FALSE
    BY <1>2, <1>5, Parameters
  <2>2. PICK r \in Late : \A m \in Late : r <= m
    <3>1. Late \subseteq Nat
      BY <1>2, Parameters
    <3>. HIDE DEF Late
    <3>. QED
      BY <2>1, <3>1, LeastNumber
  <2>3. r \in Nat /\ r > n /\ r - 1 \in 1..doubling_rounds /\ g[r - 1].left > 0
    BY <1>2, <1>4, <1>5, <2>2, Parameters
  <2>4. g[(r - 1) - 1].left > 0
    <3>1. (r - 1) - 1 \in 0..doubling_rounds
      BY <2>3, Parameters
    <3>. QED
      BY <1>1, <2>3, <3>1
  <2>5. r - 1 \in Late
    BY <1>2, <1>5, <2>3, <2>4, Parameters
  <2>. QED
    BY <2>2, <2>3, <2>5
<1>8. Rounds = 1..n - 1
  BY <1>6, <1>7
<1>9. LastRound = n - 1
  <2>1. Cardinality(1..n - 1) = n - 1
    BY <1>5, FS_Interval
  <2>. QED
    BY <1>8, <2>1 DEF LastRound
<1>10. n - 1 \in Rounds
  BY <1>5, <1>6
<1>. QED
  BY <1>2, <1>5, <1>8, <1>9, <1>10

LEMMA TxCountType ==
  ASSUME config \in Configs, mode \in Modes
  PROVE  /\ TxCount \in [1..doubling_rounds + 1 -> Nat]
         /\ \A r \in Rounds : TxCount[r] >= 1
<1>1. \A r \in 1..doubling_rounds + 1 : r - 1 \in 0..doubling_rounds
  BY Parameters
<1>. QED
  BY <1>1, PlanFacts DEF TxCount, Least, Rounds

LEMMA TargetType ==
  ASSUME config \in Configs, mode \in Modes, NEW r \in 1..doubling_rounds + 1
  PROVE  Target(r) \in Nat
<1>1. Doubled(Cap)[doubling_rounds].utxos \in Nat /\ (r <= doubling_rounds => Doubled(Cap)[r].utxos \in Nat)
  BY PlanFacts, Parameters
<1>2. TxCount[r] \in Nat /\ fanout_outputs_per_tx - 1 \in Nat
  BY TxCountType, Parameters
<1>3. (fanout_outputs_per_tx - 1) * TxCount[r] \in Nat
  BY <1>2
<1>. QED
  BY <1>1, <1>3, Parameters DEF Target, Least

\* The transactions of one more round.
LEMMA TxUpToNext ==
  ASSUME config \in Configs, mode \in Modes, NEW r \in 1..doubling_rounds + 1
  PROVE  TxUpTo(r) = TxUpTo(r - 1) + TxCount[r] /\ TxUpTo(r - 1) \in Nat
<1> DEFINE F == TxCount
           D == 1..doubling_rounds + 1
<1>1. F \in [D -> Nat] /\ IsFiniteSet(D)
  <2>1. F \in [D -> Nat]
    BY TxCountType
  <2>2. doubling_rounds + 1 \in Int /\ 1 \in Int
    BY Parameters
  <2>3. IsFiniteSet(D)
    BY <2>2, FS_Interval
  <2>. QED
    BY <2>1, <2>3
<1>. HIDE DEF F
<1>2. 1..r \in SUBSET D /\ r \in 1..r /\ (1..r) \ {r} = 1..(r - 1) /\ 1..(r - 1) \in SUBSET D
  BY Parameters
<1>. HIDE DEF D
<1>3. SumOf(F, 1..r) = F[r] + SumOf(F, (1..r) \ {r})
  BY <1>1, <1>2, SumRemove
<1>4. SumOf(F, (1..r) \ {r}) = SumOf(F, 1..(r - 1))
  BY <1>2, Zenon
<1>5. SumOf(F, 1..(r - 1)) \in Nat
  BY <1>1, <1>2, SumNat
<1>6. TxUpTo(r) = SumOf(F, 1..r) /\ TxUpTo(r - 1) = SumOf(F, 1..(r - 1))
  BY DEF TxUpTo, SumOf, F
<1>7. F[r] \in Nat
  BY <1>1 DEF D
<1>. QED
  BY <1>3, <1>4, <1>5, <1>6, <1>7 DEF F

LEMMA TxUpToNone ==
  ASSUME config \in Configs, mode \in Modes
  PROVE  TxUpTo(0) = 0
<1>1. 1..0 = {}
  OBVIOUS
<1>2. SumOf(TxCount, {}) = 0
  BY TxCountType, FS_Interval, SumEmpty, Parameters
<1>3. TxUpTo(0) = SumOf(TxCount, 1..0)
  BY DEF TxUpTo, SumOf
<1>. QED
  BY <1>1, <1>2, <1>3, Zenon

LEMMA TxUpToIsSum ==
  /\ \A r : TxUpTo(r) = SumOf(TxCount, 1..r)
  /\ TxUpTo(LastRound) = SumOf(TxCount, 1..LastRound)
  /\ TxUpTo(round - 1) = SumOf(TxCount, 1..(round - 1))
BY DEF TxUpTo, SumOf

\* The plan is that of a mode in a configuration.
LEMMA PlanStands ==
  ASSUME UNCHANGED <<config, mode>>
  PROVE  /\ Rounds' = Rounds /\ LastRound' = LastRound /\ TxCount' = TxCount
         /\ \A r : Target(r)' = Target(r)
         /\ Target(LastRound)' = Target(LastRound)
         /\ \A r : TxUpTo(r)' = TxUpTo(r)
         /\ TxUpTo(LastRound)' = TxUpTo(LastRound)
         /\ TxUpTo(round - 1)' = TxUpTo(round' - 1)
<1>1. Cap' = Cap
  BY DEF Cap
<1>2. Rounds' = Rounds
  BY <1>1 DEF Rounds
<1>3. LastRound' = LastRound
  BY <1>2 DEF LastRound
<1>4. TxCount' = TxCount
  BY <1>1 DEF TxCount
<1>5. \A r : Target(r)' = Target(r)
  BY <1>1, <1>4 DEF Target
<1>6. Target(LastRound)' = Target(LastRound)
  BY <1>1, <1>3, <1>4 DEF Target
<1>7. /\ \A r : TxUpTo(r) = SumOf(TxCount, 1..r)
      /\ TxUpTo(LastRound) = SumOf(TxCount, 1..LastRound)
  BY TxUpToIsSum
<1>8. /\ (\A r : TxUpTo(r) = SumOf(TxCount, 1..r))'
      /\ (TxUpTo(LastRound) = SumOf(TxCount, 1..LastRound))'
      /\ (TxUpTo(round - 1) = SumOf(TxCount, 1..(round - 1)))'
  <2>1. (/\ \A r : TxUpTo(r) = SumOf(TxCount, 1..r)
         /\ TxUpTo(LastRound) = SumOf(TxCount, 1..LastRound)
         /\ TxUpTo(round - 1) = SumOf(TxCount, 1..(round - 1)))'
    BY TxUpToIsSum, PTL
  <2>. QED
    BY <2>1
<1>. QED
  BY <1>2, <1>3, <1>4, <1>5, <1>6, <1>7, <1>8, Zenon

----------------------------------------------------------------------------
\* Cells.

LEMMA StatusTypes ==
  /\ \A s, expected : Mode1Status(s, expected) \in {"Ok", "Failed"}
  /\ \A s, seen : Mode2Status(s, seen) \in {"Ok", "Failed"}
  /\ \A s, seen : Mode3Status(s, seen) \in {"Ok", "Failed", "BlockedUpstream"}
BY DEF Mode1Status, Mode2Status, Mode3Status

\* One more repetition.
LEMMA AppendFacts ==
  ASSUME NEW r \in Seq(Statuses), NEW status \in Statuses
  PROVE  /\ Append(r, status) \in Seq(Statuses)
         /\ Len(Append(r, status)) = Len(r) + 1
         /\ Append(r, status)[Len(r) + 1] = status
         /\ \A i \in 1..Len(r) : Append(r, status)[i] = r[i]
OBVIOUS

LEMMA FirstRepetition ==
  ASSUME NEW status \in Statuses
  PROVE  Append(<<>>, status) = <<status>> /\ <<status>> \in Seq(Statuses)
OBVIOUS

\* d is c with a first repetition in each of the cells ss.
HasFirst(d, c, ss, status) ==
    /\ d \in [Scenario -> Seq(Statuses)]
    /\ \A s \in ss : d[s] = <<status>>
    /\ \A s \in Scenario \ ss : d[s] = c[s]

LEMMA RecordFirst ==
  ASSUME NEW ss \in SUBSET Scenario, NEW status \in Statuses, NEW c,
         \A s \in Scenario : c[s] \in Seq(Statuses),
         \A s \in ss : c[s] = <<>>
  PROVE  HasFirst(Record(c, ss, status), c, ss, status)
<1>1. Append(<<>>, status) = <<status>> /\ <<status>> \in Seq(Statuses)
  BY FirstRepetition
<1>2. Record(c, ss, status) = [s \in Scenario |-> IF s \in ss THEN <<status>> ELSE c[s]]
  BY <1>1, Zenon DEF Record
<1>. QED
  BY <1>1, <1>2 DEF HasFirst

\* Steps that leave what the cells and the rounds have.
LEMMA StandStill ==
  ASSUME Inv, UNCHANGED <<config, mode, cells, s1Vars, total, unspent>>,
         PlaceTypeOK', pc' \in {"stage", "final", "ended", "aborted"}, pc' = "stage" => pc \in {"shutdown", "stage"}
  PROVE  Inv'
<1>1. UNCHANGED <<config, mode, cells, round, sent, tx, view, late, observed, kept, total, unspent>>
  BY DEF s1Vars
<1>2. Types'
  BY <1>1 DEF Inv, Types, CellTypeOK, SendTypeOK, TotalTypeOK, WalletTypeOK, RoundTypeOK
<1>3. RoundInv' /\ ExactInv'
  BY DEF RoundInv, ExactInv, AtRounds, InRound, Later
<1>4. CellsInv'
  BY <1>1 DEF Inv, CellsInv, SettledCell, Measured, Started, NotApplicable, Live, AtRounds, InRound, Later
<1>5. NothingOnFailedS1'
  BY <1>1, PlanStands DEF Inv, NothingOnFailedS1, Measured, Started
<1>. QED
  BY <1>2, <1>3, <1>4, <1>5 DEF Inv

\* A mode begins.
Begins ==
    /\ PlaceTypeOK /\ pc = "S0"
    /\ cells = [s \in Scenario |-> <<>>]
    /\ round = 1 /\ sent = 0 /\ tx = Fresh
    /\ view = 0 /\ late = 0 /\ observed = None /\ kept = 0
    /\ total = Fresh /\ unspent = None

LEMMA FreshStart == Begins => Inv
<1>. SUFFICES ASSUME Begins PROVE Inv
  OBVIOUS
<1>1. Types
  BY Parameters DEF Begins, Types, CellTypeOK, SendTypeOK, TotalTypeOK, WalletTypeOK, RoundTypeOK, Fresh, Summary
<1>2. RoundInv /\ ExactInv
  BY DEF Begins, RoundInv, ExactInv, AtRounds, InRound, Later
<1>3. CellsInv
  BY DEF Begins, CellsInv, NothingYet, AtRounds, InRound, Later
<1>4. NothingOnFailedS1
  BY DEF Begins, NothingOnFailedS1, Measured, Started, Scenario
<1>. QED
  BY <1>1, <1>2, <1>3, <1>4 DEF Inv

\* A mode ends: nothing is said of the rounds any more.
LEMMA Ends ==
  ASSUME Types', pc' \in {"shutdown", "stage"}, \A s \in Scenario : SettledCell(s)', NothingOnFailedS1'
  PROVE  Inv'
<1>1. RoundInv' /\ ExactInv'
  BY DEF RoundInv, ExactInv, AtRounds, InRound, Later
<1>2. CellsInv'
  BY DEF CellsInv, AtRounds, InRound, Later
<1>. QED
  BY <1>1, <1>2 DEF Inv

----------------------------------------------------------------------------
\* S0.

LEMMA StartupFails ==
  ASSUME Inv, pc = "S0", RecordStartupFailure
  PROVE  Inv'
<1>1. /\ cells' \in [Scenario -> Seq(Statuses)]
      /\ \A s \in Scenario : cells'[s] = <<"HarnessError">>
  <2>1. cells \in [Scenario -> Seq(Statuses)] /\ \A s \in Scenario : cells[s] = <<>>
    BY DEF Inv, Types, CellTypeOK, CellsInv, NothingYet
  <2>2. cells' = Record(cells, Scenario, "HarnessError") /\ "HarnessError" \in Statuses
    BY DEF RecordStartupFailure, StartupCells, Statuses
  <2>3. Scenario \in SUBSET Scenario
    OBVIOUS
  <2>. /\ \A s \in Scenario : cells[s] \in Seq(Statuses)
       /\ \A s \in Scenario : cells[s] = <<>>
    BY <2>1
  <2>4. HasFirst(Record(cells, Scenario, "HarnessError"), cells, Scenario, "HarnessError")
    BY <2>2, <2>3, RecordFirst, Zenon
  <2>. QED
    BY <2>2, <2>4, Zenon DEF HasFirst
<1>2. Types'
  BY <1>1 DEF RecordStartupFailure, Inv, Types, PlaceTypeOK, CellTypeOK, SendTypeOK, TotalTypeOK,
              WalletTypeOK, RoundTypeOK, s1Vars, outVars
<1>3. \A s : ~Measured(s)'
  BY <1>1 DEF Measured, Started, Scenario
<1>4. NothingOnFailedS1'
  BY <1>3 DEF NothingOnFailedS1
<1>5. \A s \in Scenario : SettledCell(s)'
  <2>1. Len(<<"HarnessError">>) = 1
    OBVIOUS
  <2>. QED
    BY <1>1, <1>3, <2>1, Zenon DEF SettledCell
<1>. QED
  BY <1>2, <1>4, <1>5, Ends DEF RecordStartupFailure

LEMMA SwitchedOffStep ==
  ASSUME Inv, SwitchedOff
  PROVE  Inv'
<1>1. \A s \in Scenario : cells'[s] = <<>>
  BY DEF SwitchedOff, Inv, CellsInv, NothingYet
<1>2. Types'
  BY DEF SwitchedOff, Inv, Types, PlaceTypeOK, CellTypeOK, SendTypeOK, TotalTypeOK, WalletTypeOK, RoundTypeOK,
         s1Vars, outVars
<1>3. NothingOnFailedS1'
  BY <1>1 DEF NothingOnFailedS1, Measured, Started, Scenario
<1>4. \A s \in Scenario : SettledCell(s)'
  BY <1>1 DEF SettledCell, SwitchedOff, Live
<1>. QED
  BY <1>2, <1>3, <1>4, Ends DEF SwitchedOff

\* The cell of S0, and what its failure blocks.
LEMMA RecordS0Step ==
  ASSUME Inv, pc = "S0", NEW status \in {"Ok", "Failed"}, NEW count,
         status = "Ok" => count = 1,
         RecordS0(status, count)
  PROVE  Inv'
<1>1. cells \in [Scenario -> Seq(Statuses)] /\ \A s \in Scenario : cells[s] = <<>>
  BY DEF Inv, Types, CellTypeOK, CellsInv, NothingYet
<1>2. /\ Record(cells, {"S0"}, status) \in [Scenario -> Seq(Statuses)]
      /\ Record(cells, {"S0"}, status)["S0"] = <<status>>
      /\ \A s \in Scenario \ {"S0"} : Record(cells, {"S0"}, status)[s] = <<>>
  <2> DEFINE one == {"S0"}
  <2>1. /\ one \in SUBSET Scenario /\ status \in Statuses
        /\ \A s \in one : cells[s] = <<>>
        /\ \A s \in Scenario : cells[s] \in Seq(Statuses)
    BY <1>1 DEF Scenario, Statuses
  <2>2. "S0" \in one /\ \A s \in Scenario \ one : cells[s] = <<>>
    BY <1>1
  <2>3. HasFirst(Record(cells, one, status), cells, one, status)
    <3>. HIDE DEF one
    <3>. QED
      BY <2>1, RecordFirst, Zenon
  <2>. QED
    BY <2>2, <2>3, Zenon DEF HasFirst
<1>3. UNCHANGED <<config, mode, round, sent, tx, late, observed, kept, total, unspent, profile, stages, file>>
  BY DEF RecordS0, outVars
<1>4. SendTypeOK' /\ TotalTypeOK' /\ RoundTypeOK'
  BY <1>3 DEF Inv, Types, SendTypeOK, TotalTypeOK, RoundTypeOK
<1>5. CASE status = "Ok"
  <2>1. cells' = Record(cells, {"S0"}, status) /\ view' = 1 /\ pc' = IF Live THEN "precheck" ELSE "stage"
    BY <1>5 DEF RecordS0
  <2>2. cells' \in [Scenario -> Seq(Statuses)] /\ cells'["S0"] = <<"Ok">> /\ \A s \in Scenario \ {"S0"} : cells'[s] = <<>>
    BY <1>2, <1>5, <2>1
  <2>3. Types'
    BY <1>3, <1>4, <2>1, <2>2 DEF Inv, Types, PlaceTypeOK, CellTypeOK, WalletTypeOK
  <2>4. NothingOnFailedS1'
    BY <2>2 DEF NothingOnFailedS1, Measured
  <2>5. CASE Live
    <3>1. 1 \in Rounds /\ TxUpTo(0) = 0
      BY RoundsAreFirst, TxUpToNone DEF Inv, Types, PlaceTypeOK
    <3>2. 1 \in Rounds' /\ round' = 1 /\ TxUpTo(round - 1)' = TxUpTo(round' - 1) /\ round' - 1 = 0
      BY <1>3, <3>1, PlanStands DEF Inv, RoundInv
    <3>3. TxUpTo(round - 1)' = 0
      BY <3>1, <3>2
    <3>4. RoundInv'
      BY <1>3, <2>1, <2>5, <3>2, <3>3 DEF Inv, RoundInv, AtRounds, InRound, Fresh
    <3>5. ExactInv' /\ CellsInv'
      BY <2>1, <2>2, <2>5 DEF ExactInv, CellsInv, NothingYet, AtRounds, InRound, Later
    <3>. QED
      BY <2>3, <2>4, <3>4, <3>5 DEF Inv
  <2>6. CASE ~Live
    <3>1. \A s \in Scenario : SettledCell(s)'
      <4>1. ~Live' /\ "S0" \notin ScanCells /\ Len(<<"Ok">>) = 1
        BY <1>3, <2>6 DEF Live, ScanCells
      <4>. QED
        BY <2>2, <4>1 DEF SettledCell
    <3>. QED
      BY <2>1, <2>3, <2>4, <2>6, <3>1, Ends
  <2>. QED
    BY <2>5, <2>6
<1>6. CASE status = "Failed"
  <2>1. cells' = Block(Record(cells, {"S0"}, status), BlockedCells) /\ view' = 0 /\ pc' = Left
    BY <1>6 DEF RecordS0
  <2>2. /\ cells' \in [Scenario -> Seq(Statuses)]
        /\ cells'["S0"] = <<"Failed">>
        /\ \A s \in Scenario \ {"S0"} : cells'[s] = <<"BlockedPrerequisite">>
    <3>1. BlockedCells \in SUBSET Scenario /\ "BlockedPrerequisite" \in Statuses
          /\ BlockedCells = Scenario \ {"S0"} /\ "S0" \in Scenario \ BlockedCells
      BY DEF BlockedCells, Scenario, Statuses
    <3> DEFINE c == Record(cells, {"S0"}, status)
    <3>2. /\ c["S0"] = <<"Failed">>
          /\ \A s \in BlockedCells : c[s] = <<>>
          /\ \A s \in Scenario : c[s] \in Seq(Statuses)
      BY <1>2, <1>6, <3>1
    <3>3. cells' = Record(c, BlockedCells, "BlockedPrerequisite")
      BY <2>1 DEF Block
    <3>. HIDE DEF c
    <3>4. HasFirst(Record(c, BlockedCells, "BlockedPrerequisite"), c, BlockedCells, "BlockedPrerequisite")
      BY <3>1, <3>2, RecordFirst, Zenon
    <3>5. cells'["S0"] = <<"Failed">>
      BY <3>1, <3>2, <3>3, <3>4, Zenon DEF HasFirst
    <3>. QED
      BY <3>1, <3>3, <3>4, <3>5, Zenon DEF HasFirst
  <2>3. Types'
    BY <1>3, <1>4, <2>1, <2>2 DEF Inv, Types, PlaceTypeOK, CellTypeOK, WalletTypeOK, Left
  <2>4. \A s \in Scenario \ {"S0"} : ~Measured(s)'
    BY <2>2 DEF Measured
  <2>5. NothingOnFailedS1'
    BY <2>4 DEF NothingOnFailedS1
  <2>6. \A s \in Scenario : SettledCell(s)'
    BY <2>2, <2>4 DEF SettledCell, ScanCells, Scenario
  <2>. QED
    BY <2>1, <2>3, <2>5, <2>6, Ends DEF Left
<1>. QED
  BY <1>5, <1>6

LEMMA S0Steps ==
  ASSUME Inv, S0Mode1 \/ S0Mode2 \/ S0Mode3
  PROVE  Inv'
<1>1. PICK status, count :
             /\ status \in {"Ok", "Failed"} /\ (status = "Ok" => count = 1)
             /\ RecordS0(status, count)
  <2>1. \A available, count, clean :
          /\ S0Status(available, count, clean) \in {"Ok", "Failed"}
          /\ S0Status(available, count, clean) = "Ok" => count = 1
    BY DEF S0Status
  <2>. QED
    BY <2>1, Zenon DEF S0Mode1, S0Mode2, S0Mode3
<1>2. pc = "S0"
  BY DEF S0Mode1, S0Mode2, S0Mode3
<1>. QED
  BY <1>1, <1>2, RecordS0Step

----------------------------------------------------------------------------
\* The rounds of S1 touch no cell.

LEMMA RoundKeepsCells ==
  ASSUME Inv, UNCHANGED <<config, mode, cells>>, pc \in AtRounds \cup {"S1"}, pc' \in AtRounds \cup {"S1"}
  PROVE  CellTypeOK' /\ CellsInv' /\ NothingOnFailedS1'
<1>1. CellTypeOK'
  BY DEF Inv, Types, CellTypeOK
<1>2. cells'["S0"] = <<"Ok">> /\ \A s \in Scenario \ {"S0"} : cells'[s] = <<>>
  BY DEF Inv, CellsInv, NothingYet
<1>3. CellsInv'
  BY <1>2 DEF CellsInv, NothingYet, AtRounds, InRound, Later
<1>4. NothingOnFailedS1'
  BY <1>2 DEF NothingOnFailedS1, Measured
<1>. QED
  BY <1>1, <1>3, <1>4

\* What stays when the round stays.
LEMMA SameRound ==
  ASSUME Inv, UNCHANGED <<config, mode, round>>
  PROVE  /\ TxUpTo(round - 1)' = TxUpTo(round - 1) /\ TxCount[round]' = TxCount[round]
         /\ Rounds' = Rounds /\ LastRound' = LastRound
         /\ Target(LastRound)' = Target(LastRound)
<1>1. TxCount[round]' = TxCount'[round]
  BY Zenon
<1>. QED
  BY <1>1, PlanStands, Zenon

LEMMA BeginRoundStep ==
  ASSUME Inv, BeginRound
  PROVE  Inv'
<1>1. UNCHANGED <<config, mode, cells, round, sent, view, late, observed, kept, total, unspent, profile, stages, file>>
      /\ pc = "precheck" /\ pc' = "send" /\ view = TxCount[round]
      /\ tx' = [Fresh EXCEPT !.attempted = TxCount[round]]
  BY DEF BeginRound, outVars
<1>2. /\ round \in Rounds /\ sent = 0 /\ late = 0
      /\ kept = round - 1 /\ ~total.failed /\ total.confirmed = TxUpTo(round - 1)
  BY <1>1 DEF Inv, RoundInv, AtRounds
<1>3. TxCount[round] \in Nat /\ TxCount[round] >= 1
  BY <1>2, TxCountType DEF Inv, Types, PlaceTypeOK, RoundTypeOK
<1>4. /\ tx'.attempted = TxCount[round] /\ tx'.accepted = 0 /\ tx'.confirmed = 0
      /\ tx' \in Summary
  BY <1>1, <1>3 DEF Fresh, Summary
<1>5. Types'
  <2>1. PlaceTypeOK' /\ CellTypeOK' /\ TotalTypeOK' /\ WalletTypeOK' /\ RoundTypeOK'
    BY <1>1 DEF Inv, Types, PlaceTypeOK, CellTypeOK, TotalTypeOK, WalletTypeOK, RoundTypeOK, InRound
  <2>2. SendTypeOK'
    BY <1>1, <1>2, <1>3, <1>4 DEF SendTypeOK
  <2>. QED
    BY <2>1, <2>2 DEF Types
<1>6. RoundInv'
  BY <1>1, <1>2, <1>3, <1>4, SameRound DEF RoundInv, AtRounds, InRound
<1>7. ExactInv'
  BY <1>1 DEF ExactInv, Later
<1>. QED
  BY <1>1, <1>5, <1>6, <1>7, RoundKeepsCells DEF Inv, AtRounds, InRound

LEMMA PlusType ==
  ASSUME NEW s \in Summary, NEW b \in Summary,
         s.confirmed <= s.accepted, s.accepted <= s.attempted,
         b.confirmed <= b.accepted, b.accepted <= b.attempted
  PROVE  /\ Plus(s, b) \in Summary
         /\ Plus(s, b).confirmed <= Plus(s, b).accepted /\ Plus(s, b).accepted <= Plus(s, b).attempted
         /\ Plus(s, b).confirmed = s.confirmed + b.confirmed
         /\ Plus(s, b).failed <=> (s.failed \/ b.failed)
BY DEF Plus, Summary

LEMMA RefuseRoundStep ==
  ASSUME Inv, RefuseRound
  PROVE  Inv'
<1>1. UNCHANGED <<config, mode, cells, round, sent, tx, view, late, observed, kept, unspent, profile, stages, file>>
      /\ pc = "precheck" /\ pc' = "S1"
      /\ total' = Plus(total, IF mode = "new_wallet" THEN RefusedByMode2 ELSE RefusedUncounted)
  BY DEF RefuseRound, s1Vars, outVars
<1>2. TxCount[round] \in Nat
  BY TxCountType DEF Inv, Types, PlaceTypeOK, RoundTypeOK
<1>3. ASSUME NEW b \in {RefusedByMode2, RefusedUncounted}
      PROVE  b \in Summary /\ b.confirmed <= b.accepted /\ b.accepted <= b.attempted /\ b.failed
  <2>1. Fresh \in Summary /\ Fresh.attempted = 0 /\ Fresh.accepted = 0 /\ Fresh.confirmed = 0
    BY DEF Fresh, Summary
  <2>2. CASE b = RefusedByMode2
    <3>1. /\ RefusedByMode2 \in Summary /\ RefusedByMode2.accepted = 0 /\ RefusedByMode2.confirmed = 0
          /\ RefusedByMode2.attempted = TxCount[round] /\ RefusedByMode2.failed
      BY <1>2, <2>1 DEF RefusedByMode2, Summary
    <3>. QED
      BY <1>2, <2>2, <3>1
  <2>3. CASE b = RefusedUncounted
    <3>1. /\ RefusedUncounted \in Summary /\ RefusedUncounted.accepted = 0 /\ RefusedUncounted.confirmed = 0
          /\ RefusedUncounted.attempted = 0 /\ RefusedUncounted.failed
      BY <2>1 DEF RefusedUncounted, Summary
    <3>. QED
      BY <2>3, <3>1
  <2>. QED
    BY <1>3, <2>2, <2>3
<1>4. TotalTypeOK' /\ total'.failed
  <2>1. PICK b \in {RefusedByMode2, RefusedUncounted} : total' = Plus(total, b)
    BY <1>1
  <2>2. total \in Summary /\ total.confirmed <= total.accepted /\ total.accepted <= total.attempted
    BY DEF Inv, Types, TotalTypeOK
  <2>3. /\ Plus(total, b) \in Summary
        /\ Plus(total, b).confirmed <= Plus(total, b).accepted /\ Plus(total, b).accepted <= Plus(total, b).attempted
        /\ Plus(total, b).failed <=> (total.failed \/ b.failed)
    BY <1>3, <2>2, PlusType
  <2>. QED
    BY <1>3, <2>1, <2>3 DEF TotalTypeOK
<1>5. Types'
  BY <1>1, <1>4 DEF Inv, Types, PlaceTypeOK, CellTypeOK, SendTypeOK, TotalTypeOK, WalletTypeOK, RoundTypeOK, Scenario
<1>6. RoundInv' /\ ExactInv'
  BY <1>1, <1>4 DEF RoundInv, ExactInv, AtRounds, InRound, Later
<1>. QED
  BY <1>1, <1>5, <1>6, RoundKeepsCells DEF Inv, AtRounds

LEMMA SubmitStep ==
  ASSUME Inv, Submit \/ SubmitFails
  PROVE  Inv'
<1>1. UNCHANGED <<config, mode, cells, round, view, late, observed, kept, total, unspent, profile, stages, file>>
      /\ pc = "send" /\ sent' = sent + 1 /\ pc' \in {"send", "verify"} /\ (sent' = tx.attempted => pc' = "verify")
      /\ \/ tx' = [tx EXCEPT !.accepted = @ + 1]
         \/ tx' = [tx EXCEPT !.failed = TRUE]
  BY DEF Submit, SubmitFails, outVars
<1>2. /\ round \in Rounds /\ sent < tx.attempted /\ late = 0 /\ view = tx.attempted /\ tx.attempted = TxCount[round]
      /\ kept = round - 1 /\ ~total.failed /\ total.confirmed = TxUpTo(round - 1)
  BY <1>1 DEF Inv, RoundInv, AtRounds, InRound
<1>3. sent \in Nat /\ tx \in Summary /\ tx.confirmed <= tx.accepted /\ tx.accepted <= sent
  BY DEF Inv, Types, SendTypeOK
<1>4. SendTypeOK' /\ tx'.attempted = tx.attempted
  <2>1. CASE tx' = [tx EXCEPT !.accepted = @ + 1]
    <3>1. /\ tx' \in Summary /\ tx'.attempted = tx.attempted /\ tx'.confirmed = tx.confirmed
          /\ tx'.accepted = tx.accepted + 1
      BY <1>3, <2>1 DEF Summary
    <3>. QED
      BY <1>1, <1>2, <1>3, <3>1 DEF SendTypeOK, Summary
  <2>2. CASE tx' = [tx EXCEPT !.failed = TRUE]
    <3>1. /\ tx' \in Summary /\ tx'.attempted = tx.attempted /\ tx'.confirmed = tx.confirmed
          /\ tx'.accepted = tx.accepted
      BY <1>3, <2>2 DEF Summary
    <3>. QED
      BY <1>1, <1>2, <1>3, <3>1 DEF SendTypeOK, Summary
  <2>. QED
    BY <1>1, <2>1, <2>2
<1>5. Types'
  BY <1>1, <1>4 DEF Inv, Types, PlaceTypeOK, CellTypeOK, TotalTypeOK, WalletTypeOK, RoundTypeOK, InRound
<1>6. sent' # tx.attempted => sent' < tx.attempted
  BY <1>1, <1>2, <1>3 DEF Summary
<1>7. RoundInv'
  BY <1>1, <1>2, <1>4, <1>6, SameRound DEF RoundInv, AtRounds, InRound
<1>8. ExactInv'
  BY <1>1 DEF ExactInv, Later
<1>. QED
  BY <1>1, <1>5, <1>7, <1>8, RoundKeepsCells DEF Inv, AtRounds, InRound

\* What the wallet shows after a round.
LEMMA SettleType ==
  ASSUME Inv, pc = "verify", NEW taken \in tx.accepted..view, NEW n \in 0..tx.accepted, Settle(taken, n)
  PROVE  view' \in Nat /\ late' \in Nat
<1>1. view \in Nat /\ tx.accepted \in Nat
  BY DEF Inv, Types, WalletTypeOK, SendTypeOK, Summary
<1>2. OutputsPerTx(round) \in Nat
  BY Parameters DEF OutputsPerTx
<1>3. n * OutputsPerTx(round) \in Nat
  BY <1>1, <1>2
<1>. QED
  BY <1>1, <1>3 DEF Settle

LEMMA VerifyStep ==
  ASSUME Inv, VerifyMode1 \/ VerifyMode2 \/ ObserveMode3
  PROVE  Inv'
<1>1. UNCHANGED <<config, mode, cells, round, sent, observed, kept, total, unspent, profile, stages, file>>
      /\ pc = "verify" /\ pc' = "judge"
  BY DEF VerifyMode1, VerifyMode2, ObserveMode3, outVars
<1>2. /\ sent \in Nat /\ tx \in Summary /\ tx.accepted <= sent /\ sent <= tx.attempted
  BY DEF Inv, Types, SendTypeOK
<1>3. PICK taken \in tx.accepted..view, n \in 0..tx.accepted : Settle(taken, n)
  BY Zenon DEF VerifyMode1, VerifyMode2, ObserveMode3
<1>4. view' \in Nat /\ late' \in Nat
  BY <1>1, <1>3, SettleType
<1>5. /\ tx' \in Summary /\ tx'.attempted = tx.attempted /\ tx'.accepted = tx.accepted
      /\ tx'.confirmed <= tx.accepted
  <2>1. PICK confirmed \in 0..tx.accepted, failed \in BOOLEAN, upstream \in BOOLEAN :
             tx' = [attempted |-> tx.attempted, accepted |-> tx.accepted, confirmed |-> confirmed,
                    failed |-> failed, upstream |-> upstream]
    <3>1. /\ tx = [attempted |-> tx.attempted, accepted |-> tx.accepted, confirmed |-> tx.confirmed,
                   failed |-> tx.failed, upstream |-> tx.upstream]
          /\ tx.failed \in BOOLEAN /\ tx.upstream \in BOOLEAN
      BY <1>2 DEF Summary
    <3>2. CASE VerifyMode1
      <4>1. PICK confirmed \in 0..tx.accepted : tx' = Recounted(tx, confirmed)
        BY <3>2 DEF VerifyMode1
      <4>2. (IF tx.accepted = 0 THEN tx.failed ELSE tx.attempted > confirmed) \in BOOLEAN
        <5>1. (tx.attempted > confirmed) \in BOOLEAN
          OBVIOUS
        <5>. QED
          BY <3>1, <5>1, Zenon
      <4>3. tx' = [attempted |-> tx.attempted, accepted |-> tx.accepted, confirmed |-> confirmed,
                   failed |-> IF tx.accepted = 0 THEN tx.failed ELSE tx.attempted > confirmed,
                   upstream |-> tx.upstream]
        BY <3>1, <4>1 DEF Recounted
      <4>. QED
        BY <3>1, <4>2, <4>3
    <3>3. CASE VerifyMode2
      <4>1. PICK confirmed \in 0..tx.accepted, bad \in BOOLEAN, scanned \in BOOLEAN :
                 tx' = [tx EXCEPT !.confirmed = confirmed,
                                  !.failed = @ \/ (tx.accepted > 0 /\ (bad \/ ~scanned))]
        BY <3>3 DEF VerifyMode2
      <4>2. (tx.failed \/ (tx.accepted > 0 /\ (bad \/ ~scanned))) \in BOOLEAN
        OBVIOUS
      <4>3. tx' = [attempted |-> tx.attempted, accepted |-> tx.accepted, confirmed |-> confirmed,
                   failed |-> tx.failed \/ (tx.accepted > 0 /\ (bad \/ ~scanned)),
                   upstream |-> tx.upstream]
        BY <3>1, <4>1
      <4>. QED
        BY <3>1, <4>2, <4>3
    <3>4. CASE ObserveMode3
      <4>1. PICK confirmed \in 0..tx.accepted, upstream \in BOOLEAN :
                 tx' = [tx EXCEPT !.confirmed = confirmed, !.upstream = upstream]
        BY <3>4 DEF ObserveMode3
      <4>2. tx' = [attempted |-> tx.attempted, accepted |-> tx.accepted, confirmed |-> confirmed,
                   failed |-> tx.failed, upstream |-> upstream]
        BY <3>1, <4>1
      <4>. QED
        BY <3>1, <4>2
    <3>. QED
      BY <3>2, <3>3, <3>4
  <2>. QED
    BY <1>2, <2>1 DEF Summary
<1>6. SendTypeOK'
  BY <1>1, <1>2, <1>5 DEF SendTypeOK
<1>7. Types'
  BY <1>1, <1>4, <1>6 DEF Inv, Types, PlaceTypeOK, CellTypeOK, TotalTypeOK, WalletTypeOK, RoundTypeOK, InRound
<1>8. /\ round \in Rounds /\ tx.attempted = TxCount[round]
      /\ kept = round - 1 /\ ~total.failed /\ total.confirmed = TxUpTo(round - 1)
  BY <1>1 DEF Inv, RoundInv, AtRounds, InRound
<1>9. RoundInv' /\ ExactInv'
  BY <1>1, <1>5, <1>8, SameRound DEF RoundInv, ExactInv, AtRounds, InRound, Later
<1>. QED
  BY <1>1, <1>7, <1>9, RoundKeepsCells DEF Inv, AtRounds, InRound

\* An output shown late means that S1 failed, or has not been judged.
LEMMA WalletShowsStep ==
  ASSUME Inv, WalletShows
  PROVE  Inv'
<1>1. UNCHANGED <<config, pc, mode, cells, round, sent, tx, observed, kept, total, unspent, profile, stages, file>>
      /\ pc \in {"judge", "S1"} /\ late > 0 /\ view' = view + OutputsPerTx(round) /\ late' = late - 1
  BY DEF WalletShows, outVars
<1>2. view' \in Nat /\ late' \in Nat
  <2>1. OutputsPerTx(round) \in Nat
    BY Parameters DEF OutputsPerTx
  <2>. QED
    BY <1>1, <2>1 DEF Inv, Types, WalletTypeOK
<1>3. Types'
  BY <1>1, <1>2 DEF Inv, Types, PlaceTypeOK, CellTypeOK, SendTypeOK, TotalTypeOK, WalletTypeOK, RoundTypeOK
<1>4. pc = "S1" => total.failed
  BY <1>1 DEF Inv, Types, WalletTypeOK, ExactInv, AllExact
<1>5. RoundInv'
  BY <1>1, SameRound DEF Inv, RoundInv, AtRounds, InRound
<1>6. ExactInv'
  BY <1>1, <1>4 DEF ExactInv, Later
<1>. QED
  BY <1>1, <1>3, <1>5, <1>6, RoundKeepsCells DEF Inv, AtRounds, InRound

\* A complete round is confirmed as a whole, left exactly its outputs, and its metrics are kept.
LEMMA EndRoundStep ==
  ASSUME Inv, pc = "judge",
         NEW complete \in BOOLEAN, NEW contract \in BOOLEAN, NEW balanced \in BOOLEAN, NEW count \in {view, None},
         complete => /\ tx.confirmed = TxCount[round] /\ ~tx.failed
                     /\ contract /\ balanced /\ count = Target(round),
         EndRound(complete, contract, count, balanced)
  PROVE  Inv'
<1>1. /\ UNCHANGED <<config, mode, cells, view, late, unspent, profile, stages, file>>
      /\ balanced => late = 0
      /\ observed' = count
      /\ kept' = kept + (IF contract THEN 1 ELSE 0)
      /\ total' = Plus(total, [tx EXCEPT !.failed = @ \/ ~complete])
      /\ tx' = Fresh /\ sent' = 0
      /\ IF complete /\ round < LastRound
         THEN round' = round + 1 /\ pc' = "precheck"
         ELSE round' = round /\ pc' = "S1"
  BY DEF EndRound, outVars
<1>2. /\ config \in Configs /\ mode \in Modes
      /\ round \in 1..LastRound /\ round \in 1..doubling_rounds + 1
      /\ LastRound \in 1..doubling_rounds + 1 /\ Rounds = 1..LastRound
      /\ kept = round - 1 /\ ~total.failed /\ total.confirmed = TxUpTo(round - 1)
  BY RoundsAreFirst DEF Inv, Types, PlaceTypeOK, RoundTypeOK, RoundInv, AtRounds, InRound
<1>3. /\ total' \in Summary
      /\ total'.confirmed <= total'.accepted /\ total'.accepted <= total'.attempted
      /\ total'.confirmed = total.confirmed + tx.confirmed
      /\ complete => ~total'.failed
      /\ ~complete => total'.failed
  <2> DEFINE b == [tx EXCEPT !.failed = @ \/ ~complete]
  <2>1. /\ tx \in Summary /\ tx.confirmed <= tx.accepted /\ tx.accepted <= tx.attempted
        /\ total \in Summary /\ total.confirmed <= total.accepted /\ total.accepted <= total.attempted
    BY DEF Inv, Types, SendTypeOK, TotalTypeOK, Summary
  <2>2. (tx.failed \/ ~complete) \in BOOLEAN
    OBVIOUS
  <2>3. /\ b \in Summary /\ b.confirmed = tx.confirmed /\ b.accepted = tx.accepted /\ b.attempted = tx.attempted
        /\ b.failed <=> (tx.failed \/ ~complete)
    BY <2>1, <2>2 DEF Summary
  <2>4. total' = Plus(total, b)
    BY <1>1
  <2>. HIDE DEF b
  <2>5. /\ Plus(total, b) \in Summary
        /\ Plus(total, b).confirmed <= Plus(total, b).accepted /\ Plus(total, b).accepted <= Plus(total, b).attempted
        /\ Plus(total, b).confirmed = total.confirmed + b.confirmed
        /\ Plus(total, b).failed <=> (total.failed \/ b.failed)
    BY <2>1, <2>3, PlusType
  <2>. QED
    BY <1>2, <2>3, <2>4, <2>5
<1>4. Fresh \in Summary /\ Fresh.confirmed = 0 /\ Fresh.accepted = 0 /\ Fresh.attempted = 0
  BY DEF Fresh, Summary
<1>5. Types'
  <2>1. PlaceTypeOK' /\ CellTypeOK'
    BY <1>1 DEF Inv, Types, PlaceTypeOK, CellTypeOK, Scenario
  <2>2. SendTypeOK' /\ TotalTypeOK'
    BY <1>1, <1>3, <1>4 DEF SendTypeOK, TotalTypeOK
  <2>3. WalletTypeOK'
    BY <1>1 DEF Inv, Types, WalletTypeOK
  <2>4. RoundTypeOK'
    <3>1. kept' \in {round - 1, round}
      <4>1. contract \/ ~contract
        OBVIOUS
      <4>. QED
        BY <1>1, <1>2, <4>1
    <3>2. round' \in 1..doubling_rounds + 1
      <4>1. CASE complete /\ round < LastRound
        BY <1>1, <1>2, <4>1, Parameters
      <4>2. CASE ~(complete /\ round < LastRound)
        BY <1>1, <1>2, <4>2
      <4>. QED
        BY <4>1, <4>2
    <3>. QED
      BY <1>2, <3>1, <3>2, Parameters DEF RoundTypeOK
  <2>. QED
    BY <2>1, <2>2, <2>3, <2>4 DEF Types
<1>6. Rounds' = Rounds /\ LastRound' = LastRound /\ Target(LastRound)' = Target(LastRound)
      /\ TxUpTo(round - 1)' = TxUpTo(round' - 1)
  BY <1>1, PlanStands
<1>7. CASE complete /\ round < LastRound
  <2>1. round' = round + 1 /\ pc' = "precheck" /\ kept' = kept + 1 /\ late = 0
    BY <1>1, <1>7
  <2>2. round' \in Rounds'
    BY <1>2, <1>6, <1>7, <2>1
  <2>3. kept' = round' - 1 /\ round' - 1 = round
    BY <1>2, <2>1
  <2>4. TxUpTo(round) = TxUpTo(round - 1) + TxCount[round]
    BY <1>2, TxUpToNext
  <2>5. total'.confirmed = TxUpTo(round - 1)'
    BY <1>2, <1>3, <1>6, <1>7, <2>3, <2>4
  <2>6. RoundInv'
    BY <1>1, <1>3, <1>7, <2>1, <2>2, <2>3, <2>5 DEF RoundInv, AtRounds, InRound
  <2>7. ExactInv'
    BY <2>1 DEF ExactInv, Later
  <2>. QED
    BY <1>1, <1>5, <2>1, <2>6, <2>7, RoundKeepsCells DEF Inv, AtRounds, InRound
<1>8. CASE ~(complete /\ round < LastRound)
  <2>1. round' = round /\ pc' = "S1"
    BY <1>1, <1>8
  <2>2. RoundInv'
    BY <2>1 DEF RoundInv, AtRounds, InRound
  <2>3. ASSUME complete
        PROVE  AllExact'
    <3>1. round = LastRound /\ kept' = kept + 1
      BY <1>1, <1>2, <1>8, <2>3
    <3>2. Target(round) \in Nat
      BY <1>2, TargetType
    <3>3. view = Target(round) /\ late = 0
      BY <1>1, <2>3, <3>2, Parameters
    <3>. QED
      BY <1>1, <1>2, <1>6, <2>1, <3>1, <3>3 DEF AllExact
  <2>4. ExactInv'
    BY <1>3, <2>1, <2>3 DEF ExactInv, Later
  <2>. QED
    BY <1>1, <1>5, <2>1, <2>2, <2>4, RoundKeepsCells DEF Inv, AtRounds, InRound
<1>. QED
  BY <1>7, <1>8

LEMMA JudgeStep ==
  ASSUME Inv, JudgeMode1 \/ JudgeMode2 \/ JudgeMode3
  PROVE  Inv'
<1>1. pc = "judge"
  BY DEF JudgeMode1, JudgeMode2, JudgeMode3
<1>2. tx.attempted = TxCount[round] /\ tx.confirmed <= tx.accepted /\ tx \in Summary
  BY <1>1 DEF Inv, RoundInv, InRound, Types, SendTypeOK
<1>3. CASE JudgeMode1
  <2>1. PICK count \in {view, None}, balanced \in BOOLEAN :
             EndRound(mode1_s1_complete(tx, TxCount[round]) /\ Exact(count, balanced), balanced /\ ~tx.failed, count, balanced)
    BY <1>3 DEF JudgeMode1
  <2> DEFINE complete == mode1_s1_complete(tx, TxCount[round]) /\ Exact(count, balanced)
             contract == balanced /\ ~tx.failed
  <2>2. complete => /\ tx.confirmed = TxCount[round] /\ ~tx.failed
                    /\ contract /\ balanced /\ count = Target(round)
    BY <1>2 DEF mode1_s1_complete, Exact
  <2>3. complete \in BOOLEAN /\ contract \in BOOLEAN
    BY DEF mode1_s1_complete, Exact
  <2>4. EndRound(complete, contract, count, balanced)
    BY <2>1
  <2>. HIDE DEF complete, contract
  <2>. QED
    BY <1>1, <2>2, <2>3, <2>4, EndRoundStep
<1>4. CASE JudgeMode2
  <2>1. PICK count \in {view, None}, balanced \in BOOLEAN :
             EndRound(mode2_summary_complete(tx) /\ Exact(count, balanced),
                      mode2_summary_complete(tx) /\ Exact(count, balanced), count, balanced)
    BY <1>4 DEF JudgeMode2
  <2> DEFINE complete == mode2_summary_complete(tx) /\ Exact(count, balanced)
  <2>2. complete => /\ tx.confirmed = TxCount[round] /\ ~tx.failed
                    /\ balanced /\ count = Target(round)
    BY <1>2 DEF mode2_summary_complete, Exact
  <2>3. complete \in BOOLEAN
    BY DEF mode2_summary_complete, Exact
  <2>4. EndRound(complete, complete, count, balanced)
    BY <2>1
  <2>. HIDE DEF complete
  <2>. QED
    BY <1>1, <2>2, <2>3, <2>4, EndRoundStep
<1>5. CASE JudgeMode3
  <2>1. PICK count \in {view, None}, balanced \in BOOLEAN, inTime \in BOOLEAN :
             EndRound(pp_summary_complete(tx) /\ Converged(inTime) /\ Exact(count, balanced),
                      balanced /\ ~tx.failed /\ Converged(inTime), count, balanced)
    BY <1>5 DEF JudgeMode3
  <2> DEFINE complete == pp_summary_complete(tx) /\ Converged(inTime) /\ Exact(count, balanced)
             contract == balanced /\ ~tx.failed /\ Converged(inTime)
  <2>2. complete => /\ tx.confirmed = TxCount[round] /\ ~tx.failed
                    /\ contract /\ balanced /\ count = Target(round)
    <3>1. pp_summary_complete(tx) => tx.confirmed = TxCount[round] /\ ~tx.failed
      BY <1>2 DEF pp_summary_complete, Summary
    <3>. QED
      BY <3>1 DEF Exact
  <2>3. complete \in BOOLEAN /\ contract \in BOOLEAN
    BY DEF pp_summary_complete, Converged, Exact
  <2>4. EndRound(complete, contract, count, balanced)
    BY <2>1
  <2>. HIDE DEF complete, contract
  <2>. QED
    BY <1>1, <2>2, <2>3, <2>4, EndRoundStep
<1>. QED
  BY <1>3, <1>4, <1>5

----------------------------------------------------------------------------
\* The cell of S1.

LEMMA S1CompleteStands ==
  ASSUME UNCHANGED <<config, mode, total>>
  PROVE  S1Complete' <=> S1Complete
<1>1. TxUpTo(LastRound)' = TxUpTo(LastRound) /\ mode' = mode /\ total' = total
  BY PlanStands
<1>. QED
  BY <1>1 DEF S1Complete, Complete, mode1_s1_complete, mode2_summary_complete, pp_summary_complete

LEMMA CompleteIsExact ==
  ASSUME Inv, pc = "S1", S1Complete
  PROVE  AllExact
<1>1. mode \in Modes
  BY DEF Inv, Types, PlaceTypeOK
<1>2. ~total.failed
  BY <1>1 DEF S1Complete, Complete, Modes, mode1_s1_complete, mode2_summary_complete, pp_summary_complete
<1>. QED
  BY <1>2 DEF Inv, ExactInv

LEMMA ExactStands ==
  ASSUME AllExact, UNCHANGED <<config, mode, s1Vars>>
  PROVE  AllExact'
BY PlanStands DEF AllExact, s1Vars

LEMMA RecordS1Step ==
  ASSUME Inv, pc = "S1", NEW status \in Statuses, NEW count \in Nat \cup {None},
         RecordS1(status, count)
  PROVE  Inv'
<1>1. /\ UNCHANGED <<config, mode, s1Vars, total, profile, stages, file>>
      /\ unspent' = count
      /\ IF S1Complete
         THEN cells' = Record(cells, {"S1"}, status) /\ pc' = AfterS1
         ELSE cells' = Block(Record(cells, {"S1"}, status), BlockedCells \ {"S1"}) /\ pc' = Left
  BY DEF RecordS1, outVars
<1>2. /\ cells \in [Scenario -> Seq(Statuses)]
      /\ cells["S0"] = <<"Ok">> /\ \A s \in Scenario \ {"S0"} : cells[s] = <<>>
  BY DEF Inv, Types, CellTypeOK, CellsInv, NothingYet
<1> DEFINE c == Record(cells, {"S1"}, status)
<1>3. /\ c \in [Scenario -> Seq(Statuses)]
      /\ c["S0"] = <<"Ok">> /\ c["S1"] = <<status>>
      /\ \A s \in Scenario \ {"S0", "S1"} : c[s] = <<>>
  <2> DEFINE one == {"S1"}
  <2>1. /\ one \in SUBSET Scenario /\ status \in Statuses
        /\ \A s \in one : cells[s] = <<>>
        /\ \A s \in Scenario : cells[s] \in Seq(Statuses)
    BY <1>2 DEF Scenario
  <2>2. /\ "S1" \in one /\ "S0" \in Scenario \ one
        /\ \A s \in Scenario \ {"S0", "S1"} : s \in Scenario \ one /\ cells[s] = <<>>
    BY <1>2 DEF Scenario
  <2>3. HasFirst(Record(cells, one, status), cells, one, status)
    <3>. HIDE DEF one
    <3>. QED
      BY <2>1, RecordFirst, Zenon
  <2>. QED
    BY <1>2, <2>2, <2>3, Zenon DEF HasFirst
<1>. HIDE DEF c
<1>4. PlaceTypeOK' /\ SendTypeOK' /\ TotalTypeOK' /\ WalletTypeOK' /\ RoundTypeOK'
  <2>1. pc' \in {"shutdown", "stage", "S2", "S4"}
    BY <1>1 DEF AfterS1, Left
  <2>2. PlaceTypeOK'
    BY <1>1, <2>1 DEF Inv, Types, PlaceTypeOK, Scenario
  <2>3. SendTypeOK' /\ TotalTypeOK' /\ WalletTypeOK' /\ RoundTypeOK'
    BY <1>1 DEF Inv, Types, SendTypeOK, TotalTypeOK, WalletTypeOK, RoundTypeOK, s1Vars
  <2>. QED
    BY <2>2, <2>3
<1>5. CASE S1Complete
  <2>1. cells' = c /\ pc' = AfterS1
    BY <1>1, <1>5 DEF c
  <2>2. AllExact'
    BY <1>1, <1>5, CompleteIsExact, ExactStands
  <2>3. S1Complete'
    BY <1>1, <1>5, S1CompleteStands
  <2>4. pc' = IF config.scans THEN "S2" ELSE "S4"
    BY <2>1 DEF AfterS1
  <2>5. RoundInv' /\ ExactInv'
    BY <2>2, <2>3, <2>4 DEF RoundInv, ExactInv, AtRounds, InRound, Later
  <2>6. NothingOnFailedS1'
    BY <2>2 DEF NothingOnFailedS1, AllExact
  <2>7. config.scan_repetitions \in Nat \ {0}
    BY ScenariosAssumption DEF Inv, Types, PlaceTypeOK
  <2>8. /\ cells'["S0"] = <<"Ok">> /\ Len(cells'["S1"]) = 1
        /\ \A s \in Later : cells'[s] = <<>> /\ Len(cells'[s]) = 0
    <3>1. Len(<<status>>) = 1 /\ Len(<<>>) = 0
      OBVIOUS
    <3>2. Later \subseteq Scenario \ {"S0", "S1"}
      BY DEF Later, Scenario
    <3>. QED
      BY <1>3, <2>1, <3>1, <3>2
  <2>9. CellsInv'
    <3>1. CASE config.scans
      <4>1. pc' = "S2" /\ Before("S2") = {}
        BY <2>4, <3>1 DEF Before
      <4>2. OpenCell("S2")'
        BY <1>1, <2>7, <2>8, <3>1 DEF OpenCell, Later
      <4>. QED
        BY <2>8, <4>1, <4>2 DEF CellsInv, AtRounds, InRound, Later, NothingYet
    <3>2. CASE ~config.scans
      <4>1. pc' = "S4" /\ Before("S4") = {"S2", "S3"}
        BY <2>4, <3>2 DEF Before
      <4>2. OpenCell("S4")'
        BY <1>1, <2>8 DEF OpenCell, Later, ScanCells
      <4>3. \A s \in {"S2", "S3"} : WholeCell(s)'
        BY <1>1, <2>8, <3>2 DEF WholeCell, NothingYet, Later, ScanCells
      <4>. QED
        BY <2>8, <4>1, <4>2, <4>3 DEF CellsInv, AtRounds, InRound, Later, NothingYet
    <3>. QED
      BY <3>1, <3>2
  <2>. QED
    BY <1>3, <1>4, <2>1, <2>5, <2>6, <2>9 DEF Inv, Types, CellTypeOK
<1>6. CASE ~S1Complete
  <2> DEFINE rest == BlockedCells \ {"S1"}
  <2>1. cells' = Record(c, rest, "BlockedPrerequisite") /\ pc' = Left
    BY <1>1, <1>6 DEF Block, c
  <2>2. /\ rest \in SUBSET Scenario /\ "BlockedPrerequisite" \in Statuses
        /\ \A s \in rest : c[s] = <<>>
        /\ \A s \in Scenario : c[s] \in Seq(Statuses)
        /\ \A s \in Scenario : s \notin {"S0", "S1"} => s \in rest
        /\ "S0" \in Scenario \ rest /\ "S1" \in Scenario \ rest
    BY <1>3 DEF BlockedCells, Scenario, Statuses
  <2>. HIDE DEF rest
  <2>3. HasFirst(Record(c, rest, "BlockedPrerequisite"), c, rest, "BlockedPrerequisite")
    BY <2>2, RecordFirst, Zenon
  <2>4. /\ cells' \in [Scenario -> Seq(Statuses)]
        /\ cells'["S0"] = <<"Ok">> /\ cells'["S1"] = <<status>>
        /\ \A s \in Scenario : s \notin {"S0", "S1"} => cells'[s] = <<"BlockedPrerequisite">>
    BY <1>3, <2>1, <2>2, <2>3, Zenon DEF HasFirst
  <2>5. \A s \in Scenario \ {"S0", "S1"} : ~Measured(s)'
    BY <2>4 DEF Measured
  <2>6. NothingOnFailedS1'
    BY <2>5 DEF NothingOnFailedS1
  <2>7. \A s \in Scenario : SettledCell(s)'
    <3>1. Len(<<"Ok">>) = 1 /\ Len(<<status>>) = 1 /\ Len(<<"BlockedPrerequisite">>) = 1
          /\ "S0" \notin ScanCells /\ "S1" \notin ScanCells
      BY DEF ScanCells
    <3>. SUFFICES ASSUME NEW s \in Scenario
                  PROVE  Len(cells'[s]) = 1 /\ ~(s \in ScanCells /\ Measured(s)')
      BY Zenon DEF SettledCell
    <3>2. CASE s \in {"S0", "S1"}
      BY <2>4, <3>1, <3>2
    <3>3. CASE s \notin {"S0", "S1"}
      BY <2>4, <2>5, <3>1, <3>3
    <3>. QED
      BY <3>2, <3>3
  <2>. QED
    BY <1>4, <2>1, <2>4, <2>6, <2>7, Ends DEF Types, CellTypeOK, Left
<1>. QED
  BY <1>5, <1>6

LEMMA RecordS1Steps ==
  ASSUME Inv, RecordS1Mode1 \/ RecordS1Mode2 \/ RecordS1Mode3
  PROVE  Inv'
<1>1. PICK status \in {"Ok", "Failed", "BlockedUpstream"}, count \in {view, observed, None} : RecordS1(status, count)
  <2>1. CASE RecordS1Mode1
    BY <2>1, StatusTypes, Zenon DEF RecordS1Mode1
  <2>2. CASE RecordS1Mode2
    BY <2>2, StatusTypes, Zenon DEF RecordS1Mode2
  <2>3. CASE RecordS1Mode3
    BY <2>3, StatusTypes, Zenon DEF RecordS1Mode3
  <2>. QED
    BY <2>1, <2>2, <2>3
<1>2. status \in Statuses /\ count \in Nat \cup {None} /\ pc = "S1"
  BY DEF Statuses, Inv, Types, WalletTypeOK, RecordS1Mode1, RecordS1Mode2, RecordS1Mode3
<1>. QED
  BY <1>1, <1>2, RecordS1Step

----------------------------------------------------------------------------
\* The scenarios after S1.

\* d is c with one more repetition of the cell s.
HasNext(d, c, s, status) ==
    /\ d \in [Scenario -> Seq(Statuses)]
    /\ d[s] = Append(c[s], status)
    /\ \A t \in Scenario : t # s => d[t] = c[t]

LEMMA RecordNext ==
  ASSUME NEW s \in Scenario, NEW status \in Statuses, NEW c, \A t \in Scenario : c[t] \in Seq(Statuses)
  PROVE  HasNext(Record(c, {s}, status), c, s, status)
<1>1. Append(c[s], status) \in Seq(Statuses)
  OBVIOUS
<1>2. \A t \in Scenario : Record(c, {s}, status)[t] = IF t = s THEN Append(c[s], status) ELSE c[t]
  BY DEF Record
<1>3. Record(c, {s}, status) \in [Scenario -> Seq(Statuses)]
  BY <1>1 DEF Record
<1>. QED
  BY <1>2, <1>3 DEF HasNext

\* What a scenario after S1 leaves: its cell has one more repetition, a measured one.
AddsRepetition(s) ==
    /\ cells' \in [Scenario -> Seq(Statuses)]
    /\ Len(cells'[s]) = Len(cells[s]) + 1
    /\ \A i \in 1..Len(cells'[s]) : cells'[s][i] # "BlockedPrerequisite"
    /\ \A t \in Scenario : t # s => cells'[t] = cells[t]

LEMMA NextRepetition ==
  ASSUME Inv, pc \in Later, NEW end \in Statuses, end # "BlockedPrerequisite", cells' = Record(cells, {pc}, end)
  PROVE  AddsRepetition(pc)
<1>1. pc \in Scenario /\ cells[pc] \in Seq(Statuses) /\ \A t \in Scenario : cells[t] \in Seq(Statuses)
  BY DEF Inv, Types, CellTypeOK, Later, Scenario
<1>2. \A i \in 1..Len(cells[pc]) : cells[pc][i] # "BlockedPrerequisite"
  BY DEF Inv, CellsInv, OpenCell
<1>3. HasNext(Record(cells, {pc}, end), cells, pc, end)
  BY <1>1, RecordNext, Zenon
<1>4. /\ cells' \in [Scenario -> Seq(Statuses)]
      /\ cells'[pc] = Append(cells[pc], end)
      /\ \A t \in Scenario : t # pc => cells'[t] = cells[t]
  BY <1>3, Zenon DEF HasNext
<1> DEFINE r == cells[pc]
           n == Len(r)
<1>5. r \in Seq(Statuses)
  BY <1>1
<1>. HIDE DEF r
<1>6. /\ n \in Nat /\ Len(Append(r, end)) = n + 1
      /\ Append(r, end)[n + 1] = end
      /\ \A i \in 1..n : Append(r, end)[i] = r[i]
  BY <1>5, AppendFacts
<1>7. \A i \in 1..n + 1 : Append(r, end)[i] # "BlockedPrerequisite"
  <2>1. \A i \in 1..n : r[i] # "BlockedPrerequisite"
    BY <1>2 DEF r
  <2>. HIDE DEF n
  <2>2. \A i \in 1..n + 1 : i = n + 1 \/ i \in 1..n
    BY <1>6
  <2>. QED
    BY <1>6, <2>1, <2>2
<1>. QED
  BY <1>4, <1>6, <1>7 DEF AddsRepetition, r

\* The cells that are whole, and those that have nothing yet.
LEMMA OthersStand ==
  ASSUME Inv, pc \in Later, AddsRepetition(pc), UNCHANGED <<config, mode, s1Vars>>
  PROVE  /\ cells'["S0"] = <<"Ok">> /\ Len(cells'["S1"]) = 1
         /\ \A s \in Before(pc) : WholeCell(s)'
         /\ \A s \in Later \ (Before(pc) \cup {pc}) : cells'[s] = <<>>
         /\ NothingOnFailedS1'
<1>1. /\ cells["S0"] = <<"Ok">> /\ Len(cells["S1"]) = 1
      /\ \A s \in Before(pc) : WholeCell(s)
      /\ \A s \in Later \ (Before(pc) \cup {pc}) : NothingYet(s)
      /\ AllExact
  BY DEF Inv, CellsInv, ExactInv
<1>2. \A s \in Scenario : s # pc => cells'[s] = cells[s]
  BY DEF AddsRepetition
<1>3. Before(pc) \subseteq Later /\ pc \notin Before(pc) /\ Later \subseteq Scenario
  BY DEF Before, Later, Scenario
<1>4. cells'["S0"] = <<"Ok">> /\ Len(cells'["S1"]) = 1
  BY <1>1, <1>2 DEF Later, Scenario
<1>5. ASSUME NEW s \in Before(pc)
      PROVE  WholeCell(s)'
  <2>1. cells'[s] = cells[s] /\ config' = config /\ WholeCell(s)
    BY <1>1, <1>2, <1>3
  <2>. QED
    BY <2>1 DEF WholeCell, NothingYet
<1>6. \A s \in Later \ (Before(pc) \cup {pc}) : cells'[s] = <<>>
  BY <1>1, <1>2, <1>3 DEF NothingYet
<1>7. AllExact'
  BY <1>1, ExactStands
<1>. QED
  BY <1>4, <1>5, <1>6, <1>7 DEF NothingOnFailedS1, AllExact

\* A mode with every cell whole leaves them settled.
LEMMA AllSettled ==
  ASSUME config' \in Configs, \A s \in Later : WholeCell(s)',
         cells'["S0"] = <<"Ok">>, Len(cells'["S1"]) = 1
  PROVE  \A s \in Scenario : SettledCell(s)'
<1>1. ASSUME NEW s \in {"S0", "S1"}
      PROVE  SettledCell(s)'
  <2>1. Len(<<"Ok">>) = 1 /\ s \notin ScanCells
    BY DEF ScanCells
  <2>2. Len(cells'[s]) = 1
    BY <2>1
  <2>. QED
    BY <2>1, <2>2, Zenon DEF SettledCell
<1>2. ASSUME NEW s \in Later \ ScanCells
      PROVE  SettledCell(s)'
  <2>1. Len(cells'[s]) = 1
    BY <1>2 DEF WholeCell
  <2>. QED
    BY <2>1, Zenon DEF SettledCell
<1>3. ASSUME NEW s \in ScanCells, ~config'.scans
      PROVE  SettledCell(s)'
  <2>1. cells'[s] = <<>> /\ s \in NotApplicable(mode)'
    BY <1>3 DEF WholeCell, NothingYet, NotApplicable, ScanCells, Later
  <2>. QED
    BY <2>1, Zenon DEF SettledCell
<1>4. ASSUME NEW s \in ScanCells, config'.scans
      PROVE  SettledCell(s)'
  <2>1. /\ Len(cells'[s]) = config'.scan_repetitions
        /\ \A i \in 1..Len(cells'[s]) : cells'[s][i] # "BlockedPrerequisite"
    BY <1>4 DEF WholeCell, ScanCells, Later
  <2>2. config'.scan_repetitions \in Nat \ {0}
    BY ScenariosAssumption
  <2>3. 1 \in 1..Len(cells'[s])
    BY <2>1, <2>2
  <2>4. cells'["S0"] # <<>> /\ cells'["S0"][1] = "Ok"
    OBVIOUS
  <2>5. Measured(s)'
    BY <2>1, <2>3, <2>4 DEF Measured, Started
  <2>. QED
    BY <2>1, <2>5, Zenon DEF SettledCell
<1>5. Scenario = {"S0", "S1"} \cup (Later \ ScanCells) \cup ScanCells
  BY DEF Scenario, Later, ScanCells
<1>. QED
  BY <1>1, <1>2, <1>3, <1>4, <1>5

\* A whole cell, and on to the next.
LEMMA GoOn ==
  ASSUME Inv, NEW p \in Later, pc = p, NEW q \in Later, pc' = q,
         AddsRepetition(pc), UNCHANGED <<config, mode, s1Vars>>,
         WholeCell(p)', Before(q) = Before(p) \cup {p}, q # p, q \notin Before(p),
         q \in ScanCells => config.scans
  PROVE  CellsInv'
<1>1. /\ cells'["S0"] = <<"Ok">> /\ Len(cells'["S1"]) = 1
      /\ \A s \in Before(p) : WholeCell(s)'
      /\ \A s \in Later \ (Before(p) \cup {p}) : cells'[s] = <<>>
  BY OthersStand
<1>2. \A s \in Before(q) : WholeCell(s)'
  BY <1>1
<1>3. \A s \in Later \ (Before(q) \cup {q}) : NothingYet(s)'
  BY <1>1 DEF NothingYet
<1>4. OpenCell(q)'
  <2>1. cells'[q] = <<>> /\ config.scan_repetitions \in Nat \ {0}
    BY <1>1, ScenariosAssumption DEF Inv, Types, PlaceTypeOK
  <2>2. Len(cells'[q]) = 0
    BY <2>1
  <2>3. config'.scans = config.scans /\ config'.scan_repetitions = config.scan_repetitions
    OBVIOUS
  <2>. QED
    BY <2>1, <2>2, <2>3 DEF OpenCell
<1>5. pc' \in Later /\ pc' \notin {"S0", "S1", "shutdown", "stage"} /\ pc' \notin AtRounds
  BY DEF Later, AtRounds, InRound
<1>6. pc' \in Later =>
          /\ cells'["S0"] = <<"Ok">> /\ Len(cells'["S1"]) = 1
          /\ \A s \in Before(pc') : WholeCell(s)'
          /\ OpenCell(pc)'
          /\ \A s \in Later \ (Before(pc') \cup {pc'}) : NothingYet(s)'
  BY <1>1, <1>2, <1>3, <1>4 DEF OpenCell
<1>. QED
  BY <1>5, <1>6 DEF CellsInv

\* The last whole cell.
LEMMA GoOut ==
  ASSUME Inv, NEW p \in Later, pc = p,
         AddsRepetition(pc), UNCHANGED <<config, mode, s1Vars>>,
         WholeCell(p)', \A s \in Later \ (Before(p) \cup {p}) : s \in ScanCells /\ ~config.scans
  PROVE  \A s \in Scenario : SettledCell(s)'
<1>1. /\ cells'["S0"] = <<"Ok">> /\ Len(cells'["S1"]) = 1
      /\ \A s \in Before(p) : WholeCell(s)'
      /\ \A s \in Later \ (Before(p) \cup {p}) : cells'[s] = <<>>
  BY OthersStand
<1>2. \A s \in Later : WholeCell(s)'
  BY <1>1 DEF WholeCell, NothingYet
<1>3. config' \in Configs
  BY DEF Inv, Types, PlaceTypeOK
<1>. QED
  BY <1>1, <1>2, <1>3, AllSettled

LEMMA ScanStep ==
  ASSUME Inv, Scan
  PROVE  Inv'
<1>1. /\ UNCHANGED <<config, mode, s1Vars, total, unspent, profile, stages, file>>
      /\ pc \in ScanCells /\ pc \in Later
  BY DEF Scan, outVars, ScanCells, Later
<1>2. Checkpoint # "post_s1_blocked"
  <2>1. pc \in {"S2", "S3"} => S1Complete
    BY DEF Inv, ExactInv
  <2>. QED
    BY <1>1, <2>1 DEF Checkpoint, ScanCells
<1>3. PICK end \in {"Ok", "Failed", "HarnessError"} : cells' = Record(cells, {pc}, end)
  <2>1. ScanEnds \subseteq {"Ok", "Failed", "HarnessError"}
    BY <1>2 DEF ScanEnds
  <2>. QED
    BY <2>1 DEF Scan
<1>4. AddsRepetition(pc)
  <2>1. end \in Statuses /\ end # "BlockedPrerequisite"
    BY DEF Statuses
  <2>. QED
    BY <1>1, <1>3, <2>1, NextRepetition
<1>5. pc' = IF Len(cells[pc]) + 1 = config.scan_repetitions THEN AfterScan ELSE pc
  BY <1>2 DEF Scan
<1>6. AllExact'
  BY <1>1, ExactStands DEF Inv, ExactInv
<1>7. NothingOnFailedS1'
  BY <1>6 DEF NothingOnFailedS1, AllExact
<1>8. Types'
  <2>1. PlaceTypeOK'
    BY <1>1, <1>5 DEF Inv, Types, PlaceTypeOK, AfterScan, Left, ScanCells, Scenario
  <2>2. SendTypeOK' /\ TotalTypeOK' /\ WalletTypeOK' /\ RoundTypeOK'
    BY <1>1 DEF Inv, Types, SendTypeOK, TotalTypeOK, WalletTypeOK, RoundTypeOK, s1Vars
  <2>. QED
    BY <1>4, <2>1, <2>2 DEF Types, CellTypeOK, AddsRepetition
<1>9. OpenCell(pc) /\ config.scans /\ Len(cells[pc]) < config.scan_repetitions
  BY <1>1 DEF Inv, CellsInv, OpenCell
<1>10. /\ cells[pc] \in Seq(Statuses) /\ Len(cells[pc]) \in Nat
       /\ config.scan_repetitions \in Nat \ {0}
  <2>1. cells[pc] \in Seq(Statuses)
    BY <1>1 DEF Inv, Types, CellTypeOK, Scenario, Later
  <2>2. Len(cells[pc]) \in Nat
    BY <2>1
  <2>. QED
    BY <2>1, <2>2, ScenariosAssumption DEF Inv, Types, PlaceTypeOK
<1>11. CASE Len(cells[pc]) + 1 # config.scan_repetitions
  <2>1. pc' = pc
    BY <1>5, <1>11
  <2>2. RoundInv'
    BY <1>1, <2>1 DEF RoundInv, AtRounds, InRound, ScanCells
  <2>3. ExactInv'
    <3>1. pc \in {"S2", "S3"} => S1Complete'
      BY <1>1, S1CompleteStands DEF Inv, ExactInv
    <3>. QED
      BY <1>1, <1>6, <2>1, <3>1 DEF ExactInv, ScanCells, Later
  <2>4. CellsInv'
    <3>1. OpenCell(pc)'
      <4>1. Len(cells'[pc]) = Len(cells[pc]) + 1 /\ Len(cells[pc]) + 1 < config.scan_repetitions
        BY <1>4, <1>9, <1>10, <1>11 DEF AddsRepetition
      <4>. QED
        BY <1>1, <1>4, <1>9, <2>1, <4>1 DEF OpenCell, AddsRepetition
    <3>2. /\ cells'["S0"] = <<"Ok">> /\ Len(cells'["S1"]) = 1
          /\ \A s \in Before(pc) : WholeCell(s)'
          /\ \A s \in Later \ (Before(pc) \cup {pc}) : cells'[s] = <<>>
      BY <1>1, <1>4, OthersStand
    <3>3. pc' \notin {"S0", "S1", "shutdown", "stage"} /\ pc' \notin AtRounds
      BY <1>1, <2>1 DEF ScanCells, AtRounds, InRound
    <3>. QED
      BY <2>1, <3>1, <3>2, <3>3 DEF CellsInv, NothingYet
  <2>. QED
    BY <1>7, <1>8, <2>2, <2>3, <2>4 DEF Inv
<1>12. CASE Len(cells[pc]) + 1 = config.scan_repetitions
  <2>1. pc' = AfterScan
    BY <1>5, <1>12
  <2>2. \A s \in {pc} : WholeCell(s)'
    <3>1. Len(cells'[pc]) = config.scan_repetitions
      BY <1>4, <1>12 DEF AddsRepetition
    <3>. QED
      BY <1>1, <1>4, <1>9, <3>1 DEF WholeCell, AddsRepetition
  <2>3. RoundInv'
    BY <1>1, <2>1 DEF RoundInv, AtRounds, InRound, ScanCells, AfterScan, Left
  <2>4. ExactInv'
    <3>1. pc \in {"S2", "S3"} => S1Complete'
      BY <1>1, S1CompleteStands DEF Inv, ExactInv
    <3>. QED
      BY <1>1, <1>6, <2>1, <3>1 DEF ExactInv, ScanCells, Later, AfterScan, Left
  <2>5. CASE pc = "S7"
    <3>1. \A s \in Later \ (Before("S7") \cup {"S7"}) : FALSE
      BY DEF Later, Before
    <3>2. WholeCell("S7")' /\ "S7" \in Later
      BY <2>2, <2>5 DEF Later
    <3>3. \A s \in Scenario : SettledCell(s)'
      BY <1>1, <1>4, <2>5, <3>1, <3>2, GoOut
    <3>. QED
      BY <1>7, <1>8, <2>1, <2>5, <3>3, Ends DEF AfterScan, Left
  <2>6. CASE pc = "S2"
    <3>1. /\ WholeCell("S2")' /\ "S2" \in Later /\ pc' = "S3" /\ "S3" \in Later
          /\ Before("S3") = Before("S2") \cup {"S2"} /\ "S3" \notin Before("S2")
      BY <2>1, <2>2, <2>6 DEF Later, AfterScan, Before
    <3>2. CellsInv'
      BY <1>1, <1>4, <1>9, <2>6, <3>1, GoOn
    <3>. QED
      BY <1>7, <1>8, <2>3, <2>4, <3>2 DEF Inv
  <2>7. CASE pc = "S3"
    <3>1. /\ WholeCell("S3")' /\ "S3" \in Later /\ pc' = "S4" /\ "S4" \in Later
          /\ Before("S4") = Before("S3") \cup {"S3"} /\ "S4" \notin Before("S3")
      BY <2>1, <2>2, <2>7 DEF Later, AfterScan, Before
    <3>2. CellsInv'
      BY <1>1, <1>4, <1>9, <2>7, <3>1, GoOn
    <3>. QED
      BY <1>7, <1>8, <2>3, <2>4, <3>2 DEF Inv
  <2>8. CASE pc = "S6"
    <3>1. /\ WholeCell("S6")' /\ "S6" \in Later /\ pc' = "S7" /\ "S7" \in Later
          /\ Before("S7") = Before("S6") \cup {"S6"} /\ "S7" \notin Before("S6")
      BY <2>1, <2>2, <2>8 DEF Later, AfterScan, Before
    <3>2. CellsInv'
      BY <1>1, <1>4, <1>9, <2>8, <3>1, GoOn
    <3>. QED
      BY <1>7, <1>8, <2>3, <2>4, <3>2 DEF Inv
  <2>. QED
    BY <1>1, <2>5, <2>6, <2>7, <2>8 DEF ScanCells
<1>. QED
  BY <1>11, <1>12

\* The summaries S4 and S5 may end with.
SendSummaries == {s \in Summary : s.confirmed <= s.accepted /\ s.accepted <= s.attempted}

LEMMA OutcomesType == Outcomes \subseteq SendSummaries
BY Parameters DEF Outcomes, SendSummaries, Summary

LEMMA RecordedType ==
  ASSUME NEW ends
  PROVE  /\ Recorded(ends) \in SendSummaries
         /\ OneByOne(ends) \subseteq SendSummaries
<1> DEFINE ids == {c \in 1..Calls : ends[c] # "refused"}
<1>1. Cardinality(ids) \in Nat /\ Cardinality(ids) <= Calls
  <2>1. IsFiniteSet(1..Calls) /\ Cardinality(1..Calls) = Calls
    BY Parameters, FS_Interval
  <2>2. ids \subseteq 1..Calls
    OBVIOUS
  <2>. HIDE DEF ids
  <2>. QED
    BY <2>1, <2>2, FS_Subset, FS_CardinalityType
<1>2. /\ Recorded(ends) \in Summary
      /\ Recorded(ends).attempted = Calls /\ Recorded(ends).accepted = Cardinality(ids)
      /\ Recorded(ends).confirmed = 0
  <2>1. Fresh \in Summary /\ Fresh.confirmed = 0
    BY DEF Fresh, Summary
  <2> DEFINE bad == \E c \in 1..Calls : ends[c] # "accepted"
  <2>2. bad \in BOOLEAN
    OBVIOUS
  <2>3. Recorded(ends) = [Fresh EXCEPT !.attempted = Calls, !.accepted = Cardinality(ids), !.failed = bad]
    BY DEF Recorded
  <2>. HIDE DEF bad, ids
  <2>. QED
    BY <1>1, <2>1, <2>2, <2>3, Parameters DEF Summary
<1>. HIDE DEF ids
<1>3. Recorded(ends) \in SendSummaries
  BY <1>1, <1>2 DEF SendSummaries
<1>4. ASSUME NEW n \in 0..Recorded(ends).accepted
      PROVE  Recounted(Recorded(ends), n) \in SendSummaries
  <2> DEFINE r == Recorded(ends)
             bad == IF r.accepted = 0 THEN r.failed ELSE r.attempted > n
  <2>1. r \in Summary /\ r.accepted <= r.attempted /\ n \in 0..r.accepted
    BY <1>1, <1>2
  <2>2. Recounted(r, n) = [r EXCEPT !.confirmed = n, !.failed = bad]
    BY DEF Recounted
  <2>. HIDE DEF r
  <2>3. bad \in BOOLEAN
    <3>1. r.failed \in BOOLEAN /\ (r.attempted > n) \in BOOLEAN
      BY <2>1 DEF Summary
    <3>. QED
      BY <3>1, Zenon
  <2>. HIDE DEF bad
  <2>4. /\ Recounted(r, n) \in Summary /\ Recounted(r, n).confirmed = n
        /\ Recounted(r, n).accepted = r.accepted /\ Recounted(r, n).attempted = r.attempted
    <3>1. /\ r.attempted \in Nat /\ r.accepted \in Nat /\ r.upstream \in BOOLEAN /\ n \in Nat
          /\ r = [attempted |-> r.attempted, accepted |-> r.accepted, confirmed |-> r.confirmed,
                  failed |-> r.failed, upstream |-> r.upstream]
      BY <2>1 DEF Summary
    <3>2. Recounted(r, n) = [attempted |-> r.attempted, accepted |-> r.accepted, confirmed |-> n,
                             failed |-> bad, upstream |-> r.upstream]
      BY <2>2, <3>1
    <3>. QED
      BY <2>3, <3>1, <3>2 DEF Summary
  <2>5. n <= r.accepted
    BY <2>1 DEF Summary
  <2>6. Recounted(r, n) \in SendSummaries
    BY <2>1, <2>4, <2>5 DEF SendSummaries
  <2>. QED
    BY <2>6 DEF r
<1>. QED
  BY <1>3, <1>4 DEF OneByOne

LEMMA SentStep ==
  ASSUME Inv, pc \in {"S4", "S5"}, NEW summary \in SendSummaries, NEW status \in {"Ok", "Failed", "BlockedUpstream"},
         Sent(summary, status)
  PROVE  Inv'
<1>1. /\ UNCHANGED <<config, mode, s1Vars, unspent, profile, stages, file>>
      /\ total' = summary /\ cells' = Record(cells, {pc}, status)
      /\ pc' = IF pc = "S4" THEN "S5" ELSE IF config.scans THEN "S6" ELSE Left
      /\ pc \in Later
  BY DEF Sent, outVars, Later
<1>2. AddsRepetition(pc)
  <2>1. status \in Statuses /\ status # "BlockedPrerequisite"
    BY DEF Statuses
  <2>. QED
    BY <1>1, <2>1, NextRepetition
<1>3. AllExact'
  BY <1>1, ExactStands DEF Inv, ExactInv
<1>4. NothingOnFailedS1'
  BY <1>3 DEF NothingOnFailedS1, AllExact
<1>5. Types'
  <2>1. PlaceTypeOK'
    BY <1>1 DEF Inv, Types, PlaceTypeOK, Left, Scenario
  <2>2. TotalTypeOK'
    BY <1>1 DEF TotalTypeOK, SendSummaries
  <2>3. SendTypeOK' /\ WalletTypeOK' /\ RoundTypeOK'
    BY <1>1 DEF Inv, Types, SendTypeOK, WalletTypeOK, RoundTypeOK, s1Vars
  <2>. QED
    BY <1>2, <2>1, <2>2, <2>3 DEF Types, CellTypeOK, AddsRepetition
<1>6. RoundInv' /\ ExactInv'
  BY <1>1, <1>3 DEF RoundInv, ExactInv, AtRounds, InRound, Left
<1>7. \A s \in {pc} : WholeCell(s)'
  <2>1. OpenCell(pc) /\ cells[pc] \in Seq(Statuses) /\ pc \notin ScanCells
    BY <1>1 DEF Inv, CellsInv, Types, CellTypeOK, Scenario, ScanCells
  <2>2. Len(cells[pc]) \in Nat /\ Len(cells[pc]) < 1
    BY <2>1 DEF OpenCell
  <2>3. Len(cells'[pc]) = 1
    BY <1>2, <2>2 DEF AddsRepetition
  <2>. QED
    BY <1>2, <2>1, <2>3 DEF AddsRepetition, WholeCell
<1>8. CASE pc = "S4"
  <2>1. /\ WholeCell("S4")' /\ "S4" \in Later /\ pc' = "S5" /\ "S5" \in Later /\ "S5" \notin ScanCells
        /\ Before("S5") = Before("S4") \cup {"S4"} /\ "S5" \notin Before("S4")
    BY <1>1, <1>7, <1>8 DEF Later, Before, ScanCells
  <2>2. CellsInv'
    BY <1>1, <1>2, <1>8, <2>1, GoOn
  <2>. QED
    BY <1>4, <1>5, <1>6, <2>2 DEF Inv
<1>9. CASE pc = "S5" /\ config.scans
  <2>1. /\ WholeCell("S5")' /\ "S5" \in Later /\ pc' = "S6" /\ "S6" \in Later
        /\ Before("S6") = Before("S5") \cup {"S5"} /\ "S6" \notin Before("S5")
    BY <1>1, <1>7, <1>9 DEF Later, Before
  <2>2. CellsInv'
    BY <1>1, <1>2, <1>9, <2>1, GoOn
  <2>. QED
    BY <1>4, <1>5, <1>6, <2>2 DEF Inv
<1>10. CASE pc = "S5" /\ ~config.scans
  <2>1. WholeCell("S5")' /\ "S5" \in Later /\ pc' = Left
    BY <1>1, <1>7, <1>10 DEF Later
  <2>2. \A s \in Later \ (Before("S5") \cup {"S5"}) : s \in ScanCells /\ ~config.scans
    BY <1>10 DEF Later, Before, ScanCells
  <2>3. \A s \in Scenario : SettledCell(s)'
    BY <1>1, <1>2, <1>10, <2>1, <2>2, GoOut
  <2>. QED
    BY <1>4, <1>5, <2>1, <2>3, Ends DEF Left
<1>. QED
  BY <1>8, <1>9, <1>10

LEMMA SendStep ==
  ASSUME Inv, SendMode1 \/ SendMode2 \/ SendMode3
  PROVE  Inv'
<1>1. PICK summary \in SendSummaries, status \in {"Ok", "Failed", "BlockedUpstream"} : Sent(summary, status)
  <2>1. CASE SendMode1
    <3>1. PICK ends \in [1..Calls -> CallEnds] :
               \E summary \in AtOnce(ends) : Sent(summary, Mode1Status(summary, None))
      BY <2>1 DEF SendMode1, AtOnce
    <3>2. PICK summary \in AtOnce(ends) : Sent(summary, Mode1Status(summary, None))
      BY <3>1
    <3>3. summary \in SendSummaries
      BY RecordedType DEF AtOnce
    <3>. QED
      BY <3>2, <3>3, StatusTypes, Zenon
  <2>2. CASE SendMode2
    BY <2>2, OutcomesType, StatusTypes, Zenon DEF SendMode2
  <2>3. CASE SendMode3
    BY <2>3, OutcomesType, StatusTypes, Zenon DEF SendMode3
  <2>. QED
    BY <2>1, <2>2, <2>3
<1>2. pc \in {"S4", "S5"}
  BY DEF SendMode1, SendMode2, SendMode3
<1>. QED
  BY <1>1, <1>2, SentStep

----------------------------------------------------------------------------
\* The checkpoint of a mode, and the end of the run.

LEMMA WriteCheckpointStep ==
  ASSUME Inv, WriteCheckpoint
  PROVE  Inv'
<1>1. /\ pc = "stage" /\ config' = config /\ file' = file
      /\ profile' = [profile EXCEPT ![mode] = Entry]
      /\ stages' = stages \cup {mode} \cup (IF mode = "new_wallet" THEN {"fresh_scans"} ELSE {})
  BY DEF WriteCheckpoint
<1>2. /\ profile' \in [Modes -> [final : BOOLEAN, submission : BOOLEAN] \cup {None}]
      /\ stages' \subseteq Modes \cup {"fresh_scans"}
  <2>1. Entry \in [final : BOOLEAN, submission : BOOLEAN]
    <3>1. FinalValid \in BOOLEAN /\ SubmissionValid \in BOOLEAN
      BY DEF FinalValid, SubmissionValid
    <3>. QED
      BY <3>1 DEF Entry
  <2>. QED
    BY <1>1, <2>1 DEF Inv, Types, PlaceTypeOK
<1>3. CASE mode = "payment_processor"
  <2>1. pc' = "final" /\ UNCHANGED <<mode, cells, s1Vars, total, unspent>>
    BY <1>3 DEF WriteCheckpoint
  <2>2. PlaceTypeOK'
    BY <1>1, <1>2, <2>1 DEF Inv, Types, PlaceTypeOK
  <2>. QED
    BY <1>1, <2>1, <2>2, StandStill
<1>4. CASE mode # "payment_processor"
  <2>1. /\ pc' = "S0" /\ mode' = NextMode
        /\ cells' = [s \in Scenario |-> <<>>]
        /\ round' = 1 /\ sent' = 0 /\ tx' = Fresh
        /\ view' = 0 /\ late' = 0 /\ observed' = None /\ kept' = 0
        /\ total' = Fresh /\ unspent' = None
    BY <1>4 DEF WriteCheckpoint
  <2>2. PlaceTypeOK'
    BY <1>1, <1>2, <2>1 DEF Inv, Types, PlaceTypeOK, NextMode, Modes, Scenario
  <2>3. Begins'
    <3>1. Fresh' = Fresh
      BY DEF Fresh
    <3>. QED
      BY <2>1, <2>2, <3>1 DEF Begins
  <2>4. (Begins => Inv)'
    BY FreshStart, PTL
  <2>. QED
    BY <2>3, <2>4
<1>. QED
  BY <1>3, <1>4

LEMMA LeaveStep ==
  ASSUME Inv, Leave \/ WriteFinal \/ Abort
  PROVE  Inv'
<1>1. UNCHANGED <<config, mode, cells, s1Vars, total, unspent, profile, stages>>
      /\ pc' \in {"stage", "ended", "aborted"} /\ (pc' = "stage" => pc = "shutdown")
      /\ file' \in {file, "final", "refused"}
  BY DEF Leave, WriteFinal, Abort, outVars
<1>2. PlaceTypeOK'
  BY <1>1 DEF Inv, Types, PlaceTypeOK
<1>. QED
  BY <1>1, <1>2, StandStill

LEMMA StutterStep ==
  ASSUME Inv, UNCHANGED vars
  PROVE  Inv'
<1>1. UNCHANGED <<config, pc, mode, cells, round, sent, tx, view, late, observed, kept, total, unspent, profile, stages, file>>
  BY DEF vars, s1Vars, outVars
<1>2. Types'
  BY <1>1 DEF Inv, Types, PlaceTypeOK, CellTypeOK, SendTypeOK, TotalTypeOK, WalletTypeOK, RoundTypeOK
<1>3. RoundInv'
  BY <1>1, SameRound DEF Inv, RoundInv
<1>4. ExactInv'
  BY <1>1, S1CompleteStands, ExactStands DEF Inv, ExactInv, s1Vars
<1>5. CellsInv'
  BY <1>1 DEF Inv, CellsInv, NothingYet, WholeCell, OpenCell, SettledCell, Measured, Started, NotApplicable, Live
<1>6. NothingOnFailedS1'
  BY <1>1, SameRound DEF Inv, NothingOnFailedS1, Measured, Started
<1>. QED
  BY <1>2, <1>3, <1>4, <1>5, <1>6 DEF Inv

LEMMA InitInv == Init => Inv
<1>1. Init => Begins
  BY DEF Init, Begins, PlaceTypeOK, Modes, Scenario
<1>. QED
  BY <1>1, FreshStart

LEMMA InvMeans ==
  ASSUME Inv
  PROVE  TypeOK /\ NothingOnFailedS1 /\ EarlierRoundsWhole /\ EveryCellSettled
<1>1. TypeOK
  BY DEF Inv, Types, TypeOK, PlaceTypeOK, CellTypeOK, SendTypeOK, TotalTypeOK, WalletTypeOK, RoundTypeOK
<1>2. EarlierRoundsWhole
  BY DEF Inv, RoundInv, EarlierRoundsWhole, AtRounds, InRound
<1>3. EveryCellSettled
  BY DEF Inv, CellsInv, EveryCellSettled, SettledCell
<1>. QED
  BY <1>1, <1>2, <1>3 DEF Inv

\* For any configurations, any plan of rounds, any target and any number of calls: whatever
\* is measured after S1 is measured on a wallet S1 really prepared; a round only sends
\* when all before it are whole, transaction by transaction; and every checkpoint has every
\* cell of its mode settled (the whole run, from S0 of the old wallet to the final profile).
THEOREM ScenariosCorrect ==
  Spec => [](TypeOK /\ NothingOnFailedS1 /\ EarlierRoundsWhole /\ EveryCellSettled)
<1>1. Inv /\ [Next]_vars => Inv'
  <2>. SUFFICES ASSUME Inv, [Next]_vars
                PROVE  Inv'
    OBVIOUS
  <2>1. CASE Mode1StartupFails \/ Mode3StartupFails
    BY <2>1, StartupFails DEF Mode1StartupFails, Mode3StartupFails
  <2>2. CASE SwitchedOff
    BY <2>2, SwitchedOffStep
  <2>3. CASE S0Mode1 \/ S0Mode2 \/ S0Mode3
    BY <2>3, S0Steps
  <2>4. CASE Rounding
    BY <2>4, BeginRoundStep, RefuseRoundStep, SubmitStep, VerifyStep, WalletShowsStep, JudgeStep DEF Rounding
  <2>5. CASE RecordS1Mode1 \/ RecordS1Mode2 \/ RecordS1Mode3
    BY <2>5, RecordS1Steps
  <2>6. CASE Scan
    BY <2>6, ScanStep
  <2>7. CASE SendMode1 \/ SendMode2 \/ SendMode3
    BY <2>7, SendStep
  <2>8. CASE WriteCheckpoint
    BY <2>8, WriteCheckpointStep
  <2>9. CASE Leave \/ WriteFinal \/ Abort
    BY <2>9, LeaveStep
  <2>10. CASE UNCHANGED vars
    BY <2>10, StutterStep
  <2>. QED
    BY <2>1, <2>2, <2>3, <2>4, <2>5, <2>6, <2>7, <2>8, <2>9, <2>10 DEF Next
<1>2. Inv => TypeOK /\ NothingOnFailedS1 /\ EarlierRoundsWhole /\ EveryCellSettled
  BY InvMeans
<1>. QED
  BY InitInv, <1>1, <1>2, PTL DEF Spec

----------------------------------------------------------------------------
\* The amounts of one S1 transaction.

\* Division leaves less than one unit per part.
LEMMA Division ==
    ASSUME NEW a \in Nat, NEW n \in Nat \ {0}
    PROVE  /\ a \div n \in Nat
           /\ n * (a \div n) <= a
           /\ a < n * (a \div n) + n
  BY SMT

\* The equal parts and the change make up the input without its fee, and the change is a
\* part itself, with what the division leaves over (mode1_coin_split_plan and
\* exact_pp_split_with_change compute both).
LEMMA EvenSplit ==
    ASSUME NEW input \in Nat, NEW fee \in Nat, NEW n \in Nat, n >= 2, fee <= input
    PROVE  /\ Share(input, fee, n) \in Nat
           /\ (n - 1) * Share(input, fee, n) + Change(input, fee, n) + fee = input
           /\ Change(input, fee, n) >= Share(input, fee, n)
           /\ Change(input, fee, n) < Share(input, fee, n) + n
<1> DEFINE a == input - fee
           q == a \div n
<1>1. a \in Nat /\ n \in Nat \ {0}
  OBVIOUS
<1>2. q \in Nat /\ n * q <= a /\ a < n * q + n
  BY <1>1, Division
<1>3. Share(input, fee, n) = q /\ Change(input, fee, n) = a - (n - 1) * q
  BY DEF Share, Change
<1> HIDE DEF q
<1>4. (n - 1) * q = n * q - q /\ n * q \in Nat
  BY <1>2
<1>5. QED
  BY <1>1, <1>2, <1>3, <1>4

\* Mode 1 asks for n - 1 outputs of amount_per_split, and one transaction turns its input
\* into n outputs and the planned fee: nothing is lost, and each of them is worth more than
\* the fee of such a transaction (mode1_coin_split_plan: split_count is one less than
\* desired_outputs).
THEOREM Mode1SplitIsExact ==
    ASSUME NEW input \in Nat, NEW n \in Nat, NEW rate \in Nat, Mode1Plans(input, n, rate)
    PROVE  LET fee    == SelfWeight(n) * rate
               split  == Share(input, fee, n)
               change == Change(input, fee, n)
           IN /\ (n - 1) * split + change + fee = input
              /\ split > fee /\ change > fee
              /\ change < split + n
<1> DEFINE fee == SelfWeight(n) * rate
<1>1. fee \in Nat
  BY DEF SelfWeight, CONSOLE_SELF_OUTPUT_GRAMS
<1>2. n >= 2 /\ fee <= input /\ Share(input, fee, n) > fee
  BY DEF Mode1Plans
<1> HIDE DEF fee
<1>3. /\ Share(input, fee, n) \in Nat
      /\ (n - 1) * Share(input, fee, n) + Change(input, fee, n) + fee = input
      /\ Change(input, fee, n) >= Share(input, fee, n)
      /\ Change(input, fee, n) < Share(input, fee, n) + n
  BY <1>1, <1>2, EvenSplit
<1>4. Change(input, fee, n) \in Int
  BY <1>1, <1>3 DEF Change
<1>5. Change(input, fee, n) > fee
  BY <1>1, <1>2, <1>3, <1>4
<1>6. QED
  BY <1>2, <1>3, <1>5 DEF fee

\* Mode 3's payments and the processor's change make up the input without its fee, so the
\* last checked subtraction of exact_pp_split_with_change never fails; what the processor
\* locks is covered by the one input.
THEOREM PPSplitIsExact ==
    ASSUME NEW input \in Nat, NEW n \in Nat, NEW rate \in Nat, PPPlans(input, n, rate)
    PROVE  LET fee    == PaymentWeight(n) * rate
               child  == Share(input, fee, n)
               change == Change(input, fee, n)
           IN /\ (n - 1) * child + change + fee = input
              /\ child > fee /\ change > fee
              /\ change < child + n
              /\ (n - 1) * child + PP_LOCK_FEE_BUFFER <= input
<1> DEFINE fee == PaymentWeight(n) * rate
<1>1. n >= 2 /\ fee <= input /\ Share(input, fee, n) > fee
  BY DEF PPPlans
<1>2. fee \in Nat
  BY <1>1 DEF PaymentWeight, CONSOLE_SELF_OUTPUT_GRAMS, STEALTH_OUTPUT_GRAMS
<1>3. (n - 1) * Share(input, fee, n) + PP_LOCK_FEE_BUFFER <= input
  BY DEF PPPlans
<1> HIDE DEF fee
<1>4. /\ Share(input, fee, n) \in Nat
      /\ (n - 1) * Share(input, fee, n) + Change(input, fee, n) + fee = input
      /\ Change(input, fee, n) >= Share(input, fee, n)
      /\ Change(input, fee, n) < Share(input, fee, n) + n
  BY <1>1, <1>2, EvenSplit
<1>5. Change(input, fee, n) \in Int
  BY <1>2, <1>4 DEF Change
<1>6. Change(input, fee, n) > fee
  BY <1>1, <1>2, <1>4, <1>5
<1>7. QED
  BY <1>1, <1>3, <1>4, <1>6 DEF fee

\* Mode 2 plans a round once, from its smallest input, and the wallet chooses the input of
\* each transaction and computes its fee. Whichever it chooses, as long as the fee is no
\* more than the one reserved the input alone pays for the transaction, and its change is
\* an output at least as large as the others (normal_change_split_amounts).
THEOREM NormalSplitFitsEveryInput ==
    ASSUME NEW floor \in Nat, NEW input \in Nat, NEW n \in Nat, NEW rate \in Nat,
           NEW fee \in Nat,
           Mode2Plans(floor, n, rate), floor <= input, fee <= SelfWeight(n) * rate
    PROVE  LET amount == Share(floor, SelfWeight(n) * rate, n)
           IN amount > 0 /\ input - (n - 1) * amount - fee >= amount
<1> DEFINE reserve == SelfWeight(n) * rate
           amount  == Share(floor, reserve, n)
<1>1. reserve \in Nat
  BY DEF SelfWeight, CONSOLE_SELF_OUTPUT_GRAMS
<1>2. n >= 2 /\ reserve <= floor /\ amount # 0
  BY DEF Mode2Plans
<1>3. fee <= reserve
  OBVIOUS
<1> HIDE DEF reserve
<1>4. /\ amount \in Nat
      /\ (n - 1) * amount + Change(floor, reserve, n) + reserve = floor
      /\ Change(floor, reserve, n) >= amount
  BY <1>1, <1>2, EvenSplit
<1>5. Change(floor, reserve, n) = floor - reserve - (n - 1) * amount
  BY DEF Change
<1> HIDE DEF amount
<1>6. (n - 1) * amount \in Nat
  BY <1>2, <1>4
<1>7. amount > 0 /\ input - (n - 1) * amount - fee >= amount
  BY <1>1, <1>2, <1>3, <1>4, <1>5, <1>6
<1>8. QED
  BY <1>7 DEF amount, reserve

=============================================================================
