--------------------------- MODULE ProtocolProofs ---------------------------
(***************************************************************************)
(* No held-out seed is a calibration seed, for every stride and partition, *)
(* and the partitions that are disjoint; the rates that the design         *)
(* permits, for every noise and number of trials; and what the challenge   *)
(* schedules can show, for every window, sweep and draw.                   *)
(***************************************************************************)
EXTENDS HeldOut, ChallengeSchedule, VerifierLemmas

\* A row of the partition at hand: what a new row is compared with
RowsOfPartition ==
  {row \in [split : Splits, case : CaseIndices, seed : Int, breach : BOOLEAN,
            decision : Verdicts] :
     row.seed \in SeedsFor(partition, row.case, row.split)}

\* HeldoutUnseen does not carry itself over a step: it takes that seeds keep
\* to their ranges and that the ranges were found disjoint before the first
\* trial ran.
SeedsInv ==
  /\ partition \in SeedPartitions
  /\ split \in Splits
  /\ trial \in Nat
  /\ rows \in Seq(RowsOfPartition)
  /\ status = "running" \/ rows # <<>> => Disjoint(partition)

-----------------------------------------------------------------------------
(* Arithmetic of the ranges. *)

LEMMA PartitionFields ==
  ASSUME NEW p \in SeedPartitions, NEW s \in Splits
  PROVE  p.base[s] \in Nat /\ p.trials[s] \in Nat /\ p.trials[s] >= 1
BY DEF SeedPartitions, Splits

\* The multiples of the stride are whole numbers, in order
LEMMA StrideMultiples ==
  ASSUME NEW c \in CaseIndices
  PROVE  c * Stride \in Nat /\ c * Stride <= 7 * Stride
BY StrideAssumption DEF CaseIndices

\* The seed of a trial is in the range of its case and split.
LEMMA SeedInRange ==
  ASSUME NEW p \in SeedPartitions, NEW c \in CaseIndices, NEW s \in Splits,
         NEW t \in Nat, t < p.trials[s]
  PROVE  Seed(p, c, s, t) \in SeedsFor(p, c, s) /\ Seed(p, c, s, t) \in Int
<1> DEFINE offset == c * Stride
           first == p.base[s]
           count == p.trials[s]
<1>1. offset \in Nat /\ first \in Nat /\ count \in Nat
  BY StrideMultiples, PartitionFields
<1>2. Seed(p, c, s, t) = first + offset + t
  BY DEF Seed
<1>3. SeedsFor(p, c, s) = (first + offset + 0) .. (first + offset + (count - 1))
  BY DEF SeedsFor, Seed
<1> HIDE DEF offset, first
<1> QED
  BY <1>1, <1>2, <1>3

-----------------------------------------------------------------------------
(* The invariant. *)

LEMMA VerdictOfTrial ==
  ASSUME NEW c, NEW b, NEW p
  PROVE  Decide(c, b, p) \in Verdicts
BY DEF Decide, Verdicts

LEMMA SeedsInit == Init => SeedsInv
<1> SUFFICES ASSUME Init PROVE SeedsInv
  OBVIOUS
<1> QED
  BY PartitionsAssumption DEF Init, SeedsInv, Splits

LEMMA SeedsNext == SeedsInv /\ [Next]_vars => SeedsInv'
<1> SUFFICES ASSUME SeedsInv, [Next]_vars PROVE SeedsInv'
  OBVIOUS
<1> USE DEF SeedsInv
<1>1. CASE AssertDisjoint
  BY <1>1 DEF AssertDisjoint, RowsOfPartition
<1>2. CASE RunTrial
  <2>1. PICK bundle \in CaseEvidence(Scenarios[case + 1]) :
          rows' = Append(rows,
                    [split    |-> split,
                     case     |-> case,
                     seed     |-> Seed(partition, case, split, trial),
                     breach   |-> Breach(Scenarios[case + 1]),
                     decision |-> Decide(DemoContract, bundle, PolicyFor(DemoContract))])
    BY <1>2 DEF RunTrial
  <2> DEFINE row == [split    |-> split,
                     case     |-> case,
                     seed     |-> Seed(partition, case, split, trial),
                     breach   |-> Breach(Scenarios[case + 1]),
                     decision |-> Decide(DemoContract, bundle, PolicyFor(DemoContract))]
  <2>2. /\ case \in CaseIndices /\ trial < partition.trials[split]
        /\ trial' = trial + 1
        /\ status = "running"
        /\ UNCHANGED <<partition, status, case, split, summary>>
    BY <1>2 DEF RunTrial
  <2>3. /\ Seed(partition, case, split, trial) \in SeedsFor(partition, case, split)
        /\ Seed(partition, case, split, trial) \in Int
    BY <2>2, SeedInRange
  <2>4. Breach(Scenarios[case + 1]) \in BOOLEAN
    BY DEF Breach
  <2>5. Decide(DemoContract, bundle, PolicyFor(DemoContract)) \in Verdicts
    BY VerdictOfTrial
  <2>6. row \in RowsOfPartition
    BY <2>2, <2>3, <2>4, <2>5 DEF RowsOfPartition
  <2>7. RowsOfPartition' = RowsOfPartition
    BY <2>2 DEF RowsOfPartition
  <2> HIDE DEF row
  <2>8. rows' \in Seq(RowsOfPartition)
    BY <2>1, <2>6 DEF row
  <2> QED
    BY <2>2, <2>7, <2>8
<1>3. CASE NextSplit
  BY <1>3 DEF NextSplit, RowsOfPartition, Splits
<1>4. CASE Summarize
  BY <1>4 DEF Summarize, RowsOfPartition
<1>5. CASE UNCHANGED vars
  BY <1>5 DEF vars, RowsOfPartition
<1> QED
  BY <1>1, <1>2, <1>3, <1>4, <1>5 DEF Next

LEMMA SeedsUnseen == SeedsInv => HeldoutUnseen
<1> SUFFICES ASSUME SeedsInv, NEW i \in DOMAIN rows, NEW j \in DOMAIN rows,
                    rows[i].split = "heldout", rows[j].split = "calibration"
             PROVE  rows[i].seed # rows[j].seed
  BY DEF HeldoutUnseen
<1>1. rows[i] \in RowsOfPartition /\ rows[j] \in RowsOfPartition /\ rows # <<>>
  BY DEF SeedsInv
<1>2. Disjoint(partition)
  BY <1>1 DEF SeedsInv
<1>3. /\ rows[i].case \in CaseIndices /\ rows[j].case \in CaseIndices
      /\ rows[i].seed \in SeedsFor(partition, rows[i].case, "heldout")
      /\ rows[j].seed \in SeedsFor(partition, rows[j].case, "calibration")
  BY <1>1 DEF RowsOfPartition
<1> QED
  BY <1>2, <1>3 DEF Disjoint

\* No held-out trial is measured with a seed that calibration has seen, for
\* every stride and every partition that may be asked for.
THEOREM HeldoutSeedsUnseen == Spec => []HeldoutUnseen
<1>1. Spec => []SeedsInv
  BY SeedsInit, SeedsNext, PTL DEF Spec
<1> QED
  BY <1>1, SeedsUnseen, PTL

-----------------------------------------------------------------------------
(* Which partitions run at all. *)

\* A gap between the bases that all cases and trials of the lower split fit in
\* makes a partition disjoint, the order of the splits left open.
THEOREM GapSuffices ==
  ASSUME NEW p \in SeedPartitions,
         NEW low \in Splits, NEW high \in Splits, low # high,
         p.base[low] + 7 * Stride + p.trials[low] <= p.base[high]
  PROVE  Disjoint(p)
<1> SUFFICES ASSUME NEW c \in CaseIndices, NEW d \in CaseIndices,
                    NEW seed \in SeedsFor(p, c, low), seed \in SeedsFor(p, d, high)
             PROVE  FALSE
  BY DEF Disjoint, Splits
<1> DEFINE offset == c * Stride
           other == d * Stride
           reach == 7 * Stride
<1>1. /\ offset \in Nat /\ offset <= reach /\ other \in Nat /\ reach \in Nat
      /\ p.base[low] \in Nat /\ p.base[high] \in Nat
      /\ p.trials[low] \in Nat /\ p.trials[high] \in Nat
  BY StrideMultiples, PartitionFields, StrideAssumption
<1>2. seed \in (p.base[low] + offset + 0) .. (p.base[low] + offset + (p.trials[low] - 1))
  BY DEF SeedsFor, Seed
<1>3. seed \in (p.base[high] + other + 0) .. (p.base[high] + other + (p.trials[high] - 1))
  BY DEF SeedsFor, Seed
<1>4. p.base[low] + reach + p.trials[low] <= p.base[high]
  OBVIOUS
<1> HIDE DEF offset, other, reach
<1> QED
  BY <1>1, <1>2, <1>3, <1>4

\* The partition that the experiment runs with is one of them.
THEOREM DefaultIsDisjoint ==
  ASSUME Stride = 1000003
  PROVE  DefaultPartition \in SeedPartitions /\ Disjoint(DefaultPartition)
<1>1. DefaultPartition \in SeedPartitions
  BY DEF DefaultPartition, SeedPartitions, Splits
<1>2. DefaultPartition.base["calibration"] + 7 * Stride
        + DefaultPartition.trials["calibration"] <= DefaultPartition.base["heldout"]
  BY DEF DefaultPartition, Splits
<1> QED
  BY <1>1, <1>2, GapSuffices DEF Splits

\* With no more trials than the stride, no two cases share a seed within a
\* split.  assert_disjoint() does not look at this.
THEOREM SeedsApart ==
  ASSUME NEW p \in SeedPartitions, NEW s \in Splits, p.trials[s] <= Stride,
         NEW c \in CaseIndices, NEW d \in CaseIndices, c # d
  PROVE  SeedsFor(p, c, s) \cap SeedsFor(p, d, s) = {}
<1>1. SUFFICES ASSUME NEW x \in CaseIndices, NEW y \in CaseIndices, x < y
               PROVE  SeedsFor(p, x, s) \cap SeedsFor(p, y, s) = {}
  <2>1. c < d \/ d < c
    BY DEF CaseIndices
  <2> QED
    BY <1>1, <2>1
<1> DEFINE offset == x * Stride
           other == y * Stride
<1>2. offset \in Nat /\ other \in Nat /\ p.base[s] \in Nat /\ p.trials[s] \in Nat
  BY StrideMultiples, PartitionFields
<1>3. offset + Stride <= other
  BY <1>1, StrideAssumption DEF CaseIndices
<1>4. Stride \in Nat /\ p.trials[s] <= Stride
  BY StrideAssumption
<1>5. /\ SeedsFor(p, x, s) = (p.base[s] + offset + 0) .. (p.base[s] + offset + (p.trials[s] - 1))
      /\ SeedsFor(p, y, s) = (p.base[s] + other + 0) .. (p.base[s] + other + (p.trials[s] - 1))
  BY DEF SeedsFor, Seed
<1> DEFINE first == p.base[s]
           trials == p.trials[s]
<1>6. /\ SeedsFor(p, x, s) = (first + offset + 0) .. (first + offset + (trials - 1))
      /\ SeedsFor(p, y, s) = (first + other + 0) .. (first + other + (trials - 1))
      /\ first \in Nat /\ trials \in Nat /\ trials <= Stride
  BY <1>2, <1>4, <1>5
<1> HIDE DEF offset, other, first, trials
<1>7. ASSUME NEW seed \in SeedsFor(p, x, s), seed \in SeedsFor(p, y, s)
      PROVE  FALSE
  BY <1>2, <1>3, <1>4, <1>6, <1>7
<1> QED
  BY <1>7


-----------------------------------------------------------------------------
(* The rates. *)

CaseRows(k) == {i \in HeldoutRows : rows[i].case = k}

\* How many held-out trials of case k have run
Expected(k) ==
  IF k < case THEN partition.trials["heldout"]
  ELSE IF k = case /\ split = "heldout" THEN trial
  ELSE 0

\* A row says what the full verifier says of some evidence of its case.
Judged(row) ==
  /\ row.breach = Breach(Scenarios[row.case + 1])
  /\ \E b \in CaseEvidence(Scenarios[row.case + 1]) : row.decision = Full(DemoContract, b)

CountsOK == \A k \in CaseIndices : Cardinality(CaseRows(k)) = Expected(k)

RowsJudged == \A i \in DOMAIN rows : Judged(rows[i])

\* What RatesOfTheDesign leaves out: the trials behind are counted case by case.
RatesInv ==
  /\ SeedsInv
  /\ case \in 0 .. 8 /\ trial <= partition.trials[split]
  /\ RowsJudged
  /\ CountsOK
  /\ summary # NoSummary => status = "done" /\ case = 8 /\ summary = HeldoutSummary


LEMMA FiniteRows ==
  ASSUME SeedsInv
  PROVE  /\ DOMAIN rows = 1 .. Len(rows) /\ Len(rows) \in Nat
         /\ \A i \in DOMAIN rows : rows[i] \in RowsOfPartition
         /\ IsFiniteSet(DOMAIN rows) /\ IsFiniteSet(HeldoutRows)
         /\ \A k : CaseRows(k) \subseteq HeldoutRows /\ IsFiniteSet(CaseRows(k))
<1>1. rows \in Seq(RowsOfPartition)
  BY DEF SeedsInv
<1>2. DOMAIN rows = 1 .. Len(rows) /\ Len(rows) \in Nat
  BY <1>1
<1>3. \A i \in DOMAIN rows : rows[i] \in RowsOfPartition
  BY <1>1
<1>4. IsFiniteSet(DOMAIN rows)
  BY <1>2, FS_Interval
<1>5. HeldoutRows \in SUBSET DOMAIN rows
  BY DEF HeldoutRows
<1>6. IsFiniteSet(HeldoutRows)
  BY <1>4, <1>5, FS_Subset
<1>7. \A k : CaseRows(k) \in SUBSET HeldoutRows
  BY DEF CaseRows
<1> QED
  BY <1>2, <1>3, <1>4, <1>6, <1>7, FS_Subset

LEMMA RatesInit == Init => RatesInv
<1> SUFFICES ASSUME Init PROVE RatesInv
  OBVIOUS
<1>1. /\ partition \in Partitions /\ status = "checking" /\ case = 0
      /\ split = "calibration" /\ trial = 0 /\ rows = <<>> /\ summary = NoSummary
  BY DEF Init
<1>2. SeedsInv
  BY SeedsInit
<1>3. trial <= partition.trials[split]
  BY <1>1, <1>2, PartitionFields DEF SeedsInv
<1>4. DOMAIN rows = {}
  BY <1>1
<1>5. RowsJudged
  BY <1>4 DEF RowsJudged
<1>6. CountsOK
  <2> SUFFICES ASSUME NEW k \in CaseIndices PROVE Cardinality(CaseRows(k)) = Expected(k)
    BY DEF CountsOK
  <2>1. CaseRows(k) = {}
    BY <1>4 DEF CaseRows, HeldoutRows
  <2>2. Expected(k) = 0
    BY <1>1 DEF Expected, CaseIndices
  <2> QED
    BY <2>1, <2>2, FS_EmptySet
<1> QED
  BY <1>1, <1>2, <1>3, <1>5, <1>6 DEF RatesInv

\* The counts depend on the rows and on where the run has got to.
LEMMA CountsStay ==
  ASSUME RowsJudged, rows' = rows
  PROVE  /\ RowsJudged' /\ HeldoutRows' = HeldoutRows
         /\ \A k : CaseRows(k)' = CaseRows(k)
         /\ HeldoutSummary' = HeldoutSummary
<1>1. RowsJudged'
  BY DEF RowsJudged, Judged
<1>2. HeldoutRows' = HeldoutRows /\ \A k : CaseRows(k)' = CaseRows(k)
  BY DEF HeldoutRows, CaseRows
<1>3. HeldoutSummary' = HeldoutSummary
  BY DEF HeldoutSummary, OfTruth, Decided, HeldoutRows
<1> QED
  BY <1>1, <1>2, <1>3

LEMMA TrialCounted == RatesInv /\ RunTrial => RowsJudged' /\ CountsOK'
<1> SUFFICES ASSUME RatesInv, RunTrial PROVE RowsJudged' /\ CountsOK'
  OBVIOUS
<1>1. SeedsInv /\ RowsJudged /\ CountsOK
  BY DEF RatesInv
<1>2. PICK bundle \in CaseEvidence(Scenarios[case + 1]) :
        rows' = Append(rows,
                  [split    |-> split,
                   case     |-> case,
                   seed     |-> Seed(partition, case, split, trial),
                   breach   |-> Breach(Scenarios[case + 1]),
                   decision |-> Decide(DemoContract, bundle, PolicyFor(DemoContract))])
  BY DEF RunTrial
<1> DEFINE row == [split    |-> split,
                   case     |-> case,
                   seed     |-> Seed(partition, case, split, trial),
                   breach   |-> Breach(Scenarios[case + 1]),
                   decision |-> Decide(DemoContract, bundle, PolicyFor(DemoContract))]
           n == Len(rows)
<1>3. /\ case \in CaseIndices /\ trial' = trial + 1
      /\ partition' = partition /\ case' = case /\ split' = split
  BY DEF RunTrial
<1>4. /\ row.split = split /\ row.case = case /\ Judged(row)
  BY DEF Judged, Full
<1>5. rows' = Append(rows, row)
  BY <1>2
<1> HIDE DEF row
<1>6. rows \in Seq(RowsOfPartition)
  BY <1>1 DEF SeedsInv
<1>7. /\ n \in Nat /\ DOMAIN rows = 1 .. n /\ DOMAIN rows' = 1 .. (n + 1)
      /\ rows'[n + 1] = row /\ \A i \in 1 .. n : rows'[i] = rows[i]
  BY <1>5, <1>6
<1> HIDE DEF n
<1>8. RowsJudged'
  <2> SUFFICES ASSUME NEW i \in 1 .. (n + 1) PROVE Judged(rows'[i])
    BY <1>7 DEF RowsJudged, Judged
  <2>1. CASE i = n + 1
    BY <1>4, <1>7, <2>1
  <2>2. CASE i \in 1 .. n
    BY <1>1, <1>7, <2>2 DEF RowsJudged
  <2> QED
    BY <1>7, <2>1, <2>2
<1>9. CountsOK'
  <2> SUFFICES ASSUME NEW k \in CaseIndices PROVE Cardinality(CaseRows(k)') = Expected(k)'
    BY DEF CountsOK, CaseIndices
  <2>1. CaseRows(k) = {i \in 1 .. n : rows[i].split = "heldout" /\ rows[i].case = k}
    BY <1>7 DEF CaseRows, HeldoutRows
  <2>2. CaseRows(k)' = {i \in 1 .. (n + 1) : rows'[i].split = "heldout" /\ rows'[i].case = k}
    BY <1>7 DEF CaseRows, HeldoutRows
  <2>3. \A i : i \in 1 .. (n + 1) <=> i \in 1 .. n \/ i = n + 1
    BY <1>7
  <2>4. Cardinality(CaseRows(k)) = Expected(k) /\ IsFiniteSet(CaseRows(k))
    BY <1>1, FiniteRows DEF CountsOK
  <2>5. n + 1 \notin CaseRows(k)
    BY <1>7, <2>1
  <2>6. CASE split = "heldout" /\ k = case
    <3>1. CaseRows(k)' = CaseRows(k) \cup {n + 1}
      BY <1>4, <1>7, <2>1, <2>2, <2>3, <2>6
    <3>2. Expected(k) = trial /\ Expected(k)' = trial + 1
      BY <1>3, <2>6 DEF Expected, CaseIndices
    <3> QED
      BY <2>4, <2>5, <3>1, <3>2, FS_AddElement
  <2>7. CASE ~(split = "heldout" /\ k = case)
    <3>1. CaseRows(k)' = CaseRows(k)
      BY <1>4, <1>7, <2>1, <2>2, <2>3, <2>7
    <3>2. Expected(k)' = Expected(k)
      BY <1>3, <2>7 DEF Expected
    <3> QED
      BY <2>4, <3>1, <3>2
  <2> QED
    BY <2>6, <2>7
<1> QED
  BY <1>8, <1>9

LEMMA RatesNext == RatesInv /\ [Next]_vars => RatesInv'
<1> SUFFICES ASSUME RatesInv, [Next]_vars PROVE RatesInv'
  OBVIOUS
<1>1. /\ SeedsInv /\ case \in 0 .. 8 /\ trial <= partition.trials[split]
      /\ RowsJudged /\ CountsOK
      /\ summary # NoSummary => status = "done" /\ case = 8 /\ summary = HeldoutSummary
  BY DEF RatesInv
<1>2. SeedsInv'
  BY <1>1, SeedsNext
<1>3. /\ trial \in Nat /\ split \in Splits /\ partition \in SeedPartitions
      /\ \A s \in Splits : partition.trials[s] \in Nat /\ partition.trials[s] >= 1
  BY <1>1, PartitionFields DEF SeedsInv
<1>4. CASE AssertDisjoint
  <2>1. /\ status = "checking" /\ UNCHANGED <<partition, case, split, trial, rows, summary>>
    BY <1>4 DEF AssertDisjoint
  <2>2. summary = NoSummary
    BY <1>1, <2>1
  <2>3. RowsJudged' /\ CountsOK'
    BY <1>1, <2>1, CountsStay DEF CountsOK, Expected, CaseIndices
  <2> QED
    BY <1>1, <1>2, <2>1, <2>2, <2>3 DEF RatesInv
<1>5. CASE RunTrial
  <2>1. /\ status = "running" /\ trial < partition.trials[split] /\ trial' = trial + 1
        /\ UNCHANGED <<partition, status, case, split, summary>>
    BY <1>5 DEF RunTrial
  <2>2. RowsJudged' /\ CountsOK'
    BY <1>5, TrialCounted
  <2>3. summary' = NoSummary
    BY <1>1, <2>1
  <2>4. trial' <= partition'.trials[split']
    BY <1>3, <2>1
  <2> QED
    BY <1>1, <1>2, <2>1, <2>2, <2>3, <2>4 DEF RatesInv
<1>6. CASE NextSplit
  <2>1. /\ status = "running" /\ case \in CaseIndices /\ trial = partition.trials[split]
        /\ trial' = 0 /\ UNCHANGED <<partition, status, rows, summary>>
        /\ IF split = "calibration" THEN split' = "heldout" /\ case' = case
           ELSE split' = "calibration" /\ case' = case + 1
    BY <1>6 DEF NextSplit
  <2>2. summary' = NoSummary
    BY <1>1, <2>1
  <2>3. case' \in 0 .. 8 /\ split' \in Splits
    BY <1>1, <2>1 DEF CaseIndices, Splits
  <2>4. trial' <= partition'.trials[split']
    BY <1>3, <2>1, <2>3
  <2>5. RowsJudged' /\ \A k : CaseRows(k)' = CaseRows(k)
    BY <1>1, <2>1, CountsStay
  <2>6. ASSUME NEW k \in CaseIndices PROVE Expected(k)' = Expected(k)
    BY <1>1, <1>3, <2>1 DEF Expected, CaseIndices, Splits
  <2>7. CountsOK'
    BY <1>1, <2>5, <2>6 DEF CountsOK, CaseIndices
  <2> QED
    BY <1>2, <2>2, <2>3, <2>4, <2>5, <2>7 DEF RatesInv
<1>7. CASE Summarize
  <2>1. /\ case \notin CaseIndices /\ summary' = HeldoutSummary /\ status' = "done"
        /\ UNCHANGED <<partition, case, split, trial, rows>>
    BY <1>7 DEF Summarize
  <2>2. case' = 8
    BY <1>1, <2>1 DEF CaseIndices
  <2>3. RowsJudged' /\ CountsOK' /\ HeldoutSummary' = HeldoutSummary
    BY <1>1, <2>1, CountsStay DEF CountsOK, Expected, CaseIndices
  <2> QED
    BY <1>1, <1>2, <2>1, <2>2, <2>3 DEF RatesInv
<1>8. CASE UNCHANGED vars
  <2>1. UNCHANGED <<partition, status, case, split, trial, rows, summary>>
    BY <1>8 DEF vars
  <2>2. RowsJudged' /\ CountsOK' /\ HeldoutSummary' = HeldoutSummary
    BY <1>1, <2>1, CountsStay DEF CountsOK, Expected, CaseIndices
  <2> QED
    BY <1>1, <1>2, <2>1, <2>2 DEF RatesInv
<1> QED
  BY <1>4, <1>5, <1>6, <1>7, <1>8 DEF Next


\* Sizes of parts of a finite set
LEMMA PartsOf ==
  ASSUME NEW S, IsFiniteSet(S), NEW A, A \subseteq S, NEW B, B \subseteq S, A \cap B = {}
  PROVE  /\ Cardinality(S) \in Nat /\ Cardinality(A) \in Nat /\ Cardinality(B) \in Nat
         /\ IsFiniteSet(A) /\ IsFiniteSet(B) /\ IsFiniteSet(A \cup B)
         /\ Cardinality(A \cup B) = Cardinality(A) + Cardinality(B)
         /\ Cardinality(A) + Cardinality(B) <= Cardinality(S)
<1>1. IsFiniteSet(A) /\ IsFiniteSet(B)
  BY FS_Subset
<1>2. /\ Cardinality(S) \in Nat /\ Cardinality(A) \in Nat /\ Cardinality(B) \in Nat
  BY <1>1, FS_CardinalityType
<1>3. /\ IsFiniteSet(A \cup B)
      /\ Cardinality(A \cup B) = Cardinality(A) + Cardinality(B) - Cardinality(A \cap B)
  BY <1>1, FS_Union
<1>4. Cardinality(A \cap B) = 0
  BY FS_EmptySet
<1>5. A \cup B \in SUBSET S
  OBVIOUS
<1>6. Cardinality(A \cup B) <= Cardinality(S)
  BY <1>5, FS_Subset
<1>7. Cardinality(A \cup B) = Cardinality(A) + Cardinality(B)
  BY <1>2, <1>3, <1>4
<1> QED
  BY <1>1, <1>2, <1>3, <1>6, <1>7

Either(A, B) == A \cup B

LEMMA TwoParts ==
  ASSUME NEW S, IsFiniteSet(S), NEW n \in Nat,
         NEW A, A \subseteq S, NEW B, B \subseteq S, A \cap B = {},
         Cardinality(A) = n, Cardinality(B) = n
  PROVE  Cardinality(Either(A, B)) = n + n /\ Either(A, B) \subseteq S
<1>1. Cardinality(A \cup B) = Cardinality(A) + Cardinality(B)
  BY PartsOf
<1> QED
  BY <1>1 DEF Either

FourCases(j, k, l, m) ==
  Either(Either(CaseRows(j), CaseRows(k)), Either(CaseRows(l), CaseRows(m)))

LEMMA FourCasesSize ==
  ASSUME SeedsInv, NEW n \in Nat, \A k \in CaseIndices : Cardinality(CaseRows(k)) = n,
         NEW j \in CaseIndices, NEW k \in CaseIndices,
         NEW l \in CaseIndices, NEW m \in CaseIndices,
         j # k, j # l, j # m, k # l, k # m, l # m
  PROVE  Cardinality(FourCases(j, k, l, m)) = 4 * n
<1> DEFINE A == CaseRows(j)
           B == CaseRows(k)
           C == CaseRows(l)
           D == CaseRows(m)
           E == Either(A, B)
           F == Either(C, D)
<1>1. A \cap B = {} /\ C \cap D = {} /\ E \cap F = {}
  BY DEF CaseRows, Either
<1>2. /\ IsFiniteSet(HeldoutRows)
      /\ A \subseteq HeldoutRows /\ B \subseteq HeldoutRows
      /\ C \subseteq HeldoutRows /\ D \subseteq HeldoutRows
  BY FiniteRows
<1>3. Cardinality(A) = n /\ Cardinality(B) = n /\ Cardinality(C) = n /\ Cardinality(D) = n
  OBVIOUS
<1>8. FourCases(j, k, l, m) = Either(E, F)
  BY DEF FourCases
<1> HIDE DEF A, B, C, D
<1>4. Cardinality(E) = n + n /\ E \subseteq HeldoutRows
  BY <1>1, <1>2, <1>3, TwoParts
<1>5. Cardinality(F) = n + n /\ F \subseteq HeldoutRows
  BY <1>1, <1>2, <1>3, TwoParts
<1> HIDE DEF E, F
<1>6. n + n \in Nat
  OBVIOUS
<1>7. Cardinality(Either(E, F)) = (n + n) + (n + n)
  BY <1>1, <1>2, <1>4, <1>5, <1>6, TwoParts
<1> QED
  BY <1>7, <1>8

\* The verdicts and truths that rows of a case may have
LEMMA RowVerdict ==
  ASSUME SeedsInv, RowsJudged, NEW i \in HeldoutRows
  PROVE  LET k == rows[i].case
             verdict == rows[i].decision
         IN
         /\ k \in CaseIndices /\ i \in CaseRows(k)
         /\ rows[i].breach <=> k \in {2, 3, 4, 6}
         /\ rows[i].breach \in BOOLEAN
         /\ k = 0 => verdict = "ACCEPT"
         /\ k \in {3, 4, 6} => verdict = "REJECT"
         /\ k \in {5, 7} => verdict = "INCONCLUSIVE"
<1>1. i \in DOMAIN rows
  BY DEF HeldoutRows
<1>2. rows[i].case \in CaseIndices /\ rows[i].breach \in BOOLEAN
  BY <1>1, FiniteRows DEF RowsOfPartition
<1> DEFINE k == rows[i].case + 1
<1>3. Judged(rows[i])
  BY <1>1 DEF RowsJudged
<1>4. rows[i].breach = Breach(Scenarios[k])
  BY <1>3 DEF Judged
<1>5. PICK b \in CaseEvidence(Scenarios[k]) : rows[i].decision = Full(DemoContract, b)
  BY <1>3 DEF Judged
<1>6. k \in 1 .. 8
  BY <1>2 DEF CaseIndices
<1> HIDE DEF k
<1>7. /\ k = 1 => rows[i].decision = "ACCEPT"
      /\ k \in {4, 5, 7} => rows[i].decision = "REJECT"
      /\ k \in {6, 8} => rows[i].decision = "INCONCLUSIVE"
  BY <1>5, <1>6, CaseVerdicts
<1>8. rows[i].breach <=> k \in {3, 4, 5, 7}
  BY <1>4, <1>6, CaseBreaches
<1>9. i \in CaseRows(rows[i].case)
  BY DEF CaseRows
<1> QED
  BY <1>2, <1>7, <1>8, <1>9 DEF k, CaseIndices

\* The rates that the eight cases permit, whatever the noise and the number of
\* trials: at most a quarter false accepts and false rejects, and at least half
\* of the compliant trials without a verdict.
THEOREM RatesAreDesigned == Spec => []RatesOfTheDesign
<1>1. RatesInv => RatesOfTheDesign
  <2> SUFFICES ASSUME RatesInv, summary # NoSummary
               PROVE  /\ summary.compliant = 4 * partition.trials["heldout"]
                      /\ summary.breaches = summary.compliant
                      /\ 4 * summary.falseAccepts <= summary.breaches
                      /\ 4 * summary.falseRejects <= summary.compliant
                      /\ 2 * summary.compliantInconclusive >= summary.compliant
                      /\ summary.falseRejects + summary.compliantInconclusive
                           <= summary.compliant
                      /\ 4 * (summary.falseAccepts + summary.breachInconclusive)
                           <= summary.breaches
    BY DEF RatesOfTheDesign
  <2> DEFINE n == partition.trials["heldout"]
             C(k) == CaseRows(k)
             Good == OfTruth(FALSE)
             Bad == OfTruth(TRUE)
             Kind(S, decision) == {i \in S : rows[i].decision = decision}
  <2>1. SeedsInv /\ RowsJudged /\ CountsOK /\ case = 8 /\ summary = HeldoutSummary
    BY DEF RatesInv
  <2>2. n \in Nat
    BY <2>1, PartitionFields DEF SeedsInv, Splits
  <2>3. \A k \in CaseIndices : Cardinality(C(k)) = n
    BY <2>1 DEF CountsOK, Expected, CaseIndices
  <2>4. \A k : C(k) \subseteq HeldoutRows /\ IsFiniteSet(C(k))
    BY <2>1, FiniteRows
  <2>5. \A i \in HeldoutRows :
          /\ rows[i].case \in CaseIndices /\ i \in C(rows[i].case)
          /\ rows[i].breach <=> rows[i].case \in {2, 3, 4, 6}
          /\ rows[i].breach \in BOOLEAN
          /\ rows[i].case = 0 => rows[i].decision = "ACCEPT"
          /\ rows[i].case \in {3, 4, 6} => rows[i].decision = "REJECT"
          /\ rows[i].case \in {5, 7} => rows[i].decision = "INCONCLUSIVE"
    BY <2>1, RowVerdict
  <2>6. \A k : \A i \in C(k) : rows[i].case = k /\ i \in HeldoutRows
    BY DEF CaseRows
  <2>7. /\ \A i : i \in Good <=> i \in HeldoutRows /\ rows[i].breach = FALSE
        /\ \A i : i \in Bad <=> i \in HeldoutRows /\ rows[i].breach = TRUE
    BY DEF OfTruth
  <2>8. /\ summary.compliant = Cardinality(Good) /\ summary.breaches = Cardinality(Bad)
        /\ summary.falseAccepts = Cardinality(Kind(Bad, "ACCEPT"))
        /\ summary.falseRejects = Cardinality(Kind(Good, "REJECT"))
        /\ summary.compliantInconclusive = Cardinality(Kind(Good, "INCONCLUSIVE"))
        /\ summary.breachInconclusive = Cardinality(Kind(Bad, "INCONCLUSIVE"))
    BY <2>1 DEF HeldoutSummary, Decided
  <2> HIDE DEF n, C, Good, Bad
  <2>9. Good = FourCases(0, 1, 5, 7)
    BY <2>5, <2>6, <2>7 DEF CaseIndices, FourCases, Either, C
  <2>10. Bad = FourCases(2, 3, 4, 6)
    BY <2>5, <2>6, <2>7 DEF CaseIndices, FourCases, Either, C
  <2>11. Cardinality(Good) = 4 * n /\ Cardinality(Bad) = 4 * n
    <3>1. \A k \in CaseIndices : Cardinality(CaseRows(k)) = n
      BY <2>3 DEF C
    <3>2. /\ 0 \in CaseIndices /\ 1 \in CaseIndices /\ 2 \in CaseIndices /\ 3 \in CaseIndices
          /\ 4 \in CaseIndices /\ 5 \in CaseIndices /\ 6 \in CaseIndices /\ 7 \in CaseIndices
      BY DEF CaseIndices
    <3>3. \A j, k, l, m \in CaseIndices :
            j # k /\ j # l /\ j # m /\ k # l /\ k # m /\ l # m
              => Cardinality(FourCases(j, k, l, m)) = 4 * n
      BY <2>1, <2>2, <3>1, FourCasesSize
    <3>4. Cardinality(FourCases(0, 1, 5, 7)) = 4 * n
      BY <3>2, <3>3
    <3>5. Cardinality(FourCases(2, 3, 4, 6)) = 4 * n
      BY <3>2, <3>3
    <3> QED
      BY <2>9, <2>10, <3>4, <3>5
  <2>12. /\ Cardinality(Kind(Bad, "ACCEPT")) \in Nat
         /\ Cardinality(Kind(Bad, "INCONCLUSIVE")) \in Nat
         /\ Cardinality(Kind(Bad, "ACCEPT")) + Cardinality(Kind(Bad, "INCONCLUSIVE")) <= n
    <3>1. Kind(Bad, "ACCEPT") \subseteq C(2) /\ Kind(Bad, "INCONCLUSIVE") \subseteq C(2)
      BY <2>5, <2>6, <2>7
    <3>2. Kind(Bad, "ACCEPT") \cap Kind(Bad, "INCONCLUSIVE") = {}
      OBVIOUS
    <3>3. Cardinality(C(2)) = n /\ IsFiniteSet(C(2))
      BY <2>3, <2>4 DEF CaseIndices
    <3> QED
      BY <3>1, <3>2, <3>3, PartsOf
  <2>13. /\ Cardinality(Kind(Good, "REJECT")) \in Nat
         /\ Cardinality(Kind(Good, "REJECT")) <= n
    <3>1. Kind(Good, "REJECT") \in SUBSET C(1)
      BY <2>5, <2>6, <2>7 DEF CaseIndices
    <3>2. Cardinality(C(1)) = n /\ IsFiniteSet(C(1))
      BY <2>3, <2>4 DEF CaseIndices
    <3> QED
      BY <3>1, <3>2, FS_Subset, FS_CardinalityType
  <2>14. IsFiniteSet(Good)
    <3>1. Good \in SUBSET HeldoutRows
      BY <2>7
    <3> QED
      BY <2>1, <3>1, FiniteRows, FS_Subset
  <2>15. /\ Cardinality(Kind(Good, "INCONCLUSIVE")) \in Nat
         /\ n + n <= Cardinality(Kind(Good, "INCONCLUSIVE"))
    <3>1. C(5) \subseteq Kind(Good, "INCONCLUSIVE") /\ C(7) \subseteq Kind(Good, "INCONCLUSIVE")
      BY <2>5, <2>6, <2>7
    <3>2. C(5) \cap C(7) = {}
      BY <2>6
    <3>3. Kind(Good, "INCONCLUSIVE") \in SUBSET Good
      OBVIOUS
    <3>4. IsFiniteSet(Kind(Good, "INCONCLUSIVE"))
      BY <2>14, <3>3, FS_Subset
    <3>5. Cardinality(C(5)) = n /\ Cardinality(C(7)) = n
      BY <2>3 DEF CaseIndices
    <3> QED
      BY <3>1, <3>2, <3>4, <3>5, PartsOf
  <2>16. Cardinality(Kind(Good, "REJECT")) + Cardinality(Kind(Good, "INCONCLUSIVE"))
           <= Cardinality(Good)
    <3>1. Kind(Good, "REJECT") \cap Kind(Good, "INCONCLUSIVE") = {}
      OBVIOUS
    <3>2. Kind(Good, "REJECT") \subseteq Good /\ Kind(Good, "INCONCLUSIVE") \subseteq Good
      OBVIOUS
    <3> QED
      BY <2>14, <3>1, <3>2, PartsOf
  <2> HIDE DEF Kind
  <2>17. /\ 4 * Cardinality(Kind(Bad, "ACCEPT")) <= 4 * n
         /\ 4 * Cardinality(Kind(Good, "REJECT")) <= 4 * n
         /\ 2 * Cardinality(Kind(Good, "INCONCLUSIVE")) >= 4 * n
         /\ 4 * (Cardinality(Kind(Bad, "ACCEPT")) + Cardinality(Kind(Bad, "INCONCLUSIVE")))
              <= 4 * n
    BY <2>2, <2>12, <2>13, <2>15
  <2> QED
    BY <2>8, <2>11, <2>16, <2>17 DEF n
<1>2. Spec => []RatesInv
  BY RatesInit, RatesNext, PTL DEF Spec
<1> QED
  BY <1>1, <1>2, PTL

-----------------------------------------------------------------------------
(* Challenge times. *)

Cells ==
  [schedule : Schedules, count : 2 .. Len(ChallengeIds), radius : Nat, jitter : Nat]

LEMMA WindowIsNumber == DeliverySeconds \in Nat /\ DeliverySeconds >= 60
BY ChallengeAssumption

LEMMA CellFields ==
  ASSUME NEW cell \in Cells
  PROVE  /\ cell.schedule \in Schedules
         /\ cell.count \in Nat /\ cell.count >= 2 /\ cell.count <= Len(ChallengeIds)
         /\ cell.radius \in Nat /\ cell.jitter \in Nat
         /\ Len(ChallengeIds) \in Nat /\ DOMAIN ChallengeIds = 1 .. Len(ChallengeIds)
<1>1. Len(ChallengeIds) \in Nat /\ DOMAIN ChallengeIds = 1 .. Len(ChallengeIds)
  <2>1. ChallengeIds \in Seq(EvidenceIds)
    BY ChallengeIdsAssumption
  <2> QED
    BY <2>1
<1>2. cell.count \in 2 .. Len(ChallengeIds)
  BY DEF Cells
<1> QED
  BY <1>1, <1>2 DEF Cells

LEMMA Clamped ==
  ASSUME NEW t \in Int
  PROVE  ClampTime(t) = IF t < 1 THEN 1
                        ELSE IF t > DeliverySeconds - 1 THEN DeliverySeconds - 1 ELSE t
<1> DEFINE top == DeliverySeconds - 1
           low == Min({top, t})
<1>1. top \in Int /\ top >= 59
  BY WindowIsNumber
<1>2. ClampTime(t) = Max({1, low})
  BY DEF ClampTime
<1> HIDE DEF top
<1>3. \E x \in {top, t} : \A y \in {top, t} : x <= y
  BY <1>1
<1>4. low \in {top, t} /\ \A y \in {top, t} : low <= y
  BY <1>3 DEF Min
<1> HIDE DEF low
<1>5. low \in Int
  BY <1>1, <1>4
<1>6. \E x \in {1, low} : \A y \in {1, low} : x >= y
  BY <1>5
<1>7. Max({1, low}) \in {1, low} /\ \A y \in {1, low} : Max({1, low}) >= y
  BY <1>6 DEF Max
<1>8. ClampTime(t) = IF t < 1 THEN 1 ELSE IF t > top THEN top ELSE t
  BY <1>1, <1>2, <1>4, <1>5, <1>7
<1> QED
  BY <1>8 DEF top

\* A quotient and its rest
LEMMA Quotient ==
  ASSUME NEW num \in Nat, NEW den \in Nat, den > 0, NEW down \in Nat, NEW rest \in Nat,
         rest < den, num = down * den + rest
  PROVE  num \div den = down /\ num % den = rest
<1> DEFINE q == num \div den
           product == down * den
<1>1. product \in Int /\ (down + 1) * den = product + den
  OBVIOUS
<1>2. /\ q \in Int /\ (q < down <=> num < product)
      /\ q < down + 1 <=> num < (down + 1) * den
  BY Division
<1>3. num % den = num - den * q
  OBVIOUS
<1> HIDE DEF q
<1>4. q = down
  <2> HIDE DEF product
  <2>1. num = product + rest
    BY DEF product
  <2> QED
    BY <1>1, <1>2, <2>1
<1> QED
  BY <1>3, <1>4 DEF q

LEMMA QuotientExists ==
  ASSUME NEW num \in Nat, NEW den \in Nat, den > 0
  PROVE  \E down, rest \in Nat : rest < den /\ num = down * den + rest
<1> DEFINE down == num \div den
           rest == num - den * down
<1>1. down \in Int /\ den * down <= num /\ num < den * (down + 1)
  OBVIOUS
<1>2. ~(down < 0)
  <2>1. down < 0 <=> num < 0 * den
    BY Division
  <2> QED
    BY <2>1
<1> HIDE DEF down
<1>3. /\ down \in Nat /\ den * down \in Int /\ den * (down + 1) = den * down + den
      /\ den * down = down * den
  BY <1>1, <1>2
<1>4. rest \in Nat /\ rest < den /\ num = down * den + rest
  <2> DEFINE product == den * down
  <2>1. product \in Int /\ product <= num /\ num < product + den
    BY <1>1, <1>3
  <2> HIDE DEF product
  <2> QED
    BY <1>3, <2>1 DEF product
<1> QED
  BY <1>3, <1>4

LEMMA RoundedIs ==
  ASSUME NEW num \in Nat, NEW den \in Nat, den > 0, NEW down \in Nat, NEW rest \in Nat,
         rest < den, num = down * den + rest
  PROVE  /\ Rounded(num, den) \in {down, down + 1}
         /\ 2 * rest < den => Rounded(num, den) = down
         /\ 2 * rest > den => Rounded(num, den) = down + 1
<1>1. num \div den = down /\ num % den = rest
  BY Quotient
<1>2. Rounded(num, den) =
        down + (IF \/ 2 * rest > den
                   \/ (2 * rest = den /\ <<num, den>> \in HalvesUp) THEN 1 ELSE 0)
  BY <1>1 DEF Rounded
<1> QED
  BY <1>2

\* Fixed times are in the window, its two ends included.
LEMMA FixedInWindow ==
  ASSUME NEW cell \in Cells, NEW i \in 1 .. cell.count
  PROVE  FixedTimes(cell)[i] \in 0 .. DeliverySeconds
<1> DEFINE n == cell.count
           D == DeliverySeconds
<1>1. n \in Nat /\ n >= 2 /\ D \in Nat /\ D >= 60 /\ i \in Nat /\ i <= n /\ i >= 1
  BY CellFields, WindowIsNumber
<1>2. FixedTimes(cell)[i] = Rounded(D * i, n + 1)
  BY DEF FixedTimes
<1> HIDE DEF n, D
<1>3. D * i \in Nat /\ D * i < D * (n + 1) /\ n + 1 \in Nat /\ n + 1 > 0
  <2>1. D * i \in Nat /\ D * (n + 1 - i) \in Nat
    BY <1>1
  <2>2. D * (n + 1) = D * i + D * (n + 1 - i)
    BY <1>1
  <2>3. D * (n + 1 - i) >= D
    <3>1. D * (n - i) >= 0 /\ D * (n + 1 - i) = D * (n - i) + D
      BY <1>1
    <3> QED
      BY <1>1, <3>1
  <2> DEFINE x == D * i
             y == D * (n + 1 - i)
  <2> HIDE DEF x, y
  <2>4. x < x + y
    BY <1>1, <2>1, <2>3 DEF x, y
  <2> QED
    BY <1>1, <2>1, <2>2, <2>4 DEF x, y
<1> DEFINE num == D * i
           den == n + 1
<1> HIDE DEF num, den
<1>4. PICK down \in Nat, rest \in Nat : rest < den /\ num = down * den + rest
  BY <1>3, QuotientExists DEF num, den
<1>5. Rounded(num, den) \in {down, down + 1} /\ num \div den = down
  BY <1>3, <1>4, RoundedIs, Quotient DEF num, den
<1>6. down < D
  <2>1. num \div den < D <=> num < D * den
    BY <1>1, <1>3, Division DEF num, den
  <2> QED
    BY <1>3, <1>5, <2>1 DEF num, den
<1>7. Rounded(num, den) \in 0 .. D
  BY <1>1, <1>5, <1>6
<1> QED
  BY <1>2, <1>7 DEF num, den, D

\* Fixed times as dense as half seconds leave no second out next to the ends.
LEMMA Density ==
  ASSUME NEW cell \in Cells, 2 * DeliverySeconds <= cell.count + 1
  PROVE  /\ \E i \in 1 .. cell.count : FixedTimes(cell)[i] = 1
         /\ \E i \in 1 .. cell.count : FixedTimes(cell)[i] = DeliverySeconds - 1
<1> DEFINE n == cell.count
           D == DeliverySeconds
           N == n + 1
           q == N \div D
           P == D * q
<1>1. n \in Nat /\ N \in Nat /\ N = n + 1 /\ D \in Nat /\ D >= 60 /\ 2 * D <= N
  BY CellFields, WindowIsNumber
<1>2. \A i \in 1 .. n : FixedTimes(cell)[i] = Rounded(D * i, N)
  BY DEF FixedTimes
<1> HIDE DEF n, D, N
<1>3. q \in Int /\ P <= N /\ N < D * (q + 1)
  BY <1>1
<1>4. q \in 1 .. n
  <2>1. q < 1 <=> N < 1 * D
    BY <1>1, Division
  <2>2. q >= 1
    BY <1>1, <1>3, <2>1
  <2>3. D * q >= 2 * q
    <3>1. (D - 2) * q >= 0 /\ D * q = (D - 2) * q + 2 * q
      BY <1>1, <1>3, <2>2
    <3> QED
      BY <1>1, <1>3, <3>1
  <2> HIDE DEF q
  <2>4. 2 * q <= N
    BY <1>1, <1>3, <2>3
  <2> QED
    BY <1>1, <1>3, <2>2, <2>4
<1>5. D * (q + 1) = P + D /\ P \in Int
  BY <1>1, <1>3
<1> HIDE DEF q
<1>6. P \in Nat /\ P <= N /\ 2 * P > N
  <2> HIDE DEF P
  <2> QED
    BY <1>1, <1>3, <1>5
<1>7. Rounded(P, N) = 1
  <2>1. CASE P = N
    <3>1. P = 1 * N + 0 /\ 0 < N
      BY <1>1, <1>6, <2>1
    <3> HIDE DEF P
    <3> QED
      BY <1>1, <1>6, <3>1, RoundedIs
  <2>2. CASE P < N
    <3>1. P = 0 * N + P
      BY <1>1, <1>6
    <3> HIDE DEF P
    <3> QED
      BY <1>1, <1>6, <2>2, <3>1, RoundedIs
  <2> QED
    BY <1>1, <1>6, <2>1, <2>2
<1>8. Rounded(D * (N - q), N) = D - 1
  <2>1. N - q \in Nat
    BY <1>1, <1>4
  <2>2. D * (N - q) = (D - 1) * N + (N - P)
    <3>1. D * (N - q) = D * N - D * q /\ (D - 1) * N = D * N - N /\ D * N \in Int
      BY <1>1, <1>4
    <3> DEFINE whole == D * N
    <3> HIDE DEF whole
    <3>2. D * (N - q) = whole - P /\ (D - 1) * N = whole - N /\ whole \in Int
      BY <3>1 DEF whole
    <3> QED
      BY <1>1, <1>6, <3>2
  <2>3. N - P \in Nat /\ N - P < N /\ 2 * (N - P) < N /\ D - 1 \in Nat /\ N > 0
    <3> HIDE DEF P
    <3> QED
      BY <1>1, <1>6
  <2>4. D * (N - q) \in Nat
    BY <1>1, <2>1
  <2> DEFINE num == D * (N - q)
             rest == N - P
             down == D - 1
  <2> HIDE DEF num, rest, down
  <2>5. num \in Nat /\ rest \in Nat /\ rest < N /\ 2 * rest < N /\ down \in Nat
        /\ num = down * N + rest
    BY <2>2, <2>3, <2>4 DEF num, rest, down
  <2>6. Rounded(num, N) = down
    BY <1>1, <2>3, <2>5, RoundedIs
  <2> QED
    BY <2>6 DEF num, down
<1>9. N - q \in 1 .. n
  BY <1>1, <1>4
<1>10. FixedTimes(cell)[q] = 1 /\ FixedTimes(cell)[N - q] = D - 1
  BY <1>2, <1>4, <1>7, <1>8, <1>9
<1> QED
  BY <1>4, <1>9, <1>10 DEF n, D

\* A fixed time at an end of the window is one of times so dense.
LEMMA EndsAreDense ==
  ASSUME NEW cell \in Cells, NEW j \in 1 .. cell.count,
         FixedTimes(cell)[j] \in {0, DeliverySeconds}
  PROVE  2 * DeliverySeconds <= cell.count + 1
<1> DEFINE n == cell.count
           D == DeliverySeconds
           N == n + 1
           num == D * j
<1>1. /\ n \in Nat /\ N \in Nat /\ N = n + 1 /\ N > 0 /\ D \in Nat /\ D >= 60
      /\ j \in Nat /\ j >= 1 /\ N - j \in Nat /\ N - j >= 1
  BY CellFields, WindowIsNumber
<1>2. FixedTimes(cell)[j] = Rounded(num, N)
  BY DEF FixedTimes
<1> HIDE DEF n, D, N
<1>3. num \in Nat /\ num >= D
  <2>1. D * (j - 1) >= 0 /\ num = D * (j - 1) + D /\ D * (j - 1) \in Int
    BY <1>1
  <2> DEFINE more == D * (j - 1)
  <2> HIDE DEF more, num
  <2>2. more \in Int /\ more >= 0 /\ num = more + D
    BY <2>1 DEF more
  <2> QED
    BY <1>1, <2>2
<1>4. PICK down \in Nat, rest \in Nat : rest < N /\ num = down * N + rest
  BY <1>1, <1>3, QuotientExists
<1>5. /\ Rounded(num, N) \in {down, down + 1}
      /\ 2 * rest < N => Rounded(num, N) = down
      /\ 2 * rest > N => Rounded(num, N) = down + 1
  <2> HIDE DEF num
  <2> QED
    BY <1>1, <1>3, <1>4, RoundedIs
<1>6. CASE Rounded(num, N) = 0
  <2>1. down = 0 /\ ~(2 * rest > N)
    BY <1>1, <1>5, <1>6
  <2>2. num = rest
    BY <1>1, <1>4, <2>1
  <2> HIDE DEF num
  <2>3. 2 * D <= N
    BY <1>1, <1>3, <1>4, <2>1, <2>2
  <2> QED
    BY <2>3 DEF N, D, n
<1>7. CASE Rounded(num, N) = D
  <2> DEFINE y == D * (N - j)
             below == (D - 1) * N
  <2>1. num = below + (N - y) /\ y \in Int /\ below \in Int /\ D * N \in Int
        /\ D * N = below + N
    <3>1. D * (N - j) = D * N - D * j /\ (D - 1) * N = D * N - N /\ D * N \in Int
          /\ D * (N - j) \in Int /\ D * j \in Int
      BY <1>1
    <3> DEFINE whole == D * N
               z == D * j
    <3> HIDE DEF whole, z
    <3>2. y = whole - z /\ below = whole - N /\ whole \in Int /\ z \in Int /\ num = z
      BY <3>1 DEF whole, z
    <3> HIDE DEF y, below, num
    <3>3. num = below + (N - y) /\ y \in Int /\ below \in Int /\ whole = below + N
      BY <1>1, <3>2
    <3> QED
      BY <3>1, <3>3 DEF whole
  <2>2. y >= D
    <3>1. D * (N - j - 1) >= 0 /\ y = D * (N - j - 1) + D /\ D * (N - j - 1) \in Int
      BY <1>1
    <3> DEFINE more == D * (N - j - 1)
    <3> HIDE DEF more, y
    <3>2. more \in Int /\ more >= 0 /\ y = more + D
      BY <3>1 DEF more
    <3> QED
      BY <1>1, <3>2
  <2>3. num < D * N
    <3> HIDE DEF num, y, below
    <3> QED
      BY <1>1, <2>1, <2>2
  <2>4. num \div N = down
    <3> HIDE DEF num
    <3> QED
      BY <1>1, <1>3, <1>4, Quotient
  <2>5. down < D
    <3> HIDE DEF num
    <3>1. num \div N < D <=> num < D * N
      BY <1>1, <1>3, Division
    <3> QED
      BY <2>3, <2>4, <3>1
  <2>6. down = D - 1 /\ ~(2 * rest < N)
    BY <1>1, <1>5, <1>7, <2>5
  <2>7. num = below + rest
    BY <1>4, <2>6
  <2>8. rest = N - y
    <3> HIDE DEF num, y, below
    <3> QED
      BY <1>1, <1>4, <2>1, <2>7
  <2>9. 2 * D <= N
    <3> HIDE DEF num, y, below
    <3> QED
      BY <1>1, <1>4, <2>1, <2>2, <2>6, <2>8
  <2> QED
    BY <2>9 DEF N, D, n
<1> QED
  BY <1>2, <1>6, <1>7 DEF D

LEMMA FixedTyped ==
  ASSUME NEW cell \in Cells
  PROVE  FixedTimes(cell) \in [1 .. cell.count -> Int]
<1>1. \A i \in 1 .. cell.count : FixedTimes(cell)[i] \in Int
  BY FixedInWindow, WindowIsNumber
<1>2. FixedTimes(cell) = [i \in 1 .. cell.count |-> FixedTimes(cell)[i]]
  BY DEF FixedTimes
<1> HIDE DEF FixedTimes
<1> QED
  BY <1>1, <1>2

\* Every jittered time is a fixed one, moved and kept within the window.
LEMMA JitteredMoved ==
  ASSUME NEW cell \in Cells, NEW times \in JitteredTimes(cell)
  PROVE  /\ times \in [1 .. cell.count -> Int]
         /\ \A i \in 1 .. cell.count :
              \E j \in 1 .. cell.count, d \in (-cell.jitter) .. cell.jitter :
                times[i] = ClampTime(FixedTimes(cell)[j] + d)
<1> DEFINE n == cell.count
           F == FixedTimes(cell)
           moves == (-cell.jitter) .. cell.jitter
<1>1. PICK d \in [1 .. n -> moves] :
        times = Ascending([i \in 1 .. n |-> ClampTime(F[i] + d[i])])
  BY DEF JitteredTimes
<1>2. \A i \in 1 .. n : F[i] \in Int /\ d[i] \in Int /\ d[i] \in moves
  <2>1. F \in [1 .. n -> Int]
    BY FixedTyped
  <2>2. \A m \in moves : m \in Int
    BY CellFields
  <2> HIDE DEF F, moves
  <2> QED
    BY <2>1, <2>2
<1> DEFINE f == [i \in 1 .. n |-> ClampTime(F[i] + d[i])]
<1>3. f \in [1 .. n -> Int] /\ \A i \in 1 .. n : f[i] = ClampTime(F[i] + d[i])
  <2>1. \A i \in 1 .. n : ClampTime(F[i] + d[i]) \in Int
    <3> TAKE i \in 1 .. n
    <3>1. F[i] + d[i] \in Int
      BY <1>2
    <3> QED
      BY <3>1, Clamped, WindowIsNumber
  <2> QED
    BY <2>1
<1>4. times = Ascending(f) /\ n \in Nat
  BY <1>1, CellFields
<1> HIDE DEF f, n
<1>5. \A k \in 1 .. n : Ascending(f)[k] \in Int /\ \E i \in 1 .. n : f[i] = Ascending(f)[k]
  <2> TAKE k \in 1 .. n
  <2> QED
    BY <1>3, <1>4, AscendingPlaces
<1>6. times = [k \in 1 .. n |-> times[k]]
  <2>1. DOMAIN f = 1 .. n
    BY <1>3
  <2> QED
    BY <1>4, <2>1 DEF Ascending
<1>7. times \in [1 .. n -> Int]
  BY <1>4, <1>5, <1>6
<1>8. ASSUME NEW i \in 1 .. n
      PROVE  \E j \in 1 .. n, m \in moves : times[i] = ClampTime(F[j] + m)
  <2>1. PICK j \in 1 .. n : f[j] = times[i]
    BY <1>4, <1>5
  <2>2. d[j] \in moves /\ times[i] = ClampTime(F[j] + d[j])
    BY <1>2, <1>3, <2>1
  <2> HIDE DEF moves, F
  <2> QED
    BY <2>2
<1> QED
  BY <1>7, <1>8 DEF n

LEMMA TimesTyped ==
  ASSUME NEW cell \in Cells, NEW times \in ChallengeTimes(cell)
  PROVE  /\ times.actual \in [1 .. cell.count -> Int]
         /\ times.predicted \in [1 .. cell.count -> Int]
<1>1. FixedTimes(cell) \in [1 .. cell.count -> Int]
  BY FixedTyped
<1>2. \A t \in JitteredTimes(cell) : t \in [1 .. cell.count -> Int]
  BY JitteredMoved
<1>3. \A t \in UniformTimes(cell) : t \in [1 .. cell.count -> Int]
  <2>1. \A k \in 1 .. (DeliverySeconds - 1) : k \in Int
    OBVIOUS
  <2> QED
    BY <2>1 DEF UniformTimes
<1>4. cell.schedule \in Schedules
  BY CellFields
<1>5. \/ times.actual = FixedTimes(cell) \/ times.actual \in JitteredTimes(cell)
      \/ times.actual \in UniformTimes(cell)
  BY <1>4 DEF ChallengeTimes, Schedules
<1>6. times.predicted = FixedTimes(cell) \/ times.predicted \in JitteredTimes(cell)
  BY <1>4 DEF ChallengeTimes, Schedules
<1> QED
  BY <1>1, <1>2, <1>3, <1>5, <1>6

LEMMA HonestAround ==
  ASSUME NEW n \in Nat, NEW predicted \in [1 .. n -> Int], NEW j \in 1 .. n, NEW t, NEW radius,
         t - predicted[j] <= radius, predicted[j] - t <= radius
  PROVE  IsHonestAt(t, predicted, radius)
BY DEF IsHonestAt, ToSet

\* A time moved no further than the provider's honest stretch is in one, also
\* where the window ends.
LEMMA MovedIsHonest ==
  ASSUME NEW cell \in Cells, NEW j \in 1 .. cell.count, NEW d \in Int,
         d <= cell.radius, -d <= cell.radius
  PROVE  IsHonestAt(ClampTime(FixedTimes(cell)[j] + d), FixedTimes(cell), cell.radius)
<1> DEFINE n == cell.count
           D == DeliverySeconds
           F == FixedTimes(cell)
           r == cell.radius
           t == ClampTime(F[j] + d)
<1>1. n \in Nat /\ r \in Nat /\ D \in Nat /\ D >= 60 /\ F \in [1 .. n -> Int]
  BY CellFields, WindowIsNumber, FixedTyped
<1>2. F[j] \in Int /\ F[j] >= 0 /\ F[j] <= D
  BY <1>1, FixedInWindow
<1>3. t = IF F[j] + d < 1 THEN 1 ELSE IF F[j] + d > D - 1 THEN D - 1 ELSE F[j] + d
  <2>1. F[j] + d \in Int
    BY <1>2
  <2> QED
    BY <2>1, Clamped
<1> DEFINE x == F[j]
<1>4. CASE x \in 1 .. D - 1
  <2>1. t - x <= r /\ x - t <= r
    <3>1. x \in Int /\ x >= 1 /\ x <= D - 1 /\ d <= r /\ -d <= r
          /\ t = IF x + d < 1 THEN 1 ELSE IF x + d > D - 1 THEN D - 1 ELSE x + d
      BY <1>2, <1>3, <1>4
    <3> HIDE DEF t, x, D, r
    <3> QED
      BY <1>1, <3>1
  <2> HIDE DEF t, F, r
  <2>2. IsHonestAt(t, F, r)
    BY <1>1, <2>1, HonestAround
  <2> QED
    BY <2>2 DEF t, F, r
<1>5. CASE x \in {0, D}
  <2>1. 2 * D <= n + 1
    BY <1>5, EndsAreDense
  <2>2. /\ \E i \in 1 .. n : F[i] = 1
        /\ \E i \in 1 .. n : F[i] = D - 1
    BY <2>1, Density
  <2>3. t = 1 \/ t = D - 1 \/ t = x + d
    BY <1>3
  <2>4. ASSUME t = x + d PROVE IsHonestAt(t, F, r)
    <3>1. t - x <= r /\ x - t <= r
      <4>1. x \in Int /\ d <= r /\ -d <= r
        BY <1>2
      <4> HIDE DEF t, x, r
      <4> QED
        BY <1>1, <2>4, <4>1
    <3> HIDE DEF t, F, r
    <3> QED
      BY <1>1, <3>1, HonestAround
  <2>5. ASSUME NEW i \in 1 .. n, F[i] = t PROVE IsHonestAt(t, F, r)
    <3>1. F[i] \in Int
      BY <1>1
    <3>2. t - F[i] <= r /\ F[i] - t <= r
      <4> HIDE DEF t, F, r
      <4> QED
        BY <1>1, <2>5, <3>1
    <3> HIDE DEF t, F, r
    <3> QED
      BY <1>1, <3>2, HonestAround
  <2> HIDE DEF t, F, r, D
  <2>6. IsHonestAt(t, F, r)
    BY <2>2, <2>3, <2>4, <2>5
  <2> QED
    BY <2>6 DEF t, F, r
<1>6. x \in 1 .. D - 1 \/ x \in {0, D}
  <2> HIDE DEF x, D
  <2>1. x \in Int /\ x >= 0 /\ x <= D
    BY <1>2 DEF x
  <2> QED
    BY <1>1, <2>1
<1> QED
  BY <1>4, <1>5, <1>6

\* No challenge of a predictable schedule catches the provider.
LEMMA PredictedIsHonest ==
  ASSUME NEW cell \in Cells, Predictable(cell), NEW times \in ChallengeTimes(cell),
         NEW i \in 1 .. cell.count
  PROVE  IsHonestAt(times.actual[i], times.predicted, cell.radius)
<1>1. /\ cell.count \in Nat /\ cell.radius \in Nat /\ cell.jitter \in Nat
      /\ times.actual \in [1 .. cell.count -> Int]
  BY CellFields, TimesTyped
<1>2. CASE times.predicted = times.actual
  <2>1. times.actual[i] \in Int
    BY <1>1
  <2>2. times.actual[i] - times.actual[i] <= cell.radius
    BY <1>1, <2>1
  <2> QED
    BY <1>1, <1>2, <2>2, HonestAround
<1>3. CASE cell.schedule = "hidden_jitter" /\ cell.jitter <= cell.radius
  <2>1. times.actual \in JitteredTimes(cell) /\ times.predicted = FixedTimes(cell)
    BY <1>3 DEF ChallengeTimes
  <2>2. PICK j \in 1 .. cell.count, d \in (-cell.jitter) .. cell.jitter :
          times.actual[i] = ClampTime(FixedTimes(cell)[j] + d)
    BY <2>1, JitteredMoved
  <2>3. d \in Int /\ d <= cell.radius /\ -d <= cell.radius
    BY <1>1, <1>3, <2>2
  <2> QED
    BY <2>1, <2>2, <2>3, MovedIsHonest
<1>4. cell.schedule \in {"fixed_periodic", "public_jitter"} => times.predicted = times.actual
  BY DEF ChallengeTimes
<1> QED
  BY <1>2, <1>3, <1>4 DEF Predictable

-----------------------------------------------------------------------------
(* The evidence of a trial. *)

\* One more entry
LEMMA Appended ==
  ASSUME NEW X, NEW e \in Seq(X), NEW x \in X
  PROVE  /\ Append(e, x) \in Seq(X) /\ Len(Append(e, x)) = Len(e) + 1
         /\ Append(e, x)[Len(e) + 1] = x
         /\ \A i \in 1 .. Len(e) : Append(e, x)[i] = e[i]
BY AppendProperties

LEMMA FourAppended ==
  ASSUME NEW a, NEW b, NEW c, NEW d
  PROVE  Append(Append(Append(Append(<<>>, a), b), c), d) = <<a, b, c, d>>
<1> DEFINE X == {a, b, c, d}
           s == Append(<<>>, a)
           t == Append(s, b)
           u == Append(t, c)
           v == Append(u, d)
           w == <<a, b, c, d>>
<1>1. a \in X /\ b \in X /\ c \in X /\ d \in X
  OBVIOUS
<1>2. w \in Seq(X) /\ Len(w) = 4 /\ w[1] = a /\ w[2] = b /\ w[3] = c /\ w[4] = d
  <2> HIDE DEF X
  <2> QED
    BY <1>1
<1>3. <<>> \in Seq(X) /\ Len(<<>>) = 0
  OBVIOUS
<1> HIDE DEF X, w
<1>4. s \in Seq(X) /\ Len(s) = 1 /\ s[1] = a
  <2>1. s \in Seq(X) /\ Len(s) = Len(<<>>) + 1 /\ s[Len(<<>>) + 1] = a
    BY <1>1, <1>3, Appended, SMT
  <2> HIDE DEF s
  <2> QED
    BY <1>3, <2>1
<1> HIDE DEF s
<1>5. t \in Seq(X) /\ Len(t) = 2 /\ t[1] = a /\ t[2] = b
  <2>1. t \in Seq(X)
    BY <1>1, <1>4, Appended
  <2>2. Len(t) = Len(s) + 1
    BY <1>1, <1>4, Appended
  <2>3. t[Len(s) + 1] = b
    BY <1>1, <1>4, Appended
  <2>4. \A i \in 1 .. Len(s) : t[i] = s[i]
    BY <1>1, <1>4, Appended
  <2> HIDE DEF t
  <2> QED
    BY <1>4, <2>1, <2>2, <2>3, <2>4
<1> HIDE DEF t
<1>6. u \in Seq(X) /\ Len(u) = 3 /\ u[1] = a /\ u[2] = b /\ u[3] = c
  <2>1. u \in Seq(X)
    BY <1>1, <1>5, Appended
  <2>2. Len(u) = Len(t) + 1
    BY <1>1, <1>5, Appended
  <2>3. u[Len(t) + 1] = c
    BY <1>1, <1>5, Appended
  <2>0. t \in Seq(X) /\ c \in X
    BY <1>1, <1>5
  <2>4. \A i \in 1 .. Len(t) : u[i] = t[i]
    BY <2>0, Appended
  <2> HIDE DEF u
  <2> QED
    BY <1>5, <2>1, <2>2, <2>3, <2>4
<1> HIDE DEF u
<1>7. v \in Seq(X) /\ Len(v) = 4 /\ v[1] = a /\ v[2] = b /\ v[3] = c /\ v[4] = d
  <2>1. v \in Seq(X)
    BY <1>1, <1>6, Appended
  <2>2. Len(v) = Len(u) + 1
    BY <1>1, <1>6, Appended
  <2>3. v[Len(u) + 1] = d
    BY <1>1, <1>6, Appended
  <2>0. u \in Seq(X) /\ d \in X
    BY <1>1, <1>6
  <2>4. \A i \in 1 .. Len(u) : v[i] = u[i]
    BY <2>0, Appended
  <2> HIDE DEF v
  <2> QED
    BY <1>6, <2>1, <2>2, <2>3, <2>4
<1> HIDE DEF v
<1>8. \A i \in 1 .. 4 : i = 1 \/ i = 2 \/ i = 3 \/ i = 4
  OBVIOUS
<1>9. v = w
  BY <1>2, <1>7, <1>8, SeqEqual
<1> QED
  BY <1>9 DEF v, u, t, s, w

\* What the trial keeps of the healthy evidence
LEMMA KeptRecords ==
  Keep(HealthyRecords, LAMBDA r : r.evidenceType # "CHALLENGE")
    = <<Bind, RuntimeCheck, Report, OkProbe>>
<1> DEFINE s == HealthyRecords
           K == {s[1], s[2], s[3], s[7]}
           Rest(kept) == kept = [i \in 0 .. Len(s) |->
                                   IF i = 0 THEN <<>>
                                   ELSE IF s[i].evidenceType # "CHALLENGE"
                                        THEN Append(kept[i - 1], s[i])
                                        ELSE kept[i - 1]]
           f == CHOOSE kept : Rest(kept)
<1>1. Keep(s, LAMBDA r : r.evidenceType # "CHALLENGE") = f[Len(s)]
  BY DEF Keep
<1>2. /\ Len(s) = 7 /\ s[1] = Bind /\ s[2] = RuntimeCheck /\ s[3] = Report
      /\ s[4].evidenceType = "CHALLENGE" /\ s[5].evidenceType = "CHALLENGE"
      /\ s[6].evidenceType = "CHALLENGE" /\ s[7] = OkProbe
  BY DEF HealthyRecords, Score, Rec
<1>3. /\ Bind.evidenceType # "CHALLENGE" /\ RuntimeCheck.evidenceType # "CHALLENGE"
      /\ Report.evidenceType # "CHALLENGE" /\ OkProbe.evidenceType # "CHALLENGE"
  BY DEF Bind, RuntimeCheck, Report, OkProbe, Rec
<1> HIDE DEF s
<1>4. \A i \in 0 .. 7 : i # 0 => (s[i] \in K <=> s[i].evidenceType # "CHALLENGE")
  <2> SUFFICES ASSUME NEW i \in 1 .. 7
               PROVE  s[i] \in K <=> s[i].evidenceType # "CHALLENGE"
    OBVIOUS
  <2>1. i = 1 \/ i = 2 \/ i = 3 \/ i = 4 \/ i = 5 \/ i = 6 \/ i = 7
    OBVIOUS
  <2>2. CASE i = 4 \/ i = 5 \/ i = 6
    BY <1>2, <1>3, <2>2
  <2>3. CASE i = 1 \/ i = 2 \/ i = 3 \/ i = 7
    BY <1>2, <1>3, <2>3
  <2> QED
    BY <2>1, <2>2, <2>3
<1>5. \A kept : Keeps(kept, s, K, 7) <=> Rest(kept)
  BY <1>2, <1>4 DEF Keeps
<1>6. \E kept : Keeps(kept, s, K, 7)
  <2> HIDE DEF K
  <2> QED
    BY KeepsExists
<1>7. Rest(f)
  BY <1>5, <1>6
<1> HIDE DEF f
<1>8. \A i \in 0 .. 7 : f[i] = IF i = 0 THEN <<>>
                                ELSE IF s[i].evidenceType # "CHALLENGE"
                                     THEN Append(f[i - 1], s[i]) ELSE f[i - 1]
  BY <1>2, <1>7
<1> HIDE DEF Rest, K
<1>9. /\ f[0] = <<>> /\ f[1] = Append(f[0], Bind) /\ f[2] = Append(f[1], RuntimeCheck)
      /\ f[3] = Append(f[2], Report) /\ f[4] = f[3] /\ f[5] = f[4] /\ f[6] = f[5]
      /\ f[7] = Append(f[6], OkProbe)
  <2>1. f[0] = <<>>
    BY ONLY <1>8
  <2>2. \A i \in 1 .. 7 : f[i] = IF s[i].evidenceType # "CHALLENGE"
                                 THEN Append(f[i - 1], s[i]) ELSE f[i - 1]
    BY ONLY <1>8
  <2>3. /\ 1 \in 1 .. 7 /\ 2 \in 1 .. 7 /\ 3 \in 1 .. 7 /\ 4 \in 1 .. 7 /\ 5 \in 1 .. 7
        /\ 6 \in 1 .. 7 /\ 7 \in 1 .. 7
        /\ 1 - 1 = 0 /\ 2 - 1 = 1 /\ 3 - 1 = 2 /\ 4 - 1 = 3 /\ 5 - 1 = 4 /\ 6 - 1 = 5
        /\ 7 - 1 = 6
    OBVIOUS
  <2>4. f[1] = Append(f[0], Bind)
    BY <1>2, <1>3, <2>2, <2>3
  <2>5. f[2] = Append(f[1], RuntimeCheck)
    BY <1>2, <1>3, <2>2, <2>3
  <2>6. f[3] = Append(f[2], Report)
    BY <1>2, <1>3, <2>2, <2>3
  <2>7. f[4] = f[3] /\ f[5] = f[4] /\ f[6] = f[5]
    BY <1>2, <2>2, <2>3
  <2>8. f[7] = Append(f[6], OkProbe)
    BY <1>2, <1>3, <2>2, <2>3
  <2> QED
    BY <2>1, <2>4, <2>5, <2>6, <2>7, <2>8
<1>10. f[7] = Append(Append(Append(Append(<<>>, Bind), RuntimeCheck), Report), OkProbe)
  BY <1>9
<1>11. f[7] = <<Bind, RuntimeCheck, Report, OkProbe>>
  BY <1>10, FourAppended
<1> QED
  BY <1>1, <1>2, <1>11 DEF s

\* Challenge k is answered well
Honest(cell, times, k) == IsHonestAt(times.actual[k], times.predicted, cell.radius)

\* What the verifier can see in the records of a trial
TrialFields(records, cell, times) ==
  /\ DOMAIN records = 1 .. 4 + cell.count
  /\ \A i \in 1 .. 4 + cell.count :
       /\ records[i].contractId = DemoContract.contractId
       /\ records[i].sessionId = DemoContract.sessionId
       /\ records[i].authenticationValid
  /\ records[1].evidenceType = "SESSION_BINDING"
  /\ records[2].evidenceType = "RUNTIME_CHECK" /\ records[2].finding = "COMPATIBLE"
  /\ records[3].evidenceType = "TELEMETRY" /\ records[3].finding = "HEALTHY"
  /\ records[4].evidenceType = "EXTERNAL_PROBE" /\ records[4].finding = "SUCCESS"
  /\ records[1].sequenceNumber = 1 /\ records[2].sequenceNumber = 2
  /\ records[3].sequenceNumber = 3 /\ records[4].sequenceNumber = 7
  /\ records[1].evidenceId = "bind-1" /\ records[2].evidenceId = "runtime-1"
  /\ records[3].evidenceId = "telemetry-1" /\ records[4].evidenceId = "probe-1"
  /\ \A k \in 1 .. cell.count :
       /\ records[4 + k].evidenceType = "CHALLENGE" /\ records[4 + k].finding = "SCORED"
       /\ records[4 + k].evidenceId = ChallengeIds[k]
       /\ records[4 + k].sequenceNumber = 99 + k
       /\ records[4 + k].score = IF Honest(cell, times, k) THEN HonestScore ELSE CheatScore

LEMMA TrialRecords ==
  ASSUME NEW cell \in Cells, NEW times
  PROVE  TrialFields(ChallengeAwareBundle(times, cell).records, cell, times)
<1> DEFINE n == cell.count
           P == <<Bind, RuntimeCheck, Report, OkProbe>>
           chal(k) == ChallengeRecord(k, times.actual[k], Honest(cell, times, k))
           Q == [k \in 1 .. n |-> chal(k)]
           X == {Bind, RuntimeCheck, Report, OkProbe} \cup {chal(k) : k \in 1 .. n}
           records == ChallengeAwareBundle(times, cell).records
<1>1. n \in Nat /\ n >= 2
  BY CellFields
<1>2. records = P \o Q
  BY KeptRecords DEF ChallengeAwareBundle, Bundle, Honest
<1>3. /\ P[1] = Bind /\ P[2] = RuntimeCheck /\ P[3] = Report /\ P[4] = OkProbe
      /\ P \in Seq(X) /\ Len(P) = 4
  <2> DEFINE a == Bind
             b == RuntimeCheck
             c == Report
             d == OkProbe
  <2>1. P = <<a, b, c, d>> /\ a \in X /\ b \in X /\ c \in X /\ d \in X
    OBVIOUS
  <2> HIDE DEF X, a, b, c, d
  <2> QED
    BY <2>1 DEF a, b, c, d
<1>4. Q \in Seq(X) /\ Len(Q) = n /\ \A k \in 1 .. n : Q[k] = chal(k)
  <2> HIDE DEF chal, n
  <2> QED
    BY <1>1
<1> HIDE DEF records, P, Q, X, chal, n
<1>5. /\ DOMAIN records = 1 .. 4 + n
      /\ \A i \in 1 .. 4 : records[i] = P[i]
      /\ \A k \in 1 .. n : records[4 + k] = Q[k]
  <2>1. /\ P \o Q \in Seq(X) /\ Len(P \o Q) = Len(P) + Len(Q)
        /\ \A i \in 1 .. Len(P) : (P \o Q)[i] = P[i]
        /\ \A i \in Len(P) + 1 .. Len(P) + Len(Q) : (P \o Q)[i] = Q[i - Len(P)]
    BY <1>3, <1>4, Concatenation
  <2>2. /\ P \o Q \in Seq(X) /\ Len(P \o Q) = 4 + n
        /\ \A i \in 1 .. 4 : (P \o Q)[i] = P[i]
        /\ \A i \in 4 + 1 .. 4 + n : (P \o Q)[i] = Q[i - 4]
    BY <1>3, <1>4, <2>1, Zenon
  <2>3. \A k \in 1 .. n : 4 + k \in 4 + 1 .. 4 + n /\ (4 + k) - 4 = k
    BY <1>1
  <2>4. DOMAIN (P \o Q) = 1 .. 4 + n
    BY <2>2
  <2> QED
    BY <1>2, <2>2, <2>3, <2>4
<1>6. /\ records[1] = Bind /\ records[2] = RuntimeCheck /\ records[3] = Report
      /\ records[4] = OkProbe
      /\ \A k \in 1 .. n : records[4 + k] = chal(k)
  BY <1>3, <1>4, <1>5
<1>7. /\ Bind.contractId = DemoContract.contractId /\ Bind.sessionId = DemoContract.sessionId
      /\ Bind.authenticationValid /\ Bind.evidenceType = "SESSION_BINDING"
      /\ Bind.sequenceNumber = 1 /\ Bind.evidenceId = "bind-1"
  BY DEF Bind, Rec
<1>8. /\ RuntimeCheck.contractId = DemoContract.contractId
      /\ RuntimeCheck.sessionId = DemoContract.sessionId
      /\ RuntimeCheck.authenticationValid /\ RuntimeCheck.evidenceType = "RUNTIME_CHECK"
      /\ RuntimeCheck.finding = "COMPATIBLE"
      /\ RuntimeCheck.sequenceNumber = 2 /\ RuntimeCheck.evidenceId = "runtime-1"
  BY DEF RuntimeCheck, Rec
<1>9. /\ Report.contractId = DemoContract.contractId
      /\ Report.sessionId = DemoContract.sessionId
      /\ Report.authenticationValid /\ Report.evidenceType = "TELEMETRY"
      /\ Report.finding = "HEALTHY"
      /\ Report.sequenceNumber = 3 /\ Report.evidenceId = "telemetry-1"
  BY DEF Report, Rec
<1>10. /\ OkProbe.contractId = DemoContract.contractId
       /\ OkProbe.sessionId = DemoContract.sessionId
       /\ OkProbe.authenticationValid /\ OkProbe.evidenceType = "EXTERNAL_PROBE"
       /\ OkProbe.finding = "SUCCESS"
       /\ OkProbe.sequenceNumber = 7 /\ OkProbe.evidenceId = "probe-1"
  BY DEF OkProbe, Rec
<1>11. \A k : /\ chal(k).contractId = DemoContract.contractId
              /\ chal(k).sessionId = DemoContract.sessionId
              /\ chal(k).authenticationValid /\ chal(k).evidenceType = "CHALLENGE"
              /\ chal(k).finding = "SCORED" /\ chal(k).evidenceId = ChallengeIds[k]
              /\ chal(k).sequenceNumber = 99 + k
              /\ chal(k).score = IF Honest(cell, times, k) THEN HonestScore ELSE CheatScore
  BY DEF chal, ChallengeRecord, Rec
<1>12. ASSUME NEW i \in 1 .. 4 + n
       PROVE  /\ records[i].contractId = DemoContract.contractId
              /\ records[i].sessionId = DemoContract.sessionId
              /\ records[i].authenticationValid
  <2>1. CASE i = 1 \/ i = 2 \/ i = 3 \/ i = 4
    BY <1>6, <1>7, <1>8, <1>9, <1>10, <2>1
  <2>2. CASE i - 4 \in 1 .. n
    <3> DEFINE k == i - 4
    <3>1. k \in 1 .. n /\ i = 4 + k
      BY <1>1, <2>2
    <3> HIDE DEF k
    <3> QED
      BY <1>6, <1>11, <3>1
  <2>3. i = 1 \/ i = 2 \/ i = 3 \/ i = 4 \/ i - 4 \in 1 .. n
    BY <1>1
  <2> QED
    BY <2>1, <2>2, <2>3
<1>13. TrialFields(records, cell, times)
  BY <1>5, <1>6, <1>7, <1>8, <1>9, <1>10, <1>11, <1>12 DEF TrialFields, n
<1> QED
  BY <1>13 DEF records

\* All claims but the one on performance are affirmed in every trial.
LEMMA TrialClaims ==
  ASSUME NEW cell \in Cells, NEW times, NEW b, TrialFields(b.records, cell, times),
         b.contractId = DemoContract.contractId, b.sessionId = DemoContract.sessionId, NEW p
  PROVE  /\ BindingClaim(DemoContract, b, p) = "AFFIRMING"
         /\ RuntimeClaim(DemoContract, b) = "AFFIRMING"
         /\ AvailabilityClaim(DemoContract, b) = "AFFIRMING"
         /\ Scored(DemoContract, b) = 5 .. 4 + cell.count
<1> DEFINE n == cell.count
           records == b.records
           c == DemoContract
<1>1. /\ n \in Nat /\ n >= 2 /\ DOMAIN records = 1 .. 4 + n
      /\ b.contractId = c.contractId /\ b.sessionId = c.sessionId
      /\ \A i \in 1 .. 4 + n :
           /\ records[i].contractId = c.contractId /\ records[i].sessionId = c.sessionId
           /\ records[i].authenticationValid
      /\ records[1].evidenceType = "SESSION_BINDING"
      /\ records[2].evidenceType = "RUNTIME_CHECK" /\ records[2].finding = "COMPATIBLE"
      /\ records[3].evidenceType = "TELEMETRY" /\ records[3].finding = "HEALTHY"
      /\ records[4].evidenceType = "EXTERNAL_PROBE" /\ records[4].finding = "SUCCESS"
      /\ \A k \in 1 .. n : /\ records[4 + k].evidenceType = "CHALLENGE"
                           /\ records[4 + k].finding = "SCORED"
  BY CellFields DEF TrialFields
<1> HIDE DEF n, records, c
<1>2. 1 \in 1 .. 4 + n /\ 2 \in 1 .. 4 + n /\ 3 \in 1 .. 4 + n /\ 4 \in 1 .. 4 + n
  BY <1>1
<1>3. \A i \in 1 .. 4 + n : i \in 5 .. 4 + n \/ i = 1 \/ i = 2 \/ i = 3 \/ i = 4
  BY <1>1
<1>4. \A i \in 5 .. 4 + n : /\ i \in 1 .. 4 + n
                            /\ records[i].evidenceType = "CHALLENGE"
                            /\ records[i].finding = "SCORED"
  <2> TAKE i \in 5 .. 4 + n
  <2> DEFINE k == i - 4
  <2>1. k \in 1 .. n /\ i = 4 + k /\ i \in 1 .. 4 + n
    BY <1>1
  <2> HIDE DEF k
  <2> QED
    BY <1>1, <2>1
<1>5. /\ Of(b, "SESSION_BINDING") = {1} /\ Of(b, "RUNTIME_CHECK") = {2}
      /\ Of(b, "TELEMETRY") = {3} /\ Of(b, "EXTERNAL_PROBE") = {4}
      /\ Of(b, "CHALLENGE") = 5 .. 4 + n
  <2>1. /\ 1 \notin 5 .. 4 + n /\ 2 \notin 5 .. 4 + n /\ 3 \notin 5 .. 4 + n
        /\ 4 \notin 5 .. 4 + n
    OBVIOUS
  <2>2. \A type : Of(b, type) = {i \in 1 .. 4 + n : records[i].evidenceType = type}
    BY <1>1 DEF Of, records
  <2>3. \A i \in 1 .. 4 + n :
          /\ records[i].evidenceType = "SESSION_BINDING" <=> i = 1
          /\ records[i].evidenceType = "RUNTIME_CHECK" <=> i = 2
          /\ records[i].evidenceType = "TELEMETRY" <=> i = 3
          /\ records[i].evidenceType = "EXTERNAL_PROBE" <=> i = 4
          /\ records[i].evidenceType = "CHALLENGE" <=> i \in 5 .. 4 + n
    <3> SUFFICES ASSUME NEW i \in 1 .. 4 + n
                 PROVE  /\ records[i].evidenceType = "SESSION_BINDING" <=> i = 1
                        /\ records[i].evidenceType = "RUNTIME_CHECK" <=> i = 2
                        /\ records[i].evidenceType = "TELEMETRY" <=> i = 3
                        /\ records[i].evidenceType = "EXTERNAL_PROBE" <=> i = 4
                        /\ records[i].evidenceType = "CHALLENGE" <=> i \in 5 .. 4 + n
      OBVIOUS
    <3>1. CASE i \in 5 .. 4 + n
      BY <1>4, <2>1, <3>1
    <3>2. CASE i = 1 \/ i = 2 \/ i = 3 \/ i = 4
      BY <1>1, <2>1, <3>2
    <3> QED
      BY <1>3, <3>1, <3>2
  <2>4. \A i \in 5 .. 4 + n : i \in 1 .. 4 + n
    BY <1>1
  <2>5. Of(b, "CHALLENGE") = 5 .. 4 + n
    <3>1. Of(b, "CHALLENGE") = {i \in 1 .. 4 + n : i \in 5 .. 4 + n}
      BY <2>2, <2>3
    <3> QED
      BY <2>4, <3>1
  <2>6. Of(b, "SESSION_BINDING") = {1}
    BY <1>2, <2>2, <2>3
  <2>7. Of(b, "RUNTIME_CHECK") = {2}
    BY <1>2, <2>2, <2>3
  <2>8. Of(b, "TELEMETRY") = {3}
    BY <1>2, <2>2, <2>3
  <2>9. Of(b, "EXTERNAL_PROBE") = {4}
    BY <1>2, <2>2, <2>3
  <2> QED
    BY <2>5, <2>6, <2>7, <2>8, <2>9
<1>6. \A type : Genuine(c, b, type) = Of(b, type)
  <2>1. \A type : \A i \in Of(b, type) : i \in 1 .. 4 + n
    BY <1>1 DEF Of, records
  <2> QED
    BY <1>1, <2>1 DEF Genuine, records
<1>7. BindingClaim(c, b, p) = "AFFIRMING"
  <2>1. ~NonceReplayed(b, {1})
    BY DEF NonceReplayed
  <2> QED
    BY <1>1, <1>2, <1>5, <2>1 DEF BindingClaim, records
<1>8. RuntimeClaim(c, b) = "AFFIRMING"
  <2>1. Genuine(c, b, "RUNTIME_CHECK") = {2}
    BY <1>5, <1>6
  <2>2. Saying(b, {2}, {"INCOMPATIBLE"}) = {}
    BY <1>1 DEF Saying, records
  <2> QED
    BY <2>1, <2>2 DEF RuntimeClaim
<1>9. Scored(c, b) = 5 .. 4 + n
  BY <1>4, <1>5, <1>6 DEF Scored, Saying, records
<1>10. AvailabilityClaim(c, b) = "AFFIRMING"
  <2>1. FailedProbes(c, b) = {} /\ AmbiguousProbes(c, b) = {}
    BY <1>1, <1>5, <1>6 DEF FailedProbes, AmbiguousProbes, Saying, records
  <2>2. 3 \in HealthyTelemetry(c, b)
    BY <1>1, <1>5, <1>6 DEF HealthyTelemetry, Saying, records
  <2>3. 4 \in Contacts(c, b)
    BY <1>1, <1>5, <1>6 DEF Contacts, Saying, records
  <2> QED
    BY <2>1, <2>2, <2>3 DEF AvailabilityClaim
<1> QED
  BY <1>7, <1>8, <1>9, <1>10 DEF n, c

\* Neither numbers nor ids of the records of a trial repeat.
LEMMA TrialRepeatsNothing ==
  ASSUME NEW cell \in Cells, NEW times, NEW b, TrialFields(b.records, cell, times)
  PROVE  ~Repeated(b)
<1> DEFINE n == cell.count
           records == b.records
<1>1. /\ n \in Nat /\ DOMAIN records = 1 .. 4 + n
      /\ n <= Len(ChallengeIds) /\ Len(ChallengeIds) \in Nat
      /\ DOMAIN ChallengeIds = 1 .. Len(ChallengeIds)
      /\ records[1].sequenceNumber = 1 /\ records[2].sequenceNumber = 2
      /\ records[3].sequenceNumber = 3 /\ records[4].sequenceNumber = 7
      /\ records[1].evidenceId = "bind-1" /\ records[2].evidenceId = "runtime-1"
      /\ records[3].evidenceId = "telemetry-1" /\ records[4].evidenceId = "probe-1"
      /\ \A k \in 1 .. n : /\ records[4 + k].evidenceId = ChallengeIds[k]
                           /\ records[4 + k].sequenceNumber = 99 + k
  BY CellFields DEF TrialFields
<1>2. /\ DOMAIN HealthyRecords = 1 .. 7
      /\ HealthyRecords[1].evidenceId = "bind-1" /\ HealthyRecords[2].evidenceId = "runtime-1"
      /\ HealthyRecords[3].evidenceId = "telemetry-1" /\ HealthyRecords[7].evidenceId = "probe-1"
  BY DEF HealthyRecords, Bind, RuntimeCheck, Report, OkProbe, Rec
<1> HIDE DEF n, records
<1>3. \A k \in 1 .. n : k \in DOMAIN ChallengeIds
  BY <1>1
<1>4. \A k, l \in 1 .. n : k # l => ChallengeIds[k] # ChallengeIds[l]
  BY <1>3, ChallengeIdsAssumption
<1>5. \A k \in 1 .. n : ChallengeIds[k] \notin {"bind-1", "runtime-1", "telemetry-1", "probe-1"}
  <2> TAKE k \in 1 .. n
  <2>1. \A i \in 1 .. 7 : ChallengeIds[k] # HealthyRecords[i].evidenceId
    BY <1>2, <1>3, ChallengeIdsAssumption
  <2> QED
    BY <1>2, <2>1
<1>6. ASSUME NEW i \in 1 .. 4 + n, NEW j \in 1 .. 4 + n, i # j
      PROVE  /\ records[i].evidenceId # records[j].evidenceId
             /\ records[i].sequenceNumber # records[j].sequenceNumber
  <2> DEFINE k == i - 4
             l == j - 4
  <2>1. i \in 1 .. 4 \/ (k \in 1 .. n /\ i = 4 + k)
    BY <1>1
  <2>2. j \in 1 .. 4 \/ (l \in 1 .. n /\ j = 4 + l)
    BY <1>1
  <2> HIDE DEF k, l
  <2>3. CASE i \in 1 .. 4 /\ j \in 1 .. 4
    BY <1>1, <1>6, <2>3
  <2>4. CASE k \in 1 .. n /\ i = 4 + k /\ l \in 1 .. n /\ j = 4 + l
    <3>1. k # l
      BY <1>6, <2>4
    <3>2. records[i].evidenceId # records[j].evidenceId
      BY <1>1, <1>4, <2>4, <3>1
    <3>3. records[i].sequenceNumber = 99 + k /\ records[j].sequenceNumber = 99 + l
      BY <1>1, <2>4
    <3> QED
      BY <1>1, <2>4, <3>1, <3>2, <3>3
  <2>5. CASE i \in 1 .. 4 /\ l \in 1 .. n /\ j = 4 + l
    <3>1. records[j].evidenceId = ChallengeIds[l] /\ records[j].sequenceNumber = 99 + l
      BY <1>1, <2>5
    <3>2. /\ records[i].evidenceId \in {"bind-1", "runtime-1", "telemetry-1", "probe-1"}
          /\ records[i].sequenceNumber \in {1, 2, 3, 7}
      BY <1>1, <2>5
    <3> QED
      BY <1>1, <1>5, <2>5, <3>1, <3>2
  <2>6. CASE j \in 1 .. 4 /\ k \in 1 .. n /\ i = 4 + k
    <3>1. records[i].evidenceId = ChallengeIds[k] /\ records[i].sequenceNumber = 99 + k
      BY <1>1, <2>6
    <3>2. /\ records[j].evidenceId \in {"bind-1", "runtime-1", "telemetry-1", "probe-1"}
          /\ records[j].sequenceNumber \in {1, 2, 3, 7}
      BY <1>1, <2>6
    <3> QED
      BY <1>1, <1>5, <2>6, <3>1, <3>2
  <2> QED
    BY <2>1, <2>2, <2>3, <2>4, <2>5, <2>6
<1> QED
  BY <1>1, <1>6 DEF Repeated, records

\* The challenges of a trial that catch the provider
Caught(times, cell) == {k \in 1 .. cell.count : ~Honest(cell, times, k)}

\* The challenges below the floor are those that catch the provider, if the floor
\* lies between its two scores.
LEMMA TrialBreaches ==
  ASSUME NEW cell \in Cells, NEW times, NEW b, TrialFields(b.records, cell, times),
         Scored(DemoContract, b) = 5 .. 4 + cell.count,
         HonestScore >= DemoContract.performanceMinScore
  PROVE  /\ Caught(times, cell) = {} => Breaching(DemoContract, b) = {}
         /\ CheatScore < DemoContract.performanceMinScore =>
              /\ Cardinality(Breaching(DemoContract, b)) = Cardinality(Caught(times, cell))
              /\ Breaching(DemoContract, b) = {} => Caught(times, cell) = {}
<1> DEFINE n == cell.count
           records == b.records
           B == Breaching(DemoContract, b)
           W == Caught(times, cell)
           floor == DemoContract.performanceMinScore
           caught(k) == ~Honest(cell, times, k)
<1>1. /\ n \in Nat
      /\ \A k \in 1 .. n : records[4 + k].score = IF caught(k) THEN CheatScore ELSE HonestScore
  BY CellFields DEF TrialFields
<1>2. floor \in Nat /\ HonestScore >= floor /\ HonestScore \in Nat /\ CheatScore \in Nat
  BY ChallengeAssumption DEF DemoContract
<1>3. W = {k \in 1 .. n : caught(k)}
  BY DEF Caught
<1>4. B = {i \in 5 .. 4 + n : records[i].score < floor}
  BY DEF Breaching
<1>5. \A i \in 5 .. 4 + n : i - 4 \in 1 .. n /\ i = 4 + (i - 4)
  <2> HIDE DEF n
  <2> QED
    BY <1>1
<1>6. \A k \in 1 .. n : 4 + k \in 5 .. 4 + n /\ (4 + k) - 4 = k
  <2> HIDE DEF n
  <2> QED
    BY <1>1
<1>7. (CheatScore < DemoContract.performanceMinScore) <=> (CheatScore < floor)
  OBVIOUS
<1> HIDE DEF n, records, B, W, floor, caught
<1>8. \A i \in B : i - 4 \in W
  <2> SUFFICES ASSUME NEW i \in B PROVE i - 4 \in W
    OBVIOUS
  <2> DEFINE k == i - 4
  <2>1. k \in 1 .. n /\ i = 4 + k
    BY <1>4, <1>5
  <2> HIDE DEF k
  <2>2. records[4 + k].score < floor
    BY <1>4, <2>1
  <2>3. caught(k)
    BY <1>1, <1>2, <2>1, <2>2
  <2>4. k \in W
    BY <1>3, <2>1, <2>3
  <2> QED
    BY <2>4 DEF k
<1>9. W = {} => B = {}
  BY <1>8
<1>10. ASSUME CheatScore < floor
       PROVE  /\ Cardinality(B) = Cardinality(W)
              /\ B = {} => W = {}
  <2>1. \A k \in W : 4 + k \in B /\ (4 + k) - 4 = k
    <3> SUFFICES ASSUME NEW k \in W PROVE 4 + k \in B /\ (4 + k) - 4 = k
      OBVIOUS
    <3>1. k \in 1 .. n /\ caught(k)
      BY <1>3
    <3>2. records[4 + k].score = CheatScore
      BY <1>1, <3>1
    <3> QED
      BY <1>4, <1>6, <1>10, <3>1, <3>2
  <2> DEFINE f == [i \in B |-> i - 4]
  <2>2. f \in [B -> W]
    BY <1>8
  <2>3. \A i, j \in B : f[i] = f[j] => i = j
    <3> SUFFICES ASSUME NEW i \in B, NEW j \in B, f[i] = f[j] PROVE i = j
      OBVIOUS
    <3>1. i - 4 = j - 4
      OBVIOUS
    <3>2. i = 4 + (i - 4) /\ j = 4 + (j - 4)
      BY <1>4, <1>5
    <3> QED
      BY <3>1, <3>2
  <2>4. \A w \in W : \E i \in B : f[i] = w
    BY <2>1
  <2> HIDE DEF f
  <2>5. ExistsBijection(B, W)
    <3>1. DOMAIN f = B
      BY <2>2
    <3> QED
      BY <2>2, <2>3, <2>4, <3>1
         DEF ExistsBijection, Bijection, Injection, Surjection, IsInjective
  <2>6. IsFiniteSet(B)
    <3>1. IsFiniteSet(5 .. 4 + n)
      BY <1>1, FS_Interval
    <3> QED
      BY <1>4, <3>1, FS_Subset
  <2>7. Cardinality(B) = Cardinality(W)
    BY <2>5, <2>6, FS_Bijection
  <2> QED
    BY <2>1, <2>7
<1> QED
  BY <1>7, <1>9, <1>10 DEF B, W

\* The verdict of a trial
LEMMA TrialVerdict ==
  ASSUME NEW cell \in Cells, NEW times,
         HonestScore >= DemoContract.performanceMinScore
  PROVE  LET trialRun == ChallengeTrial(times, cell) IN
         /\ Caught(times, cell) = {} => trialRun.decision = "ACCEPT"
         /\ CheatScore < DemoContract.performanceMinScore =>
              trialRun.decision = (CASE trialRun.breaches = 0 -> "ACCEPT"
                                     [] trialRun.breaches = 1 -> "INCONCLUSIVE"
                                     [] trialRun.breaches > 1 -> "REJECT")
<1> DEFINE c == DemoContract
           b == ChallengeAwareBundle(times, cell)
           p == PolicyFor(c)
           n == cell.count
           count == Cardinality(Caught(times, cell))
           none == Caught(times, cell) = {}
           run == ChallengeTrial(times, cell)
<1>1. TrialFields(b.records, cell, times)
  BY TrialRecords
<1>2. /\ b.contractId = c.contractId /\ b.sessionId = c.sessionId
      /\ c.mandatoryClaims = Claims
      /\ p.minimumValidChallenges = 2 /\ p.minimumBreachChallenges = 2
  BY DEF ChallengeAwareBundle, Bundle, DemoContract, PolicyFor
<1>3. run.decision = Decide(c, b, p) /\ run.breaches = count
  BY DEF ChallengeTrial, Caught, Honest
<1>4. n \in Nat /\ n >= 2
  BY CellFields
<1> HIDE DEF b, p
<1>5. /\ BindingClaim(c, b, p) = "AFFIRMING" /\ RuntimeClaim(c, b) = "AFFIRMING"
      /\ AvailabilityClaim(c, b) = "AFFIRMING" /\ Scored(c, b) = 5 .. 4 + n
  BY <1>1, <1>2, TrialClaims
<1>6. /\ none => Breaching(c, b) = {}
      /\ CheatScore < c.performanceMinScore =>
           /\ Cardinality(Breaching(c, b)) = count
           /\ Breaching(c, b) = {} => none
  BY <1>1, <1>5, TrialBreaches
<1>7. ~Repeated(b)
  BY <1>1, TrialRepeatsNothing
<1>8. count \in Nat /\ (none <=> count = 0)
  <2>1. IsFiniteSet(1 .. n)
    BY <1>4, FS_Interval
  <2>2. IsFiniteSet(Caught(times, cell))
    BY <2>1, FS_Subset DEF Caught
  <2> QED
    BY <2>2, FS_CardinalityType, FS_EmptySet
<1> HIDE DEF n, count, none, c, run
<1>9. ~(Cardinality(Scored(c, b)) < 2)
  <2>1. Cardinality(5 .. 4 + n) = n
    BY <1>4, FS_Interval
  <2> QED
    BY <1>4, <1>5, <2>1
<1>10. MandatoryStates(c, b, p) = {"AFFIRMING", PerformanceClaim(c, b, p)}
  <2>1. MandatoryStates(c, b, p) = {ClaimState(claim, c, b, p) : claim \in Claims}
    BY <1>2 DEF MandatoryStates
  <2>2. /\ ClaimState("session.binding", c, b, p) = "AFFIRMING"
        /\ ClaimState("service.runtime", c, b, p) = "AFFIRMING"
        /\ ClaimState("service.availability", c, b, p) = "AFFIRMING"
        /\ ClaimState("service.performance", c, b, p) = PerformanceClaim(c, b, p)
    BY <1>5 DEF ClaimState
  <2> QED
    BY <2>1, <2>2 DEF Claims
<1>11. none => run.decision = "ACCEPT"
  <2> SUFFICES ASSUME none PROVE run.decision = "ACCEPT"
    OBVIOUS
  <2>1. Breaching(c, b) = {} /\ Cardinality(Breaching(c, b)) = 0
    BY <1>6, FS_EmptySet
  <2>2. PerformanceClaim(c, b, p) = "AFFIRMING"
    BY <1>2, <1>9, <2>1 DEF PerformanceClaim
  <2> QED
    BY <1>3, <1>7, <1>10, <2>2 DEF Decide
<1>12. ASSUME CheatScore < c.performanceMinScore
       PROVE  run.decision = (CASE run.breaches = 0 -> "ACCEPT"
                                [] run.breaches = 1 -> "INCONCLUSIVE"
                                [] run.breaches > 1 -> "REJECT")
  <2>1. PerformanceClaim(c, b, p)
          = IF count >= 2 THEN "CONTRADICTING" ELSE IF ~none THEN "UNKNOWN" ELSE "AFFIRMING"
    BY <1>2, <1>6, <1>9, <1>12 DEF PerformanceClaim
  <2>2. run.decision = IF count >= 2 THEN "REJECT"
                       ELSE IF none THEN "ACCEPT" ELSE "INCONCLUSIVE"
    BY <1>3, <1>7, <1>10, <2>1 DEF Decide
  <2>3. CASE count = 0
    BY <1>3, <1>8, <2>2, <2>3
  <2>4. CASE count = 1
    BY <1>3, <1>8, <2>2, <2>4
  <2>5. CASE count > 1
    BY <1>3, <1>8, <2>2, <2>5
  <2>6. count = 0 \/ count = 1 \/ count > 1
    BY <1>8
  <2> QED
    BY <2>3, <2>4, <2>5, <2>6, Zenon
<1> QED
  BY <1>11, <1>12 DEF run, c, none

-----------------------------------------------------------------------------
(* The seconds of cheating. *)

LEMMA LesserOfTwo ==
  ASSUME NEW x \in Int, NEW y \in Int
  PROVE  Min({x, y}) \in {x, y} /\ Min({x, y}) <= x /\ Min({x, y}) <= y
<1>1. \E v \in {x, y} : \A w \in {x, y} : v <= w
  OBVIOUS
<1> QED
  BY <1>1 DEF Min

LEMMA GreaterOfTwo ==
  ASSUME NEW x \in Int, NEW y \in Int
  PROVE  Max({x, y}) \in {x, y} /\ x <= Max({x, y}) /\ y <= Max({x, y})
<1>1. \E v \in {x, y} : \A w \in {x, y} : v >= w
  OBVIOUS
<1> QED
  BY <1>1 DEF Max

\* The seconds around a predicted time, cut off where the window ends
Around(p, radius) == Max({0, p - radius}) .. Min({DeliverySeconds, p + radius})

LEMMA AroundSeconds ==
  ASSUME NEW p \in Int, NEW radius \in Nat
  PROVE  /\ Around(p, radius) \subseteq 0 .. DeliverySeconds
         /\ \A t \in 0 .. DeliverySeconds :
              t - p <= radius /\ p - t <= radius => t \in Around(p, radius)
<1> DEFINE low == Max({0, p - radius})
           high == Min({DeliverySeconds, p + radius})
<1>1. DeliverySeconds \in Int /\ DeliverySeconds >= 0
  BY WindowIsNumber
<1>2. low \in {0, p - radius} /\ 0 <= low /\ p - radius <= low
  BY GreaterOfTwo
<1>3. high \in {DeliverySeconds, p + radius} /\ high <= DeliverySeconds /\ high <= p + radius
  BY <1>1, LesserOfTwo
<1>4. Around(p, radius) = low .. high
  BY DEF Around
<1> HIDE DEF low, high
<1>5. low \in Int /\ high \in Int
  BY <1>1, <1>2, <1>3
<1>6. \A t \in low .. high : t \in 0 .. DeliverySeconds
  BY <1>1, <1>2, <1>3, <1>5
<1>7. \A t \in 0 .. DeliverySeconds :
        t - p <= radius /\ p - t <= radius => t \in low .. high
  BY <1>1, <1>2, <1>3, <1>5
<1> QED
  BY <1>4, <1>6, <1>7

\* The seconds of the window that are too far from every predicted time
CheatingSeconds(predicted, radius) ==
  {t \in 0 .. (DeliverySeconds - 1) :
     \A i \in DOMAIN predicted : \/ t - predicted[i] > radius
                                 \/ predicted[i] - t > radius}

\* The estimate is no more than their number: the seconds that it leaves out
\* are honest ones or the one behind the window.
LEMMA CheatSecondsBounded ==
  ASSUME NEW cell \in Cells, NEW times \in ChallengeTimes(cell)
  PROVE  CheatSeconds(times.predicted, cell)
           <= Cardinality(CheatingSeconds(times.predicted, cell.radius))
<1> DEFINE n == cell.count
           r == cell.radius
           predicted == times.predicted
           D == DeliverySeconds
           H == UNION {Around(p, r) : p \in ToSet(predicted)}
           T == CheatingSeconds(predicted, r)
           E == 0 .. (D - 1)
           least == Min({Cardinality(H), D})
<1>1. n \in Nat /\ r \in Nat /\ predicted \in [1 .. n -> Int]
  BY CellFields, TimesTyped
<1>2. D \in Nat /\ D >= 60
  BY WindowIsNumber
<1>3. CheatSeconds(predicted, cell) = D - least
  BY DEF CheatSeconds, Around
<1>4. T = {t \in E : \A i \in DOMAIN predicted : t - predicted[i] > r \/ predicted[i] - t > r}
  BY DEF CheatingSeconds
<1>5. ToSet(predicted) = {predicted[i] : i \in 1 .. n}
  BY <1>1 DEF ToSet
<1> HIDE DEF n, r, predicted, D, T
<1>6. \A p \in ToSet(predicted) : p \in Int
  BY <1>1, <1>5
<1>7. H \subseteq 0 .. D
  BY <1>1, <1>6, AroundSeconds DEF D
<1>8. ASSUME NEW t \in E, t \notin T PROVE t \in H
  <2>1. PICK i \in 1 .. n : ~(t - predicted[i] > r) /\ ~(predicted[i] - t > r)
    BY <1>1, <1>4, <1>8
  <2> DEFINE p == predicted[i]
  <2>2. p \in Int /\ p \in ToSet(predicted)
    BY <1>1, <1>5
  <2>3. ~(t - p > r) /\ ~(p - t > r)
    BY <2>1
  <2> HIDE DEF p
  <2>4. t \in 0 .. D /\ t - p <= r /\ p - t <= r
    BY <1>1, <1>2, <2>2, <2>3
  <2>5. t \in Around(p, r)
    BY <1>1, <2>2, <2>4, AroundSeconds DEF D
  <2> QED
    BY <2>2, <2>5
<1> HIDE DEF H, E
<1>9. IsFiniteSet(E) /\ Cardinality(E) = D
  <2>1. Cardinality(0 .. (D - 1)) = (D - 1) - 0 + 1
    BY <1>2, FS_Interval
  <2>2. IsFiniteSet(0 .. (D - 1))
    BY <1>2, FS_Interval
  <2> QED
    BY <1>2, <2>1, <2>2 DEF E
<1>10. IsFiniteSet(H) /\ IsFiniteSet(T)
  <2>1. IsFiniteSet(0 .. D)
    BY <1>2, FS_Interval
  <2>2. T \subseteq E
    BY <1>4
  <2> QED
    BY <1>7, <1>9, <2>1, <2>2, FS_Subset
<1> DEFINE union == T \cup H
           both == T \cap H
<1>11. /\ IsFiniteSet(union)
       /\ Cardinality(union) = Cardinality(T) + Cardinality(H) - Cardinality(both)
  BY <1>10, FS_Union
<1>12. IsFiniteSet(both)
  BY <1>10, FS_Intersection
<1>13. E \subseteq union
  BY <1>8
<1> HIDE DEF union, both
<1>14. D <= Cardinality(union)
  BY <1>9, <1>11, <1>13, FS_Subset
<1>15. /\ Cardinality(T) \in Nat /\ Cardinality(H) \in Nat /\ Cardinality(both) \in Nat
       /\ Cardinality(union) \in Nat
  BY <1>10, <1>11, <1>12, FS_CardinalityType
<1>16. least \in {Cardinality(H), D}
  BY <1>2, <1>15, LesserOfTwo
<1> HIDE DEF least
<1>17. D - least <= Cardinality(T)
  BY <1>2, <1>11, <1>14, <1>15, <1>16
<1> QED
  BY <1>3, <1>17 DEF predicted, T, r

-----------------------------------------------------------------------------
(* The grid of a sweep. *)

LEMMA WideKept ==
  ASSUME NEW s \in Seq(Nat), NEW radius \in Nat
  PROVE  Keep(s, LAMBDA j : j >= radius) \in Seq(Nat)
<1> DEFINE K == {j \in Nat : j >= radius}
           n == Len(s)
           Rest(kept) == kept = [i \in 0 .. n |->
                                   IF i = 0 THEN <<>>
                                   ELSE IF s[i] >= radius THEN Append(kept[i - 1], s[i])
                                        ELSE kept[i - 1]]
           f == CHOOSE kept : Rest(kept)
<1>1. Keep(s, LAMBDA j : j >= radius) = f[n]
  BY DEF Keep
<1>2. n \in Nat /\ n \in 0 .. n /\ \A i \in 1 .. n : s[i] \in Nat
  OBVIOUS
<1>3. \A i \in 0 .. n : i # 0 => (s[i] \in K <=> s[i] >= radius)
  <2> HIDE DEF n
  <2>1. \A i \in 0 .. n : i # 0 => i \in 1 .. n
    BY <1>2
  <2> QED
    BY <1>2, <2>1
<1> HIDE DEF n, K
<1>4. \A kept : Keeps(kept, s, K, n) <=> Rest(kept)
  BY <1>3 DEF Keeps
<1>5. \E kept : Keeps(kept, s, K, n)
  BY <1>2, KeepsExists
<1>6. Keeps(f, s, K, Len(s))
  BY <1>4, <1>5 DEF n
<1> HIDE DEF f, Rest
<1>7. f[n] \in Seq(Nat)
  <2>1. n \in 0 .. Len(s)
    BY <1>2 DEF n
  <2> QED
    BY <1>6, <2>1, KeepsPicks
<1> QED
  BY <1>1, <1>7

\* A sequence made from the places of another one
LEMMA Listed ==
  ASSUME NEW X, NEW s \in Seq(X), s # <<>>, NEW Y, NEW f \in [DOMAIN s -> Y]
  PROVE  f \in Seq(Y) /\ f # <<>>
<1>1. DOMAIN s = 1 .. Len(s) /\ Len(s) \in Nat /\ Len(s) # 0
  OBVIOUS
<1>2. f \in Seq(Y) /\ Len(f) = Len(s)
  BY <1>1
<1> QED
  BY <1>1, <1>2

\* The cells of one radius, of one count and of one schedule
RadiusCells(sweep, s, c, r) ==
  LET wide == Keep(sweep.jitters, LAMBDA j : j >= sweep.radii[r])
  IN [j \in DOMAIN wide |->
        [schedule |-> sweep.schedules[s], count |-> sweep.counts[c],
         radius |-> sweep.radii[r], jitter |-> wide[j]]]

CountCells(sweep, s, c) == [r \in DOMAIN sweep.radii |-> RadiusCells(sweep, s, c, r)]

ScheduleCells(sweep, s) ==
  [c \in DOMAIN sweep.counts |-> FlattenSeq(CountCells(sweep, s, c))]

SweepCells(sweep) == [s \in DOMAIN sweep.schedules |-> FlattenSeq(ScheduleCells(sweep, s))]

LEMMA GridTyped ==
  ASSUME NEW sweep \in Sweeps
  PROVE  GridCells(sweep) \in Seq(Cells)
<1>1. /\ sweep.schedules \in Seq(Schedules) /\ sweep.schedules # <<>>
      /\ sweep.counts \in Seq(2 .. Len(ChallengeIds)) /\ sweep.counts # <<>>
      /\ sweep.radii \in Seq(Nat) /\ sweep.radii # <<>>
      /\ sweep.jitters \in Seq(Nat)
  <2>1. sweep \in AcceptableSweeps
    BY ChallengeAssumption
  <2> QED
    BY <2>1 DEF AcceptableSweeps
<1>2. ASSUME NEW s \in DOMAIN sweep.schedules, NEW c \in DOMAIN sweep.counts,
             NEW r \in DOMAIN sweep.radii
      PROVE  RadiusCells(sweep, s, c, r) \in Seq(Cells)
  <2> DEFINE wide == Keep(sweep.jitters, LAMBDA j : j >= sweep.radii[r])
  <2>1. sweep.radii[r] \in Nat
    BY <1>1
  <2>2. wide \in Seq(Nat)
    BY <1>1, <2>1, WideKept
  <2> DEFINE schedule == sweep.schedules[s]
             count == sweep.counts[c]
             radius == sweep.radii[r]
  <2>3. schedule \in Schedules
    <3>1. sweep.schedules \in Seq(Schedules)
      BY <1>1
    <3> QED
      BY ONLY <3>1, s \in DOMAIN sweep.schedules DEF schedule
  <2>4. count \in 2 .. Len(ChallengeIds)
    <3>1. sweep.counts \in Seq(2 .. Len(ChallengeIds))
      BY <1>1
    <3> QED
      BY ONLY <3>1, c \in DOMAIN sweep.counts DEF count
  <2>5. DOMAIN wide = 1 .. Len(wide) /\ Len(wide) \in Nat /\ \A j \in DOMAIN wide : wide[j] \in Nat
    <3>1. DOMAIN wide = 1 .. Len(wide) /\ Len(wide) \in Nat
      BY ONLY <2>2
    <3>2. \A j \in DOMAIN wide : wide[j] \in Nat
      BY ONLY <2>2
    <3> QED
      BY <3>1, <3>2
  <2>6. RadiusCells(sweep, s, c, r)
          = [j \in DOMAIN wide |-> [schedule |-> schedule, count |-> count,
                                    radius |-> radius, jitter |-> wide[j]]]
    BY DEF RadiusCells, wide
  <2>7. radius \in Nat
    BY <2>1
  <2> HIDE DEF schedule, count, radius
  <2>8. ASSUME NEW j \in DOMAIN wide
        PROVE  [schedule |-> schedule, count |-> count,
                radius |-> radius, jitter |-> wide[j]] \in Cells
    <3> DEFINE jitter == wide[j]
    <3>1. jitter \in Nat
      BY <2>5
    <3> HIDE DEF jitter
    <3>2. [schedule |-> schedule, count |-> count, radius |-> radius, jitter |-> jitter] \in Cells
      BY <2>3, <2>4, <2>7, <3>1 DEF Cells
    <3> QED
      BY <3>2 DEF jitter
  <2> DEFINE g == RadiusCells(sweep, s, c, r)
             m == Len(wide)
  <2>9. g = [j \in 1 .. m |-> g[j]] /\ \A j \in 1 .. m : g[j] \in Cells
    BY <2>5, <2>6, <2>8
  <2>10. m \in Nat
    BY <2>5
  <2> HIDE DEF g, m
  <2>11. g \in Seq(Cells)
    BY ONLY <2>9, <2>10
  <2> QED
    BY <2>11 DEF g
<1>3. ASSUME NEW s \in DOMAIN sweep.schedules, NEW c \in DOMAIN sweep.counts
      PROVE  FlattenSeq(CountCells(sweep, s, c)) \in Seq(Cells)
  <2> DEFINE g == CountCells(sweep, s, c)
  <2>1. /\ DOMAIN g = DOMAIN sweep.radii /\ g = [i \in DOMAIN sweep.radii |-> g[i]]
        /\ \A i \in DOMAIN sweep.radii : g[i] = RadiusCells(sweep, s, c, i)
    BY DEF CountCells
  <2> HIDE DEF g
  <2>2. \A i \in DOMAIN sweep.radii : g[i] \in Seq(Cells)
    BY <1>2, <2>1
  <2>3. g \in [DOMAIN sweep.radii -> Seq(Cells)]
    BY ONLY <2>1, <2>2
  <2>4. sweep.radii \in Seq(Nat) /\ sweep.radii # <<>>
    BY <1>1
  <2>5. g \in Seq(Seq(Cells)) /\ g # <<>>
    BY ONLY <2>3, <2>4, Listed
  <2>6. FlattenSeq(g) \in Seq(Cells)
    BY ONLY <2>5, Flattened
  <2> QED
    BY <2>6 DEF g
<1>4. ASSUME NEW s \in DOMAIN sweep.schedules
      PROVE  FlattenSeq(ScheduleCells(sweep, s)) \in Seq(Cells)
  <2> DEFINE g == ScheduleCells(sweep, s)
  <2>1. /\ DOMAIN g = DOMAIN sweep.counts /\ g = [i \in DOMAIN sweep.counts |-> g[i]]
        /\ \A i \in DOMAIN sweep.counts : g[i] = FlattenSeq(CountCells(sweep, s, i))
    BY DEF ScheduleCells
  <2> HIDE DEF g
  <2>2. \A i \in DOMAIN sweep.counts : g[i] \in Seq(Cells)
    BY <1>3, <2>1
  <2>3. g \in [DOMAIN sweep.counts -> Seq(Cells)]
    BY ONLY <2>1, <2>2
  <2>4. sweep.counts \in Seq(2 .. Len(ChallengeIds)) /\ sweep.counts # <<>>
    BY <1>1
  <2>5. g \in Seq(Seq(Cells)) /\ g # <<>>
    BY ONLY <2>3, <2>4, Listed
  <2>6. FlattenSeq(g) \in Seq(Cells)
    BY ONLY <2>5, Flattened
  <2> QED
    BY <2>6 DEF g
<1>5. FlattenSeq(SweepCells(sweep)) \in Seq(Cells)
  <2> DEFINE g == SweepCells(sweep)
  <2>1. /\ DOMAIN g = DOMAIN sweep.schedules /\ g = [i \in DOMAIN sweep.schedules |-> g[i]]
        /\ \A i \in DOMAIN sweep.schedules : g[i] = FlattenSeq(ScheduleCells(sweep, i))
    BY DEF SweepCells
  <2> HIDE DEF g
  <2>2. \A i \in DOMAIN sweep.schedules : g[i] \in Seq(Cells)
    BY <1>4, <2>1
  <2>3. g \in [DOMAIN sweep.schedules -> Seq(Cells)]
    BY ONLY <2>1, <2>2
  <2>4. sweep.schedules \in Seq(Schedules) /\ sweep.schedules # <<>>
    BY <1>1
  <2>5. g \in Seq(Seq(Cells)) /\ g # <<>>
    BY ONLY <2>3, <2>4, Listed
  <2>6. FlattenSeq(g) \in Seq(Cells)
    BY ONLY <2>5, Flattened
  <2> QED
    BY <2>6 DEF g
<1>6. GridCells(sweep) = FlattenSeq(SweepCells(sweep))
  BY DEF GridCells, SweepCells, ScheduleCells, CountCells, RadiusCells
<1> QED
  BY <1>5, <1>6

-----------------------------------------------------------------------------
(* Sweeps. *)

\* A trial that waits to be counted is one of the cell at hand
WaitingTrial ==
  last # NoTrial =>
    /\ todo # <<>>
    /\ \E times \in ChallengeTimes(Head(todo)) : last = ChallengeTrial(times, Head(todo))

SweepInv ==
  /\ todo \in Seq(Cells)
  /\ tally \in [Verdicts -> Nat]
  /\ WaitingTrial

LEMMA HeadCell ==
  ASSUME todo \in Seq(Cells), todo # <<>>
  PROVE  Head(todo) \in Cells /\ Tail(todo) \in Seq(Cells)
BY HeadTailProperties

LEMMA TrialDecision ==
  ASSUME NEW times, NEW cell
  PROVE  ChallengeTrial(times, cell).decision \in Verdicts
<1> DEFINE b == ChallengeAwareBundle(times, cell)
           p == PolicyFor(DemoContract)
<1>1. ChallengeTrial(times, cell).decision = Decide(DemoContract, b, p)
  BY DEF ChallengeTrial
<1> HIDE DEF b, p
<1> QED
  BY <1>1 DEF Decide, Verdicts

LEMMA SweepInvInit == SweepInit => SweepInv
<1> SUFFICES ASSUME SweepInit PROVE SweepInv
  OBVIOUS
<1>1. todo \in Seq(Cells)
  <2>1. PICK sweep \in Sweeps : todo = GridCells(sweep)
    BY DEF SweepInit
  <2> QED
    BY <2>1, GridTyped
<1>2. tally \in [Verdicts -> Nat]
  BY DEF SweepInit, NoDecisions
<1>3. WaitingTrial
  BY DEF SweepInit, WaitingTrial
<1> QED
  BY <1>1, <1>2, <1>3 DEF SweepInv

LEMMA SweepInvNext == SweepInv /\ [SweepNext]_sweepVars => SweepInv'
<1> SUFFICES ASSUME SweepInv, [SweepNext]_sweepVars PROVE SweepInv'
  OBVIOUS
<1>1. CASE RunChallengeTrial
  <2>1. todo # <<>> /\ todo' = todo /\ tally' = tally
    BY <1>1 DEF RunChallengeTrial
  <2>2. last' = last \/ \E times \in ChallengeTimes(Head(todo)) :
                          last' = ChallengeTrial(times, Head(todo))
    BY <1>1 DEF RunChallengeTrial
  <2>3. WaitingTrial'
    BY <2>1, <2>2 DEF SweepInv, WaitingTrial
  <2> QED
    BY <2>1, <2>3 DEF SweepInv
<1>2. CASE CountDecision
  <2>1. last' = NoTrial /\ todo' = todo
    BY <1>2 DEF CountDecision
  <2>2. tally' \in [Verdicts -> Nat]
    <3>1. last.decision \in Verdicts
      BY <1>2, TrialDecision DEF CountDecision, SweepInv, WaitingTrial
    <3>2. tally' = [tally EXCEPT ![last.decision] = @ + 1]
      BY <1>2 DEF CountDecision
    <3>3. tally[last.decision] + 1 \in Nat
      BY <3>1 DEF SweepInv
    <3> QED
      BY <3>1, <3>2, <3>3 DEF SweepInv
  <2>3. WaitingTrial'
    BY <2>1 DEF WaitingTrial
  <2> QED
    BY <2>1, <2>2, <2>3 DEF SweepInv
<1>3. CASE FinishCell
  <2>1. todo # <<>> /\ todo' = Tail(todo) /\ last = NoTrial /\ last' = last
        /\ tally' = NoDecisions
    BY <1>3 DEF FinishCell
  <2>2. todo' \in Seq(Cells)
    BY <2>1, HeadCell DEF SweepInv
  <2>3. tally' \in [Verdicts -> Nat]
    BY <2>1 DEF NoDecisions
  <2>4. WaitingTrial'
    BY <2>1 DEF WaitingTrial
  <2> QED
    BY <2>2, <2>3, <2>4 DEF SweepInv
<1>4. CASE UNCHANGED sweepVars
  BY <1>4 DEF SweepInv, WaitingTrial, sweepVars
<1> QED
  BY <1>1, <1>2, <1>3, <1>4 DEF SweepNext

\* Whatever is swept and drawn, the cheating that a trial reports is never more
\* than the seconds of the window in which the provider really scores as a cheat.
THEOREM CheatIsNotOverstated == SweepSpec => []CheatNotOverstated
<1>1. SweepInv => CheatNotOverstated
  <2> SUFFICES ASSUME SweepInv, last # NoTrial
               PROVE  last.cheat <= Cardinality(CheatingSeconds(last.predicted, last.radius))
    BY DEF CheatNotOverstated, CheatingSeconds
  <2> DEFINE cell == Head(todo)
  <2>1. todo # <<>> /\ cell \in Cells
    BY HeadCell DEF SweepInv, WaitingTrial
  <2>2. PICK times \in ChallengeTimes(cell) : last = ChallengeTrial(times, cell)
    BY DEF SweepInv, WaitingTrial
  <2> HIDE DEF cell
  <2>3. /\ last.cheat = CheatSeconds(times.predicted, cell)
        /\ last.predicted = times.predicted /\ last.radius = cell.radius
    BY <2>2 DEF ChallengeTrial
  <2> QED
    BY <2>1, <2>3, CheatSecondsBounded
<1> QED
  BY <1>1, SweepInvInit, SweepInvNext, PTL DEF SweepSpec

\* If the contract's floor lies between the scores of a cheat and of a provider
\* that delivers, then whatever is swept and drawn the verdict of a trial depends
\* on the number of challenges that catch the provider, and on nothing else.
THEOREM VerdictsCountBreaches ==
  ASSUME CheatScore < DemoContract.performanceMinScore,
         HonestScore >= DemoContract.performanceMinScore
  PROVE  SweepSpec => []VerdictCountsBreaches
<1>1. SweepInv => VerdictCountsBreaches
  <2> SUFFICES ASSUME SweepInv, last # NoTrial
               PROVE  last.decision = (CASE last.breaches = 0 -> "ACCEPT"
                                         [] last.breaches = 1 -> "INCONCLUSIVE"
                                         [] last.breaches > 1 -> "REJECT")
    BY DEF VerdictCountsBreaches
  <2> DEFINE cell == Head(todo)
  <2>1. todo # <<>> /\ cell \in Cells
    BY HeadCell DEF SweepInv, WaitingTrial
  <2>2. PICK times \in ChallengeTimes(cell) : last = ChallengeTrial(times, cell)
    BY DEF SweepInv, WaitingTrial
  <2> HIDE DEF cell
  <2> QED
    BY <2>1, <2>2, TrialVerdict
<1> QED
  BY <1>1, SweepInvInit, SweepInvNext, PTL DEF SweepSpec

\* Counted so far of the cell at hand, and of those that are finished
GamedInv ==
  /\ SweepInv
  /\ (todo # <<>> /\ Predictable(Head(todo))) =>
       tally["REJECT"] = 0 /\ tally["INCONCLUSIVE"] = 0
  /\ cells \in Seq([cell : Cells, decisions : [Verdicts -> Nat]])
  /\ PredictableIsGamed

LEMMA GamedNext ==
  ASSUME HonestScore >= DemoContract.performanceMinScore,
         GamedInv, [SweepNext]_sweepVars
  PROVE  GamedInv'
<1> DEFINE Sure == todo # <<>> /\ Predictable(Head(todo))
           Spared == tally["REJECT"] = 0 /\ tally["INCONCLUSIVE"] = 0
           Finished == [cell : Cells, decisions : [Verdicts -> Nat]]
<1>1. SweepInv'
  BY SweepInvNext DEF GamedInv
<1>2. Sure => Spared
  BY DEF GamedInv
<1>3. cells \in Seq(Finished) /\ PredictableIsGamed
  BY DEF GamedInv
<1>4. tally \in [Verdicts -> Nat]
  BY DEF GamedInv, SweepInv
<1>5. CASE RunChallengeTrial
  <2>1. UNCHANGED <<todo, tally, cells>>
    BY <1>5 DEF RunChallengeTrial
  <2>2. Sure' => Spared'
    BY <1>2, <2>1
  <2>3. PredictableIsGamed'
    BY <1>3, <2>1 DEF PredictableIsGamed
  <2> QED
    BY <1>1, <1>3, <2>1, <2>2, <2>3 DEF GamedInv
<1>6. CASE CountDecision
  <2>1. /\ last # NoTrial /\ UNCHANGED <<todo, cells>>
        /\ tally' = [tally EXCEPT ![last.decision] = @ + 1]
    BY <1>6 DEF CountDecision
  <2>2. Sure => last.decision = "ACCEPT"
    <3> SUFFICES ASSUME Sure PROVE last.decision = "ACCEPT"
      OBVIOUS
    <3> DEFINE cell == Head(todo)
    <3>1. cell \in Cells /\ Predictable(cell)
      BY HeadCell DEF GamedInv, SweepInv
    <3>2. PICK times \in ChallengeTimes(cell) : last = ChallengeTrial(times, cell)
      BY <2>1 DEF GamedInv, SweepInv, WaitingTrial
    <3> HIDE DEF cell
    <3>3. Caught(times, cell) = {}
      BY <3>1, PredictedIsHonest DEF Caught, Honest
    <3> QED
      BY <3>1, <3>2, <3>3, TrialVerdict
  <2>3. Sure' => Spared'
    <3> SUFFICES ASSUME Sure' PROVE Spared'
      OBVIOUS
    <3>1. Sure
      BY <2>1
    <3>2. tally' = [tally EXCEPT !["ACCEPT"] = @ + 1]
      BY <2>1, <2>2, <3>1
    <3> QED
      BY <1>2, <1>4, <3>1, <3>2 DEF Verdicts
  <2>4. PredictableIsGamed'
    BY <1>3, <2>1 DEF PredictableIsGamed
  <2> QED
    BY <1>1, <1>3, <2>1, <2>3, <2>4 DEF GamedInv
<1>7. CASE FinishCell
  <2> DEFINE cell == Head(todo)
             done == [cell |-> cell, decisions |-> tally]
  <2>1. /\ todo # <<>> /\ TrialsOf(tally) = TrialsPerCell
        /\ cells' = Append(cells, done) /\ tally' = NoDecisions
    BY <1>7 DEF FinishCell
  <2>2. cell \in Cells
    BY <2>1, HeadCell DEF GamedInv, SweepInv
  <2>3. Spared'
    BY <2>1 DEF NoDecisions, Verdicts
  <2>4. Predictable(cell) => tally["ACCEPT"] = TrialsPerCell
    <3> SUFFICES ASSUME Predictable(cell) PROVE tally["ACCEPT"] = TrialsPerCell
      OBVIOUS
    <3>1. tally["REJECT"] = 0 /\ tally["INCONCLUSIVE"] = 0
      BY <1>2, <2>1
    <3>2. tally["ACCEPT"] \in Nat
      BY <1>4 DEF Verdicts
    <3> QED
      BY <2>1, <3>1, <3>2 DEF TrialsOf
  <2> HIDE DEF cell
  <2>5. done \in Finished /\ done.cell = cell /\ done.decisions = tally
    BY <1>4, <2>2
  <2> HIDE DEF done, Finished
  <2>6. cells' \in Seq(Finished)
    BY <1>3, <2>1, <2>5, AppendProperties
  <2>7. PredictableIsGamed'
    <3>1. Len(cells) \in Nat /\ DOMAIN cells = 1 .. Len(cells)
      BY <1>3
    <3>2. Len(cells') = Len(cells) + 1 /\ DOMAIN cells' = 1 .. Len(cells')
      BY <1>3, <2>1, <2>5, <2>6, AppendProperties
    <3>3. cells'[Len(cells) + 1] = done
      BY <1>3, <2>1, <2>5, AppendProperties
    <3>4. \A i \in 1 .. Len(cells) : cells'[i] = cells[i]
      BY <1>3, <2>1, <2>5, AppendProperties
    <3> SUFFICES ASSUME NEW i \in DOMAIN cells', Predictable(cells'[i].cell)
                 PROVE  cells'[i].decisions["ACCEPT"] = TrialsPerCell
      BY DEF PredictableIsGamed
    <3>5. i \in 1 .. Len(cells) \/ i = Len(cells) + 1
      BY <3>1, <3>2
    <3>6. CASE i \in 1 .. Len(cells)
      BY <1>3, <3>1, <3>4, <3>6 DEF PredictableIsGamed
    <3>7. CASE i = Len(cells) + 1
      BY <2>4, <2>5, <3>3, <3>7
    <3> QED
      BY <3>5, <3>6, <3>7
  <2> QED
    BY <1>1, <2>3, <2>6, <2>7 DEF GamedInv, Finished
<1>8. CASE UNCHANGED sweepVars
  BY <1>1, <1>2, <1>3, <1>8 DEF GamedInv, PredictableIsGamed, sweepVars
<1> QED
  BY <1>5, <1>6, <1>7, <1>8 DEF SweepNext

\* If a provider that delivers scores no less than the contract's floor, then
\* every trial of every cell with a schedule that can be predicted is accepted,
\* also those of hidden jitter that is no wider than the honest stretches.
THEOREM PredictableSchedulesAreGamed ==
  ASSUME HonestScore >= DemoContract.performanceMinScore
  PROVE  SweepSpec => []PredictableIsGamed
<1>1. SweepInit => GamedInv
  BY SweepInvInit DEF SweepInit, GamedInv, PredictableIsGamed, NoDecisions, Verdicts
<1>2. GamedInv /\ [SweepNext]_sweepVars => GamedInv'
  BY GamedNext
<1>3. GamedInv => PredictableIsGamed
  BY DEF GamedInv
<1> QED
  BY <1>1, <1>2, <1>3, PTL DEF SweepSpec
=============================================================================
